\* Two accounts of Firebase and one of Google, two e-mails, two requests at a time.
SPECIFICATION Spec
CONSTANTS
    None = None
    Google = {g1}
    Firebase = {f1, f2}
    Emails = {e1, e2}
    Users = {u1, u2}
    Calls = {c1, c2}
    Browsers = {b1, b2}
    States = {st1}
    Tokens = {t1, t2}
    Limit = 1
    Window = 2
    Counted = u1
SYMMETRY Symmetry
INVARIANTS
    TypeOK
    AnswersAreOwn
    KnownAccountsGetIn
    OneSessionPerState
    SessionsStayHome
    LimitHolds
    LimitLifts
    AccessInv
CHECK_DEADLOCK FALSE
