\* Two holds of one seat, every kind of request, a worker, and one fault of any kind.
SPECIFICATION Spec
CONSTANTS
    None = None
    Users = {u1, u2}
    Seats = {s1}
    IdemKeys = {k1}
    HoldCalls = {h1, h2}
    Owners = {h1, h2}
    ConfirmCalls = {c1}
    ReleaseCalls = {d1}
    Workers = {w1}
    TTL = 1
    StartTime = 2
    SweepLimit = 1
    FaultKinds = {"redisError", "mongoError", "commitUnknown", "crash", "redisLoss"}
    MaxFaults = 1
SYMMETRY Symmetry
INVARIANTS
    TypeOK
    SafetyInv
    AnswersInv
PROPERTIES
    NothingIsTakenBack
