------------------------------ MODULE Accounts ------------------------------
(***************************************************************************)
(* Provider accounts and local users: ResolveIdentity of                   *)
(* backend/internal/auth/service.go on the users and auth_identities       *)
(* collections with their unique indexes (backend/internal/database/       *)
(* mongo.go:48-57).                                                        *)
(*                                                                         *)
(* An account is a (provider, subject).  Names, pictures and the role,     *)
(* which is computed from the e-mail and ADMIN_EMAILS, are left out.  A    *)
(* transaction that conflicts with another is tried again by the driver,   *)
(* so that one takes effect on what it finds when it commits; one whose    *)
(* insert another has anticipated may instead report a duplicate key.      *)
(* The e-mail of an account may change at its provider, and a token tells  *)
(* an earlier one: any account may come with any e-mail.                   *)
(***************************************************************************)
EXTENDS Naturals

CONSTANTS
    Google, Firebase,  \* the accounts of each provider
    Emails, Users,
    Calls,             \* requests in the API
    None

Accounts == Google \cup Firebase
SameProvider(a, b) == a \in Google <=> b \in Google

ASSUME NoneIsNoName == None \notin Accounts \cup Emails \cup Users

VARIABLES
    emailOf,  \* users: each user's e-mail, None while there is no such user
    userOf,   \* auth_identities: each account's user
    call      \* how far each request's authentication is

accounts == <<emailOf, userOf, call>>

Stages == {"idle", "begun", "duplicate", "answered", "refused", "failed"}
Call == [stage: Stages,
         account: Accounts \cup {None}, email: Emails \cup {None},
         known: BOOLEAN,  \* history: whether the transaction found the account,
         free: BOOLEAN,   \* and whether it found its e-mail free
         user: Users \cup {None}]
Idle == [stage |-> "idle", account |-> None, email |-> None,
         known |-> FALSE, free |-> FALSE, user |-> None]

Init ==
    /\ emailOf = [u \in Users |-> None]
    /\ userOf = [a \in Accounts |-> None]
    /\ call = [c \in Calls |-> Idle]

\* What a request has read is forgotten once it has led to something.
Goes(c, stage) == call' = [call EXCEPT ![c] =
    [stage |-> stage, account |-> call[c].account, email |-> None,
     known |-> call[c].known, free |-> FALSE, user |-> None]]
Answers(c, u) == call' = [call EXCEPT ![c] =
    [stage |-> "answered", account |-> call[c].account, email |-> None,
     known |-> FALSE, free |-> FALSE, user |-> u]]

-----------------------------------------------------------------------------
(* ResolveIdentity *)

HasEmail(e) == {u \in Users : emailOf[u] = e}

\* A verified token tells the account and an e-mail; the transaction begins.
Begin(c, a, e) ==
    call' = [call EXCEPT ![c] = [stage |-> "begun", account |-> a, email |-> e,
                                 known |-> userOf[a] # None, free |-> HasEmail(e) = {},
                                 user |-> None]]

\* Mutant: what the transaction read at first decides, and no index corrects it.
Targets_Stale(c) ==
    IF call[c].known THEN {userOf[call[c].account]}
    ELSE IF call[c].free THEN HasEmail(None) ELSE HasEmail(call[c].email)

\* The account's user, or else the user with its e-mail, or else a new one.
Targets(c) ==
    IF userOf[call[c].account] # None THEN {userOf[call[c].account]}
    ELSE IF HasEmail(call[c].email) = {} THEN HasEmail(None) ELSE HasEmail(call[c].email)

\* The unique indexes: an e-mail has one user, and a user one account of each provider.
Clash(c) ==
    LET a == call[c].account
        others == HasEmail(call[c].email) \ {userOf[a]}
    IN  IF userOf[a] # None THEN others # {}
        ELSE \E b \in Accounts : SameProvider(a, b) /\ userOf[b] \in others

Raced(c) ==
    /\ ~call[c].known
    /\ userOf[call[c].account] # None \/ (call[c].free /\ HasEmail(call[c].email) # {})

\* The user gets the e-mail and the account, unless they have them; the commit may go
\* unreported.
CommitLogin(c) ==
    /\ call[c].stage = "begun" /\ ~Clash(c)
    /\ \E u \in Targets(c) :
         /\ emailOf' = [emailOf EXCEPT ![u] = call[c].email]
         /\ userOf' = [userOf EXCEPT ![call[c].account] = u]
         /\ \/ Answers(c, u)
            \/ Goes(c, "failed")

DuplicateKey(c) ==
    /\ call[c].stage = "begun"
    /\ Clash(c) \/ Raced(c)
    /\ Goes(c, "duplicate")
    /\ UNCHANGED <<emailOf, userOf>>

\* Mutant: a duplicate key is an error whoever has it.
FindOwn_Never(c) == Goes(c, "refused")

\* The account's user as it is stored.
FindOwn(c) ==
    IF userOf[call[c].account] # None THEN Answers(c, userOf[call[c].account])
    ELSE Goes(c, "refused")

AnswerDuplicate(c) ==
    /\ call[c].stage = "duplicate"
    /\ FindOwn(c)
    /\ UNCHANGED <<emailOf, userOf>>

\* The transaction, or a read after it, fails.
LoginFails(c) ==
    /\ call[c].stage \in {"begun", "duplicate"}
    /\ Goes(c, "failed")
    /\ UNCHANGED <<emailOf, userOf>>

ResolveIdentity(c) ==
    CommitLogin(c) \/ DuplicateKey(c) \/ AnswerDuplicate(c) \/ LoginFails(c)
=============================================================================
