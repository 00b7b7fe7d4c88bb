------------------------------- MODULE Access -------------------------------
(***************************************************************************)
(* Who a request is from and whether it may ask for seats: Google sign-in  *)
(* (backend/internal/auth/google.go), the sessions in Redis, RequireAuth   *)
(* and HoldRateLimit (backend/internal/httpapi/middleware.go), and the     *)
(* handlers that use them, over Accounts.  An API that dies ends its       *)
(* requests as a failing store does.                                       *)
(***************************************************************************)
EXTENDS Accounts

CONSTANTS
    Browsers,
    States,   \* OAuth states, each given out once
    Tokens,   \* session tokens, each given out once
    Counted,  \* the user whose rate-limit counter is followed; each user has one of its own
    Limit,    \* holds a user may ask for in a window (HOLD_RATE_LIMIT)
    Window    \* ticks of the clock in a window (60 seconds)

ASSUME NoneIsNoToken == None \notin Browsers \cup States \cup Tokens
ASSUME LimitAssumption == Counted \in Users /\ Limit \in Nat \ {0} /\ Window \in Nat \ {0}

VARIABLES
    flow,         \* each OAuth state: whose it is, and whether Redis has it
    stateCookie,  \* each browser's OAuth cookie
    session,      \* the sessions in Redis: each token's user
    jar,          \* each browser's session cookie
    request,      \* what each request is
    count, left,  \* the rate-limit counter, and the time it has left
    made,         \* history: the OAuth state each session came from, and the account
    passed, age   \* history: holds let through since the counter began, and ticks since then

sessions == <<flow, stateCookie, session, jar, request, made>>
limiter == <<count, left, passed, age>>
vars == <<accounts, sessions, limiter>>

Request == [kind: {"none", "callback", "logout", "other"},
            browser: Browsers \cup {None}, state: States \cup {None},
            token: Tokens \cup {None}]
NoRequest == [kind |-> "none", browser |-> None, state |-> None, token |-> None]

AccessInit ==
    /\ Init
    /\ flow = [st \in States |-> [browser |-> None, stored |-> FALSE]]
    /\ stateCookie = [b \in Browsers |-> None]
    /\ session = [t \in Tokens |-> None]
    /\ jar = [b \in Browsers |-> None]
    /\ request = [c \in Calls |-> NoRequest]
    /\ made = [t \in Tokens |-> [state |-> None, account |-> None]]
    /\ count = 0 /\ left = 0 /\ passed = 0 /\ age = 0

Ends(c) ==
    /\ call' = [call EXCEPT ![c] = Idle]
    /\ request' = [request EXCEPT ![c] = NoRequest]

-----------------------------------------------------------------------------
(* Signing in with Google *)

GoogleStart(b) ==
    /\ \E st \in States :
         /\ flow[st].browser = None
         /\ flow' = [flow EXCEPT ![st] = [browser |-> b, stored |-> TRUE]]
         /\ stateCookie' = [stateCookie EXCEPT ![b] = st]
    /\ UNCHANGED <<accounts, session, jar, request, made, limiter>>

StateExpires(st) ==
    /\ flow[st].stored
    /\ flow' = [flow EXCEPT ![st].stored = FALSE]
    /\ UNCHANGED <<accounts, stateCookie, session, jar, request, made, limiter>>

\* Mutant: the browser's cookie is not looked at.
StateFits_AnyBrowser(b, st) == flow[st].stored

\* The state of the callback is that of the browser's cookie, and Redis has it.
StateFits(b, st) == stateCookie[b] = st /\ flow[st].stored

\* Mutant: the state is read and stays.
Consume_Keeps(st) == UNCHANGED flow

\* GETDEL.
Consume(st) == flow' = [flow EXCEPT ![st].stored = FALSE]

ClearsCookie(b) == stateCookie' = [stateCookie EXCEPT ![b] = None]

\* A callback comes: at once, late, again, or to another browser.  Google gives an account
\* for its code, or the code and its token do not stand the checks; every answer to a
\* callback clears the OAuth cookie.
GoogleCallback(c, b, st) ==
    /\ call[c] = Idle /\ flow[st].browser # None
    /\ StateFits(b, st) /\ Consume(st)
    /\ \/ /\ \E a \in Google, e \in Emails : Begin(c, a, e)
          /\ request' = [request EXCEPT ![c] = [NoRequest EXCEPT !.kind = "callback",
                                                                 !.browser = b, !.state = st]]
          /\ UNCHANGED stateCookie
       \/ ClearsCookie(b) /\ UNCHANGED <<call, request>>
    /\ UNCHANGED <<emailOf, userOf, session, jar, made, limiter>>

CallbackRefused(b) ==
    /\ \E st \in States : flow[st].browser # None /\ ~StateFits(b, st)
    /\ ClearsCookie(b)
    /\ UNCHANGED <<accounts, flow, session, jar, request, made, limiter>>

\* The session is stored and its cookie sent; either may fail.
CreateSession(c) ==
    /\ call[c].stage = "answered" /\ request[c].kind = "callback"
    /\ \/ \E t \in Tokens :
            /\ made[t].state = None
            /\ session' = [session EXCEPT ![t] = call[c].user]
            /\ made' = [made EXCEPT ![t] = [state |-> request[c].state,
                                           account |-> call[c].account]]
            /\ \/ /\ ClearsCookie(request[c].browser)
                  /\ jar' = [jar EXCEPT ![request[c].browser] = t]
               \/ UNCHANGED <<stateCookie, jar>>
       \/ ClearsCookie(request[c].browser) /\ UNCHANGED <<session, made, jar>>
    /\ Ends(c)
    /\ UNCHANGED <<emailOf, userOf, flow, limiter>>

\* A request whose login was refused or failed is answered so.  (An answer that is lost leaves
\* the cookie of a state that is gone, as one that expires does.)
Unauthenticated(c) ==
    /\ call[c].stage \in {"refused", "failed"}
    /\ IF request[c].kind = "callback" THEN ClearsCookie(request[c].browser)
                                     ELSE UNCHANGED stateCookie
    /\ Ends(c)
    /\ UNCHANGED <<emailOf, userOf, flow, session, jar, made, limiter>>

SessionExpires(t) ==
    /\ session[t] # None
    /\ session' = [session EXCEPT ![t] = None]
    /\ UNCHANGED <<accounts, flow, stateCookie, jar, request, made, limiter>>

-----------------------------------------------------------------------------
(* RequireAuth, and the handlers behind it; a request refused at once changes nothing *)

Arrives(c, asks) ==
    /\ call[c] = Idle
    /\ request' = [request EXCEPT ![c] = asks]
    /\ UNCHANGED <<emailOf, userOf, flow, stateCookie, session, jar, made, limiter>>

\* Of all handlers, only Logout looks at the cookie again.
Asks(b) == {[NoRequest EXCEPT !.kind = "other"],
            [NoRequest EXCEPT !.kind = "logout", !.browser = b, !.token = jar[b]]}

\* VerifyFirebase: every request with a token resolves the identity.
BearerRequest(c, b) ==
    \E a \in Firebase, e \in Emails, asks \in Asks(b) :
        Arrives(c, asks) /\ Begin(c, a, e)

\* Session: the cookie's session tells the user.
CookieRequest(c, b) ==
    /\ jar[b] # None /\ session[jar[b]] # None
    /\ \E asks \in Asks(b) : Arrives(c, asks)
    /\ Answers(c, session[jar[b]])

\* Me, FirebaseSession and the other handlers change nothing here.
Me(c) ==
    /\ call[c].stage = "answered" /\ request[c].kind = "other"
    /\ Ends(c)
    /\ UNCHANGED <<emailOf, userOf, flow, stateCookie, session, jar, made, limiter>>

\* The sessions of the principal and of the cookie go, if Redis answers; the cookie goes.
Logout(c) ==
    LET t == request[c].token IN
    /\ call[c].stage = "answered" /\ request[c].kind = "logout"
    /\ \/ session' = [x \in Tokens |-> IF x = t THEN None ELSE session[x]]
       \/ UNCHANGED session
    /\ jar' = [jar EXCEPT ![request[c].browser] = None] \/ UNCHANGED jar
    /\ Ends(c)
    /\ UNCHANGED <<emailOf, userOf, flow, stateCookie, made, limiter>>

-----------------------------------------------------------------------------
(* HoldRateLimit *)

\* Mutant: every attempt starts the window again.
Counts_Renews(n) == count' = n /\ left' = Window

\* Mutant: the time to live is given in another unit.
Counts_OtherUnit(n) == count' = n /\ left' = IF n = 1 THEN 60 * Window ELSE left

\* INCR, and EXPIRE with the first.
Counts(n) == count' = n /\ left' = IF n = 1 THEN Window ELSE left

\* Mutant: one too many.
Exceeds_Late(n) == n > Limit + 1

Exceeds(n) == n > Limit

\* A hold within the limit is let through; one whose reply from Redis is lost is not, and
\* passes here all the same.
\* Bound: all counts above the limit are one.
HoldRateLimit(c) ==
    LET n == IF count > Limit THEN count ELSE count + 1 IN
    /\ call[c].stage = "answered" /\ request[c].kind = "other" /\ call[c].user = Counted
    /\ Counts(n)
    /\ passed' = IF Exceeds(n) THEN passed ELSE passed + 1
    /\ Ends(c)
    /\ UNCHANGED <<emailOf, userOf, flow, stateCookie, session, jar, made, age>>

\* A counter whose time is over goes.
Tick ==
    /\ left > 0
    /\ left' = left - 1
    /\ IF left = 1 THEN count' = 0 /\ passed' = 0 /\ age' = 0
                   ELSE age' = age + 1 /\ UNCHANGED <<count, passed>>
    /\ UNCHANGED <<accounts, sessions>>

-----------------------------------------------------------------------------

Login(c) == ResolveIdentity(c) /\ UNCHANGED <<sessions, limiter>>
Serve(c) == \/ CreateSession(c) \/ Unauthenticated(c)
            \/ Me(c) \/ Logout(c) \/ HoldRateLimit(c)

Next ==
    \/ Tick
    \/ \E b \in Browsers : GoogleStart(b) \/ CallbackRefused(b)
    \/ \E st \in States : StateExpires(st)
    \/ \E t \in Tokens : SessionExpires(t)
    \/ \E c \in Calls : Login(c) \/ Serve(c)
    \/ \E c \in Calls, b \in Browsers :
         \/ BearerRequest(c, b) \/ CookieRequest(c, b)
         \/ \E st \in States : GoogleCallback(c, b, st)

Spec == AccessInit /\ [][Next]_vars

-----------------------------------------------------------------------------
(* What must hold *)

\* Every part is in a state of its kind.
TypeOK ==
    /\ emailOf \in [Users -> Emails \cup {None}]
    /\ userOf \in [Accounts -> Users \cup {None}]
    /\ call \in [Calls -> Call]
    /\ flow \in [States -> [browser: Browsers \cup {None}, stored: BOOLEAN]]
    /\ stateCookie \in [Browsers -> States \cup {None}]
    /\ session \in [Tokens -> Users \cup {None}]
    /\ jar \in [Browsers -> Tokens \cup {None}]
    /\ request \in [Calls -> Request]
    /\ made \in [Tokens -> [state: States \cup {None}, account: Accounts \cup {None}]]
    /\ count \in 0..(Limit + 1) /\ passed \in Nat /\ left \in 0..Window /\ age \in Nat

\* Whoever raced with whom, the answer to a login, and the session made of it, name the one
\* user that the account has for good (service.go:81-159, README.md:143).
AnswersAreOwn ==
    /\ \A c \in Calls : call[c].stage = "answered" /\ call[c].account # None =>
         call[c].user = userOf[call[c].account]
    /\ \A t \in Tokens : session[t] # None => session[t] = userOf[made[t].account]

\* A login of an account that has logged in before is not refused, whatever other accounts
\* have taken its address or are logging in (service.go:147-155).
KnownAccountsGetIn == \A c \in Calls : call[c].stage = "refused" => ~call[c].known

\* An OAuth state makes one session at most, however often its callback comes
\* (google.go:95-98).
OneSessionPerState ==
    \A t1, t2 \in Tokens : made[t1].state = made[t2].state /\ made[t1].state # None => t1 = t2

\* A browser has a session only from a sign-in it started itself (google.go:95).
SessionsStayHome == \A b \in Browsers : jar[b] # None => flow[made[jar[b]].state].browser = b

\* A user's holds that are let through while one counter stands are at most the limit,
\* however many requests count at once (middleware.go:90-109).
LimitHolds == passed <= Limit

\* However often a user tries again, the counter that refuses the holds goes a window after
\* its first (middleware.go:90).
LimitLifts == count > 0 => age < Window

-----------------------------------------------------------------------------
(* Why it holds: the inductive invariant behind the proofs *)

\* A request in ResolveIdentity is of some account, and an account it has found is there for
\* good; whoever is answered is a user (service.go:91-158).
LoginsAreOfAccounts ==
    \A c \in Calls :
        /\ call[c].stage \in {"begun", "duplicate"} \/ request[c].kind = "callback" =>
             call[c].account # None
        /\ call[c].stage = "begun" => call[c].email # None
        /\ call[c].stage \in {"begun", "duplicate"} /\ call[c].known =>
             userOf[call[c].account] # None
        /\ call[c].stage = "answered" => call[c].user # None

\* A browser's OAuth cookie is of a state it was given (google.go:82-88).
StateCookiesAreOwn ==
    \A b \in Browsers : stateCookie[b] # None => flow[stateCookie[b]].browser = b

\* A state that a callback is being served for, or that has a session, is used up: it is no
\* longer in Redis and no other callback or session has it (google.go:98-101).
UsedStatesAreGone ==
    /\ \A c \in Calls : request[c].kind = "callback" =>
         /\ request[c].state # None /\ request[c].browser # None
         /\ flow[request[c].state] = [browser |-> request[c].browser, stored |-> FALSE]
         /\ \A t \in Tokens : made[t].state # request[c].state
         /\ \A d \in Calls \ {c} :
              request[d].kind = "callback" => request[d].state # request[c].state
    /\ \A t \in Tokens : made[t].state # None =>
         flow[made[t].state].browser # None /\ ~flow[made[t].state].stored

\* A session has been made, and its cookie is of a session that has (handlers.go:88-93).
SessionsAreMade ==
    /\ \A t \in Tokens : session[t] # None => made[t].account # None
    /\ \A b \in Browsers : jar[b] # None => made[jar[b]].state # None

\* The counter and the time it has left begin and go together (middleware.go:90).
CounterHasTime ==
    /\ passed <= count
    /\ IF count = 0 THEN left = 0 /\ age = 0 ELSE left > 0 /\ age + left <= Window

AccessInv ==
    /\ TypeOK
    /\ AnswersAreOwn /\ KnownAccountsGetIn /\ LoginsAreOfAccounts
    /\ OneSessionPerState /\ SessionsStayHome
    /\ StateCookiesAreOwn /\ UsedStatesAreGone /\ SessionsAreMade
    /\ LimitHolds /\ LimitLifts /\ CounterHasTime
=============================================================================
