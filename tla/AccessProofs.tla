---------------------------- MODULE AccessProofs ----------------------------
(* Proofs about Access, for every value of its constants. *)
EXTENDS Access, TLAPS

USE DEF accounts, sessions, limiter

-----------------------------------------------------------------------------
(* What each way of moving a request on does to it *)

LEMMA GoesTo ==
    ASSUME TypeOK, NEW c \in Calls, NEW stage \in Stages, Goes(c, stage)
    PROVE  /\ call' \in [Calls -> Call]
           /\ call'[c].stage = stage /\ call'[c].user = None
           /\ call'[c].account = call[c].account /\ call'[c].known = call[c].known
           /\ \A d \in Calls \ {c} : call'[d] = call[d]
<1> DEFINE new == [stage |-> stage, account |-> call[c].account, email |-> None,
                   known |-> call[c].known, free |-> FALSE, user |-> None]
<1>1. call[c] \in Call /\ DOMAIN call = Calls
  BY DEF TypeOK
<1>2. new \in Call
  BY <1>1 DEF Call
<1>3. call' = [call EXCEPT ![c] = new]
  BY DEF Goes
<1> QED BY <1>1, <1>2, <1>3 DEF TypeOK

LEMMA AnswersIt ==
    ASSUME TypeOK, NEW c \in Calls, NEW u \in Users, Answers(c, u)
    PROVE  /\ call' \in [Calls -> Call]
           /\ call'[c].stage = "answered" /\ call'[c].user = u
           /\ call'[c].account = call[c].account
           /\ \A d \in Calls \ {c} : call'[d] = call[d]
<1> DEFINE new == [stage |-> "answered", account |-> call[c].account, email |-> None,
                   known |-> FALSE, free |-> FALSE, user |-> u]
<1>1. call[c] \in Call /\ DOMAIN call = Calls
  BY DEF TypeOK
<1>2. new \in Call
  BY <1>1 DEF Call, Stages
<1>3. call' = [call EXCEPT ![c] = new]
  BY DEF Answers
<1> QED BY <1>1, <1>2, <1>3 DEF TypeOK

LEMMA BeginsIt ==
    ASSUME TypeOK, NEW c \in Calls, NEW a \in Accounts, NEW e \in Emails, Begin(c, a, e)
    PROVE  /\ call' \in [Calls -> Call]
           /\ call'[c].stage = "begun" /\ call'[c].account = a /\ call'[c].email = e
           /\ call'[c].known = (userOf[a] # None)
           /\ \A d \in Calls \ {c} : call'[d] = call[d]
<1> DEFINE new == [stage |-> "begun", account |-> a, email |-> e,
                   known |-> userOf[a] # None, free |-> HasEmail(e) = {}, user |-> None]
<1>1. DOMAIN call = Calls
  BY DEF TypeOK
<1>2. new \in Call
  BY DEF Call, Stages
<1>3. call' = [call EXCEPT ![c] = new]
  BY DEF Begin
<1> QED BY <1>1, <1>2, <1>3 DEF TypeOK

LEMMA EndsIt ==
    ASSUME TypeOK, NEW c \in Calls, Ends(c)
    PROVE  /\ call' \in [Calls -> Call] /\ request' \in [Calls -> Request]
           /\ call'[c].stage = "idle" /\ request'[c].kind = "none"
           /\ \A d \in Calls \ {c} : call'[d] = call[d] /\ request'[d] = request[d]
<1>1. Idle \in Call /\ NoRequest \in Request
  BY DEF Idle, Call, Stages, NoRequest, Request
<1>2. Idle.stage = "idle" /\ NoRequest.kind = "none"
  BY DEF Idle, NoRequest
<1> QED BY <1>1, <1>2 DEF Ends, TypeOK

LEMMA AsksIt ==
    ASSUME TypeOK, NEW c \in Calls, NEW b \in Browsers, NEW asks \in Asks(b), Arrives(c, asks)
    PROVE  /\ request' \in [Calls -> Request] /\ request'[c].kind # "callback"
           /\ \A d \in Calls \ {c} : request'[d] = request[d]
<1>1. asks \in Request /\ asks.kind # "callback"
  BY DEF Asks, NoRequest, Request, TypeOK
<1> QED BY <1>1 DEF Arrives, TypeOK

-----------------------------------------------------------------------------
(* Types *)

LEMMA InitType == AccessInit => TypeOK
<1> SUFFICES ASSUME AccessInit PROVE TypeOK
  OBVIOUS
<1>1. Idle \in Call /\ NoRequest \in Request
  BY DEF Idle, Call, Stages, NoRequest, Request
<1>2. count \in 0..(Limit + 1) /\ passed \in Nat /\ left \in 0..Window /\ age \in Nat
  BY LimitAssumption DEF AccessInit
<1> QED BY <1>1, <1>2 DEF AccessInit, Init, TypeOK

-----------------------------------------------------------------------------
(* Requests *)

\* What is known of one request.
CallInv(c) ==
    /\ call[c].stage = "answered" /\ call[c].account # None =>
         call[c].user = userOf[call[c].account]
    /\ call[c].stage = "refused" => ~call[c].known
    /\ call[c].stage \in {"begun", "duplicate"} \/ request[c].kind = "callback" =>
         call[c].account # None
    /\ call[c].stage = "begun" => call[c].email # None
    /\ call[c].stage \in {"begun", "duplicate"} /\ call[c].known =>
         userOf[call[c].account] # None
    /\ call[c].stage = "answered" => call[c].user # None

\* What changes when a request moves on: its own records, and the accounts, which keep
\* the users they have.
Moves(c) ==
    /\ emailOf' \in [Users -> Emails \cup {None}]
    /\ userOf' \in [Accounts -> Users \cup {None}]
    /\ call' \in [Calls -> Call] /\ request' \in [Calls -> Request]
    /\ \A a \in Accounts : userOf[a] # None => userOf'[a] = userOf[a]
    /\ \A d \in Calls \ {c} : call'[d] = call[d] /\ request'[d] = request[d]

LEMMA OthersKeep ==
    ASSUME TypeOK, NEW c \in Calls, Moves(c), NEW d \in Calls \ {c}, CallInv(d)
    PROVE  CallInv(d)'
<1>1. call[d] \in Call
  BY DEF TypeOK
<1>2. call[d].account # None => call[d].account \in Accounts
  BY <1>1 DEF Call
<1> QED BY <1>2 DEF CallInv, Moves

LEMMA CommitMoves ==
    ASSUME TypeOK, NEW c \in Calls, CallInv(c), CommitLogin(c), UNCHANGED request
    PROVE  Moves(c) /\ CallInv(c)'
<1> DEFINE a == call[c].account
<1>1. PICK u \in Targets(c) :
         /\ emailOf' = [emailOf EXCEPT ![u] = call[c].email]
         /\ userOf' = [userOf EXCEPT ![a] = u]
         /\ Answers(c, u) \/ Goes(c, "failed")
  BY DEF CommitLogin
<1>2. call[c] \in Call /\ call[c].stage = "begun"
  BY DEF TypeOK, CommitLogin
<1>3. a \in Accounts /\ call[c].email \in Emails
  BY <1>2 DEF CallInv, Call
<1>4. u \in Users /\ (userOf[a] # None => u = userOf[a])
  BY <1>1, <1>3 DEF Targets, HasEmail, TypeOK
<1>5. u # None
  BY <1>4, NoneIsNoName
<1>6. userOf' \in [Accounts -> Users \cup {None}] /\ userOf'[a] = u
      /\ \A b \in Accounts \ {a} : userOf'[b] = userOf[b]
  BY <1>1, <1>3, <1>4 DEF TypeOK
<1>7. emailOf' \in [Users -> Emails \cup {None}]
  BY <1>1, <1>3, <1>4 DEF TypeOK
<1> HIDE DEF a
<1>8. Moves(c)
  BY <1>1, <1>4, <1>6, <1>7, AnswersIt, GoesTo DEF Moves, Stages, TypeOK
<1>9. call'[c].account = a
      /\ \/ call'[c].stage = "answered" /\ call'[c].user = u
         \/ call'[c].stage = "failed"
  BY <1>1, <1>4, AnswersIt, GoesTo DEF a, Stages
<1> QED BY <1>3, <1>5, <1>6, <1>8, <1>9, NoneIsNoName DEF CallInv

\* A login that waits to be told goes on without touching the accounts.
LEMMA WaitMoves ==
    ASSUME TypeOK, NEW c \in Calls, CallInv(c), UNCHANGED request,
           DuplicateKey(c) \/ AnswerDuplicate(c) \/ LoginFails(c)
    PROVE  Moves(c) /\ CallInv(c)'
<1> DEFINE a == call[c].account
<1>1. call[c] \in Call /\ call[c].stage \in {"begun", "duplicate"}
  BY DEF TypeOK, DuplicateKey, AnswerDuplicate, LoginFails
<1>2. a \in Accounts /\ UNCHANGED <<emailOf, userOf>>
  BY <1>1 DEF CallInv, Call, DuplicateKey, AnswerDuplicate, LoginFails
<1>3. userOf[a] \in Users \cup {None}
  BY <1>2 DEF TypeOK
<1>4. \/ Goes(c, "duplicate") \/ Goes(c, "failed")
      \/ userOf[a] # None /\ Answers(c, userOf[a])
      \/ userOf[a] = None /\ Goes(c, "refused")
  BY DEF DuplicateKey, AnswerDuplicate, LoginFails, FindOwn
<1>5. CASE \E stage \in {"duplicate", "failed"} : Goes(c, stage)
  <2>1. PICK stage \in {"duplicate", "failed"} : Goes(c, stage)
    BY <1>5
  <2>2. stage \in Stages
    BY DEF Stages
  <2>3. Moves(c)
    BY <1>2, <2>1, <2>2, GoesTo DEF Moves, TypeOK
  <2>4. /\ call'[c].stage = stage /\ call'[c].account = a /\ call'[c].known = call[c].known
    BY <2>1, <2>2, GoesTo
  <2> QED BY <1>1, <1>2, <2>3, <2>4, NoneIsNoName DEF CallInv
<1>6. CASE userOf[a] # None /\ Answers(c, userOf[a])
  <2>1. userOf[a] \in Users
    BY <1>3, <1>6
  <2>2. Moves(c)
    BY <1>2, <1>6, <2>1, AnswersIt DEF Moves, TypeOK
  <2>3. call'[c].stage = "answered" /\ call'[c].account = a /\ call'[c].user = userOf[a]
    BY <1>6, <2>1, AnswersIt
  <2> QED BY <1>2, <1>6, <2>2, <2>3, NoneIsNoName DEF CallInv
<1>7. CASE userOf[a] = None /\ Goes(c, "refused")
  <2>1. Moves(c)
    BY <1>2, <1>7, GoesTo DEF Moves, TypeOK, Stages
  <2>2. call'[c].stage = "refused" /\ call'[c].account = a /\ call'[c].known = call[c].known
    BY <1>7, GoesTo DEF Stages
  <2> QED BY <1>1, <1>2, <1>7, <2>1, <2>2, NoneIsNoName DEF CallInv
<1> QED BY <1>4, <1>5, <1>6, <1>7

LEMMA LoginMoves ==
    ASSUME TypeOK, NEW c \in Calls, CallInv(c), Login(c)
    PROVE  Moves(c) /\ CallInv(c)'
BY CommitMoves, WaitMoves DEF Login, ResolveIdentity

LEMMA EndMoves ==
    ASSUME TypeOK, NEW c \in Calls, Ends(c), UNCHANGED <<emailOf, userOf>>
    PROVE  Moves(c) /\ CallInv(c)'
<1>1. Moves(c)
  BY EndsIt DEF Moves, TypeOK
<1> QED BY <1>1, EndsIt DEF CallInv

LEMMA ServeEnds ==
    ASSUME NEW c \in Calls, Serve(c)
    PROVE  Ends(c) /\ UNCHANGED <<emailOf, userOf>>
BY DEF Serve, CreateSession, Unauthenticated, Me, Logout, HoldRateLimit

LEMMA BearerMoves ==
    ASSUME TypeOK, NEW c \in Calls, NEW b \in Browsers, BearerRequest(c, b)
    PROVE  Moves(c) /\ CallInv(c)'
<1>1. PICK a \in Firebase, e \in Emails, asks \in Asks(b) : Arrives(c, asks) /\ Begin(c, a, e)
  BY DEF BearerRequest
<1>2. a \in Accounts /\ UNCHANGED <<emailOf, userOf>>
  BY <1>1 DEF Accounts, Arrives
<1>3. Moves(c)
  BY <1>1, <1>2, BeginsIt, AsksIt DEF Moves, TypeOK
<1>4. /\ call'[c].stage = "begun" /\ call'[c].account = a /\ call'[c].email = e
      /\ call'[c].known = (userOf[a] # None)
  BY <1>1, <1>2, BeginsIt
<1> QED BY <1>1, <1>2, <1>3, <1>4, NoneIsNoName DEF CallInv

LEMMA CookieMoves ==
    ASSUME TypeOK, NEW c \in Calls, NEW b \in Browsers, CookieRequest(c, b)
    PROVE  Moves(c) /\ CallInv(c)'
<1> DEFINE u == session[jar[b]]
<1>1. u \in Users /\ Answers(c, u)
  BY DEF CookieRequest, TypeOK
<1>2. PICK asks \in Asks(b) : Arrives(c, asks)
  BY DEF CookieRequest
<1>3. UNCHANGED <<emailOf, userOf>> /\ call[c] = Idle
  BY <1>2 DEF Arrives
<1> HIDE DEF u
<1>4. Moves(c)
  BY <1>1, <1>2, <1>3, AnswersIt, AsksIt DEF Moves, TypeOK
<1>5. call'[c].stage = "answered" /\ call'[c].account = None /\ call'[c].user = u
      /\ request'[c].kind # "callback"
  BY <1>1, <1>2, <1>3, AnswersIt, AsksIt DEF Idle
<1> QED BY <1>1, <1>5, <1>4, NoneIsNoName DEF CallInv

LEMMA CallbackMoves ==
    ASSUME TypeOK, NEW c \in Calls, NEW b \in Browsers, NEW st \in States, CallInv(c),
           GoogleCallback(c, b, st)
    PROVE  Moves(c) /\ CallInv(c)'
<1>1. UNCHANGED <<emailOf, userOf>>
  BY DEF GoogleCallback
<1>2. CASE UNCHANGED <<call, request>>
  <2>1. Moves(c)
    BY <1>1, <1>2 DEF Moves, TypeOK
  <2> QED BY <1>1, <1>2, <2>1 DEF CallInv
<1>3. CASE \E a \in Google, e \in Emails : Begin(c, a, e)
  <2>1. PICK a \in Google, e \in Emails : Begin(c, a, e)
    BY <1>3
  <2>2. a \in Accounts
    BY DEF Accounts
  <2>3. /\ call'[c].stage = "begun" /\ call'[c].account = a /\ call'[c].email = e
        /\ call'[c].known = (userOf[a] # None)
    BY <2>1, <2>2, BeginsIt
  <2>4. CASE UNCHANGED <<call, request>>
    BY <1>2, <2>4
  <2>5. CASE request' = [request EXCEPT ![c] = [NoRequest EXCEPT !.kind = "callback",
                                                 !.browser = b, !.state = st]]
    <3>1. [NoRequest EXCEPT !.kind = "callback", !.browser = b, !.state = st] \in Request
      BY DEF NoRequest, Request
    <3>2. Moves(c)
      BY <1>1, <2>1, <2>2, <2>5, <3>1, BeginsIt DEF Moves, TypeOK
    <3> QED BY <1>1, <2>2, <2>3, <3>2, NoneIsNoName DEF CallInv
  <2> QED BY <2>4, <2>5 DEF GoogleCallback
<1> QED BY <1>2, <1>3 DEF GoogleCallback

CallsInv == \A c \in Calls : CallInv(c)

\* In every step at most one request moves on.
LEMMA StepMoves ==
    ASSUME TypeOK, CallsInv, [Next]_vars
    PROVE  \/ UNCHANGED <<accounts, request>>
           \/ \E c \in Calls : Moves(c) /\ CallInv(c)'
<1> USE DEF CallsInv
<1>1. CASE UNCHANGED vars
  BY <1>1 DEF vars
<1>2. CASE Tick
  BY <1>2 DEF Tick
<1>3. CASE \E b \in Browsers : GoogleStart(b) \/ CallbackRefused(b)
  BY <1>3 DEF GoogleStart, CallbackRefused
<1>4. CASE (\E st \in States : StateExpires(st)) \/ (\E t \in Tokens : SessionExpires(t))
  BY <1>4 DEF StateExpires, SessionExpires
<1>5. CASE \E c \in Calls : Login(c)
  BY <1>5, LoginMoves
<1>6. CASE \E c \in Calls : Serve(c)
  BY <1>6, ServeEnds, EndMoves
<1>7. CASE \E c \in Calls, b \in Browsers : BearerRequest(c, b)
  BY <1>7, BearerMoves
<1>8. CASE \E c \in Calls, b \in Browsers : CookieRequest(c, b)
  BY <1>8, CookieMoves
<1>9. CASE \E c \in Calls, b \in Browsers, st \in States : GoogleCallback(c, b, st)
  BY <1>9, CallbackMoves
<1> QED BY <1>1, <1>2, <1>3, <1>4, <1>5, <1>6, <1>7, <1>8, <1>9 DEF Next

LEMMA CallsStep ==
    ASSUME TypeOK, CallsInv, [Next]_vars
    PROVE  /\ CallsInv'
           /\ \A a \in Accounts : userOf[a] # None => userOf'[a] = userOf[a]
<1>1. CASE UNCHANGED <<accounts, request>>
  BY <1>1 DEF CallsInv, CallInv
<1>2. CASE \E c \in Calls : Moves(c) /\ CallInv(c)'
  <2>1. PICK c \in Calls : Moves(c) /\ CallInv(c)'
    BY <1>2
  <2> QED BY <2>1, OthersKeep DEF CallsInv, Moves
<1> QED BY <1>1, <1>2, StepMoves

-----------------------------------------------------------------------------
(* Types *)

LEMMA SessionsType ==
    ASSUME TypeOK, CallsInv, [Next]_vars
    PROVE  /\ flow' \in [States -> [browser: Browsers \cup {None}, stored: BOOLEAN]]
           /\ stateCookie' \in [Browsers -> States \cup {None}]
           /\ session' \in [Tokens -> Users \cup {None}]
           /\ jar' \in [Browsers -> Tokens \cup {None}]
           /\ made' \in [Tokens -> [state: States \cup {None}, account: Accounts \cup {None}]]
<1> USE DEF TypeOK
<1>1. CASE UNCHANGED <<flow, stateCookie, session, jar, made>>
  BY <1>1
<1>2. ASSUME NEW b \in Browsers, GoogleStart(b) \/ CallbackRefused(b)
      PROVE  /\ flow' \in [States -> [browser: Browsers \cup {None}, stored: BOOLEAN]]
             /\ stateCookie' \in [Browsers -> States \cup {None}]
             /\ UNCHANGED <<session, jar, made>>
  <2>1. CASE CallbackRefused(b)
    BY <2>1 DEF CallbackRefused, ClearsCookie
  <2>2. CASE GoogleStart(b)
    <3>1. PICK st \in States :
             /\ flow' = [flow EXCEPT ![st] = [browser |-> b, stored |-> TRUE]]
             /\ stateCookie' = [stateCookie EXCEPT ![b] = st]
      BY <2>2 DEF GoogleStart
    <3> QED BY <2>2, <3>1 DEF GoogleStart
  <2> QED BY <1>2, <2>1, <2>2
<1>3. ASSUME NEW st \in States, StateExpires(st)
      PROVE  /\ flow' \in [States -> [browser: Browsers \cup {None}, stored: BOOLEAN]]
             /\ UNCHANGED <<stateCookie, session, jar, made>>
  BY <1>3 DEF StateExpires
<1>4. ASSUME NEW t \in Tokens, SessionExpires(t)
      PROVE  /\ session' \in [Tokens -> Users \cup {None}]
             /\ UNCHANGED <<flow, stateCookie, jar, made>>
  BY <1>4 DEF SessionExpires
<1>5. ASSUME NEW c \in Calls, NEW b \in Browsers, NEW st \in States, GoogleCallback(c, b, st)
      PROVE  /\ flow' \in [States -> [browser: Browsers \cup {None}, stored: BOOLEAN]]
             /\ stateCookie' \in [Browsers -> States \cup {None}]
             /\ UNCHANGED <<session, jar, made>>
  BY <1>5 DEF GoogleCallback, Consume, ClearsCookie
<1>6. ASSUME NEW c \in Calls, CreateSession(c)
      PROVE  /\ stateCookie' \in [Browsers -> States \cup {None}]
             /\ session' \in [Tokens -> Users \cup {None}]
             /\ jar' \in [Browsers -> Tokens \cup {None}]
             /\ made' \in [Tokens -> [state: States \cup {None},
                                       account: Accounts \cup {None}]]
             /\ UNCHANGED flow
  <2>1. call[c] \in Call /\ request[c] \in Request /\ UNCHANGED flow
    BY <1>6 DEF CreateSession
  <2>2. stateCookie' \in [Browsers -> States \cup {None}]
    BY <1>6 DEF CreateSession, ClearsCookie
  <2>3. CASE UNCHANGED <<session, made, jar>>
    BY <2>1, <2>2, <2>3
  <2>4. CASE \E t \in Tokens :
               /\ session' = [session EXCEPT ![t] = call[c].user]
               /\ made' = [made EXCEPT ![t] = [state |-> request[c].state,
                                               account |-> call[c].account]]
               /\ jar' = [jar EXCEPT ![request[c].browser] = t] \/ UNCHANGED jar
    BY <2>1, <2>2, <2>4 DEF Call, Request
  <2> QED BY <1>6, <2>3, <2>4 DEF CreateSession
<1>7. ASSUME NEW c \in Calls, Logout(c)
      PROVE  /\ session' \in [Tokens -> Users \cup {None}]
             /\ jar' \in [Browsers -> Tokens \cup {None}]
             /\ UNCHANGED <<flow, stateCookie, made>>
  BY <1>7 DEF Logout
<1>8. ASSUME NEW c \in Calls, Unauthenticated(c)
      PROVE  /\ stateCookie' \in [Browsers -> States \cup {None}]
             /\ UNCHANGED <<flow, session, jar, made>>
  BY <1>8 DEF Unauthenticated, ClearsCookie
<1>9. ASSUME NEW c \in Calls, Me(c) \/ HoldRateLimit(c) \/ Login(c)
      PROVE  UNCHANGED <<flow, stateCookie, session, jar, made>>
  BY <1>9 DEF Me, HoldRateLimit, Login
<1>10. ASSUME NEW c \in Calls, NEW b \in Browsers, BearerRequest(c, b) \/ CookieRequest(c, b)
       PROVE  UNCHANGED <<flow, stateCookie, session, jar, made>>
  BY <1>10 DEF BearerRequest, CookieRequest, Arrives
<1>11. Tick \/ UNCHANGED vars => UNCHANGED <<flow, stateCookie, session, jar, made>>
  BY DEF Tick, vars
<1> QED BY <1>1, <1>2, <1>3, <1>4, <1>5, <1>6, <1>7, <1>8, <1>9, <1>10, <1>11
        DEF Next, Serve

-----------------------------------------------------------------------------
(* The rate limiter *)

LimiterInv ==
    /\ count \in 0..(Limit + 1) /\ passed \in Nat /\ left \in 0..Window /\ age \in Nat
    /\ LimitHolds /\ LimitLifts /\ CounterHasTime

LEMMA LimiterInit == AccessInit => LimiterInv
BY LimitAssumption DEF AccessInit, LimiterInv, LimitHolds, LimitLifts, CounterHasTime

LEMMA LimiterStep ==
    ASSUME LimiterInv, [Next]_vars
    PROVE  LimiterInv'
<1> USE LimitAssumption DEF LimiterInv, LimitHolds, LimitLifts, CounterHasTime
<1>1. CASE UNCHANGED <<count, left, passed, age>>
  BY <1>1
<1>2. CASE Tick
  <2>1. left' = left - 1 /\ left > 0 /\ count > 0
    BY <1>2 DEF Tick
  <2>2. CASE left = 1
    BY <1>2, <2>1, <2>2 DEF Tick
  <2>3. CASE left # 1
    BY <1>2, <2>1, <2>3 DEF Tick
  <2> QED BY <2>2, <2>3
<1>3. ASSUME NEW c \in Calls, HoldRateLimit(c)
      PROVE  LimiterInv'
  <2> DEFINE n == IF count > Limit THEN count ELSE count + 1
  <2>1. /\ count' = n /\ left' = (IF n = 1 THEN Window ELSE left)
        /\ passed' = (IF n > Limit THEN passed ELSE passed + 1)
        /\ age' = age
    BY <1>3 DEF HoldRateLimit, Counts, Exceeds
  <2>2. n \in 1..(Limit + 1) /\ (n = 1 <=> count = 0) /\ passed' <= n /\ passed' <= Limit
    BY <2>1
  <2> QED BY <2>1, <2>2
<1>4. [Next]_vars => Tick \/ (\E c \in Calls : HoldRateLimit(c))
                      \/ UNCHANGED <<count, left, passed, age>>
  <2>1. ASSUME NEW b \in Browsers, GoogleStart(b) \/ CallbackRefused(b)
        PROVE  UNCHANGED limiter
    BY <2>1 DEF GoogleStart, CallbackRefused
  <2>2. ASSUME NEW st \in States, StateExpires(st)
        PROVE  UNCHANGED limiter
    BY <2>2 DEF StateExpires
  <2>3. ASSUME NEW t \in Tokens, SessionExpires(t)
        PROVE  UNCHANGED limiter
    BY <2>3 DEF SessionExpires
  <2>4. ASSUME NEW c \in Calls, Login(c) \/ CreateSession(c) \/ Unauthenticated(c)
                               \/ Me(c) \/ Logout(c)
        PROVE  UNCHANGED limiter
    BY <2>4 DEF Login, CreateSession, Unauthenticated, Me, Logout
  <2>5. ASSUME NEW c \in Calls, NEW b \in Browsers,
               \/ BearerRequest(c, b) \/ CookieRequest(c, b)
               \/ \E st \in States : GoogleCallback(c, b, st)
        PROVE  UNCHANGED limiter
    BY <2>5 DEF BearerRequest, CookieRequest, GoogleCallback, Arrives
  <2>6. UNCHANGED vars => UNCHANGED limiter
    BY DEF vars
  <2> QED BY <2>1, <2>2, <2>3, <2>4, <2>5, <2>6 DEF Next, Serve
<1> QED BY <1>1, <1>2, <1>3, <1>4

-----------------------------------------------------------------------------
(* Sessions name the user of their account *)

ValuesInv ==
    \A t \in Tokens : session[t] # None =>
        made[t].account # None /\ session[t] = userOf[made[t].account]

\* What a step does to the sessions, unless it makes one.
SessionsOnlyGo == made' = made /\ \A t \in Tokens : session'[t] \in {session[t], None}

LEMMA WhoMakesSessions ==
    ASSUME TypeOK, [Next]_vars
    PROVE  SessionsOnlyGo \/ \E c \in Calls : CreateSession(c)
<1> USE DEF SessionsOnlyGo
<1>1. ASSUME NEW b \in Browsers, GoogleStart(b) \/ CallbackRefused(b)
      PROVE  SessionsOnlyGo
  BY <1>1 DEF GoogleStart, CallbackRefused
<1>2. ASSUME NEW st \in States, StateExpires(st)
      PROVE  SessionsOnlyGo
  BY <1>2 DEF StateExpires
<1>3. ASSUME NEW t \in Tokens, SessionExpires(t)
      PROVE  SessionsOnlyGo
  BY <1>3 DEF SessionExpires, TypeOK
<1>4. ASSUME NEW c \in Calls, Login(c) \/ Unauthenticated(c) \/ Me(c) \/ HoldRateLimit(c)
      PROVE  SessionsOnlyGo
  BY <1>4 DEF Login, Unauthenticated, Me, HoldRateLimit
<1>5. ASSUME NEW c \in Calls, Logout(c)
      PROVE  SessionsOnlyGo
  BY <1>5 DEF Logout
<1>6. ASSUME NEW c \in Calls, NEW b \in Browsers,
             \/ BearerRequest(c, b) \/ CookieRequest(c, b)
             \/ \E st \in States : GoogleCallback(c, b, st)
      PROVE  SessionsOnlyGo
  BY <1>6 DEF BearerRequest, CookieRequest, GoogleCallback, Arrives
<1>7. Tick \/ UNCHANGED vars => SessionsOnlyGo
  BY DEF Tick, vars
<1> QED BY <1>1, <1>2, <1>3, <1>4, <1>5, <1>6, <1>7 DEF Next, Serve

\* A session that is made, of an OAuth state and an account.
Makes(c, t) ==
    /\ made[t].state = None
    /\ session' = [session EXCEPT ![t] = call[c].user]
    /\ made' = [made EXCEPT ![t] = [state |-> request[c].state, account |-> call[c].account]]

LEMMA ValuesStep ==
    ASSUME TypeOK, CallsInv, ValuesInv, [Next]_vars
    PROVE  ValuesInv'
<1>1. \A a \in Accounts : userOf[a] # None => userOf'[a] = userOf[a]
  BY CallsStep
<1>2. CASE SessionsOnlyGo
  <2> SUFFICES ASSUME NEW t \in Tokens, session'[t] # None
               PROVE  made'[t].account # None /\ session'[t] = userOf'[made'[t].account]
    BY DEF ValuesInv
  <2>1. session'[t] = session[t] /\ made'[t] = made[t]
    BY <1>2 DEF SessionsOnlyGo
  <2>2. made[t].account \in Accounts
    BY <2>1 DEF ValuesInv, TypeOK
  <2> QED BY <1>1, <2>1, <2>2 DEF ValuesInv
<1>3. ASSUME NEW c \in Calls, CreateSession(c)
      PROVE  ValuesInv'
  <2>1. userOf' = userOf
    BY <1>3 DEF CreateSession
  <2>2. CASE UNCHANGED <<session, made>>
    BY <2>1, <2>2 DEF ValuesInv
  <2>3. ASSUME NEW t \in Tokens, Makes(c, t)
        PROVE  ValuesInv'
    <3>1. call[c].account # None /\ call[c].user = userOf[call[c].account]
      BY <1>3 DEF CreateSession, CallsInv, CallInv
    <3>2. session'[t] = call[c].user /\ made'[t].account = call[c].account
      BY <2>3 DEF Makes, TypeOK
    <3>3. \A s \in Tokens \ {t} : session'[s] = session[s] /\ made'[s] = made[s]
      BY <2>3 DEF Makes, TypeOK
    <3> QED BY <2>1, <3>1, <3>2, <3>3 DEF ValuesInv
  <2> QED BY <1>3, <2>2, <2>3 DEF CreateSession, Makes
<1> QED BY <1>2, <1>3, WhoMakesSessions

-----------------------------------------------------------------------------
(* OAuth states make one session, of their own browser *)

FlowInv ==
    /\ OneSessionPerState /\ SessionsStayHome
    /\ StateCookiesAreOwn /\ UsedStatesAreGone
    /\ \A b \in Browsers : jar[b] # None => made[jar[b]].state # None

\* A step that gives out no state, cookie, callback or session.
OnlyTakes ==
    /\ made' = made
    /\ \A b \in Browsers : jar'[b] \in {jar[b], None} /\ stateCookie'[b] \in {stateCookie[b], None}
    /\ \A c \in Calls : request'[c].kind = "callback" => request'[c] = request[c]

LEMMA TakingKeeps ==
    ASSUME TypeOK, FlowInv, OnlyTakes, flow' = flow
    PROVE  FlowInv'
<1>1. OneSessionPerState'
  BY DEF FlowInv, OnlyTakes, OneSessionPerState
<1>2. SessionsStayHome' /\ \A b \in Browsers : jar'[b] # None => made'[jar'[b]].state # None
  BY DEF FlowInv, OnlyTakes, SessionsStayHome
<1>3. StateCookiesAreOwn'
  BY DEF FlowInv, OnlyTakes, StateCookiesAreOwn
<1>4. UsedStatesAreGone'
  BY DEF FlowInv, OnlyTakes, UsedStatesAreGone
<1> QED BY <1>1, <1>2, <1>3, <1>4 DEF FlowInv

LEMMA WhoOnlyTakes ==
    ASSUME TypeOK, [Next]_vars
    PROVE  \/ OnlyTakes /\ flow' = flow
           \/ \E b \in Browsers : GoogleStart(b)
           \/ \E st \in States : StateExpires(st)
           \/ \E c \in Calls, b \in Browsers, st \in States : GoogleCallback(c, b, st)
           \/ \E c \in Calls : CreateSession(c)
<1> USE DEF OnlyTakes
<1>1. ASSUME NEW b \in Browsers, CallbackRefused(b)
      PROVE  OnlyTakes /\ flow' = flow
  BY <1>1 DEF CallbackRefused, ClearsCookie, TypeOK
<1>2. ASSUME NEW t \in Tokens, SessionExpires(t)
      PROVE  OnlyTakes /\ flow' = flow
  BY <1>2 DEF SessionExpires
<1>3. ASSUME NEW c \in Calls, Login(c)
      PROVE  OnlyTakes /\ flow' = flow
  BY <1>3 DEF Login
<1>4. ASSUME NEW c \in Calls, Unauthenticated(c) \/ Me(c) \/ HoldRateLimit(c) \/ Logout(c)
      PROVE  OnlyTakes /\ flow' = flow
  <2>1. \A d \in Calls : request'[d].kind = "callback" => request'[d] = request[d]
    BY <1>4, EndsIt DEF Unauthenticated, Me, HoldRateLimit, Logout
  <2>2. made' = made /\ flow' = flow
    BY <1>4 DEF Unauthenticated, Me, HoldRateLimit, Logout
  <2>3. \A b \in Browsers : jar'[b] \in {jar[b], None} /\ stateCookie'[b] \in {stateCookie[b], None}
    BY <1>4 DEF Unauthenticated, Me, HoldRateLimit, Logout, ClearsCookie, TypeOK
  <2> QED BY <2>1, <2>2, <2>3
<1>5. ASSUME NEW c \in Calls, NEW b \in Browsers, BearerRequest(c, b) \/ CookieRequest(c, b)
      PROVE  OnlyTakes /\ flow' = flow
  <2>1. PICK asks \in Asks(b) : Arrives(c, asks)
    BY <1>5 DEF BearerRequest, CookieRequest
  <2> QED BY <2>1, AsksIt DEF Arrives
<1>6. Tick \/ UNCHANGED vars => OnlyTakes /\ flow' = flow
  BY DEF Tick, vars
<1> QED BY <1>1, <1>2, <1>3, <1>4, <1>5, <1>6 DEF Next, Serve

LEMMA StartKeeps ==
    ASSUME TypeOK, FlowInv, NEW b \in Browsers, GoogleStart(b)
    PROVE  FlowInv'
<1>1. PICK st \in States :
         /\ flow[st].browser = None
         /\ flow' = [flow EXCEPT ![st] = [browser |-> b, stored |-> TRUE]]
         /\ stateCookie' = [stateCookie EXCEPT ![b] = st]
  BY DEF GoogleStart
<1>2. UNCHANGED <<jar, request, made>>
  BY DEF GoogleStart
<1>3. flow'[st].browser = b /\ \A x \in States \ {st} : flow'[x] = flow[x]
  BY <1>1 DEF TypeOK
<1>4. \A x \in States : flow[x].browser # None => flow'[x] = flow[x]
  BY <1>1, <1>3
<1>5. OneSessionPerState'
  BY <1>2 DEF FlowInv, OneSessionPerState
<1>6. SessionsStayHome' /\ \A x \in Browsers : jar'[x] # None => made'[jar'[x]].state # None
  <2>1. ASSUME NEW x \in Browsers, jar[x] # None
        PROVE  flow'[made[jar[x]].state] = flow[made[jar[x]].state]
    <3>1. jar[x] \in Tokens /\ made[jar[x]].state \in States
      BY <2>1 DEF FlowInv, TypeOK
    <3> QED BY <1>4, <2>1, <3>1, NoneIsNoToken DEF FlowInv, SessionsStayHome
  <2> QED BY <1>2, <2>1 DEF FlowInv, SessionsStayHome
<1>7. StateCookiesAreOwn'
  <2> SUFFICES ASSUME NEW x \in Browsers, stateCookie'[x] # None
               PROVE  flow'[stateCookie'[x]].browser = x
    BY DEF StateCookiesAreOwn
  <2>1. CASE x = b
    BY <1>1, <1>3, <2>1 DEF TypeOK
  <2>2. CASE x # b
    <3>1. stateCookie'[x] = stateCookie[x]
      BY <1>1, <2>2 DEF TypeOK
    <3>2. stateCookie[x] \in States /\ flow[stateCookie[x]].browser = x
      BY <3>1 DEF FlowInv, StateCookiesAreOwn, TypeOK
    <3> QED BY <1>4, <3>1, <3>2, NoneIsNoToken
  <2> QED BY <2>1, <2>2
<1>8. UsedStatesAreGone'
  <2>1. ASSUME NEW c \in Calls, request[c].kind = "callback"
        PROVE  flow'[request[c].state] = flow[request[c].state]
    <3>1. /\ request[c].state # None /\ request[c].browser # None
          /\ flow[request[c].state] = [browser |-> request[c].browser, stored |-> FALSE]
      BY <2>1 DEF FlowInv, UsedStatesAreGone
    <3>2. request[c] \in Request
      BY DEF TypeOK
    <3>3. request[c].state \in States
      BY <3>1, <3>2 DEF Request
    <3> QED BY <1>4, <3>1, <3>3
  <2>2. ASSUME NEW t \in Tokens, made[t].state # None
        PROVE  flow'[made[t].state] = flow[made[t].state]
    BY <1>4, <2>2 DEF FlowInv, UsedStatesAreGone, TypeOK
  <2> QED BY <1>2, <2>1, <2>2 DEF FlowInv, UsedStatesAreGone
<1> QED BY <1>5, <1>6, <1>7, <1>8 DEF FlowInv

LEMMA ExpiryKeeps ==
    ASSUME TypeOK, FlowInv, NEW st \in States, StateExpires(st)
    PROVE  FlowInv'
<1>1. flow' = [flow EXCEPT ![st].stored = FALSE] /\ flow[st].stored
      /\ UNCHANGED <<stateCookie, jar, request, made>>
  BY DEF StateExpires
<1>2. /\ \A x \in States : flow'[x].browser = flow[x].browser
      /\ \A x \in States : ~flow[x].stored => flow'[x] = flow[x]
  BY <1>1 DEF TypeOK
<1>3. \A x \in Browsers : jar[x] # None => made[jar[x]].state \in States
  BY DEF FlowInv, TypeOK
<1>4. OneSessionPerState' /\ SessionsStayHome'
      /\ \A x \in Browsers : jar'[x] # None => made'[jar'[x]].state # None
  BY <1>1, <1>2, <1>3 DEF FlowInv, OneSessionPerState, SessionsStayHome
<1>5. StateCookiesAreOwn'
  BY <1>1, <1>2 DEF FlowInv, StateCookiesAreOwn, TypeOK
<1>6. UsedStatesAreGone'
  <2>1. ASSUME NEW c \in Calls, request[c].kind = "callback"
        PROVE  flow'[request[c].state] = flow[request[c].state]
    <3>1. /\ request[c].state # None
          /\ flow[request[c].state] = [browser |-> request[c].browser, stored |-> FALSE]
      BY <2>1 DEF FlowInv, UsedStatesAreGone
    <3>2. request[c] \in Request
      BY DEF TypeOK
    <3> QED BY <1>2, <3>1, <3>2 DEF Request
  <2>2. ASSUME NEW t \in Tokens, made[t].state # None
        PROVE  flow'[made[t].state] = flow[made[t].state]
    BY <1>2, <2>2 DEF FlowInv, UsedStatesAreGone, TypeOK
  <2> QED BY <1>1, <2>1, <2>2 DEF FlowInv, UsedStatesAreGone
<1> QED BY <1>4, <1>5, <1>6 DEF FlowInv

\* A callback whose state is in Redis: nothing has been made of it, and it is its browser's.
LEMMA CallbackKeeps ==
    ASSUME TypeOK, FlowInv, NEW c \in Calls, NEW b \in Browsers, NEW st \in States,
           GoogleCallback(c, b, st)
    PROVE  FlowInv'
<1>1. /\ flow' = [flow EXCEPT ![st].stored = FALSE] /\ flow[st].stored
      /\ stateCookie[b] = st /\ UNCHANGED <<jar, made>>
  BY DEF GoogleCallback, StateFits, Consume
<1>2. /\ \A x \in States : flow'[x].browser = flow[x].browser
      /\ \A x \in States : ~flow[x].stored => flow'[x] = flow[x]
      /\ ~flow'[st].stored
  BY <1>1 DEF TypeOK
<1>3. flow[st].browser = b
  BY <1>1, NoneIsNoToken DEF FlowInv, StateCookiesAreOwn
<1>4. \A x \in Browsers : jar[x] # None => made[jar[x]].state \in States
  BY DEF FlowInv, TypeOK
<1>5. OneSessionPerState' /\ SessionsStayHome'
      /\ \A x \in Browsers : jar'[x] # None => made'[jar'[x]].state # None
  BY <1>1, <1>2, <1>4 DEF FlowInv, OneSessionPerState, SessionsStayHome
<1>6. StateCookiesAreOwn'
  <2>1. \A x \in Browsers : stateCookie'[x] \in {stateCookie[x], None}
    BY DEF GoogleCallback, ClearsCookie, TypeOK
  <2> QED BY <1>2, <2>1 DEF FlowInv, StateCookiesAreOwn, TypeOK
<1>7. \A t \in Tokens : made[t].state # st
  BY <1>1, NoneIsNoToken DEF FlowInv, UsedStatesAreGone
<1>8. ASSUME NEW d \in Calls, request[d].kind = "callback"
      PROVE  /\ request[d].state \in States \ {st}
             /\ flow'[request[d].state] = flow[request[d].state]
  <2>1. /\ request[d].state # None
        /\ flow[request[d].state] = [browser |-> request[d].browser, stored |-> FALSE]
    BY <1>8 DEF FlowInv, UsedStatesAreGone
  <2>2. request[d] \in Request
    BY DEF TypeOK
  <2> QED BY <1>1, <1>2, <2>1, <2>2 DEF Request
<1>9. ASSUME NEW t \in Tokens, made[t].state # None
      PROVE  flow'[made[t].state] = flow[made[t].state]
  BY <1>2, <1>9 DEF FlowInv, UsedStatesAreGone, TypeOK
<1>10. ASSUME UNCHANGED request
       PROVE  UsedStatesAreGone'
  BY <1>1, <1>8, <1>9, <1>10 DEF FlowInv, UsedStatesAreGone
<1>11. ASSUME ~UNCHANGED request
       PROVE  UsedStatesAreGone'
  <2> DEFINE new == [NoRequest EXCEPT !.kind = "callback", !.browser = b, !.state = st]
  <2>1. request' = [request EXCEPT ![c] = new]
    BY <1>11 DEF GoogleCallback
  <2>2. new.kind = "callback" /\ new.browser = b /\ new.state = st
    BY DEF NoRequest
  <2> HIDE DEF new
  <2>3. request'[c] = new /\ \A d \in Calls \ {c} : request'[d] = request[d]
    BY <2>1 DEF TypeOK
  <2>4. flow'[st] = [browser |-> b, stored |-> FALSE]
    BY <1>1, <1>3 DEF TypeOK
  <2>5. \A d \in Calls \ {c} : request'[d].kind = "callback" => request'[d].state # st
    BY <1>8, <2>3
  <2>6. st # None /\ b # None
    BY NoneIsNoToken
  <2>7. ASSUME NEW d \in Calls, request'[d].kind = "callback"
        PROVE  /\ request'[d].state # None /\ request'[d].browser # None
               /\ flow'[request'[d].state] = [browser |-> request'[d].browser, stored |-> FALSE]
               /\ \A t \in Tokens : made'[t].state # request'[d].state
               /\ \A e \in Calls \ {d} :
                    request'[e].kind = "callback" => request'[e].state # request'[d].state
    <3>1. CASE d = c
      BY <1>1, <1>7, <2>2, <2>3, <2>4, <2>5, <2>6, <3>1
    <3>2. CASE d # c
      BY <1>1, <1>8, <2>2, <2>3, <2>7, <3>2 DEF FlowInv, UsedStatesAreGone
    <3> QED BY <3>1, <3>2
  <2>8. ASSUME NEW t \in Tokens, made'[t].state # None
        PROVE  flow'[made'[t].state].browser # None /\ ~flow'[made'[t].state].stored
    BY <1>1, <1>9, <2>8 DEF FlowInv, UsedStatesAreGone
  <2> QED BY <2>7, <2>8 DEF UsedStatesAreGone
<1>12. UsedStatesAreGone'
  BY <1>10, <1>11
<1> QED BY <1>5, <1>6, <1>12 DEF FlowInv

LEMMA CreateKeeps ==
    ASSUME TypeOK, FlowInv, NEW c \in Calls, CreateSession(c)
    PROVE  FlowInv'
<1> DEFINE st == request[c].state
           b == request[c].browser
<1>1. request[c].kind = "callback" /\ request[c] \in Request /\ flow' = flow /\ Ends(c)
  BY DEF CreateSession, TypeOK
<1>2. /\ st # None /\ b # None
      /\ flow[st] = [browser |-> b, stored |-> FALSE]
      /\ \A t \in Tokens : made[t].state # st
      /\ \A d \in Calls \ {c} : request[d].kind = "callback" => request[d].state # st
  BY <1>1 DEF FlowInv, UsedStatesAreGone
<1>3. st \in States /\ b \in Browsers
  BY <1>1, <1>2 DEF Request
<1>4. flow[st].browser = b /\ ~flow[st].stored
  BY <1>2
<1>5. \A x \in Browsers : stateCookie'[x] \in {stateCookie[x], None}
  BY DEF CreateSession, ClearsCookie, TypeOK
<1>6. \A d \in Calls : request'[d].kind = "callback" => d # c /\ request'[d] = request[d]
  BY <1>1, EndsIt
<1>7. CASE UNCHANGED <<session, made, jar>>
  <2>1. OnlyTakes
    BY <1>5, <1>6, <1>7 DEF OnlyTakes
  <2> QED BY <1>1, <2>1, TakingKeeps
<1>8. ASSUME NEW t \in Tokens, Makes(c, t),
             jar' = [jar EXCEPT ![b] = t] \/ UNCHANGED jar
      PROVE  FlowInv'
  <2>1. /\ made[t].state = None /\ made'[t].state = st
        /\ \A s \in Tokens \ {t} : made'[s] = made[s]
    BY <1>8 DEF Makes, TypeOK
  <2>2. \A x \in Browsers : \/ x = b /\ jar'[x] = t
                            \/ jar'[x] = jar[x]
    BY <1>3, <1>8 DEF TypeOK
  <2> HIDE DEF st, b
  <2>3. OneSessionPerState'
    BY <1>2, <2>1 DEF FlowInv, OneSessionPerState
  <2>4. ASSUME NEW x \in Browsers, jar'[x] # None
        PROVE  made'[jar'[x]].state # None /\ flow'[made'[jar'[x]].state].browser = x
    <3>1. CASE x = b /\ jar'[x] = t
      BY <1>1, <1>2, <1>4, <2>1, <3>1
    <3>2. CASE jar'[x] = jar[x]
      <4>1. jar[x] \in Tokens /\ made[jar[x]].state # None /\ flow[made[jar[x]].state].browser = x
        BY <2>4, <3>2 DEF FlowInv, SessionsStayHome, TypeOK
      <4> QED BY <1>1, <2>1, <3>2, <4>1
    <3> QED BY <2>2, <3>1, <3>2
  <2>5. StateCookiesAreOwn'
    BY <1>1, <1>5 DEF FlowInv, StateCookiesAreOwn
  <2>6. ASSUME NEW d \in Calls, request'[d].kind = "callback"
        PROVE  /\ request'[d].state # None /\ request'[d].browser # None
               /\ flow'[request'[d].state] = [browser |-> request'[d].browser, stored |-> FALSE]
               /\ \A s \in Tokens : made'[s].state # request'[d].state
               /\ \A e \in Calls \ {d} :
                    request'[e].kind = "callback" => request'[e].state # request'[d].state
    BY <1>1, <1>2, <1>6, <2>1, <2>6 DEF FlowInv, UsedStatesAreGone
  <2>7. ASSUME NEW s \in Tokens, made'[s].state # None
        PROVE  flow'[made'[s].state].browser # None /\ ~flow'[made'[s].state].stored
    BY <1>1, <1>2, <1>4, <2>1, <2>7 DEF FlowInv, UsedStatesAreGone
  <2> QED BY <2>3, <2>4, <2>5, <2>6, <2>7 DEF FlowInv, SessionsStayHome, UsedStatesAreGone
<1> QED BY <1>7, <1>8 DEF CreateSession, Makes

LEMMA FlowStep ==
    ASSUME TypeOK, FlowInv, [Next]_vars
    PROVE  FlowInv'
BY WhoOnlyTakes, TakingKeeps, StartKeeps, ExpiryKeeps, CallbackKeeps, CreateKeeps

-----------------------------------------------------------------------------
(* The invariant *)

LEMMA InvParts == AccessInv <=> TypeOK /\ CallsInv /\ ValuesInv /\ FlowInv /\ LimiterInv
BY DEF AccessInv, TypeOK, CallsInv, CallInv, ValuesInv, FlowInv, LimiterInv, AnswersAreOwn,
       KnownAccountsGetIn, LoginsAreOfAccounts, SessionsAreMade

LEMMA InvInit == AccessInit => AccessInv
<1> SUFFICES ASSUME AccessInit PROVE AccessInv
  OBVIOUS
<1>1. CallsInv /\ ValuesInv
  BY DEF AccessInit, Init, Idle, NoRequest, CallsInv, CallInv, ValuesInv
<1>2. FlowInv
  BY DEF AccessInit, NoRequest, FlowInv, OneSessionPerState, SessionsStayHome,
         StateCookiesAreOwn, UsedStatesAreGone
<1> QED BY <1>1, <1>2, InitType, LimiterInit, InvParts

LEMMA InvStep ==
    ASSUME AccessInv, [Next]_vars
    PROVE  AccessInv'
<1>1. TypeOK /\ CallsInv /\ ValuesInv /\ FlowInv /\ LimiterInv
  BY InvParts
<1>2. CallsInv' /\ ValuesInv' /\ FlowInv' /\ LimiterInv'
  BY <1>1, CallsStep, ValuesStep, FlowStep, LimiterStep
<1>3. /\ emailOf' \in [Users -> Emails \cup {None}]
      /\ userOf' \in [Accounts -> Users \cup {None}]
      /\ call' \in [Calls -> Call] /\ request' \in [Calls -> Request]
  BY <1>1, StepMoves DEF Moves, TypeOK
<1>4. TypeOK'
  BY <1>1, <1>2, <1>3, SessionsType DEF TypeOK, LimiterInv
<1> QED BY <1>2, <1>4
        DEF AccessInv, CallsInv, CallInv, ValuesInv, FlowInv, LimiterInv, AnswersAreOwn,
            KnownAccountsGetIn, LoginsAreOfAccounts, SessionsAreMade

\* The inductive invariant of sign-in, sessions and rate limit (service.go:81-159,
\* google.go:91-104, middleware.go:89-112).
THEOREM AccessIsSafe == Spec => []AccessInv
<1>1. AccessInit => AccessInv
  BY InvInit
<1>2. AccessInv /\ [Next]_vars => AccessInv'
  BY InvStep
<1> QED BY <1>1, <1>2, PTL DEF Spec

\* Every part is in a state of its kind.
THEOREM AccessTypeCorrect == Spec => []TypeOK
<1>1. AccessInv => TypeOK
  BY DEF AccessInv
<1> QED BY <1>1, AccessIsSafe, PTL

\* Whoever raced with whom, an answer and a session name the account's one user
\* (service.go:81-159).
THEOREM EveryAnswerIsOwn == Spec => []AnswersAreOwn
<1>1. AccessInv => AnswersAreOwn
  BY DEF AccessInv
<1> QED BY <1>1, AccessIsSafe, PTL

\* An account that has logged in before is not refused (service.go:147-155).
THEOREM EveryKnownAccountGetsIn == Spec => []KnownAccountsGetIn
<1>1. AccessInv => KnownAccountsGetIn
  BY DEF AccessInv
<1> QED BY <1>1, AccessIsSafe, PTL

\* An OAuth state makes one session at most (google.go:98).
THEOREM StatesAreUsedOnce == Spec => []OneSessionPerState
<1>1. AccessInv => OneSessionPerState
  BY DEF AccessInv
<1> QED BY <1>1, AccessIsSafe, PTL

\* A browser's session is of a sign-in it started (google.go:95).
THEOREM EverySessionStaysHome == Spec => []SessionsStayHome
<1>1. AccessInv => SessionsStayHome
  BY DEF AccessInv
<1> QED BY <1>1, AccessIsSafe, PTL

\* No more holds than the limit pass while a counter of a client stands (middleware.go:89-109).
THEOREM TheLimitHolds == Spec => []LimitHolds
<1>1. AccessInv => LimitHolds
  BY DEF AccessInv
<1> QED BY <1>1, AccessIsSafe, PTL

\* A counter that refuses has an end: no refused attempt moves it (middleware.go:94-101).
THEOREM TheLimitLifts == Spec => []LimitLifts
<1>1. AccessInv => LimitLifts
  BY DEF AccessInv
<1> QED BY <1>1, AccessIsSafe, PTL

\* An account that has a user keeps it: no login, however it ends, moves an account to
\* another user (service.go:91-158).
THEOREM AccountsKeepTheirUser ==
    Spec => [][\A a \in Accounts : userOf[a] # None => userOf'[a] = userOf[a]]_vars
<1>1. AccessInv /\ [Next]_vars =>
        [\A a \in Accounts : userOf[a] # None => userOf'[a] = userOf[a]]_vars
  BY CallsStep, InvParts
<1> QED BY <1>1, AccessIsSafe, PTL DEF Spec
=============================================================================
