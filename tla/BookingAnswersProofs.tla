------------------------ MODULE BookingAnswersProofs ------------------------
(***************************************************************************)
(* Keys stand for one document and answers are honest, for every value of  *)
(* the constants of Booking.  Documents only ever come to be as their      *)
(* requests asked for them, and stay (StoresGrow); so an answer that is    *)
(* true when it is given stays true, and what remains is to see that each  *)
(* handler, whatever it read before, knows what it says.                   *)
(***************************************************************************)
EXTENDS BookingSafetyProofs, FiniteSetTheorems

USE DEF mongo

-----------------------------------------------------------------------------
(* What the stores keep *)

\* Holds and bookings that are there stay, with their user, key and seats; a new one is made
\* by its own request's transaction, of that request's arguments.
StoresGrown ==
    /\ \A h \in HoldCalls : holds[h].status # None =>
         /\ holds'[h].status # None
         /\ holds'[h].user = holds[h].user /\ holds'[h].key = holds[h].key
         /\ holds'[h].seats = holds[h].seats /\ holds'[h].expires = holds[h].expires
    /\ \A h \in HoldCalls : holds[h].status \in HoldStatus \ {"ACTIVE"} => holds'[h] = holds[h]
    /\ \A h \in HoldCalls : holds[h].status = None /\ holds'[h].status # None =>
         HoldCommit(h) /\ holds'[h] = HoldDoc(h)
    /\ bookings \subseteq bookings'
    /\ \A b \in bookings' \ bookings :
         /\ b.id \in ConfirmCalls /\ ConfirmCommit(b.id)
         /\ b.hold = creq[b.id].hold /\ b.user = creq[b.id].user /\ b.key = creq[b.id].key

LEMMA EndHoldKeepsDoc ==
    ASSUME TypeOK, NEW h \in HoldCalls, NEW status, status # None, NEW events,
           EndHold(h, status, events), NEW g \in HoldCalls
    PROVE  /\ holds[g].status # None => holds'[g].status # None
           /\ holds[g].status = None /\ g # h => holds'[g].status = None
           /\ holds'[g].user = holds[g].user /\ holds'[g].key = holds[g].key
           /\ holds'[g].seats = holds[g].seats /\ holds'[g].expires = holds[g].expires
<1>1. holds[g] \in Hold
  BY DEF TypeOK
<1>2. holds'[g] = IF g = h THEN [holds[h] EXCEPT !.status = status] ELSE holds[g]
  BY DEF EndHold, TypeOK
<1> QED BY <1>1, <1>2 DEF Hold

LEMMA StoresGrow ==
    ASSUME SafetyInv, Next
    PROVE  StoresGrown
<1>0. TypeOK /\ StampsArePast /\ IdsAreFresh
  BY DEF SafetyInv
<1>1. \A h \in HoldCalls : holds[h].status \in HoldStatus \ {"ACTIVE"} => holds'[h] = holds[h]
  BY StepsTakeNothingBack DEF TakesNothingBack
<1>2. CASE UNCHANGED mongo
  BY <1>1, <1>2 DEF StoresGrown
<1>3. ASSUME NEW r \in HoldCalls, HoldCommit(r) PROVE StoresGrown
  <2>1. /\ holds[r].status = None /\ holds'[r] = HoldDoc(r) /\ UNCHANGED bookings
        /\ \A h \in HoldCalls \ {r} : holds'[h] = holds[h]
    BY <1>0, <1>3, HoldCommitEffect DEF TypeOK
  <2> QED BY <1>1, <1>3, <2>1 DEF StoresGrown
<1>4. ASSUME NEW c \in ConfirmCalls, ConfirmCommit(c) PROVE StoresGrown
  <2>1. PICK h \in HoldCalls :
          holds[h].status = "ACTIVE" /\ EndHold(h, "CONFIRMED", <<"BOOKING_SUCCESS">>)
    BY <1>0, <1>4, ConfirmCommitEffect
  <2>2. bookings' = bookings \cup {[id |-> c, hold |-> creq[c].hold, user |-> creq[c].user,
                                    key |-> creq[c].key, seats |-> holds[creq[c].hold].seats]}
    BY <1>4 DEF ConfirmCommit
  <2>3. \A b \in bookings' \ bookings :
          /\ b.id \in ConfirmCalls /\ ConfirmCommit(b.id)
          /\ b.hold = creq[b.id].hold /\ b.user = creq[b.id].user /\ b.key = creq[b.id].key
    BY <1>4, <2>2
  <2>4. "CONFIRMED" # None
    BY NoneIsFresh DEF HoldStatus
  <2>5. h \in HoldCalls /\ None # "ACTIVE"
    BY NoneIsFresh DEF HoldStatus
  <2> QED BY <1>0, <1>1, <2>1, <2>2, <2>3, <2>4, <2>5, EndHoldKeepsDoc DEF StoresGrown
<1>5. ASSUME NEW h \in HoldCalls, HoldEnds(h) PROVE StoresGrown
  <2>1. holds[h].status = "ACTIVE" /\ UNCHANGED bookings
    BY <1>0, <1>5, HoldEndsEffect
  <2>2. PICK status \in {"RELEASED", "EXPIRED"} : \E events : EndHold(h, status, events)
    BY <1>5 DEF HoldEnds
  <2>3. status # None /\ None # "ACTIVE"
    BY NoneIsFresh DEF HoldStatus
  <2> QED BY <1>0, <1>1, <2>1, <2>2, <2>3, EndHoldKeepsDoc DEF StoresGrown
<1> QED BY <1>0, <1>2, <1>3, <1>4, <1>5, StepKinds

-----------------------------------------------------------------------------
(* Who moves *)

\* A handler moves in its own steps only, or is lost with its process.
LEMMA HandlersMove ==
    ASSUME TypeOK, Next
    PROVE  /\ \A r \in HoldCalls :
                \/ hreq'[r] = hreq[r]
                \/ HoldStep(r)
                \/ CrashHandler /\ Running(hreq[r]) /\ hreq'[r] = Answered(hreq[r], "LOST", None)
           /\ \A c \in ConfirmCalls :
                \/ creq'[c] = creq[c]
                \/ ConfirmStep(c)
                \/ CrashHandler /\ Running(creq[c]) /\ creq'[c] = Answered(creq[c], "LOST", None)
           /\ \A d \in ReleaseCalls :
                \/ rreq'[d] = rreq[d]
                \/ ReleaseStep(d)
                \/ /\ CrashHandler /\ Running(rreq[d])
                   /\ rreq'[d] = [rreq[d] EXCEPT !.pc = "done", !.reply = "LOST"]
           /\ \A w \in Workers :
                \/ wrk'[w] = wrk[w]
                \/ WorkerStep(w)
                \/ CrashWorker /\ wrk'[w] = IdleWorker
<1> DEFINE HMoves == \A r \in HoldCalls :
             \/ hreq'[r] = hreq[r]
             \/ HoldStep(r)
             \/ CrashHandler /\ Running(hreq[r]) /\ hreq'[r] = Answered(hreq[r], "LOST", None)
           CMoves == \A c \in ConfirmCalls :
             \/ creq'[c] = creq[c]
             \/ ConfirmStep(c)
             \/ CrashHandler /\ Running(creq[c]) /\ creq'[c] = Answered(creq[c], "LOST", None)
           DMoves == \A d \in ReleaseCalls :
             \/ rreq'[d] = rreq[d]
             \/ ReleaseStep(d)
             \/ /\ CrashHandler /\ Running(rreq[d])
                /\ rreq'[d] = [rreq[d] EXCEPT !.pc = "done", !.reply = "LOST"]
           WMoves == \A w \in Workers :
             \/ wrk'[w] = wrk[w]
             \/ WorkerStep(w)
             \/ CrashWorker /\ wrk'[w] = IdleWorker
<1>t. /\ hreq \in [HoldCalls -> HoldReq \cup {IdleHoldReq}]
      /\ creq \in [ConfirmCalls -> ConfirmReq \cup {IdleConfirmReq}]
      /\ rreq \in [ReleaseCalls -> ReleaseReq \cup {IdleReleaseReq}]
      /\ wrk \in [Workers -> Worker \cup {IdleWorker}]
  BY DEF TypeOK
<1>1. ASSUME NEW r \in HoldCalls, HoldStep(r) PROVE HMoves /\ CMoves /\ DMoves /\ WMoves
  <2>1. UNCHANGED <<creq, wrk>> /\ \E req : hreq' = [hreq EXCEPT ![r] = req]
    BY <1>1, HoldReqStep
  <2>2. UNCHANGED rreq
    BY <1>1 DEF HoldStep, HoldLookup, HoldPrepare, HoldAcquire, HoldCommit, HoldAbort, HoldUndo,
                HoldDupe, HoldReadFails
  <2> QED BY <1>1, <1>t, <2>1, <2>2
<1>2. ASSUME NEW c \in ConfirmCalls, ConfirmStep(c) PROVE HMoves /\ CMoves /\ DMoves /\ WMoves
  <2>1. UNCHANGED <<hreq, wrk>> /\ \E req : creq' = [creq EXCEPT ![c] = req]
    BY <1>2, ConfirmReqStep
  <2>2. UNCHANGED rreq
    BY <1>2 DEF ConfirmStep, ConfirmByKey, ConfirmByHold, ConfirmLoad, ConfirmVerify,
                ConfirmStamp, ConfirmReadFails, ConfirmCommit, ConfirmAbort,
                ConfirmRecoverHold, ConfirmRecoverKey, ConfirmCleanup
  <2> QED BY <1>2, <1>t, <2>1, <2>2
<1>3. ASSUME NEW d \in ReleaseCalls, ReleaseStep(d) PROVE HMoves /\ CMoves /\ DMoves /\ WMoves
  <2>1. UNCHANGED <<hreq, creq, wrk>> /\ \E req : rreq' = [rreq EXCEPT ![d] = req]
    BY <1>3 DEF ReleaseStep, ReleaseLoad, ReleaseCommit, ReleaseAbort, ReleaseRecover,
                ReleaseCleanup, AnswerRelease
  <2> QED BY <1>3, <1>t, <2>1
<1>4. ASSUME NEW w \in Workers, WorkerStep(w) PROVE HMoves /\ CMoves /\ DMoves /\ WMoves
  <2>1. UNCHANGED <<hreq, creq>> /\ \E rec : wrk' = [wrk EXCEPT ![w] = rec]
    BY <1>4, WorkerRecStep
  <2>2. UNCHANGED rreq
    BY <1>4 DEF WorkerStep, WorkerSweep, WorkerExpire, WorkerSkip, WorkerReread, WorkerCleanup
  <2> QED BY <1>4, <1>t, <2>1, <2>2
<1>5. CASE Tick \/ RedisRestart
  BY <1>5 DEF Tick, RedisRestart
<1>6. CASE CrashWorker
  BY <1>6, <1>t DEF CrashWorker
<1>7. CASE CrashHandler
  <2>1. WMoves
    BY <1>7 DEF CrashHandler
  <2>2. HMoves
    BY <1>7, <1>t DEF CrashHandler, AnswerHold
  <2>3. CMoves
    BY <1>7, <1>t DEF CrashHandler, AnswerConfirm
  <2>4. DMoves
    BY <1>7, <1>t DEF CrashHandler, AnswerRelease
  <2> QED BY <2>1, <2>2, <2>3, <2>4
<1> QED BY <1>1, <1>2, <1>3, <1>4, <1>5, <1>6, <1>7 DEF Next

-----------------------------------------------------------------------------
(* Keys *)

\* What the unique indexes refuse, no interleaving brings about.
LEMMA OnePerKeyStays ==
    ASSUME SafetyInv, OnePerKey, Next
    PROVE  OnePerKey'
<1>g. StoresGrown
  BY StoresGrow
<1>0. TypeOK /\ StampsArePast /\ IdsAreFresh
  BY DEF SafetyInv
<1>1. ASSUME NEW g \in HoldCalls, NEW h \in HoldCalls,
             holds'[g].status # None, holds'[h].status # None,
             holds'[g].user = holds'[h].user, holds'[g].key = holds'[h].key
      PROVE  g = h
  <2>1. ASSUME NEW r \in HoldCalls, holds[r].status = None, holds'[r].status # None,
               NEW q \in HoldCalls, holds'[q].status # None, q # r
        PROVE  ~(holds'[r].user = holds'[q].user /\ holds'[r].key = holds'[q].key)
    <3>1. HoldCommit(r) /\ holds'[r] = HoldDoc(r)
      BY <2>1, <1>g DEF StoresGrown
    <3>2. holds'[q] = holds[q]
      BY <1>0, <2>1, <3>1, HoldCommitEffect DEF TypeOK
    <3>3. holds'[r].user = hreq[r].user /\ holds'[r].key = hreq[r].key
      BY <3>1 DEF HoldDoc
    <3>4. ASSUME holds'[r].user = holds'[q].user, holds'[r].key = holds'[q].key PROVE FALSE
      <4>1. q \in HoldsByKey(hreq[r].user, hreq[r].key)
        BY <2>1, <3>2, <3>3, <3>4 DEF HoldsByKey
      <4> QED BY <3>1, <4>1 DEF HoldCommit, HoldKeyTaken
    <3> QED BY <3>4
  <2>2. CASE holds[g].status # None /\ holds[h].status # None
    BY <1>1, <1>g, <2>2 DEF StoresGrown, OnePerKey, HoldsByKey
  <2> QED BY <1>1, <2>1, <2>2
<1>2. ASSUME NEW a \in bookings', NEW b \in bookings', a.user = b.user, a.key = b.key
      PROVE  a = b
  <2>1. CASE bookings' = bookings
    BY <1>2, <2>1 DEF OnePerKey
  <2>2. ASSUME NEW c \in ConfirmCalls, ConfirmCommit(c) PROVE a = b
    <3> DEFINE n == [id |-> c, hold |-> creq[c].hold, user |-> creq[c].user,
                     key |-> creq[c].key, seats |-> holds[creq[c].hold].seats]
    <3>1. bookings' = bookings \cup {n} /\ n.user = creq[c].user /\ n.key = creq[c].key
      BY <2>2 DEF ConfirmCommit
    <3>2. \A d \in bookings : ~(d.user = n.user /\ d.key = n.key)
      BY <2>2, <3>1 DEF ConfirmCommit, BookingRejected, BookingsByKey
    <3> HIDE DEF n
    <3> QED BY <1>2, <3>1, <3>2 DEF OnePerKey
  <2> QED BY <1>0, <2>1, <2>2, StepKinds DEF HoldCommit, HoldEnds
<1> QED BY <1>1, <1>2 DEF OnePerKey, HoldsByKey

LEMMA AtMostOne ==
    ASSUME NEW S, \A x, y \in S : x = y
    PROVE  Cardinality(S) <= 1
<1>1. CASE S = {}
  BY <1>1, FS_EmptySet
<1>2. ASSUME NEW x \in S PROVE Cardinality(S) <= 1
  <2>1. S = {x}
    OBVIOUS
  <2> QED BY <2>1, FS_Singleton
<1> QED BY <1>1, <1>2

LEMMA KeysUnique == ASSUME OnePerKey PROVE KeysAreUnique
<1> SUFFICES ASSUME NEW user \in Users, NEW key \in IdemKeys
             PROVE  /\ Cardinality(HoldsByKey(user, key)) <= 1
                    /\ Cardinality(BookingsByKey(user, key)) <= 1
  BY DEF KeysAreUnique
<1>1. \A g, h \in HoldsByKey(user, key) : g = h
  BY DEF OnePerKey, HoldsByKey
<1>2. \A a, b \in BookingsByKey(user, key) : a = b
  BY DEF OnePerKey, BookingsByKey
<1> QED BY <1>1, <1>2, AtMostOne

-----------------------------------------------------------------------------
(* The answers of CreateHold *)

Refusals == {"SHOWTIME_UNAVAILABLE", "SEAT_UNAVAILABLE", "LOCK_UNAVAILABLE"}

\* A request's answer is true.
HoldAnswerTrue(req, r) ==
    /\ req.reply \in {"CREATED", "EXISTING"} =>
         /\ req.result \in HoldCalls /\ holds[req.result].status # None
         /\ holds[req.result].user = req.user /\ holds[req.result].key = req.key
         /\ holds[req.result].seats = req.seats
    /\ req.reply = "KEY_REUSED" =>
         \E g \in HoldCalls : /\ holds[g].status # None /\ holds[g].user = req.user
                              /\ holds[g].key = req.key /\ holds[g].seats # req.seats
    /\ req.reply \in Refusals \cup {"EXISTING", "KEY_REUSED"} => holds[r].status = None

\* A handler at work has not answered, and knows whether there is a hold of its own.
HoldWorkKnown(req, r) ==
    /\ req.reply # "" => req.pc = "done"
    /\ req.pc = "dupe" \/ (req.pc = "undo" /\ req.err # "failed") => holds[r].status = None
    /\ holds[r].status # None =>
         holds[r].user = req.user /\ holds[r].key = req.key /\ holds[r].seats = req.seats

HoldFine(r) == HoldAnswerTrue(hreq[r], r) /\ HoldWorkKnown(hreq[r], r)

LEMMA HoldParts ==
    (HoldReqsKnow /\ HoldAnswersHonest) <=> (\A r \in HoldCalls : HoldFine(r))
<1>1. ASSUME HoldReqsKnow, HoldAnswersHonest, NEW r \in HoldCalls PROVE HoldFine(r)
  <2>1. HoldWorkKnown(hreq[r], r)
    BY <1>1 DEF HoldReqsKnow, HoldWorkKnown
  <2>2. HoldAnswerTrue(hreq[r], r)
    BY <1>1 DEF HoldReqsKnow, HoldAnswersHonest, HoldAnswerTrue, Refusals, HoldsByKey
  <2> QED BY <2>1, <2>2 DEF HoldFine
<1>2. ASSUME \A r \in HoldCalls : HoldFine(r) PROVE HoldReqsKnow
  BY <1>2 DEF HoldReqsKnow, HoldFine, HoldAnswerTrue, HoldWorkKnown
<1>3. ASSUME \A r \in HoldCalls : HoldFine(r) PROVE HoldAnswersHonest
  BY <1>3 DEF HoldAnswersHonest, HoldFine, HoldAnswerTrue, Refusals, HoldsByKey
<1> QED BY <1>1, <1>2, <1>3

\* While other processes move, what a request was answered stays true.
LEMMA HoldFineStays ==
    ASSUME SafetyInv, Next, NEW r \in HoldCalls, HoldFine(r), hreq'[r] = hreq[r]
    PROVE  HoldFine(r)'
<1>g. StoresGrown
  BY StoresGrow
<1>1. ~HoldCommit(r)
  <2>1. TypeOK
    BY DEF SafetyInv
  <2> QED BY <2>1, ReqSteps DEF HoldCommit, BeforeHold
<1>2. holds[r].status = None => holds'[r].status = None
  BY <1>1, <1>g DEF StoresGrown
<1> QED BY <1>g, <1>2 DEF HoldFine, HoldAnswerTrue, HoldWorkKnown, StoresGrown

LEMMA AnsweredHoldFields ==
    ASSUME NEW req \in HoldReq, NEW reply, NEW h
    PROVE  LET ans == Answered(req, reply, h)
           IN /\ ans.pc = "done" /\ ans.reply = reply /\ ans.result = h
              /\ ans.user = req.user /\ ans.key = req.key /\ ans.seats = req.seats
BY DEF Answered, HoldReq

\* The step of a request's own handler gives an answer that is true at that moment.
LEMMA HoldFineMoves ==
    ASSUME SafetyInv, Next, NEW r \in HoldCalls, HoldFine(r), HoldStep(r)
    PROVE  HoldFine(r)'
<1>0. TypeOK /\ StampsArePast /\ IdsAreFresh
  BY DEF SafetyInv
<1>r. hreq[r].pc # "idle" => hreq[r] \in HoldReq
  <2>1. hreq[r] \in HoldReq \/ hreq[r] = IdleHoldReq
    BY <1>0 DEF TypeOK
  <2> QED BY <2>1, IdlePC
<1>h. ASSUME NEW req, hreq' = [hreq EXCEPT ![r] = req] PROVE hreq'[r] = req
  BY <1>0, <1>h DEF TypeOK
<1>a. ASSUME NEW q \in HoldReq, NEW reply, NEW h, hreq'[r] = Answered(q, reply, h),
             HoldAnswerTrue(Answered(q, reply, h), r), UNCHANGED holds,
             holds[r].status # None =>
               holds[r].user = q.user /\ holds[r].key = q.key /\ holds[r].seats = q.seats
      PROVE  HoldFine(r)'
  <2>1. HoldAnswerTrue(hreq[r], r)'
    BY <1>a DEF HoldAnswerTrue
  <2>2. HoldWorkKnown(hreq[r], r)'
    <3>1. /\ hreq'[r].pc = "done" /\ hreq'[r].user = q.user /\ hreq'[r].key = q.key
          /\ hreq'[r].seats = q.seats
      BY <1>a, AnsweredHoldFields
    <3> QED BY <1>a, <3>1 DEF HoldWorkKnown
  <2> QED BY <2>1, <2>2 DEF HoldFine
<1>f. ASSUME hreq[r].pc # "idle", UNCHANGED holds, NEW reply, AnswerHold(r, reply, None),
             reply = "FAILED" \/ (reply \in Refusals /\ holds[r].status = None)
      PROVE  HoldFine(r)'
  <2>1. HoldAnswerTrue(Answered(hreq[r], reply, None), r)
    BY <1>r, <1>f, AnsweredHoldFields DEF HoldAnswerTrue, Refusals
  <2> QED BY <1>r, <1>f, <1>a, <1>h, <2>1 DEF AnswerHold, HoldFine, HoldWorkKnown
<1>k. ASSUME NEW q \in HoldReq, NEW h \in HoldsByKey(q.user, q.key), holds[r].status = None,
             hreq'[r] = AnsweredByHold(q, h), UNCHANGED holds
      PROVE  HoldFine(r)'
  <2>1. CASE holds[h].seats = q.seats
    <3>1. HoldAnswerTrue(Answered(q, "EXISTING", h), r)
      BY <1>k, <2>1, AnsweredHoldFields DEF HoldAnswerTrue, HoldsByKey
    <3> QED BY <1>k, <1>a, <2>1, <3>1 DEF AnsweredByHold, SameHoldRequest
  <2>2. CASE holds[h].seats # q.seats
    <3>1. HoldAnswerTrue(Answered(q, "KEY_REUSED", None), r)
      BY <1>k, <2>2, AnsweredHoldFields DEF HoldAnswerTrue, HoldsByKey
    <3> QED BY <1>k, <1>a, <2>2, <3>1 DEF AnsweredByHold, SameHoldRequest
  <2> QED BY <2>1, <2>2
<1>w. ASSUME hreq[r].pc \notin {"idle", "done"}, UNCHANGED holds, NEW q \in HoldReq,
             hreq' = [hreq EXCEPT ![r] = q], q.reply = hreq[r].reply,
             q.user = hreq[r].user, q.key = hreq[r].key, q.seats = hreq[r].seats,
             q.pc \in {"acquire", "tx"} \/ holds[r].status = None
      PROVE  HoldFine(r)'
  <2>1. hreq[r].reply = "" /\ hreq'[r] = q
    BY <1>w, <1>h DEF HoldFine, HoldWorkKnown
  <2> QED BY <1>w, <2>1 DEF HoldFine, HoldAnswerTrue, HoldWorkKnown, Refusals
<1>1. CASE HoldLookup(r)
  <2>1. PICK user \in Users, S \in (SUBSET Seats) \ {{}}, key \in IdemKeys :
          \/ hreq' = [hreq EXCEPT ![r] = NewHoldReq(user, S, key)]
          \/ \E h \in HoldsByKey(user, key) :
               hreq' = [hreq EXCEPT ![r] = AnsweredByHold(NewHoldReq(user, S, key), h)]
    BY <1>1 DEF HoldLookup
  <2> DEFINE q == NewHoldReq(user, S, key)
  <2>2. /\ q \in HoldReq /\ q.user = user /\ q.key = key /\ q.reply = ""
        /\ q.pc = "prepare"
    BY DEF NewHoldReq, HoldReq
  <2>3. holds[r].status = None /\ UNCHANGED holds
    BY <1>0, <1>1 DEF HoldLookup, IdsAreFresh
  <2> HIDE DEF q
  <2>4. CASE hreq' = [hreq EXCEPT ![r] = q]
    BY <1>h, <2>2, <2>3, <2>4 DEF HoldFine, HoldAnswerTrue, HoldWorkKnown, Refusals
  <2>5. CASE \E h \in HoldsByKey(user, key) : hreq' = [hreq EXCEPT ![r] = AnsweredByHold(q, h)]
    BY <1>h, <1>k, <2>2, <2>3, <2>5
  <2> QED BY <2>1, <2>4, <2>5 DEF q
<1>2. CASE HoldPrepare(r)
  <2>1. hreq[r].pc = "prepare" /\ UNCHANGED holds /\ holds[r].status = None
    BY <1>0, <1>2 DEF HoldPrepare, IdsAreFresh
  <2>2. CASE AnswerHold(r, "SHOWTIME_UNAVAILABLE", None)
    BY <1>f, <2>1, <2>2 DEF Refusals
  <2>3. CASE hreq' = [hreq EXCEPT ![r] = [@ EXCEPT !.pc = "acquire", !.now = clock]]
    <3> DEFINE q == [hreq[r] EXCEPT !.pc = "acquire", !.now = clock]
    <3>1. /\ q \in HoldReq /\ q.reply = hreq[r].reply /\ q.pc = "acquire"
          /\ q.user = hreq[r].user /\ q.key = hreq[r].key /\ q.seats = hreq[r].seats
      BY <1>0, <1>r, <2>1 DEF HoldReq, TypeOK
    <3>2. hreq' = [hreq EXCEPT ![r] = q]
      BY <2>3
    <3> HIDE DEF q
    <3> QED BY <1>w, <2>1, <3>1, <3>2
  <2> QED BY <1>2, <2>2, <2>3 DEF HoldPrepare
<1>3. CASE HoldAcquire(r)
  <2>1. hreq[r].pc = "acquire" /\ UNCHANGED holds /\ holds[r].status = None
    BY <1>0, <1>3 DEF HoldAcquire, IdsAreFresh
  <2>2. ASSUME NEW reply \in {"SEAT_UNAVAILABLE", "LOCK_UNAVAILABLE"}, AnswerHold(r, reply, None)
        PROVE  HoldFine(r)'
    BY <1>f, <2>1, <2>2 DEF Refusals
  <2>3. CASE hreq' = [hreq EXCEPT ![r].pc = "tx"]
    <3> DEFINE q == [hreq[r] EXCEPT !.pc = "tx"]
    <3>1. /\ q \in HoldReq /\ q.reply = hreq[r].reply /\ q.pc = "tx"
          /\ q.user = hreq[r].user /\ q.key = hreq[r].key /\ q.seats = hreq[r].seats
      BY <1>r, <2>1 DEF HoldReq
    <3>2. hreq' = [hreq EXCEPT ![r] = q]
      BY <2>3
    <3> HIDE DEF q
    <3> QED BY <1>w, <2>1, <3>1, <3>2
  <2> QED BY <1>3, <2>2, <2>3 DEF HoldAcquire
<1>4. CASE HoldCommit(r)
  <2>1. hreq[r] \in HoldReq /\ hreq[r].reply = ""
    BY <1>4, <1>r DEF HoldCommit, HoldFine, HoldWorkKnown
  <2>2. holds'[r] = HoldDoc(r) /\ HoldDoc(r).status # None
    BY <1>0, <1>4, NoneIsFresh, HoldCommitEffect DEF HoldStatus
  <2>3. HoldDoc(r).user = hreq[r].user /\ HoldDoc(r).key = hreq[r].key
        /\ HoldDoc(r).seats = hreq[r].seats
    BY DEF HoldDoc
  <2>4. CASE AnswerHold(r, "CREATED", r)
    <3>1. hreq'[r] = Answered(hreq[r], "CREATED", r)
      BY <1>h, <2>4 DEF AnswerHold
    <3> DEFINE q == hreq[r]
    <3>q. q \in HoldReq /\ hreq'[r] = Answered(q, "CREATED", r)
      BY <2>1, <3>1
    <3> HIDE DEF q
    <3>a. /\ hreq'[r].pc = "done" /\ hreq'[r].reply = "CREATED" /\ hreq'[r].result = r
          /\ hreq'[r].user = q.user /\ hreq'[r].key = q.key /\ hreq'[r].seats = q.seats
      BY <3>q, AnsweredHoldFields
    <3>2. /\ hreq'[r].pc = "done" /\ hreq'[r].reply = "CREATED" /\ hreq'[r].result = r
          /\ hreq'[r].user = hreq[r].user /\ hreq'[r].key = hreq[r].key
          /\ hreq'[r].seats = hreq[r].seats
      BY <3>a DEF q
    <3> QED BY <2>2, <2>3, <3>2
            DEF HoldFine, HoldAnswerTrue, HoldWorkKnown, Refusals
  <2>5. CASE hreq' = [hreq EXCEPT ![r] = [@ EXCEPT !.pc = "undo", !.err = "failed"]]
    <3>1. hreq'[r] = [hreq[r] EXCEPT !.pc = "undo", !.err = "failed"]
      BY <1>h, <2>5
    <3>2. /\ hreq'[r].pc = "undo" /\ hreq'[r].err = "failed" /\ hreq'[r].reply = ""
          /\ hreq'[r].user = hreq[r].user /\ hreq'[r].key = hreq[r].key
          /\ hreq'[r].seats = hreq[r].seats
      BY <2>1, <3>1 DEF HoldReq
    <3> QED BY <2>2, <2>3, <3>2 DEF HoldFine, HoldAnswerTrue, HoldWorkKnown, Refusals
  <2> QED BY <1>4, <2>4, <2>5 DEF HoldCommit
<1>5. CASE HoldAbort(r)
  <2>1. hreq[r].pc = "tx" /\ UNCHANGED holds /\ holds[r].status = None
    BY <1>0, <1>5 DEF HoldAbort, IdsAreFresh
  <2>2. PICK err \in {"mismatch", "duplicate", "failed"} :
          hreq' = [hreq EXCEPT ![r] = [@ EXCEPT !.pc = "undo", !.err = err]]
    BY <1>5 DEF HoldAbort
  <2> DEFINE q == [hreq[r] EXCEPT !.pc = "undo", !.err = err]
  <2>3. /\ q \in HoldReq /\ q.reply = hreq[r].reply
        /\ q.user = hreq[r].user /\ q.key = hreq[r].key /\ q.seats = hreq[r].seats
    BY <1>r, <2>1 DEF HoldReq
  <2>4. hreq' = [hreq EXCEPT ![r] = q]
    BY <2>2
  <2> HIDE DEF q
  <2> QED BY <1>w, <2>1, <2>3, <2>4
<1>6. CASE HoldUndo(r)
  <2>1. hreq[r].pc = "undo" /\ UNCHANGED holds
    BY <1>6 DEF HoldUndo
  <2>2. hreq[r].err # "failed" => holds[r].status = None
    BY <2>1 DEF HoldFine, HoldWorkKnown
  <2>3. hreq[r] \in HoldReq
    BY <1>r, <2>1
  <2>4. CASE hreq[r].err = "duplicate"
    <3> DEFINE q == [hreq[r] EXCEPT !.pc = "dupe"]
    <3>1. /\ q \in HoldReq /\ q.reply = hreq[r].reply
          /\ q.user = hreq[r].user /\ q.key = hreq[r].key /\ q.seats = hreq[r].seats
      BY <2>3 DEF HoldReq
    <3>2. hreq' = [hreq EXCEPT ![r] = q]
      BY <1>6, <2>4 DEF HoldUndo
    <3> HIDE DEF q
    <3> QED BY <1>w, <2>1, <2>2, <2>4, <3>1, <3>2
  <2>5. CASE hreq[r].err = "mismatch"
    <3>1. AnswerHold(r, "SEAT_UNAVAILABLE", None)
      BY <1>6, <2>5 DEF HoldUndo, AnswerHold
    <3> QED BY <1>f, <2>1, <2>2, <2>5, <3>1 DEF Refusals
  <2>6. CASE hreq[r].err \notin {"duplicate", "mismatch"}
    <3>1. AnswerHold(r, "FAILED", None)
      BY <1>6, <2>6 DEF HoldUndo, AnswerHold
    <3> QED BY <1>f, <2>1, <3>1
  <2> QED BY <2>4, <2>5, <2>6
<1>7. CASE HoldDupe(r)
  <2>1. hreq[r].pc = "dupe" /\ UNCHANGED holds /\ hreq[r] \in HoldReq
    BY <1>7, <1>r DEF HoldDupe
  <2>2. holds[r].status = None
    BY <2>1 DEF HoldFine, HoldWorkKnown
  <2>3. PICK h \in HoldsByKey(hreq[r].user, hreq[r].key) :
          hreq' = [hreq EXCEPT ![r] = AnsweredByHold(hreq[r], h)]
    BY <1>7 DEF HoldDupe
  <2> QED BY <1>h, <1>k, <2>1, <2>2, <2>3
<1>8. CASE HoldReadFails(r)
  BY <1>8, <1>f DEF HoldReadFails
<1> QED BY <1>1, <1>2, <1>3, <1>4, <1>5, <1>6, <1>7, <1>8 DEF HoldStep

\* No step of anyone makes a true answer to a CreateHold request false.
LEMMA HoldFineStep ==
    ASSUME SafetyInv, Next, NEW r \in HoldCalls, HoldFine(r)
    PROVE  HoldFine(r)'
<1>0. TypeOK
  BY DEF SafetyInv
<1>1. CASE /\ CrashHandler /\ Running(hreq[r])
           /\ hreq'[r] = Answered(hreq[r], "LOST", None)
  <2>1. hreq[r] \in HoldReq \/ hreq[r] = IdleHoldReq
    BY <1>0 DEF TypeOK
  <2>2. hreq[r] \in HoldReq
    BY <1>1, <2>1, IdlePC DEF Running
  <2>3. /\ hreq'[r].pc = "done" /\ hreq'[r].reply = "LOST" /\ hreq'[r].user = hreq[r].user
        /\ hreq'[r].key = hreq[r].key /\ hreq'[r].seats = hreq[r].seats
    BY <1>1, <2>2 DEF Answered, HoldReq
  <2>4. UNCHANGED holds
    BY <1>1 DEF CrashHandler
  <2> QED BY <2>3, <2>4 DEF HoldFine, HoldAnswerTrue, HoldWorkKnown, Refusals
<1> QED BY <1>0, <1>1, HandlersMove, HoldFineStays, HoldFineMoves

-----------------------------------------------------------------------------
(* The answers of Confirm *)

ConfirmRefusals == {"KEY_REUSED", "NOT_FOUND", "FORBIDDEN", "HOLD_EXPIRED", "LOCK_UNAVAILABLE"}

NoBookingOf(c) == \A b \in bookings : b.id # c

ConfirmAnswerTrue(req, c) ==
    /\ req.reply \in {"CREATED", "EXISTING"} =>
         \E b \in bookings : b.id = req.result /\ b.hold = req.hold /\ b.user = req.user
    /\ req.reply = "KEY_REUSED" =>
         \E b \in bookings : b.user = req.user /\ b.key = req.key /\ b.hold # req.hold
    /\ req.reply \in ConfirmRefusals => NoBookingOf(c)

ConfirmWorkKnown(req, c) ==
    /\ req.reply # "" => req.pc = "done"
    /\ \A b \in bookings : b.id = c =>
         /\ b.hold = req.hold /\ b.user = req.user /\ b.key = req.key
         /\ req.pc \in {"recoverHold", "recoverKey"} => req.err = "failed"
    /\ req.pc = "cleanup" => ~NoBookingOf(c) /\ holds[req.hold].status = "CONFIRMED"

ConfirmFine(c) == ConfirmAnswerTrue(creq[c], c) /\ ConfirmWorkKnown(creq[c], c)

\* While other processes move, what a confirmation was answered stays true.
LEMMA ConfirmFineStays ==
    ASSUME SafetyInv, Next, NEW c \in ConfirmCalls, ConfirmFine(c), creq'[c] = creq[c]
    PROVE  ConfirmFine(c)'
<1>0. TypeOK
  BY DEF SafetyInv
<1>g. StoresGrown
  BY StoresGrow
<1>1. ~ConfirmCommit(c)
  BY <1>0, ReqSteps DEF ConfirmCommit, BeforeBooking
<1>2. /\ bookings \subseteq bookings'
      /\ \A b \in bookings' : b.id = c => b \in bookings
  BY <1>1, <1>g DEF StoresGrown
<1>3. creq[c].pc = "cleanup" => creq[c].hold \in HoldCalls
  <2>1. creq[c] \in ConfirmReq \/ creq[c] = IdleConfirmReq
    BY <1>0 DEF TypeOK
  <2> QED BY <2>1, IdlePC DEF ConfirmReq
<1>4. ConfirmAnswerTrue(creq[c], c)'
  BY <1>2 DEF ConfirmFine, ConfirmAnswerTrue, NoBookingOf
<1>5. ConfirmWorkKnown(creq[c], c)'
  <2>1. ASSUME creq[c].pc = "cleanup"
        PROVE  ~NoBookingOf(c)' /\ holds'[creq[c].hold].status = "CONFIRMED"
    <3>1. ~NoBookingOf(c) /\ holds[creq[c].hold].status = "CONFIRMED"
      BY <2>1 DEF ConfirmFine, ConfirmWorkKnown
    <3>2. holds'[creq[c].hold] = holds[creq[c].hold]
      BY <1>g, <1>3, <2>1, <3>1 DEF StoresGrown, HoldStatus
    <3> QED BY <1>2, <3>1, <3>2 DEF NoBookingOf
  <2>2. creq[c].reply # "" => creq[c].pc = "done"
    BY DEF ConfirmFine, ConfirmWorkKnown
  <2>3. \A b \in bookings' : b.id = c =>
          /\ b.hold = creq[c].hold /\ b.user = creq[c].user /\ b.key = creq[c].key
          /\ creq[c].pc \in {"recoverHold", "recoverKey"} => creq[c].err = "failed"
    BY <1>2 DEF ConfirmFine, ConfirmWorkKnown
  <2> QED BY <2>1, <2>2, <2>3 DEF ConfirmWorkKnown
<1> QED BY <1>4, <1>5 DEF ConfirmFine

LEMMA RecoveringFields ==
    ASSUME NEW req \in ConfirmReq, NEW err \in {"expired", "failed"}
    PROVE  LET rec == [req EXCEPT !.pc = "recoverHold", !.err = err]
           IN /\ rec \in ConfirmReq /\ rec.reply = req.reply /\ rec.pc = "recoverHold"
              /\ rec.err = err /\ rec.user = req.user /\ rec.key = req.key
              /\ rec.hold = req.hold
BY DEF ConfirmReq

LEMMA AnsweredConfirmFields ==
    ASSUME NEW req \in ConfirmReq, NEW reply, NEW b
    PROVE  LET ans == Answered(req, reply, b)
           IN /\ ans.pc = "done" /\ ans.reply = reply /\ ans.result = b
              /\ ans.user = req.user /\ ans.key = req.key /\ ans.hold = req.hold
BY DEF Answered, ConfirmReq

\* The step of a confirmation's own handler gives an answer that is true at that moment.
LEMMA ConfirmFineMoves ==
    ASSUME SafetyInv, OnePerKey, Next, NEW c \in ConfirmCalls, ConfirmFine(c), ConfirmStep(c)
    PROVE  ConfirmFine(c)'
<1>0. TypeOK /\ IdsAreFresh
  BY DEF SafetyInv
<1>c. creq[c].pc # "idle" => creq[c] \in ConfirmReq
  <2>1. creq[c] \in ConfirmReq \/ creq[c] = IdleConfirmReq
    BY <1>0 DEF TypeOK
  <2> QED BY <2>1, IdlePC
<1>h. ASSUME NEW req, creq' = [creq EXCEPT ![c] = req] PROVE creq'[c] = req
  BY <1>0, <1>h DEF TypeOK
<1>n. creq[c].pc \in BeforeBooking => NoBookingOf(c)
  BY <1>0 DEF IdsAreFresh, BeforeBooking, NoBookingOf
<1>q. ASSUME NEW q \in ConfirmReq, NEW reply, NEW res, UNCHANGED <<holds, bookings>>,
             creq'[c] = Answered(q, reply, res),
             reply \in {"CREATED", "EXISTING"} =>
               \E b \in bookings : b.id = res /\ b.hold = q.hold /\ b.user = q.user,
             reply = "KEY_REUSED" =>
               \E b \in bookings : b.user = q.user /\ b.key = q.key /\ b.hold # q.hold,
             reply \in ConfirmRefusals => NoBookingOf(c),
             \A b \in bookings : b.id = c =>
               b.hold = q.hold /\ b.user = q.user /\ b.key = q.key
      PROVE  ConfirmFine(c)'
  <2>1. /\ creq'[c].pc = "done" /\ creq'[c].reply = reply /\ creq'[c].result = res
        /\ creq'[c].user = q.user /\ creq'[c].key = q.key /\ creq'[c].hold = q.hold
    BY <1>q, AnsweredConfirmFields
  <2>2. ConfirmAnswerTrue(creq[c], c)'
    BY <1>q, <2>1 DEF ConfirmAnswerTrue, NoBookingOf
  <2>3. ConfirmWorkKnown(creq[c], c)'
    BY <1>q, <2>1 DEF ConfirmWorkKnown
  <2> QED BY <2>2, <2>3 DEF ConfirmFine
<1>a. ASSUME creq[c].pc # "idle", UNCHANGED <<holds, bookings>>, NEW reply, NEW res,
             AnswerConfirm(c, reply, res),
             reply \in {"CREATED", "EXISTING"} =>
               \E b \in bookings : b.id = res /\ b.hold = creq[c].hold /\ b.user = creq[c].user,
             reply = "KEY_REUSED" =>
               \E b \in bookings : /\ b.user = creq[c].user /\ b.key = creq[c].key
                                   /\ b.hold # creq[c].hold,
             reply \in ConfirmRefusals => NoBookingOf(c)
      PROVE  ConfirmFine(c)'
  <2>1. creq'[c] = Answered(creq[c], reply, res)
    BY <1>a, <1>h DEF AnswerConfirm
  <2>2. \A b \in bookings : b.id = c =>
          b.hold = creq[c].hold /\ b.user = creq[c].user /\ b.key = creq[c].key
    BY DEF ConfirmFine, ConfirmWorkKnown
  <2> QED BY <1>a, <1>c, <1>q, <2>1, <2>2
<1>w. ASSUME creq[c].pc \notin {"idle", "done"}, UNCHANGED <<holds, bookings>>,
             NEW q \in ConfirmReq, creq'[c] = q, q.reply = creq[c].reply,
             q.user = creq[c].user, q.key = creq[c].key, q.hold = creq[c].hold,
             q.pc # "cleanup", q.err = "failed" \/ NoBookingOf(c)
      PROVE  ConfirmFine(c)'
  <2>1. creq[c].reply = ""
    BY <1>w DEF ConfirmFine, ConfirmWorkKnown
  <2>2. ConfirmAnswerTrue(creq[c], c)'
    BY <1>w, <2>1 DEF ConfirmAnswerTrue, ConfirmRefusals
  <2>3. ConfirmWorkKnown(creq[c], c)'
    BY <1>w, <2>1 DEF ConfirmFine, ConfirmWorkKnown, NoBookingOf
  <2> QED BY <2>2, <2>3 DEF ConfirmFine
<1>p. ASSUME creq[c].pc \notin {"idle", "done"}, UNCHANGED <<holds, bookings>>,
             NEW pc \in {"load", "verify", "stamp", "recoverKey"},
             creq' = [creq EXCEPT ![c].pc = pc],
             creq[c].err = "failed" \/ NoBookingOf(c)
      PROVE  ConfirmFine(c)'
  <2> DEFINE q == [creq[c] EXCEPT !.pc = pc]
  <2>1. creq'[c] = q
    BY <1>p, <1>h
  <2>2. /\ q \in ConfirmReq /\ q.reply = creq[c].reply /\ q.pc # "cleanup"
        /\ q.user = creq[c].user /\ q.key = creq[c].key /\ q.hold = creq[c].hold
        /\ q.err = creq[c].err
    BY <1>p, <1>c DEF ConfirmReq
  <2> HIDE DEF q
  <2> QED BY <1>p, <1>w, <2>1, <2>2
<1>1. CASE ConfirmByKey(c)
  <2>1. PICK user \in Users, h \in HoldCalls, key \in IdemKeys :
          LET req == NewConfirmReq(user, h, key) IN
          \/ creq' = [creq EXCEPT ![c] = req]
          \/ \E b \in BookingsByKey(user, key) :
               creq' = [creq EXCEPT ![c] = IF b.hold = h THEN Answered(req, "EXISTING", b.id)
                                           ELSE Answered(req, "KEY_REUSED", None)]
    BY <1>1 DEF ConfirmByKey
  <2> DEFINE q == NewConfirmReq(user, h, key)
  <2>2. /\ q \in ConfirmReq /\ q.user = user /\ q.key = key /\ q.hold = h /\ q.reply = ""
        /\ q.pc = "byHold"
    BY DEF NewConfirmReq, ConfirmReq
  <2>3. NoBookingOf(c) /\ UNCHANGED <<holds, bookings>>
    BY <1>1, <1>n DEF ConfirmByKey, BeforeBooking
  <2>o. \/ creq' = [creq EXCEPT ![c] = q]
        \/ \E b \in BookingsByKey(user, key) :
             creq' = [creq EXCEPT ![c] = IF b.hold = h THEN Answered(q, "EXISTING", b.id)
                                         ELSE Answered(q, "KEY_REUSED", None)]
    BY <2>1
  <2> HIDE DEF q
  <2>4. CASE creq' = [creq EXCEPT ![c] = q]
    <3>1. creq'[c] = q
      BY <1>h, <2>4
    <3>2. ConfirmAnswerTrue(creq[c], c)'
      BY <2>2, <3>1 DEF ConfirmAnswerTrue, ConfirmRefusals
    <3>3. ConfirmWorkKnown(creq[c], c)'
      BY <2>2, <2>3, <3>1 DEF ConfirmWorkKnown, NoBookingOf
    <3> QED BY <3>2, <3>3 DEF ConfirmFine
  <2>5. ASSUME NEW b \in BookingsByKey(user, key),
               creq' = [creq EXCEPT ![c] = IF b.hold = h THEN Answered(q, "EXISTING", b.id)
                                           ELSE Answered(q, "KEY_REUSED", None)]
        PROVE  ConfirmFine(c)'
    <3>1. b \in bookings /\ b.user = q.user /\ b.key = q.key
      BY <2>2, <2>5 DEF BookingsByKey
    <3>2. CASE b.hold = h
      <4>1. creq'[c] = Answered(q, "EXISTING", b.id)
        BY <1>h, <2>5, <3>2
      <4>2. "EXISTING" \notin ConfirmRefusals /\ "EXISTING" # "KEY_REUSED"
        BY DEF ConfirmRefusals
      <4>3. \E d \in bookings : d.id = b.id /\ d.hold = q.hold /\ d.user = q.user
        BY <2>2, <3>1, <3>2
      <4>4. \A d \in bookings : d.id = c =>
              d.hold = q.hold /\ d.user = q.user /\ d.key = q.key
        BY <2>3 DEF NoBookingOf
      <4>5. /\ creq'[c].pc = "done" /\ creq'[c].reply = "EXISTING" /\ creq'[c].result = b.id
            /\ creq'[c].user = q.user /\ creq'[c].key = q.key /\ creq'[c].hold = q.hold
        BY <2>2, <4>1 DEF Answered, ConfirmReq
      <4>6. ConfirmAnswerTrue(creq[c], c)'
        BY <2>3, <4>2, <4>3, <4>5 DEF ConfirmAnswerTrue
      <4>7. ConfirmWorkKnown(creq[c], c)'
        BY <2>3, <4>4, <4>5 DEF ConfirmWorkKnown
      <4> QED BY <4>6, <4>7 DEF ConfirmFine
    <3>3. CASE b.hold # h
      <4>1. creq'[c] = Answered(q, "KEY_REUSED", None)
        BY <1>h, <2>5, <3>3
      <4> QED BY <1>q, <2>2, <2>3, <3>1, <3>3, <4>1 DEF NoBookingOf
    <3> QED BY <3>2, <3>3
  <2> QED BY <2>o, <2>4, <2>5
<1>o. ASSUME creq[c].pc # "idle", UNCHANGED <<holds, bookings>>,
             NEW b \in OwnBookings(c), AnswerConfirm(c, "EXISTING", b.id)
      PROVE  ConfirmFine(c)'
  BY <1>a, <1>o DEF OwnBookings, BookingsByHold, ConfirmRefusals
<1>2. CASE ConfirmByHold(c)
  <2>1. creq[c].pc = "byHold" /\ UNCHANGED <<holds, bookings>> /\ NoBookingOf(c)
    BY <1>2, <1>n DEF ConfirmByHold, BeforeBooking
  <2> QED BY <1>2, <1>o, <1>p, <2>1 DEF ConfirmByHold
<1>3. CASE ConfirmLoad(c)
  <2>1. creq[c].pc = "load" /\ UNCHANGED <<holds, bookings>> /\ NoBookingOf(c)
    BY <1>3, <1>n DEF ConfirmLoad, BeforeBooking
  <2>2. \/ \E reply \in {"NOT_FOUND", "FORBIDDEN", "HOLD_EXPIRED"} : AnswerConfirm(c, reply, None)
        \/ creq' = [creq EXCEPT ![c].pc = "verify"]
    BY <1>3 DEF ConfirmLoad
  <2> QED BY <1>a, <1>p, <2>1, <2>2
<1>4. CASE ConfirmVerify(c)
  <2>1. creq[c].pc = "verify" /\ UNCHANGED <<holds, bookings>> /\ NoBookingOf(c)
    BY <1>4, <1>n DEF ConfirmVerify, BeforeBooking
  <2>2. \/ \E reply \in {"LOCK_UNAVAILABLE", "HOLD_EXPIRED"} : AnswerConfirm(c, reply, None)
        \/ creq' = [creq EXCEPT ![c].pc = "stamp"]
    BY <1>4 DEF ConfirmVerify
  <2> QED BY <1>a, <1>p, <2>1, <2>2
<1>5. CASE ConfirmStamp(c)
  <2>1. creq[c].pc = "stamp" /\ UNCHANGED <<holds, bookings>> /\ NoBookingOf(c)
    BY <1>5, <1>n DEF ConfirmStamp, BeforeBooking
  <2> DEFINE q == [creq[c] EXCEPT !.pc = "tx", !.now = clock]
  <2>2. /\ q \in ConfirmReq /\ q.reply = creq[c].reply /\ q.pc # "cleanup"
        /\ q.user = creq[c].user /\ q.key = creq[c].key /\ q.hold = creq[c].hold
    BY <1>0, <1>c, <2>1 DEF ConfirmReq, TypeOK
  <2>3. creq'[c] = q
    BY <1>5, <1>h DEF ConfirmStamp
  <2> HIDE DEF q
  <2> QED BY <1>w, <2>1, <2>2, <2>3
<1>6. CASE ConfirmReadFails(c)
  BY <1>6, <1>a DEF ConfirmReadFails, ConfirmRefusals
<1>e. ASSUME creq[c].pc = "tx", NEW err \in {"expired", "failed"},
             creq' = [creq EXCEPT ![c] = [@ EXCEPT !.pc = "recoverHold", !.err = err]]
      PROVE  /\ creq'[c] \in ConfirmReq /\ creq'[c].reply = creq[c].reply
             /\ creq'[c].pc = "recoverHold" /\ creq'[c].err = err
             /\ creq'[c].user = creq[c].user /\ creq'[c].key = creq[c].key
             /\ creq'[c].hold = creq[c].hold
  <2>1. creq'[c] = [creq[c] EXCEPT !.pc = "recoverHold", !.err = err]
    BY <1>h, <1>e
  <2>e. err \in {"expired", "failed"}
    BY <1>e
  <2> DEFINE q == creq[c]
  <2>2. q \in ConfirmReq /\ creq'[c] = [q EXCEPT !.pc = "recoverHold", !.err = err]
    BY <1>c, <1>e, <2>1
  <2> HIDE DEF q
  <2>3. /\ creq'[c] \in ConfirmReq /\ creq'[c].reply = q.reply
        /\ creq'[c].pc = "recoverHold" /\ creq'[c].err = err
        /\ creq'[c].user = q.user /\ creq'[c].key = q.key /\ creq'[c].hold = q.hold
    <3>1. LET rec == [q EXCEPT !.pc = "recoverHold", !.err = err]
          IN /\ rec \in ConfirmReq /\ rec.reply = q.reply /\ rec.pc = "recoverHold"
             /\ rec.err = err /\ rec.user = q.user /\ rec.key = q.key
             /\ rec.hold = q.hold
      BY <2>e, <2>2, RecoveringFields
    <3> QED BY <2>2, <3>1
  <2> QED BY <2>3 DEF q
<1>7. CASE ConfirmCommit(c)
  <2> DEFINE h == creq[c].hold
             b == [id |-> c, hold |-> h, user |-> creq[c].user, key |-> creq[c].key,
                   seats |-> holds[h].seats]
  <2>1. /\ creq[c].pc = "tx" /\ creq[c] \in ConfirmReq /\ NoBookingOf(c)
        /\ creq[c].reply = "" /\ h \in HoldCalls
    BY <1>7, <1>c, <1>n DEF ConfirmCommit, BeforeBooking, ConfirmFine, ConfirmWorkKnown, ConfirmReq
  <2>2. /\ bookings' = bookings \cup {b}
        /\ b.id = c /\ b.hold = h /\ b.user = creq[c].user /\ b.key = creq[c].key
    BY <1>7 DEF ConfirmCommit
  <2> HIDE DEF b
  <2>3. \A d \in bookings' : d.id = c => d = b
    BY <2>1, <2>2 DEF NoBookingOf
  <2>4. holds'[h].status = "CONFIRMED"
    BY <1>0, <1>7, <2>1, EndHoldEffect DEF ConfirmCommit
  <2>5. CASE creq' = [creq EXCEPT ![c].pc = "cleanup"]
    <3>1. creq'[c] = [creq[c] EXCEPT !.pc = "cleanup"]
      BY <1>h, <2>5
    <3>2. /\ creq'[c].pc = "cleanup" /\ creq'[c].reply = "" /\ creq'[c].hold = h
          /\ creq'[c].user = creq[c].user /\ creq'[c].key = creq[c].key
      BY <2>1, <3>1 DEF ConfirmReq
    <3>3. ConfirmAnswerTrue(creq[c], c)'
      BY <3>2 DEF ConfirmAnswerTrue, ConfirmRefusals
    <3>4. ConfirmWorkKnown(creq[c], c)'
      BY <2>2, <2>3, <2>4, <3>2 DEF ConfirmWorkKnown, NoBookingOf
    <3> QED BY <3>3, <3>4 DEF ConfirmFine
  <2>6. CASE creq' = [creq EXCEPT ![c] = [@ EXCEPT !.pc = "recoverHold", !.err = "failed"]]
    <3>1. /\ creq'[c].pc = "recoverHold" /\ creq'[c].err = "failed" /\ creq'[c].reply = ""
          /\ creq'[c].hold = h /\ creq'[c].user = creq[c].user /\ creq'[c].key = creq[c].key
      BY <1>e, <2>1, <2>6
    <3>2. ConfirmAnswerTrue(creq[c], c)'
      BY <3>1 DEF ConfirmAnswerTrue, ConfirmRefusals
    <3>3. ConfirmWorkKnown(creq[c], c)'
      BY <2>2, <2>3, <3>1 DEF ConfirmWorkKnown
    <3> QED BY <3>2, <3>3 DEF ConfirmFine
  <2> QED BY <1>7, <2>5, <2>6 DEF ConfirmCommit
<1>8. CASE ConfirmAbort(c)
  <2>1. creq[c].pc = "tx" /\ UNCHANGED <<holds, bookings>> /\ NoBookingOf(c)
    BY <1>8, <1>n DEF ConfirmAbort, BeforeBooking
  <2>2. PICK err \in {"expired", "failed"} :
          creq' = [creq EXCEPT ![c] = [@ EXCEPT !.pc = "recoverHold", !.err = err]]
    BY <1>8 DEF ConfirmAbort
  <2>3. /\ creq'[c] \in ConfirmReq /\ creq'[c].reply = creq[c].reply
        /\ creq'[c].pc # "cleanup" /\ creq'[c].hold = creq[c].hold
        /\ creq'[c].user = creq[c].user /\ creq'[c].key = creq[c].key
    BY <1>e, <2>1, <2>2
  <2> QED BY <1>w, <2>1, <2>3
\* A handler that recovers has a booking only if its error said nothing about one.
<1>r. creq[c].pc \in {"recoverHold", "recoverKey"} => creq[c].err = "failed" \/ NoBookingOf(c)
  BY DEF ConfirmFine, ConfirmWorkKnown, NoBookingOf
<1>9. CASE ConfirmRecoverHold(c)
  <2>1. creq[c].pc = "recoverHold" /\ UNCHANGED <<holds, bookings>>
    BY <1>9 DEF ConfirmRecoverHold
  <2> QED BY <1>9, <1>o, <1>p, <1>r, <2>1 DEF ConfirmRecoverHold
<1>10. CASE ConfirmRecoverKey(c)
  <2>1. creq[c].pc = "recoverKey" /\ UNCHANGED <<holds, bookings>>
    BY <1>10 DEF ConfirmRecoverKey
  <2>2. ASSUME NEW b \in BookingsByKey(creq[c].user, creq[c].key), b.hold # creq[c].hold,
               AnswerConfirm(c, "KEY_REUSED", None)
        PROVE  ConfirmFine(c)'
    <3>1. b \in bookings /\ b.user = creq[c].user /\ b.key = creq[c].key
      BY <2>2 DEF BookingsByKey
    <3>2. NoBookingOf(c)
      BY <2>2, <3>1 DEF NoBookingOf, OnePerKey, ConfirmFine, ConfirmWorkKnown
    <3> QED BY <1>a, <2>1, <2>2, <3>1, <3>2
  <2>3. CASE creq[c].err = "expired" /\ AnswerConfirm(c, "HOLD_EXPIRED", None)
    BY <1>a, <1>r, <2>1, <2>3
  <2>4. CASE AnswerConfirm(c, "FAILED", None)
    BY <1>a, <2>1, <2>4 DEF ConfirmRefusals
  <2> QED BY <1>10, <2>2, <2>3, <2>4 DEF ConfirmRecoverKey
<1>11. CASE ConfirmCleanup(c)
  <2>1. /\ creq[c].pc = "cleanup" /\ UNCHANGED <<holds, bookings>>
        /\ AnswerConfirm(c, "CREATED", c)
    BY <1>11 DEF ConfirmCleanup
  <2>2. \E b \in bookings : b.id = c /\ b.hold = creq[c].hold /\ b.user = creq[c].user
    BY <2>1 DEF ConfirmFine, ConfirmWorkKnown, NoBookingOf
  <2> QED BY <1>a, <2>1, <2>2 DEF ConfirmRefusals
<1> QED BY <1>1, <1>2, <1>3, <1>4, <1>5, <1>6, <1>7, <1>8, <1>9, <1>10, <1>11 DEF ConfirmStep

\* No step of anyone makes a true answer to a Confirm request false.
LEMMA ConfirmFineStep ==
    ASSUME SafetyInv, OnePerKey, Next, NEW c \in ConfirmCalls, ConfirmFine(c)
    PROVE  ConfirmFine(c)'
<1>0. TypeOK
  BY DEF SafetyInv
<1>1. CASE /\ CrashHandler /\ Running(creq[c])
           /\ creq'[c] = Answered(creq[c], "LOST", None)
  <2>1. creq[c] \in ConfirmReq \/ creq[c] = IdleConfirmReq
    BY <1>0 DEF TypeOK
  <2> DEFINE q == creq[c]
  <2>2. q \in ConfirmReq /\ creq'[c] = Answered(q, "LOST", None)
    BY <1>1, <2>1, IdlePC DEF Running
  <2> HIDE DEF q
  <2>3. /\ creq'[c].pc = "done" /\ creq'[c].reply = "LOST" /\ creq'[c].user = q.user
        /\ creq'[c].key = q.key /\ creq'[c].hold = q.hold
    BY <2>2, AnsweredConfirmFields
  <2>4. UNCHANGED bookings
    BY <1>1 DEF CrashHandler
  <2>5. \A b \in bookings : b.id = c => b.hold = q.hold /\ b.user = q.user /\ b.key = q.key
    BY DEF q, ConfirmFine, ConfirmWorkKnown
  <2>6. ConfirmAnswerTrue(creq[c], c)'
    BY <2>3 DEF ConfirmAnswerTrue, ConfirmRefusals
  <2>7. ConfirmWorkKnown(creq[c], c)'
    BY <2>3, <2>4, <2>5 DEF ConfirmWorkKnown
  <2> QED BY <2>6, <2>7 DEF ConfirmFine
<1> QED BY <1>0, <1>1, HandlersMove, ConfirmFineStays, ConfirmFineMoves

-----------------------------------------------------------------------------
(* The answers of ReleaseHold *)

ReleaseFine(d) ==
    LET req == rreq[d]
        h == holds[req.hold]
    IN /\ req.reply # "" => req.pc = "done"
       /\ req.pc \in {"tx", "recover", "cleanup"} =>
            req.hold \in HoldCalls /\ h.status # None /\ h.user = req.user
       /\ req.pc = "cleanup" => h.status = "RELEASED"
       /\ req.reply \in HoldStatus =>
            /\ req.hold \in HoldCalls /\ h.user = req.user
            /\ h.status = req.reply /\ req.reply # "ACTIVE"

\* While other processes move, what a release was answered stays true.
LEMMA ReleaseFineStays ==
    ASSUME SafetyInv, Next, NEW d \in ReleaseCalls, ReleaseFine(d), rreq'[d] = rreq[d]
    PROVE  ReleaseFine(d)'
<1>g. StoresGrown
  BY StoresGrow
<1>n. "RELEASED" \in HoldStatus \ {"ACTIVE"}
  BY DEF HoldStatus
<1>1. ASSUME rreq[d].pc \in {"tx", "recover", "cleanup"}
      PROVE  /\ rreq[d].hold \in HoldCalls /\ holds'[rreq[d].hold].status # None
             /\ holds'[rreq[d].hold].user = rreq[d].user
             /\ rreq[d].pc = "cleanup" => holds'[rreq[d].hold].status = "RELEASED"
  BY <1>1, <1>g, <1>n DEF ReleaseFine, StoresGrown
<1>2. ASSUME rreq[d].reply \in HoldStatus
      PROVE  /\ rreq[d].hold \in HoldCalls /\ holds'[rreq[d].hold].user = rreq[d].user
             /\ holds'[rreq[d].hold].status = rreq[d].reply /\ rreq[d].reply # "ACTIVE"
  BY <1>2, <1>g DEF ReleaseFine, StoresGrown
<1> QED BY <1>1, <1>2 DEF ReleaseFine

\* The step of a release's own handler gives an answer that is true at that moment.
LEMMA ReleaseFineMoves ==
    ASSUME SafetyInv, Next, NEW d \in ReleaseCalls, ReleaseFine(d), ReleaseStep(d)
    PROVE  ReleaseFine(d)'
<1>0. TypeOK
  BY DEF SafetyInv
<1>g. StoresGrown
  BY StoresGrow
<1>d. rreq[d].pc # "idle" => rreq[d] \in ReleaseReq
  <2>1. rreq[d] \in ReleaseReq \/ rreq[d] = IdleReleaseReq
    BY <1>0 DEF TypeOK
  <2> QED BY <2>1, IdlePC
<1>h. ASSUME NEW req, rreq' = [rreq EXCEPT ![d] = req] PROVE rreq'[d] = req
  BY <1>0, <1>h DEF TypeOK
<1>f. "FAILED" \notin HoldStatus /\ "" \notin HoldStatus /\ "FORBIDDEN" \notin HoldStatus
      /\ "NOT_FOUND" \notin HoldStatus /\ None \notin HoldStatus
      /\ "RELEASED" \in HoldStatus \ {"ACTIVE"}
  BY NoneIsFresh DEF HoldStatus
<1>t. rreq[d].pc \in {"tx", "recover", "cleanup"} =>
        /\ rreq[d] \in ReleaseReq /\ rreq[d].hold \in HoldCalls /\ rreq[d].reply = ""
        /\ holds[rreq[d].hold].status # None /\ holds[rreq[d].hold].user = rreq[d].user
  BY <1>d DEF ReleaseFine
<1>a. ASSUME rreq[d].pc \in {"tx", "recover", "cleanup"}, NEW reply, AnswerRelease(d, reply),
             UNCHANGED holds,
             reply \in HoldStatus =>
               holds[rreq[d].hold].status = reply /\ reply # "ACTIVE"
      PROVE  ReleaseFine(d)'
  <2>1. rreq'[d] = [rreq[d] EXCEPT !.pc = "done", !.reply = reply]
    BY <1>a, <1>h DEF AnswerRelease
  <2>2. /\ rreq'[d].pc = "done" /\ rreq'[d].reply = reply /\ rreq'[d].hold = rreq[d].hold
        /\ rreq'[d].user = rreq[d].user
    BY <1>a, <1>t, <2>1 DEF ReleaseReq
  <2> QED BY <1>a, <1>t, <2>2 DEF ReleaseFine
<1>1. CASE ReleaseLoad(d)
  <2>1. PICK req \in ReleaseReq : IsLoadedRelease(req) /\ rreq' = [rreq EXCEPT ![d] = req]
    BY <1>1 DEF ReleaseLoad
  <2>2. rreq'[d] = req /\ UNCHANGED holds /\ req.hold \in HoldCalls
    BY <1>1, <1>h, <2>1 DEF ReleaseLoad, ReleaseReq
  <2>3. holds[req.hold].status \in HoldStatus \cup {None}
    BY <1>0, <2>2 DEF TypeOK, Hold
  <2> HIDE DEF ReleaseFine
  <2>4. CASE req.pc = "done" /\ req.reply \in {"NOT_FOUND", "FORBIDDEN"}
    BY <1>f, <2>2, <2>4 DEF ReleaseFine
  <2>5. CASE /\ holds[req.hold].user = req.user /\ holds[req.hold].status # "ACTIVE"
             /\ req.pc = "done" /\ req.reply = holds[req.hold].status
    BY <2>2, <2>5 DEF ReleaseFine
  <2>6. CASE /\ holds[req.hold].user = req.user /\ holds[req.hold].status = "ACTIVE"
             /\ req.pc = "tx" /\ req.reply = ""
    BY <1>f, <2>2, <2>6 DEF ReleaseFine, HoldStatus
  <2> QED BY <2>1, <2>4, <2>5, <2>6 DEF IsLoadedRelease
<1>p. ASSUME rreq[d].pc = "tx", NEW pc \in {"recover", "cleanup"},
             rreq' = [rreq EXCEPT ![d].pc = pc],
             pc = "cleanup" => holds'[rreq[d].hold].status = "RELEASED"
      PROVE  ReleaseFine(d)'
  <2>1. rreq'[d] = [rreq[d] EXCEPT !.pc = pc]
    BY <1>p, <1>h
  <2>2. /\ rreq'[d].pc = pc /\ rreq'[d].reply = "" /\ rreq'[d].hold = rreq[d].hold
        /\ rreq'[d].user = rreq[d].user
    BY <1>p, <1>t, <2>1 DEF ReleaseReq
  <2>3. holds'[rreq[d].hold].status # None /\ holds'[rreq[d].hold].user = rreq[d].user
    BY <1>p, <1>t, <1>g DEF StoresGrown
  <2> QED BY <1>p, <1>t, <1>f, <2>2, <2>3 DEF ReleaseFine
<1>2. CASE ReleaseCommit(d)
  <2>1. rreq[d].pc = "tx" /\ EndHold(rreq[d].hold, "RELEASED", <<"SEAT_RELEASED">>)
    BY <1>2 DEF ReleaseCommit
  <2>2. holds'[rreq[d].hold].status = "RELEASED"
    BY <1>0, <1>t, <2>1, EndHoldEffect
  <2> QED BY <1>2, <1>p, <2>1, <2>2 DEF ReleaseCommit
<1>3. CASE ReleaseAbort(d)
  BY <1>3, <1>p DEF ReleaseAbort
<1>4. CASE ReleaseRecover(d)
  BY <1>4, <1>a, <1>f DEF ReleaseRecover
<1>5. CASE ReleaseCleanup(d)
  <2>1. rreq[d].pc = "cleanup" /\ UNCHANGED holds /\ AnswerRelease(d, "RELEASED")
    BY <1>5 DEF ReleaseCleanup
  <2>2. holds[rreq[d].hold].status = "RELEASED"
    BY <2>1 DEF ReleaseFine
  <2> QED BY <1>a, <2>1, <2>2
<1> QED BY <1>1, <1>2, <1>3, <1>4, <1>5 DEF ReleaseStep

\* No step of anyone makes a true answer to a ReleaseHold request false.
LEMMA ReleaseFineStep ==
    ASSUME SafetyInv, Next, NEW d \in ReleaseCalls, ReleaseFine(d)
    PROVE  ReleaseFine(d)'
<1>0. TypeOK
  BY DEF SafetyInv
<1>1. CASE /\ CrashHandler /\ Running(rreq[d])
           /\ rreq'[d] = [rreq[d] EXCEPT !.pc = "done", !.reply = "LOST"]
  <2>1. rreq[d] \in ReleaseReq \/ rreq[d] = IdleReleaseReq
    BY <1>0 DEF TypeOK
  <2>2. rreq'[d].pc = "done" /\ rreq'[d].reply = "LOST"
    BY <1>1, <2>1, IdlePC DEF Running, ReleaseReq
  <2> QED BY <2>2 DEF ReleaseFine, HoldStatus
<1> QED BY <1>0, <1>1, HandlersMove, ReleaseFineStays, ReleaseFineMoves

-----------------------------------------------------------------------------
(* All answers *)

LEMMA EndParts ==
    ASSUME SafetyInv
    PROVE  (ConfirmReqsKnow /\ ReleaseReqsKnow /\ EndAnswersHonest)
             <=> /\ \A c \in ConfirmCalls : ConfirmFine(c)
                 /\ \A d \in ReleaseCalls : ReleaseFine(d)
<1>0. TypeOK /\ outbox = {b.id : b \in bookings}
  BY DEF SafetyInv, OneEndPerHold
<1>1. ASSUME NEW c \in ConfirmCalls PROVE c \notin outbox <=> NoBookingOf(c)
  BY <1>0 DEF NoBookingOf
<1>2. ASSUME NEW d \in ReleaseCalls,
             rreq[d].pc \in {"tx", "recover", "cleanup"} \/ rreq[d].reply \in HoldStatus
      PROVE  rreq[d].hold \in HoldCalls
  <2>1. rreq[d] \in ReleaseReq \/ rreq[d] = IdleReleaseReq
    BY <1>0 DEF TypeOK
  <2>2. IdleReleaseReq.pc = "idle" /\ IdleReleaseReq.reply = ""
    BY DEF IdleReleaseReq
  <2> QED BY <1>2, <2>1, <2>2 DEF ReleaseReq, HoldStatus
<1>3. ASSUME ConfirmReqsKnow, EndAnswersHonest, NEW c \in ConfirmCalls PROVE ConfirmFine(c)
  <2>1. ConfirmWorkKnown(creq[c], c)
    BY <1>3 DEF ConfirmReqsKnow, ConfirmWorkKnown, NoBookingOf
  <2>2. ConfirmAnswerTrue(creq[c], c)
    BY <1>1, <1>3 DEF EndAnswersHonest, ConfirmAnswerTrue, ConfirmRefusals, BookingsByKey
  <2> QED BY <2>1, <2>2 DEF ConfirmFine
<1>4. ASSUME ReleaseReqsKnow, EndAnswersHonest, NEW d \in ReleaseCalls PROVE ReleaseFine(d)
  BY <1>2, <1>4 DEF ReleaseReqsKnow, EndAnswersHonest, ReleaseFine
<1>5. ASSUME \A c \in ConfirmCalls : ConfirmFine(c), \A d \in ReleaseCalls : ReleaseFine(d)
      PROVE  ConfirmReqsKnow /\ ReleaseReqsKnow /\ EndAnswersHonest
  <2>1. ConfirmReqsKnow
    BY <1>5 DEF ConfirmFine, ConfirmReqsKnow, ConfirmWorkKnown, NoBookingOf
  <2>2. ReleaseReqsKnow
    BY <1>5 DEF ReleaseReqsKnow, ReleaseFine
  <2>3. EndAnswersHonest
    BY <1>1, <1>5 DEF EndAnswersHonest, ConfirmFine, ConfirmAnswerTrue, ConfirmRefusals,
                      BookingsByKey, ReleaseFine
  <2> QED BY <2>1, <2>2, <2>3
<1> QED BY <1>3, <1>4, <1>5

AllFine ==
    /\ OnePerKey
    /\ \A r \in HoldCalls : HoldFine(r)
    /\ \A c \in ConfirmCalls : ConfirmFine(c)
    /\ \A d \in ReleaseCalls : ReleaseFine(d)

LEMMA AnswersParts == SafetyInv => (AnswersInv <=> AllFine)
BY HoldParts, EndParts DEF AnswersInv, AllFine

LEMMA AnswersInit == Init => AnswersInv
<1> SUFFICES ASSUME Init PROVE AnswersInv
  OBVIOUS
<1>0. SafetyInv
  BY SafetyInit
<1>1. bookings = {} /\ \A h \in HoldCalls : holds[h].status = None
  <2>1. NoHold.status = None
    BY DEF NoHold
  <2> QED BY <2>1 DEF Init
<1>2. OnePerKey
  BY <1>1 DEF OnePerKey
<1>3. ASSUME NEW r \in HoldCalls PROVE HoldFine(r)
  <2>1. hreq[r].pc = "idle" /\ hreq[r].reply = ""
    BY DEF Init, IdleHoldReq
  <2> QED BY <1>1, <2>1 DEF HoldFine, HoldAnswerTrue, HoldWorkKnown, Refusals
<1>4. ASSUME NEW c \in ConfirmCalls PROVE ConfirmFine(c)
  <2>1. creq[c].pc = "idle" /\ creq[c].reply = ""
    BY DEF Init, IdleConfirmReq
  <2>2. ConfirmAnswerTrue(creq[c], c)
    BY <2>1 DEF ConfirmAnswerTrue, ConfirmRefusals
  <2> QED BY <1>1, <2>1, <2>2 DEF ConfirmFine, ConfirmWorkKnown
<1>5. ASSUME NEW d \in ReleaseCalls PROVE ReleaseFine(d)
  <2>1. rreq[d].pc = "idle" /\ rreq[d].reply = ""
    BY DEF Init, IdleReleaseReq
  <2> QED BY <2>1 DEF ReleaseFine, HoldStatus
<1> QED BY <1>0, <1>2, <1>3, <1>4, <1>5, AnswersParts DEF AllFine

\* The answers stay true: with SafetyInv, AnswersInv is inductive, whatever is interleaved,
\* crashes, or fails with its outcome unknown (booking.go:44-327).
THEOREM AnswersHold == Spec => []AnswersInv
<1>1. SafetyInv /\ AllFine /\ Next => AllFine'
  <2> SUFFICES ASSUME SafetyInv, AllFine, Next PROVE AllFine'
    OBVIOUS
  <2>1. /\ OnePerKey'
        /\ \A r \in HoldCalls : HoldFine(r)'
        /\ \A c \in ConfirmCalls : ConfirmFine(c)'
        /\ \A d \in ReleaseCalls : ReleaseFine(d)'
    BY OnePerKeyStays, HoldFineStep, ConfirmFineStep, ReleaseFineStep DEF AllFine
  <2> QED BY <2>1 DEF AllFine
<1>2. AnswersInv /\ UNCHANGED vars => AnswersInv'
  <2> SUFFICES ASSUME UNCHANGED vars
               PROVE  /\ OnePerKey' = OnePerKey /\ HoldReqsKnow' = HoldReqsKnow
                      /\ ConfirmReqsKnow' = ConfirmReqsKnow
                      /\ ReleaseReqsKnow' = ReleaseReqsKnow
                      /\ HoldAnswersHonest' = HoldAnswersHonest
                      /\ EndAnswersHonest' = EndAnswersHonest
    BY DEF AnswersInv
  <2>1. UNCHANGED <<holds, bookings, outbox, hreq, creq, rreq>>
    BY DEF vars
  <2>2. HoldReqsKnow' = HoldReqsKnow
    BY <2>1 DEF HoldReqsKnow
  <2>3. ConfirmReqsKnow' = ConfirmReqsKnow
    BY <2>1 DEF ConfirmReqsKnow
  <2>4. ReleaseReqsKnow' = ReleaseReqsKnow
    BY <2>1 DEF ReleaseReqsKnow
  <2>5. OnePerKey' = OnePerKey
    BY <2>1 DEF OnePerKey, HoldsByKey
  <2>6. HoldAnswersHonest' = HoldAnswersHonest
    BY <2>1 DEF HoldAnswersHonest, HoldsByKey
  <2>7. EndAnswersHonest' = EndAnswersHonest
    BY <2>1 DEF EndAnswersHonest, BookingsByKey
  <2> QED BY <2>2, <2>3, <2>4, <2>5, <2>6, <2>7
<1> QED BY AnswersInit, AnswersParts, SafetyHolds, <1>1, <1>2, PTL DEF Spec

\* An Idempotency-Key never comes to stand for two holds or two bookings of its user, however
\* many requests that carry it race between lookup and insert (booking.go:59-66, 202-209).
THEOREM KeysStandForOne == Spec => []KeysAreUnique
<1>1. AnswersInv => KeysAreUnique
  BY KeysUnique DEF AnswersInv
<1> QED BY AnswersHold, <1>1, PTL

\* Whatever a CreateHold request was answered is true of the database, and stays true: a hold
\* answer names a hold of that caller, key and seat set, and a request that was refused or
\* referred to another hold has left none (booking.go:59-63, 92-97, 113-130).
THEOREM HoldAnswersAreHonest == Spec => []HoldAnswersHonest
BY AnswersHold, PTL DEF AnswersInv

\* Likewise for Confirm and ReleaseHold, also when a transaction's outcome was reported wrongly
\* and the handler had to find out (booking.go:148-191, 202-214, 302-319).
THEOREM EndAnswersAreHonest == Spec => []EndAnswersHonest
BY AnswersHold, PTL DEF AnswersInv
=============================================================================
