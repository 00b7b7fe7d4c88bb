------------------------- MODULE BookingSafetyProofs -------------------------
(***************************************************************************)
(* Seats are never lost, sold twice or taken back, for every value of the  *)
(* constants of Booking.  SafetyInv is inductive: the database changes in  *)
(* three ways only (StepKinds), and each keeps the two collections, the    *)
(* bookings and the audit log together.                                    *)
(***************************************************************************)
EXTENDS BookingProofs

USE DEF mongo

\* A release or an expiry of h commits.
HoldEnds(h) ==
    /\ EndableHold(h)
    /\ FreeSeats(h)
    /\ UNCHANGED <<clock, bookings, outbox>>
    /\ \/ EndHold(h, "RELEASED", <<"SEAT_RELEASED">>)
       \/ /\ EndHold(h, "EXPIRED", <<"BOOKING_TIMEOUT", "SEAT_RELEASED">>)
          /\ holds[h].expires <= clock

-----------------------------------------------------------------------------
(* The steps, by what they do to the database *)

LEMMA HoldStepKinds ==
    ASSUME NEW r \in HoldCalls, HoldStep(r)
    PROVE  HoldCommit(r) \/ (UNCHANGED mongo /\ clock' = clock)
BY DEF HoldStep, HoldLookup, HoldPrepare, HoldAcquire, HoldAbort, HoldUndo, HoldDupe,
       HoldReadFails

LEMMA ConfirmStepKinds ==
    ASSUME NEW c \in ConfirmCalls, ConfirmStep(c)
    PROVE  ConfirmCommit(c) \/ (UNCHANGED mongo /\ clock' = clock)
BY DEF ConfirmStep, ConfirmByKey, ConfirmByHold, ConfirmLoad, ConfirmVerify, ConfirmStamp,
       ConfirmReadFails, ConfirmAbort, ConfirmRecoverHold, ConfirmRecoverKey, ConfirmCleanup

LEMMA ReleaseStepKinds ==
    ASSUME TypeOK, NEW d \in ReleaseCalls, ReleaseStep(d)
    PROVE  (\E h \in HoldCalls : HoldEnds(h)) \/ (UNCHANGED mongo /\ clock' = clock)
<1>1. CASE ReleaseCommit(d)
  <2>1. rreq[d] \in ReleaseReq
    <3>1. rreq[d] \in ReleaseReq \/ rreq[d] = IdleReleaseReq
      BY DEF TypeOK
    <3> QED BY <1>1, <3>1, IdlePC DEF ReleaseCommit
  <2>2. rreq[d].hold \in HoldCalls
    BY <2>1 DEF ReleaseReq
  <2>3. HoldEnds(rreq[d].hold)
    BY <1>1 DEF ReleaseCommit, HoldEnds
  <2> QED BY <2>2, <2>3
<1>2. CASE ~ReleaseCommit(d)
  BY <1>2 DEF ReleaseStep, ReleaseLoad, ReleaseAbort, ReleaseRecover, ReleaseCleanup
<1> QED BY <1>1, <1>2

LEMMA WorkerStepKinds ==
    ASSUME TypeOK, StampsArePast, NEW w \in Workers, WorkerStep(w)
    PROVE  (\E h \in HoldCalls : HoldEnds(h)) \/ (UNCHANGED mongo /\ clock' = clock)
<1>1. CASE WorkerExpire(w)
  <2>1. PICK h \in HoldCalls :
          /\ EndableHold(h) /\ holds[h].expires <= wrk[w].now
          /\ EndHold(h, "EXPIRED", <<"BOOKING_TIMEOUT", "SEAT_RELEASED">>)
          /\ FreeSeats(h)
    BY <1>1 DEF WorkerExpire
  <2>2. holds[h].expires \in Nat
    <3>1. holds[h] \in Hold
      BY DEF TypeOK
    <3> QED BY <3>1 DEF Hold
  <2>3. clock \in Nat /\ wrk[w].now \in Nat /\ wrk[w].now <= clock
    <3>1. wrk[w] \in Worker \/ wrk[w] = IdleWorker
      BY DEF TypeOK
    <3>2. wrk[w].now \in Nat
      BY <3>1 DEF Worker, IdleWorker
    <3> QED BY <3>2 DEF TypeOK, StampsArePast
  <2>4. holds[h].expires <= clock
    BY <2>1, <2>2, <2>3
  <2>5. HoldEnds(h)
    BY <1>1, <2>1, <2>4 DEF WorkerExpire, HoldEnds
  <2> QED BY <2>5
<1>2. CASE ~WorkerExpire(w)
  BY <1>2 DEF WorkerStep, WorkerSweep, WorkerSkip, WorkerReread, WorkerCleanup
<1> QED BY <1>1, <1>2

\* The database and the clock change only when a hold is made, confirmed or ended, or when
\* time passes.
LEMMA StepKinds ==
    ASSUME TypeOK, StampsArePast, Next
    PROVE  \/ UNCHANGED mongo /\ (clock' = clock \/ Tick)
           \/ \E r \in HoldCalls : HoldCommit(r)
           \/ \E c \in ConfirmCalls : ConfirmCommit(c)
           \/ \E h \in HoldCalls : HoldEnds(h)
<1>1. CASE Tick
  BY <1>1 DEF Tick
<1>2. CASE CrashHandler \/ CrashWorker \/ RedisRestart
  BY <1>2 DEF CrashHandler, CrashWorker, RedisRestart
<1>3. CASE \E r \in HoldCalls : HoldStep(r)
  BY <1>3, HoldStepKinds
<1>4. CASE \E c \in ConfirmCalls : ConfirmStep(c)
  BY <1>4, ConfirmStepKinds
<1>5. CASE \E d \in ReleaseCalls : ReleaseStep(d)
  BY <1>5, ReleaseStepKinds
<1>6. CASE \E w \in Workers : WorkerStep(w)
  BY <1>6, WorkerStepKinds
<1> QED BY <1>1, <1>2, <1>3, <1>4, <1>5, <1>6 DEF Next

-----------------------------------------------------------------------------
(* Noted times and fresh ids *)

\* The phases of a handler before its transaction.
BeforeHold == {"idle", "prepare", "acquire", "tx"}
BeforeBooking == {"idle", "byHold", "load", "verify", "stamp", "tx"}

LEMMA AnsweredIsDone ==
    ASSUME NEW req \in HoldReq \cup ConfirmReq, NEW reply, NEW h
    PROVE  Answered(req, reply, h).pc = "done" /\ Answered(req, reply, h).now = 0
BY DEF Answered, HoldReq, ConfirmReq

\* A CreateHold step leaves the other handlers alone, notes no time but the clock, and
\* does not go back to before the transaction.
LEMMA HoldReqStep ==
    ASSUME TypeOK, NEW r \in HoldCalls, HoldStep(r)
    PROVE  /\ UNCHANGED <<creq, wrk>>
           /\ \E req : /\ hreq' = [hreq EXCEPT ![r] = req]
                       /\ req.now \in {hreq[r].now, 0, clock}
                       /\ req.pc \in BeforeHold =>
                            hreq[r].pc \in BeforeHold /\ ~HoldCommit(r)
<1>w. UNCHANGED <<creq, wrk>>
  BY DEF HoldStep, HoldLookup, HoldPrepare, HoldAcquire, HoldCommit, HoldAbort, HoldUndo,
         HoldDupe, HoldReadFails
<1>r. hreq[r].pc # "idle" => hreq[r] \in HoldReq
  <2>1. hreq[r] \in HoldReq \/ hreq[r] = IdleHoldReq
    BY DEF TypeOK
  <2> QED BY <2>1, IdlePC
<1> DEFINE Fine(req) == /\ req.now \in {hreq[r].now, 0, clock}
                        /\ req.pc \in BeforeHold =>
                             hreq[r].pc \in BeforeHold /\ ~HoldCommit(r)
<1> SUFFICES \E req : hreq' = [hreq EXCEPT ![r] = req] /\ Fine(req)
  BY <1>w
<1>a. ASSUME hreq[r].pc # "idle", NEW reply, NEW h, AnswerHold(r, reply, h)
      PROVE  \E req : hreq' = [hreq EXCEPT ![r] = req] /\ Fine(req)
  <2>1. Fine(Answered(hreq[r], reply, h))
    BY <1>a, <1>r, AnsweredIsDone DEF BeforeHold
  <2> QED BY <1>a, <2>1 DEF AnswerHold
<1>1. CASE HoldLookup(r)
  <2>1. PICK user \in Users, S \in (SUBSET Seats) \ {{}}, key \in IdemKeys :
          \/ hreq' = [hreq EXCEPT ![r] = NewHoldReq(user, S, key)]
          \/ \E h \in HoldsByKey(user, key) :
               hreq' = [hreq EXCEPT ![r] = AnsweredByHold(NewHoldReq(user, S, key), h)]
    BY <1>1 DEF HoldLookup
  <2>2. NewHoldReq(user, S, key) \in HoldReq /\ Fine(NewHoldReq(user, S, key))
    BY <1>1 DEF NewHoldReq, HoldReq, BeforeHold, HoldLookup, HoldCommit
  <2>3. ASSUME NEW h PROVE Fine(AnsweredByHold(NewHoldReq(user, S, key), h))
    BY <2>2, AnsweredIsDone DEF AnsweredByHold, BeforeHold
  <2> QED BY <2>1, <2>2, <2>3
<1>2. CASE HoldPrepare(r)
  <2>1. Fine([hreq[r] EXCEPT !.pc = "acquire", !.now = clock])
    BY <1>2, <1>r DEF HoldPrepare, HoldReq, HoldCommit, BeforeHold
  <2> QED BY <1>2, <1>a, <2>1 DEF HoldPrepare
<1>3. CASE HoldAcquire(r)
  <2>1. Fine([hreq[r] EXCEPT !.pc = "tx"])
    BY <1>3, <1>r DEF HoldAcquire, HoldReq, HoldCommit, BeforeHold
  <2> QED BY <1>3, <1>a, <2>1 DEF HoldAcquire
<1>e. ASSUME hreq[r].pc # "idle", NEW err
      PROVE  Fine([hreq[r] EXCEPT !.pc = "undo", !.err = err])
  BY <1>e, <1>r DEF HoldReq, BeforeHold
<1>4. CASE HoldCommit(r)
  BY <1>4, <1>a, <1>e DEF HoldCommit
<1>5. CASE HoldAbort(r)
  BY <1>5, <1>e DEF HoldAbort
<1>6. CASE HoldUndo(r)
  <2>1. hreq[r] \in HoldReq
    BY <1>6, <1>r DEF HoldUndo
  <2>2. Fine([hreq[r] EXCEPT !.pc = "dupe"])
    BY <2>1 DEF HoldReq, BeforeHold
  <2>3. ASSUME NEW reply, NEW h PROVE Fine(Answered(hreq[r], reply, h))
    BY <2>1, AnsweredIsDone DEF BeforeHold
  <2> QED BY <1>6, <2>2, <2>3 DEF HoldUndo
<1>7. CASE HoldDupe(r)
  <2>1. ASSUME NEW h PROVE Fine(AnsweredByHold(hreq[r], h))
    BY <1>7, <1>r, AnsweredIsDone DEF HoldDupe, AnsweredByHold, BeforeHold
  <2> QED BY <1>7, <2>1 DEF HoldDupe
<1>8. CASE HoldReadFails(r)
  BY <1>8, <1>a DEF HoldReadFails
<1> QED BY <1>1, <1>2, <1>3, <1>4, <1>5, <1>6, <1>7, <1>8 DEF HoldStep

\* Likewise a Confirm step.
LEMMA ConfirmReqStep ==
    ASSUME TypeOK, NEW c \in ConfirmCalls, ConfirmStep(c)
    PROVE  /\ UNCHANGED <<hreq, wrk>>
           /\ \E req : /\ creq' = [creq EXCEPT ![c] = req]
                       /\ req.pc \in BeforeBooking =>
                            creq[c].pc \in BeforeBooking /\ ~ConfirmCommit(c)
<1>w. UNCHANGED <<hreq, wrk>>
  BY DEF ConfirmStep, ConfirmByKey, ConfirmByHold, ConfirmLoad, ConfirmVerify, ConfirmStamp,
         ConfirmReadFails, ConfirmCommit, ConfirmAbort, ConfirmRecoverHold,
         ConfirmRecoverKey, ConfirmCleanup
<1>c. creq[c].pc # "idle" => creq[c] \in ConfirmReq
  <2>1. creq[c] \in ConfirmReq \/ creq[c] = IdleConfirmReq
    BY DEF TypeOK
  <2> QED BY <2>1, IdlePC
<1> DEFINE Fine(req) == req.pc \in BeforeBooking =>
                            creq[c].pc \in BeforeBooking /\ ~ConfirmCommit(c)
<1> SUFFICES \E req : creq' = [creq EXCEPT ![c] = req] /\ Fine(req)
  BY <1>w
<1>a. ASSUME creq[c].pc # "idle", NEW reply, NEW b, AnswerConfirm(c, reply, b)
      PROVE  \E req : creq' = [creq EXCEPT ![c] = req] /\ Fine(req)
  <2>1. Fine(Answered(creq[c], reply, b))
    BY <1>a, <1>c, AnsweredIsDone DEF BeforeBooking
  <2> QED BY <1>a, <2>1 DEF AnswerConfirm
<1>p. ASSUME NEW pc, creq[c].pc # "idle", creq' = [creq EXCEPT ![c].pc = pc],
             pc \in BeforeBooking => creq[c].pc \in BeforeBooking /\ creq[c].pc # "tx"
      PROVE  \E req : creq' = [creq EXCEPT ![c] = req] /\ Fine(req)
  <2>1. Fine([creq[c] EXCEPT !.pc = pc])
    BY <1>p, <1>c DEF ConfirmReq, ConfirmCommit
  <2> QED BY <1>p, <2>1
<1>1. CASE ConfirmByKey(c)
  <2>1. PICK user \in Users, h \in HoldCalls, key \in IdemKeys :
          LET req == NewConfirmReq(user, h, key) IN
          \/ creq' = [creq EXCEPT ![c] = req]
          \/ \E b \in BookingsByKey(user, key) :
               creq' = [creq EXCEPT ![c] = IF b.hold = h THEN Answered(req, "EXISTING", b.id)
                                           ELSE Answered(req, "KEY_REUSED", None)]
    BY <1>1 DEF ConfirmByKey
  <2>2. NewConfirmReq(user, h, key) \in ConfirmReq /\ Fine(NewConfirmReq(user, h, key))
    BY <1>1 DEF NewConfirmReq, ConfirmReq, BeforeBooking, ConfirmByKey, ConfirmCommit
  <2>3. ASSUME NEW reply, NEW b
        PROVE  Fine(Answered(NewConfirmReq(user, h, key), reply, b))
    BY <2>2, AnsweredIsDone DEF BeforeBooking
  <2> QED BY <2>1, <2>2, <2>3
<1>2. CASE ConfirmByHold(c)
  BY <1>2, <1>a, <1>p DEF ConfirmByHold, BeforeBooking
<1>3. CASE ConfirmLoad(c)
  <2>1. creq[c].pc = "load"
    BY <1>3 DEF ConfirmLoad
  <2>2. \/ \E reply : AnswerConfirm(c, reply, None)
        \/ creq' = [creq EXCEPT ![c].pc = "verify"]
    BY <1>3 DEF ConfirmLoad
  <2> QED BY <2>1, <2>2, <1>a, <1>p DEF BeforeBooking
<1>4. CASE ConfirmVerify(c)
  BY <1>4, <1>a, <1>p DEF ConfirmVerify, BeforeBooking
<1>5. CASE ConfirmStamp(c)
  <2>1. Fine([creq[c] EXCEPT !.pc = "tx", !.now = clock])
    BY <1>5, <1>c DEF ConfirmStamp, ConfirmReq, ConfirmCommit, BeforeBooking
  <2> QED BY <1>5, <2>1 DEF ConfirmStamp
<1>6. CASE ConfirmReadFails(c)
  BY <1>6, <1>a DEF ConfirmReadFails
<1>e. ASSUME creq[c].pc # "idle", NEW err
      PROVE  Fine([creq[c] EXCEPT !.pc = "recoverHold", !.err = err])
  BY <1>e, <1>c DEF ConfirmReq, BeforeBooking
<1>7. CASE ConfirmCommit(c)
  <2>1. creq[c].pc = "tx"
    BY <1>7 DEF ConfirmCommit
  <2>2. \/ creq' = [creq EXCEPT ![c].pc = "cleanup"]
        \/ creq' = [creq EXCEPT ![c] = [@ EXCEPT !.pc = "recoverHold", !.err = "failed"]]
    BY <1>7 DEF ConfirmCommit
  <2>3. CASE creq' = [creq EXCEPT ![c].pc = "cleanup"]
    <3>1. "cleanup" \notin BeforeBooking
      BY DEF BeforeBooking
    <3> QED BY <2>1, <2>3, <3>1, <1>p
  <2>4. CASE creq' = [creq EXCEPT ![c] = [@ EXCEPT !.pc = "recoverHold", !.err = "failed"]]
    <3>1. Fine([creq[c] EXCEPT !.pc = "recoverHold", !.err = "failed"])
      BY <2>1, <1>e
    <3> QED BY <2>4, <3>1
  <2> QED BY <2>2, <2>3, <2>4
<1>8. CASE ConfirmAbort(c)
  BY <1>8, <1>e DEF ConfirmAbort
<1>9. CASE ConfirmRecoverHold(c)
  BY <1>9, <1>a, <1>p DEF ConfirmRecoverHold, BeforeBooking
<1>10. CASE ConfirmRecoverKey(c)
  BY <1>10, <1>a DEF ConfirmRecoverKey
<1>11. CASE ConfirmCleanup(c)
  BY <1>11, <1>a DEF ConfirmCleanup
<1> QED BY <1>1, <1>2, <1>3, <1>4, <1>5, <1>6, <1>7, <1>8, <1>9, <1>10, <1>11 DEF ConfirmStep

\* A worker's step notes no time but the clock.
LEMMA WorkerRecStep ==
    ASSUME TypeOK, NEW w \in Workers, WorkerStep(w)
    PROVE  /\ UNCHANGED <<hreq, creq>>
           /\ \E rec : /\ wrk' = [wrk EXCEPT ![w] = rec]
                       /\ rec.now \in {wrk[w].now, 0, clock}
<1>w. UNCHANGED <<hreq, creq>>
  BY DEF WorkerStep, WorkerSweep, WorkerExpire, WorkerSkip, WorkerReread, WorkerCleanup
<1> DEFINE Fine(rec) == rec.now \in {wrk[w].now, 0, clock}
<1> SUFFICES \E rec : wrk' = [wrk EXCEPT ![w] = rec] /\ Fine(rec)
  BY <1>w
<1>1. CASE WorkerSweep(w)
  BY <1>1 DEF WorkerSweep, IdleWorker
<1>p. ASSUME NEW h, wrk[w].pc # "idle" PROVE Fine(Proceeded(wrk[w], h))
  <2>1. wrk[w] \in Worker \/ wrk[w] = IdleWorker
    BY DEF TypeOK
  <2>2. wrk[w] \in Worker
    BY <1>p, <2>1, IdlePC
  <2> QED BY <2>2 DEF Proceeded, Worker, IdleWorker
<1>t. wrk[w].pc # "idle" => wrk[w] \in Worker
  <2>1. wrk[w] \in Worker \/ wrk[w] = IdleWorker
    BY DEF TypeOK
  <2> QED BY <2>1, IdlePC
<1>2. CASE WorkerExpire(w)
  <2>1. ASSUME NEW h PROVE Fine([wrk[w] EXCEPT !.pc = "reread", !.hold = h])
    BY <1>2, <1>t DEF WorkerExpire, Worker
  <2> QED BY <1>2, <1>p, <2>1 DEF WorkerExpire
<1>3. CASE WorkerSkip(w)
  BY <1>3, <1>p DEF WorkerSkip
<1>4. CASE WorkerReread(w)
  <2>1. Fine([wrk[w] EXCEPT !.pc = "cleanup"])
    BY <1>4, <1>t DEF WorkerReread, Worker
  <2> QED BY <1>4, <1>p, <2>1 DEF WorkerReread
<1>5. CASE WorkerCleanup(w)
  BY <1>5, <1>p DEF WorkerCleanup
<1> QED BY <1>1, <1>2, <1>3, <1>4, <1>5 DEF WorkerStep

\* Crashes and the passing of time leave handlers where they are, or end them.
LEMMA EnvironmentReqStep ==
    ASSUME TypeOK, Tick \/ CrashHandler \/ CrashWorker \/ RedisRestart
    PROVE  /\ \A r \in HoldCalls : \/ hreq'[r] = hreq[r]
                                   \/ hreq'[r].pc = "done" /\ hreq'[r].now = 0
           /\ \A c \in ConfirmCalls : creq'[c] = creq[c] \/ creq'[c].pc = "done"
           /\ \A w \in Workers : wrk'[w] = wrk[w] \/ wrk'[w].now = 0
<1>1. CASE Tick \/ RedisRestart
  BY <1>1 DEF Tick, RedisRestart
<1>2. CASE CrashWorker
  BY <1>2 DEF CrashWorker, TypeOK, IdleWorker
<1>3. CASE CrashHandler
  <2>1. UNCHANGED wrk
    BY <1>3 DEF CrashHandler
  <2>2. ASSUME NEW r \in HoldCalls
        PROVE  \/ hreq'[r] = hreq[r]
               \/ hreq'[r].pc = "done" /\ hreq'[r].now = 0
    <3>1. UNCHANGED hreq \/ \E q \in HoldCalls : Running(hreq[q]) /\ AnswerHold(q, "LOST", None)
      BY <1>3 DEF CrashHandler
    <3>2. ASSUME NEW q \in HoldCalls, Running(hreq[q]), AnswerHold(q, "LOST", None), q = r
          PROVE  hreq'[r].pc = "done" /\ hreq'[r].now = 0
      <4>1. hreq[r] \in HoldReq \/ hreq[r] = IdleHoldReq
        BY DEF TypeOK
      <4>2. hreq[r] \in HoldReq
        BY <3>2, <4>1, IdlePC DEF Running
      <4>3. hreq'[r] = Answered(hreq[r], "LOST", None)
        BY <3>2 DEF AnswerHold, TypeOK
      <4> QED BY <4>2, <4>3, AnsweredIsDone
    <3>3. ASSUME NEW q \in HoldCalls, AnswerHold(q, "LOST", None), q # r
          PROVE  hreq'[r] = hreq[r]
      BY <3>3 DEF AnswerHold, TypeOK
    <3> QED BY <3>1, <3>2, <3>3
  <2>3. ASSUME NEW c \in ConfirmCalls
        PROVE  creq'[c] = creq[c] \/ creq'[c].pc = "done"
    <3>1. \/ UNCHANGED creq
          \/ \E q \in ConfirmCalls : Running(creq[q]) /\ AnswerConfirm(q, "LOST", None)
      BY <1>3 DEF CrashHandler
    <3>2. ASSUME NEW q \in ConfirmCalls, Running(creq[q]), AnswerConfirm(q, "LOST", None), q = c
          PROVE  creq'[c].pc = "done"
      <4>1. creq[c] \in ConfirmReq \/ creq[c] = IdleConfirmReq
        BY DEF TypeOK
      <4>2. creq[c] \in ConfirmReq
        BY <3>2, <4>1, IdlePC DEF Running
      <4>3. creq'[c] = Answered(creq[c], "LOST", None)
        BY <3>2 DEF AnswerConfirm, TypeOK
      <4> QED BY <4>2, <4>3, AnsweredIsDone
    <3>3. ASSUME NEW q \in ConfirmCalls, AnswerConfirm(q, "LOST", None), q # c
          PROVE  creq'[c] = creq[c]
      BY <3>3 DEF AnswerConfirm, TypeOK
    <3> QED BY <3>1, <3>2, <3>3
  <2> QED BY <2>1, <2>2, <2>3
<1> QED BY <1>1, <1>2, <1>3

\* All steps together: what becomes of each handler's phase and noted time.
LEMMA ReqSteps ==
    ASSUME TypeOK, Next
    PROVE  /\ \A r \in HoldCalls :
                /\ hreq'[r].now \in {hreq[r].now, 0, clock}
                /\ hreq'[r].pc \in BeforeHold => hreq[r].pc \in BeforeHold
                /\ hreq'[r].pc \in BeforeHold => ~HoldCommit(r)
           /\ \A c \in ConfirmCalls :
                /\ creq'[c].pc \in BeforeBooking => creq[c].pc \in BeforeBooking
                /\ creq'[c].pc \in BeforeBooking => ~ConfirmCommit(c)
           /\ \A w \in Workers : wrk'[w].now \in {wrk[w].now, 0, clock}
<1>t. /\ hreq \in [HoldCalls -> HoldReq \cup {IdleHoldReq}]
      /\ creq \in [ConfirmCalls -> ConfirmReq \cup {IdleConfirmReq}]
      /\ wrk \in [Workers -> Worker \cup {IdleWorker}]
  BY DEF TypeOK
<1>1. ASSUME NEW r \in HoldCalls, HoldCommit(r) PROVE hreq'[r].pc \notin BeforeHold
  <2>1. HoldStep(r)
    BY <1>1 DEF HoldStep
  <2> QED BY <1>1, <1>t, <2>1, HoldReqStep
<1>2. ASSUME NEW c \in ConfirmCalls, ConfirmCommit(c) PROVE creq'[c].pc \notin BeforeBooking
  <2>1. ConfirmStep(c)
    BY <1>2 DEF ConfirmStep
  <2> QED BY <1>2, <1>t, <2>1, ConfirmReqStep
<1> DEFINE Fine == /\ \A r \in HoldCalls :
                        /\ hreq'[r].now \in {hreq[r].now, 0, clock}
                        /\ hreq'[r].pc \in BeforeHold => hreq[r].pc \in BeforeHold
                   /\ \A c \in ConfirmCalls :
                        creq'[c].pc \in BeforeBooking => creq[c].pc \in BeforeBooking
                   /\ \A w \in Workers : wrk'[w].now \in {wrk[w].now, 0, clock}
<1>3. CASE \E r \in HoldCalls : HoldStep(r)
  <2>1. Fine
    BY <1>3, <1>t, HoldReqStep
  <2> QED BY <1>1, <1>2, <2>1
<1>4. CASE \E c \in ConfirmCalls : ConfirmStep(c)
  <2>1. Fine
    BY <1>4, <1>t, ConfirmReqStep
  <2> QED BY <1>1, <1>2, <2>1
<1>5. CASE \E d \in ReleaseCalls : ReleaseStep(d)
  <2>1. UNCHANGED <<hreq, creq, wrk>>
    BY <1>5 DEF ReleaseStep, ReleaseLoad, ReleaseCommit, ReleaseAbort, ReleaseRecover,
                ReleaseCleanup
  <2>2. Fine
    BY <2>1
  <2> QED BY <1>1, <1>2, <2>2
<1>6. CASE \E w \in Workers : WorkerStep(w)
  <2>1. Fine
    BY <1>6, <1>t, WorkerRecStep
  <2> QED BY <1>1, <1>2, <2>1
<1>7. CASE Tick \/ CrashHandler \/ CrashWorker \/ RedisRestart
  <2>1. Fine
    BY <1>7, EnvironmentReqStep DEF BeforeHold, BeforeBooking
  <2> QED BY <1>1, <1>2, <2>1
<1> QED BY <1>3, <1>4, <1>5, <1>6, <1>7 DEF Next

LEMMA StampsStay ==
    ASSUME TypeOK, StampsArePast, Next
    PROVE  StampsArePast'
<1>1. clock \in Nat /\ clock' \in Nat /\ clock <= clock'
  <2>1. clock \in Nat
    BY DEF TypeOK
  <2>2. clock' = clock \/ Tick
    BY StepKinds DEF HoldCommit, ConfirmCommit, HoldEnds
  <2> QED BY <2>1, <2>2 DEF Tick
<1>2. \A r \in HoldCalls : hreq[r].now \in Nat
  <2> SUFFICES ASSUME NEW r \in HoldCalls PROVE hreq[r].now \in Nat
    OBVIOUS
  <2>1. hreq[r] \in HoldReq \/ hreq[r] = IdleHoldReq
    BY DEF TypeOK
  <2>2. CASE hreq[r] \in HoldReq
    BY <2>2 DEF HoldReq
  <2>3. CASE hreq[r] = IdleHoldReq
    <3>1. IdleHoldReq.now = 0
      BY DEF IdleHoldReq
    <3> QED BY <2>3, <3>1
  <2> QED BY <2>1, <2>2, <2>3
<1>3. \A w \in Workers : wrk[w].now \in Nat
  <2>1. \A w \in Workers : wrk[w] \in Worker \/ wrk[w] = IdleWorker
    BY DEF TypeOK
  <2> QED BY <2>1 DEF Worker, IdleWorker
<1>4. \A r \in HoldCalls : hreq'[r].now <= clock'
  BY <1>1, <1>2, ReqSteps DEF StampsArePast
<1>5. \A w \in Workers : wrk'[w].now <= clock'
  BY <1>1, <1>3, ReqSteps DEF StampsArePast
<1> QED BY <1>4, <1>5 DEF StampsArePast

LEMMA IdsStay ==
    ASSUME TypeOK, StampsArePast, IdsAreFresh, Next
    PROVE  IdsAreFresh'
<1> USE DEF IdsAreFresh, BeforeHold, BeforeBooking
<1>1. ASSUME NEW r \in HoldCalls, hreq'[r].pc \in BeforeHold
      PROVE  holds'[r].status = None
  <2>1. holds[r].status = None /\ ~HoldCommit(r)
    BY <1>1, ReqSteps
  <2>2. \A q \in HoldCalls : HoldCommit(q) => holds'[r] = holds[r]
    BY <2>1 DEF HoldCommit, TypeOK
  <2>3. \A c \in ConfirmCalls : ConfirmCommit(c) => holds'[r].status = None
    BY <2>1, NoneIsFresh DEF ConfirmCommit, HoldConfirmable, EndHold, HoldStatus, TypeOK
  <2>4. \A h \in HoldCalls : HoldEnds(h) => holds'[r].status = None
    BY <2>1, NoneIsFresh DEF HoldEnds, EndableHold, EndHold, HoldStatus, TypeOK
  <2> QED BY <2>1, <2>2, <2>3, <2>4, StepKinds
<1>2. ASSUME NEW c \in ConfirmCalls, creq'[c].pc \in BeforeBooking, NEW b \in bookings'
      PROVE  b.id # c
  <2>1. (\A d \in bookings : d.id # c) /\ ~ConfirmCommit(c)
    BY <1>2, ReqSteps
  <2>2. \A e \in ConfirmCalls : ConfirmCommit(e) => b \in bookings \/ b.id = e
    BY <1>2 DEF ConfirmCommit
  <2>3. ASSUME UNCHANGED bookings PROVE b.id # c
    BY <1>2, <2>1, <2>3
  <2> QED BY <2>1, <2>2, <2>3, StepKinds DEF HoldCommit, HoldEnds
<1> QED BY <1>1, <1>2

-----------------------------------------------------------------------------
(* Each kind of change keeps the collections together *)

\* What a hold transaction leaves behind.
LEMMA HoldCommitEffect ==
    ASSUME TypeOK, IdsAreFresh, StampsArePast, NEW r \in HoldCalls, HoldCommit(r)
    PROVE  /\ holds[r].status = None
           /\ holds' = [holds EXCEPT ![r] = HoldDoc(r)]
           /\ holds'[r] = HoldDoc(r)
           /\ HoldDoc(r).status = "ACTIVE" /\ HoldDoc(r).seats = hreq[r].seats
           /\ \A s \in hreq[r].seats :
                /\ s \in Seats
                /\ seats'[s].status = "LOCKED" /\ seats'[s].hold = r
                /\ seats'[s].user = HoldDoc(r).user
                /\ seats'[s].until = HoldDoc(r).expires
                /\ \/ seats[s].status = "AVAILABLE"
                   \/ seats[s].status = "LOCKED" /\ seats[s].until <= clock
           /\ \A s \in Seats \ hreq[r].seats : seats'[s] = seats[s]
           /\ UNCHANGED <<clock, bookings, outbox, audit>>
<1>1. hreq[r] \in HoldReq
  <2>1. hreq[r] \in HoldReq \/ hreq[r] = IdleHoldReq
    BY DEF TypeOK
  <2> QED BY <2>1, IdlePC DEF HoldCommit
<1>2. hreq[r].seats \subseteq Seats /\ hreq[r].now \in Nat /\ hreq[r].now <= clock
  BY <1>1 DEF HoldReq, StampsArePast
<1>3. /\ holds[r].status = None
      /\ holds' = [holds EXCEPT ![r] = HoldDoc(r)]
      /\ holds'[r] = HoldDoc(r)
      /\ UNCHANGED <<clock, bookings, outbox, audit>>
  BY DEF HoldCommit, IdsAreFresh, TypeOK
<1>4. /\ HoldDoc(r).status = "ACTIVE" /\ HoldDoc(r).seats = hreq[r].seats
      /\ HoldDoc(r).user = hreq[r].user
  BY DEF HoldDoc
<1>5. \A s \in Seats \ hreq[r].seats : seats'[s] = seats[s]
  BY <1>2 DEF HoldCommit
<1>6. ASSUME NEW s \in hreq[r].seats
      PROVE  /\ seats'[s].status = "LOCKED" /\ seats'[s].hold = r
             /\ seats'[s].user = HoldDoc(r).user
             /\ seats'[s].until = HoldDoc(r).expires
             /\ \/ seats[s].status = "AVAILABLE"
                \/ seats[s].status = "LOCKED" /\ seats[s].until <= clock
  <2>1. seats[s] \in Seat
    BY <1>2 DEF TypeOK
  <2>2. seats[s].until \in Nat /\ clock \in Nat
    BY <2>1 DEF Seat, TypeOK
  <2>3. seats'[s] = [seats[s] EXCEPT !.status = "LOCKED", !.hold = r,
                                     !.user = hreq[r].user, !.until = HoldDoc(r).expires]
    BY <1>2 DEF HoldCommit
  <2>4. Claimable(s, hreq[r].now)
    BY DEF HoldCommit, SeatsMatch
  <2>5. \/ seats[s].status = "AVAILABLE"
        \/ seats[s].status = "LOCKED" /\ seats[s].until <= clock
    BY <1>2, <2>2, <2>4 DEF Claimable
  <2>6. /\ seats'[s].status = "LOCKED" /\ seats'[s].hold = r
        /\ seats'[s].user = hreq[r].user
        /\ seats'[s].until = HoldDoc(r).expires
    BY <2>1, <2>3 DEF Seat
  <2> QED BY <1>4, <2>5, <2>6
<1> QED BY <1>2, <1>3, <1>4, <1>5, <1>6

\* What a confirmation leaves behind.
LEMMA ConfirmCommitEffect ==
    ASSUME TypeOK, IdsAreFresh, NEW c \in ConfirmCalls, ConfirmCommit(c)
    PROVE  \E h \in HoldCalls, b \in BookingDoc :
             /\ holds[h].status = "ACTIVE"
             /\ EndHold(h, "CONFIRMED", <<"BOOKING_SUCCESS">>)
             /\ b.id = c /\ b.hold = h /\ b.user = holds[h].user /\ b.seats = holds[h].seats
             /\ \A other \in bookings : other.id # c /\ other.hold # h
             /\ bookings' = bookings \cup {b}
             /\ outbox' = outbox \cup {c}
             /\ \A s \in holds[h].seats :
                  /\ s \in Seats
                  /\ seats[s].status = "LOCKED" /\ seats[s].hold = h
                  /\ seats'[s].status = "BOOKED" /\ seats'[s].booking = c
             /\ \A s \in Seats \ holds[h].seats : seats'[s] = seats[s]
             /\ clock' = clock
<1> DEFINE h == creq[c].hold
           b == [id |-> c, hold |-> h, user |-> creq[c].user, key |-> creq[c].key,
                 seats |-> holds[h].seats]
<1>1. creq[c] \in ConfirmReq
  <2>1. creq[c] \in ConfirmReq \/ creq[c] = IdleConfirmReq
    BY DEF TypeOK
  <2> QED BY <2>1, IdlePC DEF ConfirmCommit
<1>2. h \in HoldCalls /\ creq[c].user \in Users /\ creq[c].key \in IdemKeys
  BY <1>1 DEF ConfirmReq
<1>3. holds[h].seats \subseteq Seats
  <2>1. holds[h] \in Hold
    BY <1>2 DEF TypeOK
  <2> QED BY <2>1 DEF Hold
<1>4. b \in BookingDoc
  BY <1>2, <1>3 DEF BookingDoc
<1>5. /\ holds[h].status = "ACTIVE" /\ holds[h].user = creq[c].user
      /\ EndHold(h, "CONFIRMED", <<"BOOKING_SUCCESS">>)
      /\ bookings' = bookings \cup {b} /\ outbox' = outbox \cup {c} /\ clock' = clock
  BY DEF ConfirmCommit, HoldConfirmable
<1>6. \A other \in bookings : other.id # c /\ other.hold # h
  BY DEF ConfirmCommit, BookingRejected, BookingsByHold, IdsAreFresh
<1>7. \A s \in holds[h].seats :
        /\ seats[s].status = "LOCKED" /\ seats[s].hold = h
        /\ seats'[s] = [AvailableSeat EXCEPT !.status = "BOOKED", !.booking = c]
  BY <1>3 DEF ConfirmCommit, HoldSeatsBookable, Bookable, StillHeld
<1>8. \A s \in holds[h].seats : seats'[s].status = "BOOKED" /\ seats'[s].booking = c
  <2>1. LET x == [AvailableSeat EXCEPT !.status = "BOOKED", !.booking = c]
        IN x.status = "BOOKED" /\ x.booking = c
    BY DEF AvailableSeat
  <2> QED BY <1>7, <2>1
<1>9. \A s \in Seats \ holds[h].seats : seats'[s] = seats[s]
  BY <1>3 DEF ConfirmCommit
<1>10. /\ b.id = c /\ b.hold = h /\ b.seats = holds[h].seats /\ b.user = holds[h].user
  BY <1>5
<1> HIDE DEF h, b
<1> QED BY <1>2, <1>3, <1>4, <1>5, <1>6, <1>7, <1>8, <1>9, <1>10

\* What a release or an expiry leaves behind.
LEMMA HoldEndsEffect ==
    ASSUME TypeOK, NEW h \in HoldCalls, HoldEnds(h)
    PROVE  /\ holds[h].status = "ACTIVE"
           /\ \A s \in Seats :
                IF s \in holds[h].seats /\ seats[s].status = "LOCKED" /\ seats[s].hold = h
                THEN seats'[s].status = "AVAILABLE"
                ELSE seats'[s] = seats[s]
           /\ UNCHANGED <<clock, bookings, outbox>>
<1>1. AvailableSeat.status = "AVAILABLE"
  BY DEF AvailableSeat
<1> QED BY <1>1 DEF HoldEnds, EndableHold, FreeSeats, StillHeld

LEMMA EndHoldEffect ==
    ASSUME TypeOK, NEW h \in HoldCalls, NEW status, NEW events, EndHold(h, status, events)
    PROVE  /\ \A g \in HoldCalls \ {h} : holds'[g] = holds[g] /\ audit'[g] = audit[g]
           /\ holds'[h].status = status
           /\ holds'[h].user = holds[h].user /\ holds'[h].seats = holds[h].seats
           /\ holds'[h].expires = holds[h].expires
           /\ audit'[h] = audit[h] \o events
<1>1. holds[h] \in Hold
  BY DEF TypeOK
<1>2. holds'[h] = [holds[h] EXCEPT !.status = status] /\ audit'[h] = audit[h] \o events
  BY DEF EndHold, TypeOK
<1>3. \A g \in HoldCalls \ {h} : holds'[g] = holds[g] /\ audit'[g] = audit[g]
  BY DEF EndHold, TypeOK
<1> QED BY <1>1, <1>2, <1>3 DEF Hold

\* A hold that ends, by confirmation or otherwise, changes only its own document.
LEMMA HoldEndsOnlyItself ==
    ASSUME TypeOK, NEW h \in HoldCalls, HoldEnds(h)
    PROVE  /\ \A g \in HoldCalls \ {h} : holds'[g] = holds[g] /\ audit'[g] = audit[g]
           /\ holds'[h].status \in {"RELEASED", "EXPIRED"}
           /\ holds'[h].status = "EXPIRED" => holds[h].expires <= clock
           /\ holds'[h].user = holds[h].user /\ holds'[h].seats = holds[h].seats
           /\ holds'[h].status = "RELEASED" => audit'[h] = audit[h] \o <<"SEAT_RELEASED">>
           /\ holds'[h].status = "EXPIRED" =>
                audit'[h] = audit[h] \o <<"BOOKING_TIMEOUT", "SEAT_RELEASED">>
<1>0. holds[h] \in Hold
  BY DEF TypeOK
<1>1. CASE EndHold(h, "RELEASED", <<"SEAT_RELEASED">>)
  <2>1. /\ \A g \in HoldCalls \ {h} : holds'[g] = holds[g] /\ audit'[g] = audit[g]
        /\ holds'[h].user = holds[h].user /\ holds'[h].seats = holds[h].seats
    BY <1>1, EndHoldEffect
  <2>2. holds'[h].status = "RELEASED" /\ audit'[h] = audit[h] \o <<"SEAT_RELEASED">>
    BY <1>0, <1>1 DEF EndHold, TypeOK, Hold
  <2> QED BY <2>1, <2>2
<1>2. CASE /\ EndHold(h, "EXPIRED", <<"BOOKING_TIMEOUT", "SEAT_RELEASED">>)
           /\ holds[h].expires <= clock
  <2>1. /\ \A g \in HoldCalls \ {h} : holds'[g] = holds[g] /\ audit'[g] = audit[g]
        /\ holds'[h].user = holds[h].user /\ holds'[h].seats = holds[h].seats
    BY <1>2, EndHoldEffect
  <2>2. /\ holds'[h].status = "EXPIRED"
        /\ audit'[h] = audit[h] \o <<"BOOKING_TIMEOUT", "SEAT_RELEASED">>
    BY <1>0, <1>2 DEF EndHold, TypeOK, Hold
  <2> QED BY <1>2, <2>1, <2>2
<1> QED BY <1>1, <1>2 DEF HoldEnds

LEMMA SeatsFollowHoldsStays ==
    ASSUME SafetyInv, Next
    PROVE  SeatsFollowHolds'
<1> USE DEF SeatsFollowHolds
<1>0. TypeOK /\ StampsArePast /\ IdsAreFresh /\ SeatsFollowHolds
  BY DEF SafetyInv
<1>1. CASE UNCHANGED mongo
  BY <1>0, <1>1
<1>2. ASSUME NEW r \in HoldCalls, HoldCommit(r) PROVE SeatsFollowHolds'
  <2>1. \A g \in HoldCalls : holds[g].status = "ACTIVE" => holds'[g] = holds[g]
    BY <1>0, <1>2, NoneIsFresh, HoldCommitEffect DEF TypeOK, HoldStatus
  <2>2. ASSUME NEW s \in Seats, seats'[s].status = "LOCKED", s \in hreq[r].seats
        PROVE  /\ seats'[s].hold = r /\ holds'[r].status = "ACTIVE" /\ s \in holds'[r].seats
               /\ seats'[s].user = holds'[r].user /\ seats'[s].until = holds'[r].expires
    BY <1>0, <1>2, <2>2, HoldCommitEffect
  <2>3. ASSUME NEW s \in Seats, seats'[s].status = "LOCKED", s \notin hreq[r].seats
        PROVE  seats'[s] = seats[s] /\ holds'[seats[s].hold] = holds[seats[s].hold]
    BY <1>0, <1>2, <2>1, <2>3, HoldCommitEffect
  <2> QED BY <1>0, <2>2, <2>3
<1>3. ASSUME NEW c \in ConfirmCalls, ConfirmCommit(c) PROVE SeatsFollowHolds'
  <2>1. PICK h \in HoldCalls :
          /\ holds[h].status = "ACTIVE"
          /\ EndHold(h, "CONFIRMED", <<"BOOKING_SUCCESS">>)
          /\ \A s \in holds[h].seats : seats'[s].status = "BOOKED"
          /\ \A s \in Seats \ holds[h].seats : seats'[s] = seats[s]
    BY <1>0, <1>3, ConfirmCommitEffect
  <2>2. \A g \in HoldCalls \ {h} : holds'[g] = holds[g]
    BY <1>0, <2>1, EndHoldEffect
  <2> QED BY <1>0, <2>1, <2>2
<1>4. ASSUME NEW h \in HoldCalls, HoldEnds(h) PROVE SeatsFollowHolds'
  <2>1. \A g \in HoldCalls \ {h} : holds'[g] = holds[g]
    BY <1>0, <1>4, HoldEndsOnlyItself
  <2> QED BY <1>0, <1>4, <2>1, HoldEndsEffect
<1> QED BY <1>0, <1>1, <1>2, <1>3, <1>4, StepKinds

LEMMA LiveHoldOwnsSeatsStays ==
    ASSUME SafetyInv, Next
    PROVE  LiveHoldOwnsSeats'
<1> USE DEF LiveHoldOwnsSeats, Live
<1>0. /\ TypeOK /\ StampsArePast /\ IdsAreFresh /\ SeatsFollowHolds /\ LiveHoldOwnsSeats
  BY DEF SafetyInv
<1>t. /\ clock \in Nat
      /\ \A h \in HoldCalls : holds[h].expires \in Nat /\ holds[h].seats \subseteq Seats
  <2>1. \A h \in HoldCalls : holds[h] \in Hold
    BY <1>0 DEF TypeOK
  <2> QED BY <1>0, <2>1 DEF TypeOK, Hold
<1>1. CASE UNCHANGED mongo /\ (clock' = clock \/ Tick)
  <2>1. \A h \in HoldCalls : Live(h)' => Live(h)
    BY <1>1, <1>t DEF Tick
  <2> QED BY <1>0, <1>1, <2>1
<1>2. ASSUME NEW r \in HoldCalls, HoldCommit(r) PROVE LiveHoldOwnsSeats'
  <2>1. \A g \in HoldCalls \ {r} : holds'[g] = holds[g]
    BY <1>0, <1>2, HoldCommitEffect DEF TypeOK
  <2>2. ASSUME NEW g \in HoldCalls \ {r}, Live(g), NEW s \in holds[g].seats
        PROVE  seats'[s] = seats[s]
    <3>1. seats[s].status = "LOCKED" /\ seats[s].hold = g /\ s \in Seats
      BY <1>0, <1>t, <2>2
    <3>2. seats[s].until = holds[g].expires
      BY <1>0, <3>1 DEF SeatsFollowHolds
    <3>3. ~(seats[s].until <= clock)
      BY <1>t, <2>2, <3>2
    <3> QED BY <1>0, <1>2, <3>1, <3>3, HoldCommitEffect
  <2>3. clock' = clock
    BY <1>0, <1>2, HoldCommitEffect
  <2>4. \A s \in holds'[r].seats : seats'[s].status = "LOCKED" /\ seats'[s].hold = r
    BY <1>0, <1>2, HoldCommitEffect
  <2> QED BY <1>0, <2>1, <2>2, <2>3, <2>4
<1>3. ASSUME NEW c \in ConfirmCalls, ConfirmCommit(c) PROVE LiveHoldOwnsSeats'
  <2>1. PICK h \in HoldCalls :
          /\ EndHold(h, "CONFIRMED", <<"BOOKING_SUCCESS">>)
          /\ \A s \in holds[h].seats : seats[s].hold = h
          /\ \A s \in Seats \ holds[h].seats : seats'[s] = seats[s]
          /\ clock' = clock
    BY <1>0, <1>3, ConfirmCommitEffect
  <2>2. /\ \A g \in HoldCalls \ {h} : holds'[g] = holds[g]
        /\ holds'[h].status = "CONFIRMED"
    BY <1>0, <2>1, EndHoldEffect
  <2> QED BY <1>0, <1>t, <2>1, <2>2
<1>4. ASSUME NEW h \in HoldCalls, HoldEnds(h) PROVE LiveHoldOwnsSeats'
  <2>1. /\ \A g \in HoldCalls \ {h} : holds'[g] = holds[g]
        /\ holds'[h].status # "ACTIVE"
    BY <1>0, <1>4, HoldEndsOnlyItself
  <2> QED BY <1>0, <1>4, <1>t, <2>1, HoldEndsEffect
<1> QED BY <1>0, <1>1, <1>2, <1>3, <1>4, StepKinds

LEMMA BookingsOwnSeatsStays ==
    ASSUME SafetyInv, Next
    PROVE  BookingsOwnSeats'
<1> USE DEF BookingsOwnSeats
<1>0. TypeOK /\ StampsArePast /\ IdsAreFresh /\ BookingsOwnSeats
  BY DEF SafetyInv
<1>t. \A b \in bookings : b.seats \subseteq Seats
  BY <1>0 DEF TypeOK, BookingDoc
<1>1. CASE UNCHANGED mongo
  BY <1>0, <1>1
<1>2. ASSUME NEW r \in HoldCalls, HoldCommit(r) PROVE BookingsOwnSeats'
  <2>1. UNCHANGED bookings
    BY <1>0, <1>2, HoldCommitEffect
  <2>2. ASSUME NEW s \in Seats, seats[s].status = "BOOKED" \/ seats'[s].status = "BOOKED"
        PROVE  seats'[s] = seats[s]
    BY <1>0, <1>2, <2>2, HoldCommitEffect
  <2> QED BY <1>0, <1>t, <2>1, <2>2
<1>3. ASSUME NEW c \in ConfirmCalls, ConfirmCommit(c) PROVE BookingsOwnSeats'
  <2>1. PICK h \in HoldCalls, b \in BookingDoc :
          /\ b.id = c /\ b.seats = holds[h].seats
          /\ bookings' = bookings \cup {b}
          /\ \A s \in holds[h].seats :
               /\ seats[s].status = "LOCKED"
               /\ seats'[s].status = "BOOKED" /\ seats'[s].booking = c
          /\ \A s \in Seats \ holds[h].seats : seats'[s] = seats[s]
    BY <1>0, <1>3, ConfirmCommitEffect
  <2>2. \A a \in bookings : \A s \in a.seats :
          seats'[s].status = "BOOKED" /\ seats'[s].booking = a.id
    BY <1>0, <1>t, <2>1
  <2>3. \A s \in Seats : seats'[s].status = "BOOKED" =>
          \E a \in bookings' : a.id = seats'[s].booking /\ s \in a.seats
    BY <1>0, <2>1
  <2> QED BY <2>1, <2>2, <2>3
<1>4. ASSUME NEW h \in HoldCalls, HoldEnds(h) PROVE BookingsOwnSeats'
  <2>1. UNCHANGED bookings
    BY <1>0, <1>4, HoldEndsEffect
  <2>2. ASSUME NEW s \in Seats, seats[s].status = "BOOKED" \/ seats'[s].status = "BOOKED"
        PROVE  seats'[s] = seats[s]
    BY <1>0, <1>4, <2>2, HoldEndsEffect
  <2> QED BY <1>0, <1>t, <2>1, <2>2
<1> QED BY <1>0, <1>1, <1>2, <1>3, <1>4, StepKinds

\* The audit records and bookings of one hold, as OneEndPerHold demands them.
OneEnd(h) ==
    /\ audit[h] = EndOf(holds[h].status)
    /\ IF holds[h].status = "CONFIRMED"
       THEN \E b \in bookings : /\ BookingsByHold(h) = {b}
                                /\ b.user = holds[h].user
                                /\ b.seats = holds[h].seats
       ELSE BookingsByHold(h) = {}

LEMMA EndOfValues ==
    /\ EndOf("ACTIVE") = <<>> /\ EndOf(None) = <<>>
    /\ EndOf("CONFIRMED") = EndOf("ACTIVE") \o <<"BOOKING_SUCCESS">>
    /\ EndOf("RELEASED") = EndOf("ACTIVE") \o <<"SEAT_RELEASED">>
    /\ EndOf("EXPIRED") = EndOf("ACTIVE") \o <<"BOOKING_TIMEOUT", "SEAT_RELEASED">>
<1>1. None \notin HoldStatus
  BY NoneIsFresh
<1>2. /\ EndOf("ACTIVE") = <<>> /\ EndOf(None) = <<>>
      /\ EndOf("CONFIRMED") = <<"BOOKING_SUCCESS">>
      /\ EndOf("RELEASED") = <<"SEAT_RELEASED">>
      /\ EndOf("EXPIRED") = <<"BOOKING_TIMEOUT", "SEAT_RELEASED">>
  BY <1>1 DEF EndOf, HoldStatus
<1>3. \A e \in Seq(AuditEvents) : <<>> \o e = e
  OBVIOUS
<1>4. /\ <<"BOOKING_SUCCESS">> \in Seq(AuditEvents) /\ <<"SEAT_RELEASED">> \in Seq(AuditEvents)
      /\ <<"BOOKING_TIMEOUT", "SEAT_RELEASED">> \in Seq(AuditEvents)
  BY DEF AuditEvents
<1> QED BY <1>2, <1>3, <1>4

LEMMA OneEndPerHoldStays ==
    ASSUME SafetyInv, Next
    PROVE  OneEndPerHold'
<1>0. /\ TypeOK /\ StampsArePast /\ IdsAreFresh
      /\ \A h \in HoldCalls : OneEnd(h)
      /\ outbox = {b.id : b \in bookings}
  BY DEF SafetyInv, OneEndPerHold, OneEnd
<1> SUFFICES (\A h \in HoldCalls : OneEnd(h)') /\ outbox' = {b.id : b \in bookings'}
  BY DEF OneEndPerHold, OneEnd
<1>e. ASSUME NEW h \in HoldCalls, UNCHANGED bookings, audit'[h] = audit[h],
             holds'[h].status = holds[h].status, holds'[h].user = holds[h].user,
             holds'[h].seats = holds[h].seats
      PROVE  OneEnd(h)'
  BY <1>0, <1>e DEF OneEnd, BookingsByHold
<1>1. CASE UNCHANGED mongo
  BY <1>0, <1>1, <1>e
<1>2. ASSUME NEW r \in HoldCalls, HoldCommit(r)
      PROVE  (\A h \in HoldCalls : OneEnd(h)') /\ outbox' = {b.id : b \in bookings'}
  <2>1. /\ UNCHANGED <<bookings, outbox, audit>>
        /\ \A h \in HoldCalls \ {r} : holds'[h] = holds[h]
        /\ holds[r].status = None /\ holds'[r].status = "ACTIVE"
    BY <1>0, <1>2, HoldCommitEffect DEF TypeOK
  <2>2. OneEnd(r)'
    <3>1. audit[r] = EndOf(None) /\ BookingsByHold(r) = {}
      BY <1>0, <2>1, NoneIsFresh DEF OneEnd, HoldStatus
    <3> QED BY <2>1, <3>1, EndOfValues DEF OneEnd, BookingsByHold
  <2>3. \A h \in HoldCalls \ {r} : OneEnd(h)'
    BY <2>1, <1>e
  <2> QED BY <1>0, <2>1, <2>2, <2>3
<1>3. ASSUME NEW c \in ConfirmCalls, ConfirmCommit(c)
      PROVE  (\A h \in HoldCalls : OneEnd(h)') /\ outbox' = {b.id : b \in bookings'}
  <2>1. PICK h \in HoldCalls, b \in BookingDoc :
          /\ holds[h].status = "ACTIVE"
          /\ EndHold(h, "CONFIRMED", <<"BOOKING_SUCCESS">>)
          /\ b.id = c /\ b.hold = h /\ b.user = holds[h].user /\ b.seats = holds[h].seats
          /\ \A other \in bookings : other.hold # h
          /\ bookings' = bookings \cup {b}
          /\ outbox' = outbox \cup {c}
    BY <1>0, <1>3, ConfirmCommitEffect
  <2>2. /\ \A g \in HoldCalls \ {h} : holds'[g] = holds[g] /\ audit'[g] = audit[g]
        /\ holds'[h].status = "CONFIRMED"
        /\ holds'[h].user = holds[h].user /\ holds'[h].seats = holds[h].seats
        /\ audit'[h] = audit[h] \o <<"BOOKING_SUCCESS">>
    BY <1>0, <2>1, EndHoldEffect
  <2>3. OneEnd(h)'
    <3>1. audit'[h] = EndOf(holds'[h].status)
      BY <1>0, <2>1, <2>2, EndOfValues DEF OneEnd
    <3>2. BookingsByHold(h)' = {b}
      BY <2>1 DEF BookingsByHold
    <3> QED BY <2>1, <2>2, <3>1, <3>2 DEF OneEnd
  <2>4. ASSUME NEW g \in HoldCalls \ {h} PROVE OneEnd(g)'
    <3>1. BookingsByHold(g)' = BookingsByHold(g)
      BY <2>1 DEF BookingsByHold
    <3> QED BY <1>0, <2>1, <2>2, <3>1 DEF OneEnd
  <2>5. outbox' = {a.id : a \in bookings'}
    BY <1>0, <2>1
  <2> QED BY <2>3, <2>4, <2>5
<1>4. ASSUME NEW h \in HoldCalls, HoldEnds(h)
      PROVE  (\A g \in HoldCalls : OneEnd(g)') /\ outbox' = {b.id : b \in bookings'}
  <2>1. UNCHANGED <<bookings, outbox>> /\ holds[h].status = "ACTIVE"
    BY <1>0, <1>4, HoldEndsEffect
  <2>2. /\ \A g \in HoldCalls \ {h} : holds'[g] = holds[g] /\ audit'[g] = audit[g]
        /\ holds'[h].status \in {"RELEASED", "EXPIRED"}
        /\ holds'[h].status = "RELEASED" => audit'[h] = audit[h] \o <<"SEAT_RELEASED">>
        /\ holds'[h].status = "EXPIRED" =>
             audit'[h] = audit[h] \o <<"BOOKING_TIMEOUT", "SEAT_RELEASED">>
    BY <1>0, <1>4, HoldEndsOnlyItself
  <2>3. audit'[h] = EndOf(holds'[h].status)
    BY <1>0, <2>1, <2>2, EndOfValues DEF OneEnd
  <2>4. BookingsByHold(h)' = {} /\ holds'[h].status # "CONFIRMED"
    BY <1>0, <2>1, <2>2 DEF OneEnd, BookingsByHold
  <2>5. OneEnd(h)'
    BY <2>3, <2>4 DEF OneEnd
  <2>6. \A g \in HoldCalls \ {h} : OneEnd(g)'
    BY <2>1, <2>2, <1>e
  <2> QED BY <1>0, <2>1, <2>5, <2>6
<1> QED BY <1>0, <1>1, <1>2, <1>3, <1>4, StepKinds

-----------------------------------------------------------------------------
(* The theorems *)

LEMMA SafetyInit == Init => SafetyInv
<1> SUFFICES ASSUME Init PROVE SafetyInv
  OBVIOUS
<1>1. TypeOK
  BY InitType
<1>2. \A s \in Seats : seats[s].status = "AVAILABLE"
  <2>1. AvailableSeat.status = "AVAILABLE"
    BY DEF AvailableSeat
  <2> QED BY <2>1 DEF Init
<1>3. \A h \in HoldCalls : holds[h].status = None
  <2>1. NoHold.status = None
    BY DEF NoHold
  <2> QED BY <2>1 DEF Init
<1>4. bookings = {} /\ outbox = {} /\ clock = 0 /\ \A h \in HoldCalls : audit[h] = <<>>
  BY DEF Init
<1>5. SeatsFollowHolds
  BY <1>2 DEF SeatsFollowHolds
<1>6. LiveHoldOwnsSeats
  BY <1>3, NoneIsFresh DEF LiveHoldOwnsSeats, Live, HoldStatus
<1>7. BookingsOwnSeats
  BY <1>2, <1>4 DEF BookingsOwnSeats
<1>8. OneEndPerHold
  <2>1. \A h \in HoldCalls : BookingsByHold(h) = {}
    BY <1>4 DEF BookingsByHold
  <2> QED BY <1>3, <1>4, <2>1, EndOfValues, NoneIsFresh DEF OneEndPerHold, HoldStatus
<1>9. StampsArePast
  <2>1. IdleHoldReq.now = 0 /\ IdleWorker.now = 0
    BY DEF IdleHoldReq, IdleWorker
  <2> QED BY <1>4, <2>1 DEF StampsArePast, Init
<1>10. IdsAreFresh
  BY <1>3, <1>4 DEF IdsAreFresh
<1> QED BY <1>1, <1>5, <1>6, <1>7, <1>8, <1>9, <1>10 DEF SafetyInv

\* SafetyInv is inductive: no interleaving of requests, workers, crashes and failures of the
\* stores, with transactions committing at any later time, takes the collections apart.
THEOREM SafetyHolds == Spec => []SafetyInv
<1>1. SafetyInv /\ Next => SafetyInv'
  <2> SUFFICES ASSUME SafetyInv, Next PROVE SafetyInv'
    OBVIOUS
  <2>1. TypeOK'
    BY HoldStepType, ConfirmStepType, ReleaseStepType, WorkerStepType,
       EnvironmentStepType DEF Next, SafetyInv
  <2> QED BY <2>1, SeatsFollowHoldsStays, LiveHoldOwnsSeatsStays, BookingsOwnSeatsStays,
             OneEndPerHoldStays, StampsStay, IdsStay DEF SafetyInv
<1>2. SafetyInv /\ UNCHANGED vars => SafetyInv'
  <2> SUFFICES ASSUME SafetyInv, UNCHANGED vars PROVE SafetyInv'
    OBVIOUS
  <2>1. TypeOK'
    BY StutterType DEF SafetyInv
  <2> QED BY <2>1 DEF SafetyInv, vars, SeatsFollowHolds, LiveHoldOwnsSeats, Live,
             BookingsOwnSeats, OneEndPerHold, BookingsByHold, StampsArePast, IdsAreFresh
<1> QED BY SafetyInit, <1>1, <1>2, PTL DEF Spec

\* Whatever the requests, workers and faults, and however late a transaction commits, a
\* hold owns each of its seats until it lapses.
THEOREM LiveHoldsOwnTheirSeats == Spec => []LiveHoldOwnsSeats
BY SafetyHolds, PTL DEF SafetyInv

\* No LOCKED seat is ever orphaned: it belongs to an ACTIVE hold that agrees with it.
THEOREM LockedSeatsHaveTheirHold == Spec => []SeatsFollowHolds
BY SafetyHolds, PTL DEF SafetyInv

\* A seat is sold to at most one booking, and stays sold: every booking owns its seats.
THEOREM BookingsOwnTheirSeats == Spec => []BookingsOwnSeats
BY SafetyHolds, PTL DEF SafetyInv

\* Confirmations, releases and expiries of one hold, however many race, have one winner,
\* whose audit records, booking and outbox event are all there is.
THEOREM HoldsEndOnce == Spec => []OneEndPerHold
BY SafetyHolds, PTL DEF SafetyInv

LEMMA StepsTakeNothingBack ==
    ASSUME SafetyInv, Next
    PROVE  TakesNothingBack
<1>0. /\ TypeOK /\ StampsArePast /\ IdsAreFresh /\ SeatsFollowHolds /\ LiveHoldOwnsSeats
  BY DEF SafetyInv
<1>t. /\ clock \in Nat
      /\ \A h \in HoldCalls : holds[h].expires \in Nat /\ holds[h].seats \subseteq Seats
  <2>1. \A h \in HoldCalls : holds[h] \in Hold
    BY <1>0 DEF TypeOK
  <2> QED BY <1>0, <2>1 DEF TypeOK, Hold
\* What a live hold's seats look like before the step.
<1>s. ASSUME NEW h \in HoldCalls, Live(h), NEW s \in holds[h].seats
      PROVE  /\ s \in Seats /\ seats[s].status = "LOCKED" /\ seats[s].hold = h
             /\ ~(seats[s].until <= clock)
  <2>1. s \in Seats /\ seats[s].status = "LOCKED" /\ seats[s].hold = h
    BY <1>0, <1>t, <1>s DEF LiveHoldOwnsSeats
  <2>2. seats[s].until = holds[h].expires
    BY <1>0, <2>1 DEF SeatsFollowHolds
  <2> QED BY <1>t, <1>s, <2>1, <2>2 DEF Live
<1>1. CASE UNCHANGED mongo
  BY <1>1 DEF TakesNothingBack, Live
<1>2. ASSUME NEW r \in HoldCalls, HoldCommit(r) PROVE TakesNothingBack
  <2>1. /\ \A h \in HoldCalls \ {r} : holds'[h] = holds[h]
        /\ holds[r].status = None
    BY <1>0, <1>2, HoldCommitEffect DEF TypeOK
  <2>2. \A s \in Seats : seats[s].status = "BOOKED" => seats'[s] = seats[s]
    BY <1>0, <1>2, HoldCommitEffect
  <2>3. ASSUME NEW h \in HoldCalls, Live(h), NEW s \in holds[h].seats
        PROVE  seats'[s] = seats[s]
    BY <1>0, <1>2, <1>s, <2>3, HoldCommitEffect
  <2> QED BY <2>1, <2>2, <2>3, NoneIsFresh DEF TakesNothingBack, Live, HoldStatus
<1>3. ASSUME NEW c \in ConfirmCalls, ConfirmCommit(c) PROVE TakesNothingBack
  <2>1. PICK h \in HoldCalls :
          /\ holds[h].status = "ACTIVE"
          /\ EndHold(h, "CONFIRMED", <<"BOOKING_SUCCESS">>)
          /\ \A s \in holds[h].seats : seats[s].status = "LOCKED" /\ seats[s].hold = h
          /\ \A s \in Seats \ holds[h].seats : seats'[s] = seats[s]
    BY <1>0, <1>3, ConfirmCommitEffect
  <2>2. /\ \A g \in HoldCalls \ {h} : holds'[g] = holds[g]
        /\ holds'[h].status = "CONFIRMED"
    BY <1>0, <2>1, EndHoldEffect
  <2>3. \A s \in Seats : seats[s].status = "BOOKED" => seats'[s] = seats[s]
    BY <2>1
  <2>4. ASSUME NEW g \in HoldCalls \ {h}, Live(g), NEW s \in holds[g].seats
        PROVE  seats'[s] = seats[s]
    BY <1>s, <2>1, <2>4
  <2> QED BY <2>1, <2>2, <2>3, <2>4 DEF TakesNothingBack, Live
<1>4. ASSUME NEW h \in HoldCalls, HoldEnds(h) PROVE TakesNothingBack
  <2>1. /\ \A g \in HoldCalls \ {h} : holds'[g] = holds[g]
        /\ holds'[h].status \in {"RELEASED", "EXPIRED"}
        /\ holds'[h].status = "EXPIRED" => holds[h].expires <= clock
    BY <1>0, <1>4, HoldEndsOnlyItself
  <2>2. holds[h].status = "ACTIVE"
    BY <1>0, <1>4, HoldEndsEffect
  <2>3. Live(h) => holds'[h].status = "RELEASED"
    BY <1>t, <2>1 DEF Live
  <2>4. \A s \in Seats : seats[s].status = "BOOKED" => seats'[s] = seats[s]
    BY <1>0, <1>4, HoldEndsEffect
  <2>5. ASSUME NEW g \in HoldCalls \ {h}, Live(g), NEW s \in holds[g].seats
        PROVE  seats'[s] = seats[s]
    BY <1>0, <1>4, <1>s, <2>5, HoldEndsEffect
  <2> QED BY <2>1, <2>2, <2>3, <2>4, <2>5 DEF TakesNothingBack, Live
<1> QED BY <1>0, <1>1, <1>2, <1>3, <1>4, StepKinds

\* No step of any process takes a seat from a live hold, touches a sold seat or reopens an
\* ended hold.
THEOREM NothingIsEverTakenBack == Spec => NothingIsTakenBack
<1>1. SafetyInv /\ [Next]_vars => [TakesNothingBack]_vars
  BY StepsTakeNothingBack
<1> QED BY SafetyHolds, <1>1, PTL DEF Spec, NothingIsTakenBack
=============================================================================
