------------------------- MODULE BookingLocksProofs -------------------------
(***************************************************************************)
(* Whose the Redis keys are and how long they last, for every value of the *)
(* constants of Booking.  A key is given up by the handler that undoes or  *)
(* the one that has ended its owner's hold, or dropped at its deadline     *)
(* (LocksStepKinds); so what the handlers know between their steps says    *)
(* which keys a live hold can lose, and which keys may be left behind.     *)
(* The two results name the faults that they exclude.                      *)
(***************************************************************************)
EXTENDS BookingAnswersProofs

USE DEF mongo

-----------------------------------------------------------------------------
(* Who touches the keys *)

LEMMA LocksStepKinds ==
    ASSUME Next
    PROVE  \/ UNCHANGED locks
           \/ Tick \/ RedisRestart
           \/ \E r \in HoldCalls : /\ HoldAcquire(r) /\ KeysFree(hreq[r].seats)
                                   /\ AcquireKeys(hreq[r].seats, r, clock)
           \/ \E r \in HoldCalls : HoldUndo(r) /\ ReleaseKeys(hreq[r].seats, r)
           \/ \E c \in ConfirmCalls :
                ConfirmCleanup(c) /\ ReleaseKeys(holds[creq[c].hold].seats, creq[c].hold)
           \/ \E d \in ReleaseCalls :
                ReleaseCleanup(d) /\ ReleaseKeys(holds[rreq[d].hold].seats, rreq[d].hold)
           \/ \E w \in Workers :
                WorkerCleanup(w) /\ ReleaseKeys(holds[wrk[w].hold].seats, wrk[w].hold)
<1>1. ASSUME NEW r \in HoldCalls, HoldStep(r)
      PROVE  \/ UNCHANGED locks
             \/ /\ HoldAcquire(r) /\ KeysFree(hreq[r].seats)
                /\ AcquireKeys(hreq[r].seats, r, clock)
             \/ HoldUndo(r) /\ ReleaseKeys(hreq[r].seats, r)
  <2>1. CASE HoldAcquire(r)
    BY <2>1 DEF HoldAcquire
  <2>2. CASE HoldUndo(r)
    BY <2>2 DEF HoldUndo, CleanUp
  <2>3. CASE HoldLookup(r) \/ HoldPrepare(r) \/ HoldCommit(r) \/ HoldAbort(r)
    BY <2>3 DEF HoldLookup, HoldPrepare, HoldCommit, HoldAbort
  <2>4. CASE HoldDupe(r) \/ HoldReadFails(r)
    BY <2>4 DEF HoldDupe, HoldReadFails
  <2> QED BY <1>1, <2>1, <2>2, <2>3, <2>4 DEF HoldStep
<1>2. ASSUME NEW c \in ConfirmCalls, ConfirmStep(c)
      PROVE  \/ UNCHANGED locks
             \/ ConfirmCleanup(c) /\ ReleaseKeys(holds[creq[c].hold].seats, creq[c].hold)
  <2>1. CASE ConfirmCleanup(c)
    BY <2>1 DEF ConfirmCleanup, CleanUp
  <2> QED BY <1>2, <2>1 DEF ConfirmStep, ConfirmByKey, ConfirmByHold, ConfirmLoad,
            ConfirmVerify, ConfirmStamp, ConfirmReadFails, ConfirmCommit, ConfirmAbort,
            ConfirmRecoverHold, ConfirmRecoverKey
<1>3. ASSUME NEW d \in ReleaseCalls, ReleaseStep(d)
      PROVE  \/ UNCHANGED locks
             \/ ReleaseCleanup(d) /\ ReleaseKeys(holds[rreq[d].hold].seats, rreq[d].hold)
  <2>1. CASE ReleaseCleanup(d)
    BY <2>1 DEF ReleaseCleanup, CleanUp
  <2> QED BY <1>3, <2>1 DEF ReleaseStep, ReleaseLoad, ReleaseCommit, ReleaseAbort,
                            ReleaseRecover
<1>4. ASSUME NEW w \in Workers, WorkerStep(w)
      PROVE  \/ UNCHANGED locks
             \/ WorkerCleanup(w) /\ ReleaseKeys(holds[wrk[w].hold].seats, wrk[w].hold)
  <2>1. CASE WorkerCleanup(w)
    BY <2>1 DEF WorkerCleanup, CleanUp
  <2> QED BY <1>4, <2>1 DEF WorkerStep, WorkerSweep, WorkerExpire, WorkerSkip, WorkerReread
<1>5. CASE CrashHandler \/ CrashWorker
  BY <1>5 DEF CrashHandler, CrashWorker
<1> QED BY <1>1, <1>2, <1>3, <1>4, <1>5 DEF Next

\* What becomes of a key: it is taken when it was free, and given up by the handler that
\* undoes its hold's request or the one that has ended its hold, at its deadline, or lost.
LEMMA KeysMove ==
    ASSUME TypeOK, Next, NEW s \in Seats
    PROVE  \/ locks'[s] = locks[s]
           \/ \E r \in HoldCalls :
                /\ HoldAcquire(r) /\ s \in hreq[r].seats /\ locks[s].owner = None
                /\ locks'[s].owner = r /\ locks'[s].until = clock + TTL
           \/ /\ locks'[s].owner = None
              /\ \/ Tick /\ locks[s].until <= clock'
                 \/ RedisRestart
                 \/ HoldUndo(locks[s].owner) /\ locks[s].owner \in HoldCalls
                 \/ \E c \in ConfirmCalls : ConfirmCleanup(c) /\ creq[c].hold = locks[s].owner
                 \/ \E d \in ReleaseCalls : ReleaseCleanup(d) /\ rreq[d].hold = locks[s].owner
                 \/ \E w \in Workers : WorkerCleanup(w) /\ wrk[w].hold = locks[s].owner
<1>n. NoKey.owner = None
  BY DEF NoKey
<1>r. ASSUME NEW S, NEW o, ReleaseKeys(S, o)
      PROVE  locks'[s] = locks[s] \/ (locks'[s].owner = None /\ locks[s].owner = o)
  BY <1>n, <1>r DEF ReleaseKeys
<1>1. CASE UNCHANGED locks
  BY <1>1
<1>2. CASE Tick
  <2>1. locks'[s] = IF locks[s].until <= clock' THEN NoKey ELSE locks[s]
    BY <1>2 DEF Tick, DropExpiredKeys
  <2> QED BY <1>2, <1>n, <2>1
<1>3. CASE RedisRestart
  <2>1. locks'[s] = NoKey \/ locks'[s] = locks[s]
    BY <1>3 DEF RedisRestart, LoseKeys
  <2> QED BY <1>3, <1>n, <2>1
<1>4. ASSUME NEW r \in HoldCalls, HoldAcquire(r), KeysFree(hreq[r].seats),
             AcquireKeys(hreq[r].seats, r, clock), s \in hreq[r].seats
      PROVE  /\ locks[s].owner = None
             /\ locks'[s].owner = r /\ locks'[s].until = clock + TTL
  BY <1>4, <1>n DEF KeysFree, AcquireKeys
<1>5. ASSUME NEW r \in HoldCalls, AcquireKeys(hreq[r].seats, r, clock), s \notin hreq[r].seats
      PROVE  locks'[s] = locks[s]
  BY <1>5 DEF AcquireKeys
<1> QED BY <1>1, <1>2, <1>3, <1>4, <1>5, <1>r, LocksStepKinds

\* The handler of a request that has arrived keeps its arguments and does not go back; it is
\* before its transaction because it took the keys, and undoes because that aborted.
LEMMA HandlerKeepsItsSeats ==
    ASSUME TypeOK, Next, NEW r \in HoldCalls, hreq[r].pc # "idle"
    PROVE  /\ hreq'[r].seats = hreq[r].seats
           /\ hreq'[r].pc # "idle"
           /\ hreq[r].pc \notin {"idle", "prepare", "acquire"} =>
                hreq'[r].pc \notin {"idle", "prepare", "acquire"}
           /\ HoldAcquire(r) => hreq'[r].pc \in {"tx", "done"}
           /\ hreq'[r].pc = "tx" =>
                hreq'[r].now = hreq[r].now /\ (hreq[r].pc = "tx" \/ HoldAcquire(r))
           /\ hreq'[r].pc = "undo" /\ hreq[r].pc # "undo" =>
                (HoldCommit(r) /\ Fault("commitUnknown")) \/ HoldAbort(r)
<1> DEFINE q == hreq[r]
           Fine(req) ==
             /\ req.seats = q.seats
             /\ req.pc # "idle"
             /\ q.pc \notin {"idle", "prepare", "acquire"} =>
                  req.pc \notin {"idle", "prepare", "acquire"}
             /\ HoldAcquire(r) => req.pc \in {"tx", "done"}
             /\ req.pc = "tx" => req.now = q.now /\ (q.pc = "tx" \/ HoldAcquire(r))
             /\ req.pc = "undo" /\ q.pc # "undo" =>
                  (HoldCommit(r) /\ Fault("commitUnknown")) \/ HoldAbort(r)
<1>q. q \in HoldReq
  <2>1. hreq[r] \in HoldReq \/ hreq[r] = IdleHoldReq
    BY DEF TypeOK
  <2> QED BY <2>1, IdlePC
<1>h. ASSUME NEW req, hreq' = [hreq EXCEPT ![r] = req] PROVE hreq'[r] = req
  BY <1>h DEF TypeOK
<1>a. ASSUME NEW reply, NEW h, hreq'[r] = Answered(q, reply, h) PROVE Fine(hreq'[r])
  <2> HIDE DEF q
  <2>1. hreq'[r].pc = "done" /\ hreq'[r].seats = q.seats
    BY <1>q, <1>a, AnsweredHoldFields
  <2> QED BY <2>1
<1>p. ASSUME NEW pc \in {"acquire", "tx", "undo", "dupe"}, NEW now, NEW err,
             hreq'[r] = [q EXCEPT !.pc = pc, !.now = now, !.err = err]
      PROVE  hreq'[r].pc = pc /\ hreq'[r].seats = q.seats /\ hreq'[r].now = now
  <2> HIDE DEF q
  <2> QED BY <1>p, <1>q DEF HoldReq
<1> SUFFICES Fine(hreq'[r])
  OBVIOUS
<1>s. CASE hreq'[r] = hreq[r] /\ ~HoldAcquire(r)
  BY <1>s
<1>x. HoldAcquire(r) => q.pc = "acquire"
  BY DEF HoldAcquire
<1>u. ASSUME q.pc = "tx", NEW err, hreq'[r] = [q EXCEPT !.pc = "undo", !.err = err],
             (HoldCommit(r) /\ Fault("commitUnknown")) \/ HoldAbort(r)
      PROVE  Fine(hreq'[r])
  <2> HIDE DEF q
  <2>1. hreq'[r].pc = "undo" /\ hreq'[r].seats = q.seats
    BY <1>u, <1>q DEF HoldReq
  <2> QED BY <1>u, <1>x, <2>1
<1>1. CASE HoldLookup(r)
  BY <1>1 DEF HoldLookup
<1>2. CASE HoldPrepare(r)
  <2>1. CASE hreq' = [hreq EXCEPT ![r] = [@ EXCEPT !.pc = "acquire", !.now = clock]]
    <3>1. hreq'[r] = [q EXCEPT !.pc = "acquire", !.now = clock] /\ q.pc = "prepare"
      BY <1>2, <1>h, <2>1 DEF HoldPrepare
    <3> HIDE DEF q
    <3>2. hreq'[r].pc = "acquire" /\ hreq'[r].seats = q.seats
      BY <1>q, <3>1 DEF HoldReq
    <3> QED BY <1>x, <3>1, <3>2
  <2> QED BY <1>2, <1>a, <1>h, <2>1 DEF HoldPrepare, AnswerHold
<1>3. CASE HoldAcquire(r)
  <2>1. CASE hreq' = [hreq EXCEPT ![r].pc = "tx"]
    <3>1. hreq'[r] = [q EXCEPT !.pc = "tx"] /\ q.pc = "acquire"
      BY <1>3, <1>h, <2>1 DEF HoldAcquire
    <3> HIDE DEF q
    <3>2. hreq'[r].pc = "tx" /\ hreq'[r].seats = q.seats /\ hreq'[r].now = q.now
      BY <1>q, <3>1 DEF HoldReq
    <3> QED BY <1>3, <3>1, <3>2
  <2> QED BY <1>3, <1>a, <1>h, <2>1 DEF HoldAcquire, AnswerHold
<1>4. CASE HoldCommit(r)
  <2>1. CASE AnswerHold(r, "CREATED", r)
    BY <1>a, <1>h, <2>1 DEF AnswerHold
  <2>2. CASE /\ Fault("commitUnknown")
             /\ hreq' = [hreq EXCEPT ![r] = [@ EXCEPT !.pc = "undo", !.err = "failed"]]
    <3>1. hreq'[r] = [q EXCEPT !.pc = "undo", !.err = "failed"]
      BY <1>h, <2>2
    <3>2. q.pc = "tx"
      BY <1>4 DEF HoldCommit
    <3> QED BY <1>4, <1>u, <2>2, <3>1, <3>2
  <2> QED BY <1>4, <2>1, <2>2 DEF HoldCommit
<1>5. CASE HoldAbort(r)
  BY <1>5, <1>h, <1>u DEF HoldAbort
<1>6. CASE HoldUndo(r)
  <2>1. CASE hreq' = [hreq EXCEPT ![r] = [@ EXCEPT !.pc = "dupe"]]
    <3>1. hreq'[r] = [q EXCEPT !.pc = "dupe"] /\ q.pc = "undo"
      BY <1>6, <1>h, <2>1 DEF HoldUndo
    <3> HIDE DEF q
    <3>2. hreq'[r].pc = "dupe" /\ hreq'[r].seats = q.seats
      BY <1>q, <3>1 DEF HoldReq
    <3> QED BY <1>x, <3>1, <3>2
  <2>2. CASE hreq[r].err # "duplicate"
    BY <1>6, <1>a, <1>h, <2>2 DEF HoldUndo
  <2> QED BY <1>6, <2>1, <2>2 DEF HoldUndo
<1>7. CASE HoldDupe(r)
  <2>1. PICK h : hreq' = [hreq EXCEPT ![r] = AnsweredByHold(q, h)]
    BY <1>7 DEF HoldDupe
  <2> QED BY <1>a, <1>h, <2>1 DEF AnsweredByHold
<1>8. CASE HoldReadFails(r)
  BY <1>8, <1>a, <1>h DEF HoldReadFails, AnswerHold
<1> QED BY <1>s, <1>a, <1>1, <1>2, <1>3, <1>4, <1>5, <1>6, <1>7, <1>8, HandlersMove DEF HoldStep

\* A request arrives at its first steps, or is answered at once.
LEMMA RequestsArrive ==
    ASSUME TypeOK, Next, NEW r \in HoldCalls, hreq[r].pc = "idle"
    PROVE  hreq'[r].pc \in {"idle", "prepare", "done"}
<1>1. ASSUME HoldLookup(r) PROVE hreq'[r].pc \in {"prepare", "done"}
  <2>1. PICK user \in Users, S \in SUBSET Seats, key \in IdemKeys :
          \/ hreq' = [hreq EXCEPT ![r] = NewHoldReq(user, S, key)]
          \/ \E h \in HoldCalls :
               hreq' = [hreq EXCEPT ![r] = AnsweredByHold(NewHoldReq(user, S, key), h)]
    BY <1>1 DEF HoldLookup, HoldsByKey
  <2>2. NewHoldReq(user, S, key) \in HoldReq /\ NewHoldReq(user, S, key).pc = "prepare"
    BY DEF NewHoldReq, HoldReq
  <2>3. CASE hreq' = [hreq EXCEPT ![r] = NewHoldReq(user, S, key)]
    BY <2>2, <2>3 DEF TypeOK
  <2>4. ASSUME NEW h \in HoldCalls,
               hreq' = [hreq EXCEPT ![r] = AnsweredByHold(NewHoldReq(user, S, key), h)]
        PROVE  hreq'[r].pc = "done"
    <3>1. hreq'[r] = AnsweredByHold(NewHoldReq(user, S, key), h)
      BY <2>4 DEF TypeOK
    <3> QED BY <2>2, <3>1, AnsweredHoldFields DEF AnsweredByHold
  <2> QED BY <2>1, <2>3, <2>4
<1>2. ~Running(hreq[r])
  BY DEF Running
<1>3. HoldStep(r) => HoldLookup(r)
  BY DEF HoldStep, HoldPrepare, HoldAcquire, HoldCommit, HoldAbort, HoldUndo, HoldDupe,
         HoldReadFails
<1> QED BY <1>1, <1>2, <1>3, HandlersMove

\* A handler reaches its transaction with all the keys of its request taken.
LEMMA AcquiredBeforeTx ==
    ASSUME TypeOK, NEW r \in HoldCalls, HoldAcquire(r), hreq'[r].pc = "tx"
    PROVE  AcquireKeys(hreq[r].seats, r, clock)
<1>1. ASSUME NEW reply, AnswerHold(r, reply, None) PROVE FALSE
  <2>1. hreq[r] \in HoldReq
    BY IdlePC DEF TypeOK, HoldAcquire
  <2>2. hreq'[r] = Answered(hreq[r], reply, None)
    BY <1>1 DEF AnswerHold, TypeOK
  <2> QED BY <2>1, <2>2, AnsweredHoldFields
<1> QED BY <1>1 DEF HoldAcquire

-----------------------------------------------------------------------------
(* What the keys say about their holds, whatever goes wrong *)

LEMMA KeysAreAskedForStays ==
    ASSUME TypeOK, KeysAreAskedFor, Next
    PROVE  KeysAreAskedFor'
<1>1. ASSUME NEW s \in Seats, locks'[s].owner # None
      PROVE  LET r == locks'[s].owner
             IN s \in hreq'[r].seats /\ hreq'[r].pc \notin {"idle", "prepare", "acquire"}
  <2>1. CASE locks'[s] = locks[s]
    <3>1. locks[s].owner \in HoldCalls
      BY <1>1, <2>1, OwnersAreHolds DEF TypeOK, LocksTypeOK, LockKey
    <3> QED BY <1>1, <2>1, <3>1, HandlerKeepsItsSeats DEF KeysAreAskedFor
  <2>2. ASSUME NEW r \in HoldCalls, HoldAcquire(r), s \in hreq[r].seats,
               locks'[s].owner = r
        PROVE  s \in hreq'[r].seats /\ hreq'[r].pc \notin {"idle", "prepare", "acquire"}
    <3>1. hreq[r].pc # "idle"
      BY <2>2 DEF HoldAcquire
    <3> QED BY <2>2, <3>1, HandlerKeepsItsSeats
  <2> QED BY <1>1, <2>1, <2>2, KeysMove
<1> QED BY <1>1 DEF KeysAreAskedFor

\* A worker turns to a hold's keys when it has expired that hold.
LEMMA WorkersKnowStays ==
    ASSUME SafetyInv, WorkersKnow, Next
    PROVE  WorkersKnow'
<1>0. TypeOK
  BY DEF SafetyInv
<1>g. StoresGrown
  BY StoresGrow
<1>w. \A w \in Workers : wrk[w].pc \in {"reread", "cleanup"} =>
        wrk[w] \in Worker /\ wrk[w].hold \in HoldCalls
  <2> TAKE w \in Workers
  <2>1. wrk[w] \in Worker \/ wrk[w] = IdleWorker
    BY <1>0 DEF TypeOK
  <2> QED BY <2>1, IdlePC DEF Worker
<1>k. \A h \in HoldCalls : holds[h].status = "EXPIRED" => holds'[h].status = "EXPIRED"
  BY <1>g DEF StoresGrown, HoldStatus
<1>i. "idle" \notin {"reread", "cleanup"} /\ "expire" \notin {"reread", "cleanup"}
  OBVIOUS
<1> SUFFICES ASSUME NEW w \in Workers, wrk'[w].pc \in {"reread", "cleanup"}
             PROVE  holds'[wrk'[w].hold].status = "EXPIRED"
  BY DEF WorkersKnow
<1>h. ASSUME NEW rec, wrk' = [wrk EXCEPT ![w] = rec] PROVE wrk'[w] = rec
  BY <1>0, <1>h DEF TypeOK
<1>p. ASSUME wrk[w].pc # "idle", NEW h, wrk' = [wrk EXCEPT ![w] = Proceeded(@, h)] PROVE FALSE
  <2>1. wrk[w] \in Worker
    BY <1>0, <1>p, IdlePC DEF TypeOK
  <2>2. wrk'[w] = Proceeded(wrk[w], h)
    BY <1>h, <1>p
  <2>3. Proceeded(wrk[w], h).pc \in {"idle", "expire"}
    BY <2>1, IdlePC DEF Proceeded, Worker
  <2> QED BY <1>i, <2>2, <2>3
<1>1. CASE wrk'[w] = wrk[w]
  BY <1>1, <1>w, <1>k DEF WorkersKnow
<1>2. CASE wrk'[w] = IdleWorker
  BY <1>2, <1>i, IdlePC
<1>3. CASE WorkerSweep(w)
  <2>1. wrk'[w].pc \in {"idle", "expire"}
    BY <1>3, <1>h, IdlePC DEF WorkerSweep
  <2> QED BY <1>i, <2>1
<1>4. CASE WorkerExpire(w)
  <2>1. PICK h \in HoldCalls :
          /\ EndHold(h, "EXPIRED", <<"BOOKING_TIMEOUT", "SEAT_RELEASED">>)
          /\ \/ wrk' = [wrk EXCEPT ![w] = [@ EXCEPT !.pc = "reread", !.hold = h]]
             \/ wrk' = [wrk EXCEPT ![w] = Proceeded(@, h)]
    BY <1>4 DEF WorkerExpire
  <2>2. wrk[w].pc = "expire" /\ wrk[w] \in Worker
    BY <1>0, <1>4, IdlePC DEF WorkerExpire, TypeOK
  <2>3. wrk'[w] = [wrk[w] EXCEPT !.pc = "reread", !.hold = h]
    BY <1>h, <1>p, <2>1, <2>2
  <2>4. wrk'[w].hold = h
    BY <2>2, <2>3 DEF Worker
  <2> QED BY <1>0, <2>1, <2>4, EndHoldEffect
<1>5. CASE WorkerSkip(w)
  BY <1>5, <1>p DEF WorkerSkip
<1>6. CASE WorkerReread(w)
  <2>1. wrk[w].pc = "reread" /\ wrk[w] \in Worker /\ wrk[w].hold \in HoldCalls
    BY <1>6, <1>w DEF WorkerReread
  <2>2. wrk' = [wrk EXCEPT ![w].pc = "cleanup"]
    BY <1>6, <1>p, <2>1 DEF WorkerReread
  <2>3. wrk'[w].hold = wrk[w].hold
    BY <1>h, <2>1, <2>2 DEF Worker
  <2> QED BY <1>k, <2>1, <2>3 DEF WorkersKnow
<1>7. CASE WorkerCleanup(w)
  BY <1>7, <1>p DEF WorkerCleanup
<1> QED BY <1>0, <1>1, <1>2, <1>3, <1>4, <1>5, <1>6, <1>7, HandlersMove DEF WorkerStep

-----------------------------------------------------------------------------
(* Redis backs live holds, while it keeps its data and commits report their outcome *)

\* The keys of a request between its commands to Redis and MongoDB, and of a live hold, are
\* given up by nobody but the clock, at their deadline.
LEMMA KeysStay ==
    ASSUME SafetyInv, AnswersInv, KeysInv, Next, FaultKinds \cap {"redisLoss"} = {},
           NEW s \in Seats, NEW r \in HoldCalls, locks[s].owner = r,
           hreq[r].pc = "tx" \/ holds[r].status = "ACTIVE"
    PROVE  locks'[s] = locks[s] \/ (Tick /\ locks[s].until <= clock')
<1>0. TypeOK /\ IdsAreFresh /\ StampsArePast
  BY DEF SafetyInv
<1>n. r # None
  BY NoneIsFresh
<1>f. hreq[r].pc = "tx" => holds[r].status = None
  BY <1>0 DEF IdsAreFresh
<1>e. holds[r].status \notin {"CONFIRMED", "RELEASED", "EXPIRED"}
  BY <1>f, NoneIsFresh DEF HoldStatus
<1>1. ~RedisRestart
  BY DEF RedisRestart, Fault
<1>2. ~HoldUndo(r)
  <2>1. ASSUME HoldUndo(r) PROVE FALSE
    <3>1. hreq[r].pc = "undo"
      BY <2>1 DEF HoldUndo
    <3>2. holds[r].status = None
      BY <3>1 DEF KeysInv, KeysOutliveHolds
    <3> QED BY <3>1, <3>2, NoneIsFresh DEF HoldStatus
  <2> QED BY <2>1
<1>3. \A c \in ConfirmCalls : ~(ConfirmCleanup(c) /\ creq[c].hold = r)
  <2> TAKE c \in ConfirmCalls
  <2>1. ConfirmCleanup(c) => holds[creq[c].hold].status = "CONFIRMED"
    BY DEF ConfirmCleanup, AnswersInv, ConfirmReqsKnow
  <2> QED BY <1>e, <2>1
<1>4. \A d \in ReleaseCalls : ~(ReleaseCleanup(d) /\ rreq[d].hold = r)
  BY <1>e DEF ReleaseCleanup, AnswersInv, ReleaseReqsKnow
<1>5. \A w \in Workers : ~(WorkerCleanup(w) /\ wrk[w].hold = r)
  BY <1>e DEF WorkerCleanup, KeysInv, WorkersKnow
<1> QED BY <1>0, <1>n, <1>1, <1>2, <1>3, <1>4, <1>5, KeysMove

LEMMA ClockMoves ==
    ASSUME SafetyInv, Next
    PROVE  /\ clock \in Nat /\ clock' \in Nat /\ clock <= clock'
           /\ Tick \/ clock' = clock
<1>1. TypeOK /\ StampsArePast
  BY DEF SafetyInv
<1>2. clock \in Nat
  BY <1>1 DEF TypeOK
<1>3. clock' = clock \/ Tick
  BY <1>1, StepKinds DEF HoldCommit, ConfirmCommit, HoldEnds
<1> QED BY <1>2, <1>3 DEF Tick

LEMMA KeysOutliveHoldsStays ==
    ASSUME SafetyInv, AnswersInv, KeysInv, Next,
           FaultKinds \cap {"redisLoss", "commitUnknown"} = {}
    PROVE  KeysOutliveHolds'
<1>0. TypeOK /\ IdsAreFresh /\ StampsArePast /\ FaultKinds \cap {"redisLoss"} = {}
  BY DEF SafetyInv
<1>g. StoresGrown
  BY StoresGrow
<1>c. clock \in Nat /\ clock' \in Nat /\ clock <= clock' /\ (Tick \/ clock' = clock)
  BY ClockMoves
<1>t. /\ TTL \in Nat
      /\ \A r \in HoldCalls : hreq[r].now \in Nat /\ hreq[r].seats \subseteq Seats
      /\ \A h \in HoldCalls : holds[h].expires \in Nat /\ holds[h].seats \subseteq Seats
      /\ \A s \in Seats : locks[s].until \in Nat
  <2>1. \A r \in HoldCalls : hreq[r].now \in Nat /\ hreq[r].seats \subseteq Seats
    <3> TAKE r \in HoldCalls
    <3>1. hreq[r] \in HoldReq \/ hreq[r] = IdleHoldReq
      BY <1>0 DEF TypeOK
    <3>2. CASE hreq[r] = IdleHoldReq
      <4>1. IdleHoldReq.now = 0 /\ IdleHoldReq.seats = {}
        BY DEF IdleHoldReq
      <4> QED BY <3>2, <4>1
    <3>3. CASE hreq[r] \in HoldReq
      BY <3>3 DEF HoldReq
    <3> QED BY <3>1, <3>2, <3>3
  <2>2. \A h \in HoldCalls : holds[h].expires \in Nat /\ holds[h].seats \subseteq Seats
    BY <1>0 DEF TypeOK, Hold
  <2>3. \A s \in Seats : locks[s].until \in Nat
    BY <1>0 DEF TypeOK, LocksTypeOK, LockKey
  <2> QED BY <2>1, <2>2, <2>3, TTLAssumption
\* An undo is of a transaction that aborted.
<1>1. ASSUME NEW r \in HoldCalls, hreq'[r].pc = "undo" PROVE holds'[r].status = None
  <2>1. hreq[r].pc # "idle"
    BY <1>0, <1>1, RequestsArrive
  <2>2. holds[r].status = None /\ ~HoldCommit(r)
    <3>1. CASE hreq[r].pc = "undo"
      BY <3>1 DEF KeysInv, KeysOutliveHolds, HoldCommit
    <3>2. CASE hreq[r].pc # "undo"
      <4>1. HoldAbort(r)
        BY <1>0, <1>1, <2>1, <3>2, HandlerKeepsItsSeats DEF Fault
      <4>2. hreq[r].pc = "tx" /\ UNCHANGED holds
        BY <4>1 DEF HoldAbort
      <4>3. holds[r].status = None
        BY <1>0, <4>2 DEF IdsAreFresh
      <4>4. ~HoldCommit(r)
        <5>1. ASSUME HoldCommit(r) PROVE FALSE
          BY <1>0, <4>2, <4>3, <5>1, HoldCommitEffect, NoneIsFresh DEF HoldStatus
        <5> QED BY <5>1
      <4> QED BY <4>3, <4>4
    <3> QED BY <3>1, <3>2
  <2> QED BY <1>g, <2>2 DEF StoresGrown
\* A handler about to commit has its keys for as long as the hold would last.
<1>2. ASSUME NEW r \in HoldCalls, hreq'[r].pc = "tx", clock' < hreq'[r].now + TTL,
             NEW s \in hreq'[r].seats
      PROVE  locks'[s].owner = r /\ locks'[s].until >= hreq'[r].now + TTL
  <2>1. hreq[r].pc # "idle"
    BY <1>0, <1>2, RequestsArrive
  <2>2. /\ hreq'[r].seats = hreq[r].seats /\ hreq'[r].now = hreq[r].now
        /\ hreq[r].pc = "tx" \/ HoldAcquire(r)
    BY <1>0, <1>2, <2>1, HandlerKeepsItsSeats
  <2>3. s \in Seats /\ hreq[r].now \in Nat /\ hreq[r].now <= clock
    BY <1>0, <1>t, <1>2, <2>2 DEF StampsArePast
  <2>4. CASE hreq[r].pc = "tx"
    <3>1. locks[s].owner = r /\ locks[s].until >= hreq[r].now + TTL
      BY <1>c, <1>t, <1>2, <2>2, <2>3, <2>4 DEF KeysInv, KeysOutliveHolds
    <3>2. locks'[s] = locks[s] \/ locks[s].until <= clock'
      BY <1>0, <2>3, <2>4, <3>1, KeysStay
    <3> QED BY <1>c, <1>t, <1>2, <2>2, <2>3, <3>1, <3>2
  <2>5. CASE hreq[r].pc # "tx"
    <3>1. HoldAcquire(r) /\ hreq[r].pc = "acquire"
      BY <2>2, <2>5 DEF HoldAcquire
    <3>2. AcquireKeys(hreq[r].seats, r, clock)
      BY <1>0, <1>2, <3>1, AcquiredBeforeTx
    <3>3. locks'[s].owner = r /\ locks'[s].until = clock + TTL
      BY <1>2, <2>2, <2>3, <3>2 DEF AcquireKeys
    <3> QED BY <1>c, <1>t, <2>2, <2>3, <3>3
  <2> QED BY <2>4, <2>5
\* A live hold has its keys until it lapses.
<1>3. ASSUME NEW h \in HoldCalls, Live(h)', NEW s \in holds'[h].seats
      PROVE  locks'[s].owner = h /\ locks'[s].until >= holds'[h].expires
  <2>1. CASE holds[h].status = "ACTIVE"
    <3>1. /\ holds'[h].seats = holds[h].seats /\ holds'[h].expires = holds[h].expires
          /\ s \in Seats /\ holds[h].expires \in Nat
      BY <1>g, <1>t, <1>3, <2>1, NoneIsFresh DEF StoresGrown, HoldStatus
    <3>2. clock' < holds[h].expires /\ Live(h)
      BY <1>c, <1>3, <2>1, <3>1 DEF Live
    <3>3. locks[s].owner = h /\ locks[s].until >= holds[h].expires
      BY <1>3, <3>1, <3>2 DEF KeysInv, KeysOutliveHolds
    <3>4. locks'[s] = locks[s] \/ locks[s].until <= clock'
      BY <1>0, <2>1, <3>1, <3>3, KeysStay
    <3> QED BY <1>c, <1>t, <3>1, <3>2, <3>3, <3>4
  <2>2. CASE holds[h].status # "ACTIVE"
    <3>1. holds[h].status = None /\ holds'[h].status # None
      <4>1. holds'[h].status = "ACTIVE" /\ holds[h].status \in HoldStatus \cup {None}
        BY <1>0, <1>3 DEF Live, TypeOK, Hold
      <4> QED BY <1>g, <2>2, <4>1, NoneIsFresh DEF StoresGrown, HoldStatus
    <3>2. HoldCommit(h) /\ holds'[h] = HoldDoc(h)
      BY <1>g, <3>1 DEF StoresGrown
    <3>3. /\ hreq[h].pc = "tx" /\ clock' = clock /\ locks' = locks
          /\ holds'[h].seats = hreq[h].seats /\ holds'[h].expires = hreq[h].now + TTL
      <4>1. hreq[h].pc = "tx" /\ clock' = clock /\ locks' = locks
        BY <3>2 DEF HoldCommit
      <4>2. HoldDoc(h).seats = hreq[h].seats /\ HoldDoc(h).expires = hreq[h].now + TTL
        BY DEF HoldDoc
      <4> QED BY <3>2, <4>1, <4>2
    <3>4. clock < hreq[h].now + TTL
      BY <1>3, <3>3 DEF Live
    <3> QED BY <1>3, <3>3, <3>4 DEF KeysInv, KeysOutliveHolds
  <2> QED BY <2>1, <2>2
<1> QED BY <1>1, <1>2, <1>3 DEF KeysOutliveHolds

LEMMA KeysInit == Init => KeysInv
<1> SUFFICES ASSUME Init PROVE KeysInv
  OBVIOUS
<1>1. /\ \A s \in Seats : locks[s].owner = None
      /\ \A r \in HoldCalls : hreq[r].pc = "idle" /\ holds[r].status = None
      /\ \A w \in Workers : wrk[w].pc = "idle"
  <2>1. NoKey.owner = None /\ NoHold.status = None
    BY DEF NoKey, NoHold
  <2> QED BY <2>1, IdlePC DEF Init, LocksInit
<1> QED BY <1>1, NoneIsFresh DEF KeysInv, KeysAreAskedFor, WorkersKnow, KeysOutliveHolds, Live,
                                  HoldStatus

LEMMA KeysStutter ==
    UNCHANGED vars =>
      /\ KeysAreAskedFor => KeysAreAskedFor'
      /\ WorkersKnow => WorkersKnow'
      /\ KeysOutliveHolds => KeysOutliveHolds'
      /\ NoOrphanKeys => NoOrphanKeys'
<1> SUFFICES ASSUME UNCHANGED vars
             PROVE  /\ KeysAreAskedFor => KeysAreAskedFor'
                    /\ WorkersKnow => WorkersKnow'
                    /\ KeysOutliveHolds => KeysOutliveHolds'
                    /\ NoOrphanKeys => NoOrphanKeys'
  OBVIOUS
<1>1. UNCHANGED <<clock, holds, locks, hreq, creq, rreq, wrk>>
  BY DEF vars
<1>2. KeysAreAskedFor => KeysAreAskedFor'
  BY <1>1 DEF KeysAreAskedFor
<1>3. WorkersKnow => WorkersKnow'
  BY <1>1 DEF WorkersKnow
<1>4. KeysOutliveHolds => KeysOutliveHolds'
  BY <1>1 DEF KeysOutliveHolds, Live
<1>5. NoOrphanKeys => NoOrphanKeys'
  BY <1>1 DEF NoOrphanKeys
<1> QED BY <1>2, <1>3, <1>4, <1>5

\* Whatever goes wrong, a Redis key is of a seat that its owner's request named and whose
\* handler took it: no key is ever left to a hold that did not ask for it (redis.go:70-84).
THEOREM KeysOfTheirRequests == Spec => []KeysAreAskedFor
<1>1. Init => KeysAreAskedFor
  BY KeysInit DEF KeysInv
<1>2. TypeOK /\ KeysAreAskedFor /\ Next => KeysAreAskedFor'
  BY KeysAreAskedForStays
<1>3. KeysAreAskedFor /\ UNCHANGED vars => KeysAreAskedFor'
  BY KeysStutter
<1> QED BY TypeCorrect, <1>1, <1>2, <1>3, PTL DEF Spec

\* While Redis keeps what it holds and a commit's outcome is what the driver reports, a hold's
\* keys are there from before its transaction until it lapses, and whoever deletes keys has
\* seen their hold end or not be made (booking.go:84-114, 187, 315, 397).
THEOREM KeysOutliveTheirHolds ==
    ASSUME FaultKinds \cap {"redisLoss", "commitUnknown"} = {}
    PROVE  Spec => []KeysInv
<1>1. SafetyInv /\ AnswersInv /\ KeysInv /\ Next => KeysInv'
  <2> SUFFICES ASSUME SafetyInv, AnswersInv, KeysInv, Next PROVE KeysInv'
    OBVIOUS
  <2>1. KeysAreAskedFor'
    BY KeysAreAskedForStays DEF KeysInv, SafetyInv
  <2>2. WorkersKnow'
    BY WorkersKnowStays DEF KeysInv
  <2>3. KeysOutliveHolds'
    BY KeysOutliveHoldsStays
  <2> QED BY <2>1, <2>2, <2>3 DEF KeysInv
<1>2. KeysInv /\ UNCHANGED vars => KeysInv'
  BY KeysStutter DEF KeysInv
<1> QED BY KeysInit, SafetyHolds, AnswersHold, <1>1, <1>2, PTL DEF Spec

\* While Redis keeps what it holds and a commit's outcome is what the driver reports, Redis
\* never gives up a key of a hold that has not lapsed, whatever else fails or crashes: the
\* handler that deletes keys after an error has no hold (booking.go:84-87, 114, 229-237).
THEOREM RedisBacksHolds ==
    ASSUME FaultKinds \cap {"redisLoss", "commitUnknown"} = {}
    PROVE  Spec => []RedisBacksLiveHolds
<1>1. KeysInv => RedisBacksLiveHolds
  BY DEF KeysInv, KeysOutliveHolds, RedisBacksLiveHolds, KeysOwned
<1> QED BY KeysOutliveTheirHolds, <1>1, PTL

-----------------------------------------------------------------------------
(* Without failures of its own, no key is left behind *)

\* What a key that outlives its ACTIVE hold or its request is waiting for.
OnItsWayOut(h) ==
    \/ hreq[h].pc \in {"tx", "undo"}
    \/ \E c \in ConfirmCalls : creq[c].pc = "cleanup" /\ creq[c].hold = h
    \/ \E d \in ReleaseCalls : rreq[d].pc = "cleanup" /\ rreq[d].hold = h
    \/ \E w \in Workers : wrk[w].pc \in {"reread", "cleanup"} /\ wrk[w].hold = h

\* Who ends a hold, turns to its keys.
LEMMA EndedOnItsWayOut ==
    ASSUME TypeOK, Next, FaultKinds \subseteq {"redisLoss"},
           NEW h \in HoldCalls, holds[h].status = "ACTIVE", holds'[h].status # "ACTIVE"
    PROVE  OnItsWayOut(h)'
<1>f. \A kind \in {"redisError", "mongoError", "commitUnknown", "crash"} : ~Fault(kind)
  BY DEF Fault
<1>e. ASSUME NEW g \in HoldCalls, NEW status, NEW events, EndHold(g, status, events)
      PROVE  g = h
  BY <1>e, EndHoldEffect
<1>1. ASSUME NEW c \in ConfirmCalls, ConfirmCommit(c) PROVE OnItsWayOut(h)'
  <2>1. creq[c] \in ConfirmReq /\ creq[c].hold \in HoldCalls
    BY <1>1, IdlePC DEF ConfirmCommit, TypeOK, ConfirmReq
  <2>2. creq' = [creq EXCEPT ![c].pc = "cleanup"]
    BY <1>1, <1>f DEF ConfirmCommit
  <2>3. creq'[c].pc = "cleanup" /\ creq'[c].hold = creq[c].hold
    BY <2>1, <2>2 DEF TypeOK, ConfirmReq
  <2>4. creq[c].hold = h
    BY <1>1, <1>e, <2>1 DEF ConfirmCommit
  <2> QED BY <2>3, <2>4 DEF OnItsWayOut
<1>2. ASSUME NEW d \in ReleaseCalls, ReleaseCommit(d) PROVE OnItsWayOut(h)'
  <2>1. rreq[d] \in ReleaseReq /\ rreq[d].hold \in HoldCalls
    BY <1>2, IdlePC DEF ReleaseCommit, TypeOK, ReleaseReq
  <2>2. rreq' = [rreq EXCEPT ![d].pc = "cleanup"]
    BY <1>2, <1>f DEF ReleaseCommit
  <2>3. rreq'[d].pc = "cleanup" /\ rreq'[d].hold = rreq[d].hold
    BY <2>1, <2>2 DEF TypeOK, ReleaseReq
  <2>4. rreq[d].hold = h
    BY <1>2, <1>e, <2>1 DEF ReleaseCommit
  <2> QED BY <2>3, <2>4 DEF OnItsWayOut
<1>3. ASSUME NEW w \in Workers, WorkerExpire(w) PROVE OnItsWayOut(h)'
  <2>1. PICK g \in HoldCalls :
          /\ EndHold(g, "EXPIRED", <<"BOOKING_TIMEOUT", "SEAT_RELEASED">>)
          /\ wrk' = [wrk EXCEPT ![w] = [@ EXCEPT !.pc = "reread", !.hold = g]]
    BY <1>3, <1>f DEF WorkerExpire
  <2>2. wrk[w] \in Worker
    BY <1>3, IdlePC DEF WorkerExpire, TypeOK
  <2>3. wrk'[w] = [wrk[w] EXCEPT !.pc = "reread", !.hold = g]
    BY <2>1 DEF TypeOK
  <2>4. wrk'[w].pc = "reread" /\ wrk'[w].hold = g
    BY <2>2, <2>3 DEF Worker
  <2>5. g = h
    BY <1>e, <2>1
  <2> QED BY <2>4, <2>5 DEF OnItsWayOut
<1>4. ASSUME NEW r \in HoldCalls, HoldStep(r) PROVE holds'[h].status = "ACTIVE"
  <2>1. CASE HoldCommit(r)
    <3>1. holds'[h] = IF h = r THEN HoldDoc(r) ELSE holds[h]
      BY <2>1 DEF HoldCommit, TypeOK
    <3> QED BY <3>1 DEF HoldDoc
  <2> QED BY <1>4, <2>1, HoldStepKinds
<1>5. CASE UNCHANGED holds
  BY <1>5
<1>6. ASSUME NEW c \in ConfirmCalls, ConfirmStep(c) PROVE ConfirmCommit(c)
  BY <1>5, <1>6, ConfirmStepKinds
<1>7. ASSUME NEW d \in ReleaseCalls, ReleaseStep(d) PROVE ReleaseCommit(d)
  BY <1>5, <1>7 DEF ReleaseStep, ReleaseLoad, ReleaseAbort, ReleaseRecover, ReleaseCleanup
<1>8. ASSUME NEW w \in Workers, WorkerStep(w) PROVE WorkerExpire(w)
  BY <1>5, <1>8 DEF WorkerStep, WorkerSweep, WorkerSkip, WorkerReread, WorkerCleanup
<1>9. CASE Tick \/ CrashHandler \/ CrashWorker \/ RedisRestart
  BY <1>5, <1>9 DEF Tick, CrashHandler, CrashWorker, RedisRestart
<1> QED BY <1>1, <1>2, <1>3, <1>4, <1>6, <1>7, <1>8, <1>9 DEF Next

LEMMA NoOrphanKeysStays ==
    ASSUME SafetyInv, AnswersInv, KeysAreAskedFor, WorkersKnow, NoOrphanKeys, Next,
           FaultKinds \subseteq {"redisLoss"},
           NEW s \in Seats, NEW h \in HoldCalls, locks[s].owner = h, locks'[s].owner = h
    PROVE  holds'[h].status = "ACTIVE" \/ OnItsWayOut(h)'
<1>0. TypeOK /\ IdsAreFresh /\ StampsArePast
  BY DEF SafetyInv
<1>f. \A kind \in {"redisError", "mongoError", "commitUnknown", "crash"} : ~Fault(kind)
  BY DEF Fault
<1>n. h # None /\ NoKey.owner = None
  BY NoneIsFresh DEF NoKey
<1>k. \A S : s \in S => ~ReleaseKeys(S, h)
  BY <1>n DEF ReleaseKeys
<1>s. s \in hreq[h].seats
  BY <1>n DEF KeysAreAskedFor
<1>d. holds[h].status # None => s \in holds[h].seats
  BY <1>s DEF AnswersInv, HoldReqsKnow
<1>1. CASE holds[h].status = "ACTIVE"
  BY <1>0, <1>1, EndedOnItsWayOut
<1>2. CASE hreq[h].pc \in {"tx", "undo"}
  <2>1. CASE hreq'[h] = hreq[h]
    BY <1>2, <2>1 DEF OnItsWayOut
  <2>2. CASE HoldCommit(h)
    BY <1>0, <2>2, HoldCommitEffect
  <2>3. CASE HoldAbort(h)
    <3>1. PICK err : hreq' = [hreq EXCEPT ![h] = [@ EXCEPT !.pc = "undo", !.err = err]]
      BY <2>3 DEF HoldAbort
    <3>2. hreq'[h] = [hreq[h] EXCEPT !.pc = "undo", !.err = err] /\ hreq[h] \in HoldReq
      BY <1>0, <1>2, <3>1, IdlePC DEF TypeOK
    <3>3. hreq'[h].pc = "undo"
      BY <3>2 DEF HoldReq
    <3> QED BY <3>3 DEF OnItsWayOut
  <2>4. ~HoldUndo(h)
    BY <1>f, <1>k, <1>s DEF HoldUndo, CleanUp
  <2>5. HoldStep(h) => HoldCommit(h) \/ HoldAbort(h)
    BY <1>2, <2>4 DEF HoldStep, HoldLookup, HoldPrepare, HoldAcquire, HoldDupe, HoldReadFails
  <2>6. ~CrashHandler
    BY <1>f DEF CrashHandler
  <2> QED BY <1>0, <2>1, <2>2, <2>3, <2>5, <2>6, HandlersMove
<1>3. ASSUME NEW c \in ConfirmCalls, creq[c].pc = "cleanup", creq[c].hold = h
      PROVE  OnItsWayOut(h)'
  <2>1. holds[h].status = "CONFIRMED"
    <3>1. holds[creq[c].hold].status = "CONFIRMED"
      BY <1>3 DEF AnswersInv, ConfirmReqsKnow
    <3> QED BY <1>3, <3>1
  <2>2. s \in holds[h].seats
    BY <1>d, <2>1, NoneIsFresh DEF HoldStatus
  <2>3. ~ConfirmCleanup(c)
    BY <1>3, <1>f, <1>k, <2>2 DEF ConfirmCleanup, CleanUp
  <2>4. ~ConfirmStep(c)
    BY <1>3, <2>3 DEF ConfirmStep, ConfirmByKey, ConfirmByHold, ConfirmLoad, ConfirmVerify,
         ConfirmStamp, ConfirmReadFails, ConfirmCommit, ConfirmAbort, ConfirmRecoverHold,
         ConfirmRecoverKey
  <2>5. creq'[c] = creq[c]
    BY <1>0, <1>f, <2>4, HandlersMove DEF CrashHandler
  <2> QED BY <1>3, <2>5 DEF OnItsWayOut
<1>4. ASSUME NEW d \in ReleaseCalls, rreq[d].pc = "cleanup", rreq[d].hold = h
      PROVE  OnItsWayOut(h)'
  <2>1. holds[h].status = "RELEASED"
    BY <1>4 DEF AnswersInv, ReleaseReqsKnow
  <2>2. s \in holds[h].seats
    BY <1>d, <2>1, NoneIsFresh DEF HoldStatus
  <2>3. ~ReleaseCleanup(d)
    BY <1>4, <1>f, <1>k, <2>2 DEF ReleaseCleanup, CleanUp
  <2>4. ~ReleaseStep(d)
    BY <1>4, <2>3 DEF ReleaseStep, ReleaseLoad, ReleaseCommit, ReleaseAbort, ReleaseRecover
  <2>5. rreq'[d] = rreq[d]
    BY <1>0, <1>f, <2>4, HandlersMove DEF CrashHandler
  <2> QED BY <1>4, <2>5 DEF OnItsWayOut
<1>5. ASSUME NEW w \in Workers, wrk[w].pc \in {"reread", "cleanup"}, wrk[w].hold = h
      PROVE  OnItsWayOut(h)'
  <2>1. holds[h].status = "EXPIRED"
    BY <1>5 DEF WorkersKnow
  <2>2. s \in holds[h].seats
    BY <1>d, <2>1, NoneIsFresh DEF HoldStatus
  <2>3. ~WorkerCleanup(w)
    BY <1>5, <1>f, <1>k, <2>2 DEF WorkerCleanup, CleanUp
  <2>4. CASE WorkerReread(w)
    <3>1. wrk' = [wrk EXCEPT ![w].pc = "cleanup"] /\ wrk[w] \in Worker
      BY <1>0, <1>f, <2>4, IdlePC DEF WorkerReread, TypeOK
    <3>2. wrk'[w] = [wrk[w] EXCEPT !.pc = "cleanup"]
      BY <1>0, <3>1 DEF TypeOK
    <3>3. wrk'[w].pc = "cleanup" /\ wrk'[w].hold = h
      BY <1>5, <3>1, <3>2 DEF Worker
    <3> QED BY <3>3 DEF OnItsWayOut
  <2>5. WorkerStep(w) => WorkerReread(w)
    BY <1>5, <2>3 DEF WorkerStep, WorkerSweep, WorkerExpire, WorkerSkip
  <2>6. CASE wrk'[w] = wrk[w]
    BY <1>5, <2>6 DEF OnItsWayOut
  <2>7. WorkerStep(w) \/ wrk'[w] = wrk[w]
    BY <1>0, <1>f, HandlersMove DEF CrashWorker
  <2> QED BY <2>4, <2>5, <2>6, <2>7
<1> QED BY <1>n, <1>1, <1>2, <1>3, <1>4, <1>5 DEF NoOrphanKeys

\* When nothing fails but Redis, which may lose keys, no key is left behind: it backs an
\* ACTIVE hold, or somebody is on the way to delete it, whoever else raced for the hold
\* (booking.go:114, 187, 315, 397).
THEOREM NoKeysAreOrphaned ==
    ASSUME FaultKinds \subseteq {"redisLoss"}
    PROVE  Spec => []NoOrphanKeys
<1> DEFINE Inv == KeysAreAskedFor /\ WorkersKnow /\ NoOrphanKeys
<1>1. Init => Inv
  <2> SUFFICES ASSUME Init PROVE Inv
    OBVIOUS
  <2>1. KeysAreAskedFor /\ WorkersKnow
    BY KeysInit DEF KeysInv
  <2>2. \A s \in Seats : locks[s].owner = None
    BY DEF Init, LocksInit, NoKey
  <2> QED BY <2>1, <2>2 DEF NoOrphanKeys
<1>2. SafetyInv /\ SafetyInv' /\ AnswersInv /\ Inv /\ Next => Inv'
  <2> SUFFICES ASSUME SafetyInv, SafetyInv', AnswersInv, Inv, Next PROVE Inv'
    OBVIOUS
  <2>1. TypeOK
    BY DEF SafetyInv
  <2>2. KeysAreAskedFor' /\ WorkersKnow'
    BY <2>1, KeysAreAskedForStays, WorkersKnowStays
  <2>3. ASSUME NEW s \in Seats, NEW h \in HoldCalls, locks'[s].owner = h
        PROVE  holds'[h].status = "ACTIVE" \/ OnItsWayOut(h)'
    <3>0. h # None
      BY NoneIsFresh
    <3>1. CASE locks'[s] = locks[s]
      BY <2>3, <3>1, NoOrphanKeysStays
    <3>2. CASE HoldAcquire(h) /\ locks[s].owner = None
      <4>1. hreq' = [hreq EXCEPT ![h].pc = "tx"]
        BY <2>3, <3>0, <3>2 DEF HoldAcquire, Fault
      <4>2. hreq[h] \in HoldReq
        BY <2>1, <3>2, IdlePC DEF TypeOK, HoldAcquire
      <4>3. hreq'[h].pc = "tx"
        BY <2>1, <4>1, <4>2 DEF TypeOK, HoldReq
      <4> QED BY <4>3 DEF OnItsWayOut
    <3> QED BY <2>1, <2>3, <3>0, <3>1, <3>2, KeysMove
  <2>4. \A s \in Seats : locks'[s].owner \in HoldCalls \cup {None}
    <3>1. TypeOK'
      BY DEF SafetyInv
    <3> QED BY <3>1, OwnersAreHolds DEF TypeOK, LocksTypeOK, LockKey
  <2>5. NoOrphanKeys'
    <3> SUFFICES ASSUME NEW s \in Seats, NEW h \in HoldCalls, locks'[s].owner = h
                 PROVE  holds'[h].status = "ACTIVE" \/ OnItsWayOut(h)'
      BY <2>4 DEF NoOrphanKeys, OnItsWayOut
    <3> QED BY <2>3
  <2> QED BY <2>2, <2>5
<1>3. Inv /\ UNCHANGED vars => Inv'
  BY KeysStutter
<1> QED BY SafetyHolds, AnswersHold, <1>1, <1>2, <1>3, PTL DEF Spec
=============================================================================
