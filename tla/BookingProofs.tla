---------------------------- MODULE BookingProofs ----------------------------
(* Proofs about Booking, for every value of its constants. *)
EXTENDS BookingProperties, TLAPS

USE DEF mongo

-----------------------------------------------------------------------------
(* Types: what the operators that rewrite a document or a request return *)

LEMMA EndHoldType ==
    ASSUME TypeOK, NEW h \in HoldCalls, NEW status \in HoldStatus,
           NEW events \in Seq(AuditEvents), EndHold(h, status, events)
    PROVE  /\ holds' \in [HoldCalls -> Hold]
           /\ audit' \in [HoldCalls -> Seq(AuditEvents)]
<1>1. holds' \in [HoldCalls -> Hold]
  BY DEF EndHold, TypeOK, Hold
<1>2. audit' \in [HoldCalls -> Seq(AuditEvents)]
  <2>1. audit[h] \o events \in Seq(AuditEvents)
    BY DEF TypeOK
  <2> QED BY <2>1 DEF EndHold, TypeOK
<1> QED BY <1>1, <1>2

LEMMA FreeSeatsType ==
    ASSUME TypeOK, NEW h \in HoldCalls, FreeSeats(h)
    PROVE  seats' \in [Seats -> Seat]
BY NoneIsFresh DEF FreeSeats, TypeOK, Seat, AvailableSeat, SeatStatus

LEMMA CleanUpType ==
    ASSUME TypeOK, NEW S, NEW h, CleanUp(S, h)
    PROVE  LocksTypeOK' /\ faults' \in Nat
BY DEF CleanUp, ReleaseKeys, NoFault, Fault, TypeOK, LocksTypeOK, LockKey, NoKey

LEMMA FaultType ==
    ASSUME TypeOK, NEW kind
    PROVE  (NoFault \/ Fault(kind)) => faults' \in Nat
BY DEF TypeOK, NoFault, Fault

LEMMA AnsweredHoldType ==
    ASSUME NEW req \in HoldReq, NEW reply \in HoldReplies, NEW h \in HoldCalls \cup {None}
    PROVE  Answered(req, reply, h) \in HoldReq
BY DEF Answered, HoldReq

LEMMA AnsweredByHoldType ==
    ASSUME NEW req \in HoldReq, NEW h \in HoldCalls
    PROVE  AnsweredByHold(req, h) \in HoldReq
<1>1. /\ Answered(req, "EXISTING", h) \in HoldReq
      /\ Answered(req, "KEY_REUSED", None) \in HoldReq
  BY AnsweredHoldType DEF HoldReplies
<1> QED BY <1>1 DEF AnsweredByHold, SameHoldRequest

LEMMA AnsweredConfirmType ==
    ASSUME NEW req \in ConfirmReq, NEW reply \in ConfirmReplies,
           NEW b \in ConfirmCalls \cup {None}
    PROVE  Answered(req, reply, b) \in ConfirmReq
BY DEF Answered, ConfirmReq

LEMMA ProceededType ==
    ASSUME NEW rec \in Worker, NEW h
    PROVE  Proceeded(rec, h) \in Worker \cup {IdleWorker}
BY DEF Proceeded, Worker

LEMMA IdlePC ==
    /\ IdleHoldReq.pc = "idle" /\ IdleConfirmReq.pc = "idle"
    /\ IdleReleaseReq.pc = "idle" /\ IdleWorker.pc = "idle"
BY DEF IdleHoldReq, IdleConfirmReq, IdleReleaseReq, IdleWorker

LEMMA InitType == Init => TypeOK
<1> SUFFICES ASSUME Init PROVE TypeOK
  OBVIOUS
<1>1. AvailableSeat \in Seat /\ NoHold \in Hold
  BY DEF AvailableSeat, Seat, SeatStatus, NoHold, Hold
<1>2. LocksTypeOK
  BY DEF Init, LocksInit, LocksTypeOK, LockKey, NoKey
<1> QED BY <1>1, <1>2 DEF Init, TypeOK

-----------------------------------------------------------------------------
(* Types: every step keeps them *)

\* CreateHold.
LEMMA HoldStepType ==
    ASSUME TypeOK, NEW r \in HoldCalls, HoldStep(r)
    PROVE  TypeOK'
<1> USE DEF TypeOK
<1>r. hreq[r].pc # "idle" => hreq[r] \in HoldReq
  <2>1. hreq[r] \in HoldReq \/ hreq[r] = IdleHoldReq
    OBVIOUS
  <2> QED BY <2>1, IdlePC
<1>u. ASSUME NEW req \in HoldReq, hreq' = [hreq EXCEPT ![r] = req]
      PROVE  hreq' \in [HoldCalls -> HoldReq \cup {IdleHoldReq}]
  BY <1>u
<1>a. ASSUME hreq[r].pc # "idle", NEW reply \in HoldReplies, NEW h \in HoldCalls \cup {None},
             AnswerHold(r, reply, h)
      PROVE  hreq' \in [HoldCalls -> HoldReq \cup {IdleHoldReq}]
  BY <1>a, <1>r, <1>u, AnsweredHoldType DEF AnswerHold
<1>1. CASE HoldLookup(r)
  <2>1. PICK user \in Users, S \in (SUBSET Seats) \ {{}}, key \in IdemKeys :
          \/ hreq' = [hreq EXCEPT ![r] = NewHoldReq(user, S, key)]
          \/ \E h \in HoldsByKey(user, key) :
               hreq' = [hreq EXCEPT ![r] = AnsweredByHold(NewHoldReq(user, S, key), h)]
    BY <1>1 DEF HoldLookup
  <2>2. NewHoldReq(user, S, key) \in HoldReq
    BY DEF NewHoldReq, HoldReq
  <2>3. hreq' \in [HoldCalls -> HoldReq \cup {IdleHoldReq}]
    BY <2>1, <2>2, <1>u, AnsweredByHoldType DEF HoldsByKey
  <2> QED BY <1>1, <2>3 DEF HoldLookup, NoFault, LocksTypeOK
<1>2. CASE HoldPrepare(r)
  <2>1. [hreq[r] EXCEPT !.pc = "acquire", !.now = clock] \in HoldReq
    BY <1>2, <1>r DEF HoldPrepare, HoldReq
  <2>2. hreq' \in [HoldCalls -> HoldReq \cup {IdleHoldReq}]
    BY <1>2, <1>a, <1>u, <2>1 DEF HoldPrepare, HoldReplies
  <2> QED BY <1>2, <2>2 DEF HoldPrepare, NoFault, LocksTypeOK
<1>3. CASE HoldAcquire(r)
  <2>1. [hreq[r] EXCEPT !.pc = "tx"] \in HoldReq
    BY <1>3, <1>r DEF HoldAcquire, HoldReq
  <2>2. hreq' \in [HoldCalls -> HoldReq \cup {IdleHoldReq}]
    BY <1>3, <1>a, <1>u, <2>1 DEF HoldAcquire, HoldReplies
  <2>3. LocksTypeOK'
    BY <1>3, OwnersAreHolds, TTLAssumption
      DEF HoldAcquire, AcquireKeys, LocksTypeOK, LockKey
  <2> QED BY <1>3, <2>2, <2>3, FaultType DEF HoldAcquire
<1>4. CASE HoldCommit(r)
  <2>1. hreq[r] \in HoldReq
    BY <1>4, <1>r DEF HoldCommit
  <2>2. HoldDoc(r) \in Hold
    <3>1. /\ hreq[r].user \in Users \cup {None} /\ hreq[r].seats \in SUBSET Seats
          /\ hreq[r].key \in IdemKeys \cup {None} /\ hreq[r].now \in Nat
      BY <2>1 DEF HoldReq
    <3>2. hreq[r].now + TTL \in Nat
      BY <3>1, TTLAssumption
    <3> QED BY <3>1, <3>2 DEF HoldDoc, Hold, HoldStatus
  <2>3. seats' \in [Seats -> Seat]
    <3>1. hreq[r].user \in Users \cup {None} /\ HoldDoc(r).expires \in Nat
      BY <2>1, <2>2 DEF HoldReq, Hold
    <3>2. ASSUME NEW s \in Seats
          PROVE  [seats[s] EXCEPT !.status = "LOCKED", !.hold = r, !.user = hreq[r].user,
                                  !.until = HoldDoc(r).expires] \in Seat
      <4>1. seats[s] \in Seat
        OBVIOUS
      <4> QED BY <3>1, <4>1 DEF Seat, SeatStatus
    <3> QED BY <1>4, <3>2 DEF HoldCommit
  <2>4. holds' \in [HoldCalls -> Hold]
    BY <1>4, <2>2 DEF HoldCommit
  <2>5. [hreq[r] EXCEPT !.pc = "undo", !.err = "failed"] \in HoldReq
    BY <2>1 DEF HoldReq
  <2>6. hreq' \in [HoldCalls -> HoldReq \cup {IdleHoldReq}]
    BY <1>4, <1>a, <1>u, <2>5 DEF HoldCommit, HoldReplies
  <2> QED BY <1>4, <2>3, <2>4, <2>6, FaultType DEF HoldCommit, LocksTypeOK
<1>5. CASE HoldAbort(r)
  <2>1. ASSUME NEW err \in {"mismatch", "duplicate", "failed"}
        PROVE  [hreq[r] EXCEPT !.pc = "undo", !.err = err] \in HoldReq
    BY <1>5, <1>r DEF HoldAbort, HoldReq
  <2>2. hreq' \in [HoldCalls -> HoldReq \cup {IdleHoldReq}]
    BY <1>5, <1>u, <2>1 DEF HoldAbort
  <2> QED BY <1>5, <2>2, FaultType DEF HoldAbort, LocksTypeOK
<1>6. CASE HoldUndo(r)
  <2>1. /\ [hreq[r] EXCEPT !.pc = "dupe"] \in HoldReq
        /\ hreq[r] \in HoldReq
    BY <1>6, <1>r DEF HoldUndo, HoldReq
  <2>2. /\ Answered(hreq[r], "SEAT_UNAVAILABLE", None) \in HoldReq
        /\ Answered(hreq[r], "FAILED", None) \in HoldReq
    BY <2>1, AnsweredHoldType DEF HoldReplies
  <2>3. hreq' \in [HoldCalls -> HoldReq \cup {IdleHoldReq}]
    BY <1>6, <1>u, <2>1, <2>2 DEF HoldUndo
  <2> QED BY <1>6, <2>3, CleanUpType DEF HoldUndo
<1>7. CASE HoldDupe(r)
  <2>1. hreq' \in [HoldCalls -> HoldReq \cup {IdleHoldReq}]
    BY <1>7, <1>r, <1>u, AnsweredByHoldType DEF HoldDupe, HoldsByKey
  <2> QED BY <1>7, <2>1 DEF HoldDupe, NoFault, LocksTypeOK
<1>8. CASE HoldReadFails(r)
  <2>1. hreq' \in [HoldCalls -> HoldReq \cup {IdleHoldReq}]
    BY <1>8, <1>a DEF HoldReadFails, HoldReplies
  <2> QED BY <1>8, <2>1, FaultType DEF HoldReadFails, LocksTypeOK
<1> QED BY <1>1, <1>2, <1>3, <1>4, <1>5, <1>6, <1>7, <1>8 DEF HoldStep

\* Confirm.
LEMMA ConfirmStepType ==
    ASSUME TypeOK, NEW c \in ConfirmCalls, ConfirmStep(c)
    PROVE  TypeOK'
<1> USE DEF TypeOK
<1>c. creq[c].pc # "idle" => creq[c] \in ConfirmReq
  <2>1. creq[c] \in ConfirmReq \/ creq[c] = IdleConfirmReq
    OBVIOUS
  <2> QED BY <2>1, IdlePC
<1>u. ASSUME NEW req \in ConfirmReq, creq' = [creq EXCEPT ![c] = req]
      PROVE  creq' \in [ConfirmCalls -> ConfirmReq \cup {IdleConfirmReq}]
  BY <1>u
<1>a. ASSUME creq[c].pc # "idle", NEW reply \in ConfirmReplies,
             NEW b \in ConfirmCalls \cup {None}, AnswerConfirm(c, reply, b)
      PROVE  creq' \in [ConfirmCalls -> ConfirmReq \cup {IdleConfirmReq}]
  BY <1>a, <1>c, <1>u, AnsweredConfirmType DEF AnswerConfirm
<1>p. ASSUME creq[c].pc # "idle",
             NEW pc \in {"load", "verify", "stamp", "tx", "recoverKey", "cleanup"},
             creq' = [creq EXCEPT ![c].pc = pc]
      PROVE  creq' \in [ConfirmCalls -> ConfirmReq \cup {IdleConfirmReq}]
  <2>1. [creq[c] EXCEPT !.pc = pc] \in ConfirmReq
    BY <1>p, <1>c DEF ConfirmReq
  <2> QED BY <2>1, <1>p, <1>u
<1>b. ASSUME NEW b \in bookings PROVE b.id \in ConfirmCalls
  BY DEF BookingDoc
<1>1. CASE ConfirmByKey(c)
  <2>1. PICK user \in Users, h \in HoldCalls, key \in IdemKeys :
          LET req == NewConfirmReq(user, h, key) IN
          \/ creq' = [creq EXCEPT ![c] = req]
          \/ \E b \in BookingsByKey(user, key) :
               creq' = [creq EXCEPT ![c] = IF b.hold = h THEN Answered(req, "EXISTING", b.id)
                                           ELSE Answered(req, "KEY_REUSED", None)]
    BY <1>1 DEF ConfirmByKey
  <2>2. NewConfirmReq(user, h, key) \in ConfirmReq
    BY DEF NewConfirmReq, ConfirmReq
  <2>3. ASSUME NEW b \in bookings
        PROVE  /\ Answered(NewConfirmReq(user, h, key), "EXISTING", b.id) \in ConfirmReq
               /\ Answered(NewConfirmReq(user, h, key), "KEY_REUSED", None) \in ConfirmReq
    BY <2>2, <1>b, AnsweredConfirmType DEF ConfirmReplies
  <2>4. creq' \in [ConfirmCalls -> ConfirmReq \cup {IdleConfirmReq}]
    BY <2>1, <2>2, <2>3, <1>u DEF BookingsByKey
  <2> QED BY <1>1, <2>4 DEF ConfirmByKey, NoFault, LocksTypeOK
<1>2. CASE ConfirmByHold(c)
  <2>1. creq' \in [ConfirmCalls -> ConfirmReq \cup {IdleConfirmReq}]
    BY <1>2, <1>a, <1>b, <1>p
      DEF ConfirmByHold, OwnBookings, BookingsByHold, ConfirmReplies
  <2> QED BY <1>2, <2>1 DEF ConfirmByHold, NoFault, LocksTypeOK
<1>3. CASE ConfirmLoad(c)
  <2>1. creq' \in [ConfirmCalls -> ConfirmReq \cup {IdleConfirmReq}]
    BY <1>3, <1>a, <1>p DEF ConfirmLoad, ConfirmReplies
  <2> QED BY <1>3, <2>1 DEF ConfirmLoad, NoFault, LocksTypeOK
<1>4. CASE ConfirmVerify(c)
  <2>1. creq' \in [ConfirmCalls -> ConfirmReq \cup {IdleConfirmReq}]
    BY <1>4, <1>a, <1>p DEF ConfirmVerify, ConfirmReplies
  <2> QED BY <1>4, <2>1, FaultType DEF ConfirmVerify, LocksTypeOK
<1>5. CASE ConfirmStamp(c)
  <2>1. [creq[c] EXCEPT !.pc = "tx", !.now = clock] \in ConfirmReq
    BY <1>5, <1>c DEF ConfirmStamp, ConfirmReq
  <2>2. creq' \in [ConfirmCalls -> ConfirmReq \cup {IdleConfirmReq}]
    BY <1>5, <2>1, <1>u DEF ConfirmStamp
  <2> QED BY <1>5, <2>2 DEF ConfirmStamp, NoFault, LocksTypeOK
<1>6. CASE ConfirmReadFails(c)
  <2>1. creq' \in [ConfirmCalls -> ConfirmReq \cup {IdleConfirmReq}]
    BY <1>6, <1>a DEF ConfirmReadFails, ConfirmReplies
  <2> QED BY <1>6, <2>1, FaultType DEF ConfirmReadFails, LocksTypeOK
<1>e. ASSUME creq[c].pc # "idle", NEW err \in {"expired", "failed"}
      PROVE  [creq[c] EXCEPT !.pc = "recoverHold", !.err = err] \in ConfirmReq
  BY <1>e, <1>c DEF ConfirmReq
<1>7. CASE ConfirmCommit(c)
  <2> DEFINE h == creq[c].hold
  <2>1. creq[c] \in ConfirmReq /\ h \in HoldCalls
    BY <1>7, <1>c DEF ConfirmCommit, ConfirmReq
  <2>2. holds' \in [HoldCalls -> Hold] /\ audit' \in [HoldCalls -> Seq(AuditEvents)]
    <3>1. <<"BOOKING_SUCCESS">> \in Seq(AuditEvents)
      BY DEF AuditEvents
    <3> QED BY <1>7, <2>1, <3>1, EndHoldType DEF ConfirmCommit, HoldStatus
  <2>3. seats' \in [Seats -> Seat]
    <3>1. [AvailableSeat EXCEPT !.status = "BOOKED", !.booking = c] \in Seat
      BY DEF AvailableSeat, Seat, SeatStatus
    <3> QED BY <1>7, <3>1 DEF ConfirmCommit
  <2>4. bookings' \subseteq BookingDoc
    <3>1. /\ creq[c].user \in Users /\ creq[c].key \in IdemKeys
          /\ holds[h].seats \in SUBSET Seats
      BY <2>1 DEF ConfirmReq, Hold
    <3>2. [id |-> c, hold |-> h, user |-> creq[c].user, key |-> creq[c].key,
           seats |-> holds[h].seats] \in BookingDoc
      BY <2>1, <3>1 DEF BookingDoc
    <3> QED BY <1>7, <3>2 DEF ConfirmCommit
  <2>5. outbox' \subseteq ConfirmCalls
    BY <1>7 DEF ConfirmCommit
  <2>6. creq' \in [ConfirmCalls -> ConfirmReq \cup {IdleConfirmReq}]
    BY <1>7, <1>p, <1>e, <1>u DEF ConfirmCommit
  <2> QED BY <1>7, <2>2, <2>3, <2>4, <2>5, <2>6, FaultType DEF ConfirmCommit, LocksTypeOK
<1>8. CASE ConfirmAbort(c)
  <2>1. creq' \in [ConfirmCalls -> ConfirmReq \cup {IdleConfirmReq}]
    BY <1>8, <1>e, <1>u DEF ConfirmAbort
  <2> QED BY <1>8, <2>1, FaultType DEF ConfirmAbort, LocksTypeOK
<1>9. CASE ConfirmRecoverHold(c)
  <2>1. creq' \in [ConfirmCalls -> ConfirmReq \cup {IdleConfirmReq}]
    BY <1>9, <1>a, <1>b, <1>p
      DEF ConfirmRecoverHold, OwnBookings, BookingsByHold, ConfirmReplies
  <2> QED BY <1>9, <2>1, FaultType DEF ConfirmRecoverHold, LocksTypeOK
<1>10. CASE ConfirmRecoverKey(c)
  <2>1. creq' \in [ConfirmCalls -> ConfirmReq \cup {IdleConfirmReq}]
    BY <1>10, <1>a DEF ConfirmRecoverKey, ConfirmReplies
  <2> QED BY <1>10, <2>1, FaultType DEF ConfirmRecoverKey, LocksTypeOK
<1>11. CASE ConfirmCleanup(c)
  <2>1. creq' \in [ConfirmCalls -> ConfirmReq \cup {IdleConfirmReq}]
    BY <1>11, <1>a DEF ConfirmCleanup, ConfirmReplies
  <2> QED BY <1>11, <2>1, CleanUpType DEF ConfirmCleanup
<1> QED BY <1>1, <1>2, <1>3, <1>4, <1>5, <1>6, <1>7, <1>8, <1>9, <1>10, <1>11 DEF ConfirmStep

\* ReleaseHold.
LEMMA ReleaseStepType ==
    ASSUME TypeOK, NEW d \in ReleaseCalls, ReleaseStep(d)
    PROVE  TypeOK'
<1> USE DEF TypeOK
<1>d. rreq[d].pc # "idle" => rreq[d] \in ReleaseReq
  <2>1. rreq[d] \in ReleaseReq \/ rreq[d] = IdleReleaseReq
    OBVIOUS
  <2> QED BY <2>1, IdlePC
<1>u. ASSUME NEW req \in ReleaseReq, rreq' = [rreq EXCEPT ![d] = req]
      PROVE  rreq' \in [ReleaseCalls -> ReleaseReq \cup {IdleReleaseReq}]
  BY <1>u
<1>a. ASSUME rreq[d].pc # "idle", NEW reply \in ReleaseReplies, AnswerRelease(d, reply)
      PROVE  rreq' \in [ReleaseCalls -> ReleaseReq \cup {IdleReleaseReq}]
  <2>1. [rreq[d] EXCEPT !.pc = "done", !.reply = reply] \in ReleaseReq
    BY <1>a, <1>d DEF ReleaseReq
  <2> QED BY <2>1, <1>a, <1>u DEF AnswerRelease
<1>p. ASSUME rreq[d].pc # "idle", NEW pc \in {"recover", "cleanup"},
             rreq' = [rreq EXCEPT ![d].pc = pc]
      PROVE  rreq' \in [ReleaseCalls -> ReleaseReq \cup {IdleReleaseReq}]
  <2>1. [rreq[d] EXCEPT !.pc = pc] \in ReleaseReq
    BY <1>p, <1>d DEF ReleaseReq
  <2> QED BY <2>1, <1>p, <1>u
<1>h. ASSUME rreq[d].pc # "idle"
      PROVE  /\ rreq[d].hold \in HoldCalls
             /\ holds[rreq[d].hold].status \in HoldStatus \cup {None}
  <2>1. rreq[d].hold \in HoldCalls
    BY <1>h, <1>d DEF ReleaseReq
  <2>2. holds[rreq[d].hold] \in Hold
    BY <2>1
  <2> QED BY <2>1, <2>2 DEF Hold
<1>1. CASE ReleaseLoad(d)
  <2>1. rreq' \in [ReleaseCalls -> ReleaseReq \cup {IdleReleaseReq}]
    BY <1>1, <1>u DEF ReleaseLoad
  <2> QED BY <1>1, <2>1 DEF ReleaseLoad, NoFault, LocksTypeOK
<1>2. CASE ReleaseCommit(d)
  <2>1. <<"SEAT_RELEASED">> \in Seq(AuditEvents) /\ "RELEASED" \in HoldStatus
    BY DEF AuditEvents, HoldStatus
  <2>2. holds' \in [HoldCalls -> Hold] /\ audit' \in [HoldCalls -> Seq(AuditEvents)]
    BY <1>2, <1>h, <2>1, EndHoldType DEF ReleaseCommit
  <2>3. seats' \in [Seats -> Seat]
    BY <1>2, <1>h, FreeSeatsType DEF ReleaseCommit
  <2>4. rreq' \in [ReleaseCalls -> ReleaseReq \cup {IdleReleaseReq}]
    BY <1>2, <1>p DEF ReleaseCommit
  <2> QED BY <1>2, <2>2, <2>3, <2>4, FaultType DEF ReleaseCommit, LocksTypeOK
<1>3. CASE ReleaseAbort(d)
  <2>1. rreq' \in [ReleaseCalls -> ReleaseReq \cup {IdleReleaseReq}]
    BY <1>3, <1>p DEF ReleaseAbort
  <2> QED BY <1>3, <2>1, FaultType DEF ReleaseAbort, LocksTypeOK
<1>4. CASE ReleaseRecover(d)
  <2>1. rreq' \in [ReleaseCalls -> ReleaseReq \cup {IdleReleaseReq}]
    BY <1>4, <1>a, <1>h DEF ReleaseRecover, ReleaseReplies
  <2> QED BY <1>4, <2>1, FaultType DEF ReleaseRecover, LocksTypeOK
<1>5. CASE ReleaseCleanup(d)
  <2>1. rreq' \in [ReleaseCalls -> ReleaseReq \cup {IdleReleaseReq}]
    BY <1>5, <1>a DEF ReleaseCleanup, ReleaseReplies, HoldStatus
  <2> QED BY <1>5, <2>1, CleanUpType DEF ReleaseCleanup
<1> QED BY <1>1, <1>2, <1>3, <1>4, <1>5 DEF ReleaseStep

\* The expiry worker.
LEMMA WorkerStepType ==
    ASSUME TypeOK, NEW w \in Workers, WorkerStep(w)
    PROVE  TypeOK'
<1> USE DEF TypeOK
<1>w. wrk[w].pc # "idle" => wrk[w] \in Worker
  <2>1. wrk[w] \in Worker \/ wrk[w] = IdleWorker
    OBVIOUS
  <2> QED BY <2>1, IdlePC
<1>u. ASSUME NEW rec \in Worker \cup {IdleWorker}, wrk' = [wrk EXCEPT ![w] = rec]
      PROVE  wrk' \in [Workers -> Worker \cup {IdleWorker}]
  BY <1>u
<1>h. wrk[w].pc \in {"reread", "cleanup"} => wrk[w].hold \in HoldCalls
  BY <1>w DEF Worker
<1>1. CASE WorkerSweep(w)
  <2>1. ASSUME NEW B \in SUBSET HoldCalls
        PROVE  [pc |-> "expire", now |-> clock, batch |-> B, hold |-> None] \in Worker
    BY DEF Worker
  <2>2. wrk' \in [Workers -> Worker \cup {IdleWorker}]
    BY <1>1, <2>1, <1>u DEF WorkerSweep
  <2> QED BY <1>1, <2>2 DEF WorkerSweep, NoFault, LocksTypeOK
<1>2. CASE WorkerExpire(w)
  <2>1. PICK h \in HoldCalls :
          /\ EndHold(h, "EXPIRED", <<"BOOKING_TIMEOUT", "SEAT_RELEASED">>)
          /\ FreeSeats(h)
          /\ \/ wrk' = [wrk EXCEPT ![w] = [@ EXCEPT !.pc = "reread", !.hold = h]]
             \/ wrk' = [wrk EXCEPT ![w] = Proceeded(@, h)]
          /\ NoFault \/ Fault("commitUnknown")
    BY <1>2 DEF WorkerExpire
  <2>2. <<"BOOKING_TIMEOUT", "SEAT_RELEASED">> \in Seq(AuditEvents) /\ "EXPIRED" \in HoldStatus
    BY DEF AuditEvents, HoldStatus
  <2>3. holds' \in [HoldCalls -> Hold] /\ audit' \in [HoldCalls -> Seq(AuditEvents)]
    BY <2>1, <2>2, EndHoldType
  <2>4. seats' \in [Seats -> Seat]
    BY <2>1, FreeSeatsType
  <2>5. wrk[w] \in Worker
    BY <1>2, <1>w DEF WorkerExpire
  <2>6. [wrk[w] EXCEPT !.pc = "reread", !.hold = h] \in Worker
    BY <2>5 DEF Worker
  <2>7. wrk' \in [Workers -> Worker \cup {IdleWorker}]
    BY <2>1, <2>5, <2>6, <1>u, ProceededType
  <2> QED BY <1>2, <2>1, <2>3, <2>4, <2>7, FaultType DEF WorkerExpire, LocksTypeOK
<1>3. CASE WorkerSkip(w)
  <2>1. wrk' \in [Workers -> Worker \cup {IdleWorker}]
    BY <1>3, <1>w, <1>u, ProceededType DEF WorkerSkip
  <2> QED BY <1>3, <2>1, FaultType DEF WorkerSkip, LocksTypeOK
<1>4. CASE WorkerReread(w)
  <2>1. wrk[w] \in Worker
    BY <1>4, <1>w DEF WorkerReread
  <2>2. [wrk[w] EXCEPT !.pc = "cleanup"] \in Worker
    BY <2>1, <1>4 DEF WorkerReread, Worker
  <2>3. wrk' \in [Workers -> Worker \cup {IdleWorker}]
    BY <1>4, <2>1, <2>2, <1>u, ProceededType DEF WorkerReread
  <2> QED BY <1>4, <2>3, FaultType DEF WorkerReread, LocksTypeOK
<1>5. CASE WorkerCleanup(w)
  <2>1. wrk' \in [Workers -> Worker \cup {IdleWorker}]
    BY <1>5, <1>w, <1>u, ProceededType DEF WorkerCleanup
  <2> QED BY <1>5, <2>1, CleanUpType DEF WorkerCleanup
<1> QED BY <1>1, <1>2, <1>3, <1>4, <1>5 DEF WorkerStep

\* Time, crashes and lost keys.
LEMMA EnvironmentStepType ==
    ASSUME TypeOK, Tick \/ CrashHandler \/ CrashWorker \/ RedisRestart
    PROVE  TypeOK'
<1> USE DEF TypeOK
<1>1. CASE Tick
  BY <1>1 DEF Tick, DropExpiredKeys, LocksTypeOK, LockKey, NoKey
<1>2. CASE CrashHandler
  <2>1. hreq' \in [HoldCalls -> HoldReq \cup {IdleHoldReq}]
    <3>1. ASSUME NEW r \in HoldCalls, Running(hreq[r])
          PROVE  Answered(hreq[r], "LOST", None) \in HoldReq
      <4>1. hreq[r] \in HoldReq \/ hreq[r] = IdleHoldReq
        OBVIOUS
      <4>2. hreq[r] \in HoldReq
        BY <3>1, <4>1, IdlePC DEF Running
      <4> QED BY <4>2, AnsweredHoldType DEF HoldReplies
    <3> QED BY <1>2, <3>1 DEF CrashHandler, AnswerHold
  <2>2. creq' \in [ConfirmCalls -> ConfirmReq \cup {IdleConfirmReq}]
    <3>1. ASSUME NEW c \in ConfirmCalls, Running(creq[c])
          PROVE  Answered(creq[c], "LOST", None) \in ConfirmReq
      <4>1. creq[c] \in ConfirmReq \/ creq[c] = IdleConfirmReq
        OBVIOUS
      <4>2. creq[c] \in ConfirmReq
        BY <3>1, <4>1, IdlePC DEF Running
      <4> QED BY <4>2, AnsweredConfirmType DEF ConfirmReplies
    <3> QED BY <1>2, <3>1 DEF CrashHandler, AnswerConfirm
  <2>3. rreq' \in [ReleaseCalls -> ReleaseReq \cup {IdleReleaseReq}]
    <3>1. ASSUME NEW d \in ReleaseCalls, Running(rreq[d])
          PROVE  [rreq[d] EXCEPT !.pc = "done", !.reply = "LOST"] \in ReleaseReq
      <4>1. rreq[d] \in ReleaseReq \/ rreq[d] = IdleReleaseReq
        OBVIOUS
      <4>2. rreq[d] \in ReleaseReq
        BY <3>1, <4>1, IdlePC DEF Running
      <4> QED BY <4>2 DEF ReleaseReq, ReleaseReplies
    <3> QED BY <1>2, <3>1 DEF CrashHandler, AnswerRelease
  <2> QED BY <1>2, <2>1, <2>2, <2>3, FaultType DEF CrashHandler, LocksTypeOK
<1>3. CASE CrashWorker
  BY <1>3, FaultType DEF CrashWorker, LocksTypeOK
<1>4. CASE RedisRestart
  BY <1>4, FaultType DEF RedisRestart, LoseKeys, LocksTypeOK, LockKey, NoKey
<1> QED BY <1>1, <1>2, <1>3, <1>4

LEMMA StutterType == TypeOK /\ UNCHANGED vars => TypeOK'
BY DEF TypeOK, vars, LocksTypeOK

\* Whatever the requests, workers and faults, the stores and the handlers only ever hold
\* values of their kinds; in particular a seat's status stays one of the three of models.go.
THEOREM TypeCorrect == Spec => []TypeOK
<1>1. TypeOK /\ [Next]_vars => TypeOK'
  BY HoldStepType, ConfirmStepType, ReleaseStepType, WorkerStepType, EnvironmentStepType,
     StutterType DEF Next
<1> QED BY InitType, <1>1, PTL DEF Spec
=============================================================================
