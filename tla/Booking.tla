------------------------------- MODULE Booking -------------------------------
(***************************************************************************)
(* Holding, confirming, releasing and expiring the seats of one showtime:  *)
(* backend/internal/service/booking.go over MongoDB and Redis.             *)
(*                                                                         *)
(* Every HTTP request is a process that runs its handler once; a retry is  *)
(* another request with the same arguments.  A handler's step ends where   *)
(* it reads, writes or commits to a store, so handlers interleave between  *)
(* their store calls and one MongoDB transaction is one step (conflicting  *)
(* transactions are retried by WithTransaction).  A CreateHold request     *)
(* stands for the ObjectID it draws for its hold, and a Confirm request    *)
(* for the ObjectID of its booking.                                        *)
(***************************************************************************)
EXTENDS FiniteSets, Sequences, SeatLock

CONSTANTS
    Users,
    IdemKeys,          \* Idempotency-Key values
    HoldCalls,     \* CreateHold requests, and so hold ids
    ConfirmCalls,  \* Confirm requests, and so booking ids
    ReleaseCalls,  \* ReleaseHold requests
    Workers,       \* worker processes running RunExpiration
    StartTime,     \* when the showtime starts
    SweepLimit,    \* the limit given to ExpireDueHolds
    FaultKinds,    \* what may go wrong
    MaxFaults      \* bound: how often something goes wrong in a behaviour

ASSUME OwnersAreHolds == Owners = HoldCalls
ASSUME StartTimeAssumption == StartTime \in Nat \ {0}
ASSUME SweepLimitAssumption == SweepLimit \in Nat \ {0}
ASSUME FaultAssumption ==
    /\ FaultKinds \subseteq {"redisError", "mongoError", "commitUnknown",
                             "crash", "redisLoss"}
    /\ MaxFaults \in Nat

VARIABLES
    clock,     \* the time every host reads
    seats,     \* collection showtime_seats
    holds,     \* collection holds, by id
    bookings,  \* collection bookings
    outbox,    \* collection outbox_events: the bookings whose event was written
    audit,     \* collection audit_logs: the event types written about each hold
    hreq,      \* the CreateHold handlers
    creq,      \* the Confirm handlers
    rreq,      \* the ReleaseHold handlers
    wrk,       \* the workers
    faults     \* how many faults have happened

vars == <<clock, seats, holds, bookings, outbox, audit, locks,
          hreq, creq, rreq, wrk, faults>>
mongo == <<seats, holds, bookings, outbox, audit>>

-----------------------------------------------------------------------------
(* Documents and handlers' local variables *)

SeatStatus == {"AVAILABLE", "LOCKED", "BOOKED"}
HoldStatus == {"ACTIVE", "CONFIRMED", "EXPIRED", "RELEASED"}
AuditEvents == {"BOOKING_SUCCESS", "BOOKING_TIMEOUT", "SEAT_RELEASED"}

ASSUME NoneIsFresh ==
    None \notin Users \cup IdemKeys \cup HoldCalls \cup ConfirmCalls \cup HoldStatus

Seat == [status: SeatStatus, hold: HoldCalls \cup {None}, user: Users \cup {None},
         until: Nat, booking: ConfirmCalls \cup {None}]
Hold == [status: HoldStatus \cup {None}, user: Users \cup {None}, seats: SUBSET Seats,
         key: IdemKeys \cup {None}, expires: Nat]
BookingDoc == [id: ConfirmCalls, hold: HoldCalls, user: Users, key: IdemKeys,
               seats: SUBSET Seats]

AvailableSeat == [status |-> "AVAILABLE", hold |-> None, user |-> None, until |-> 0,
                  booking |-> None]
NoHold == [status |-> None, user |-> None, seats |-> {}, key |-> None, expires |-> 0]

IdleHoldReq == [pc |-> "idle", user |-> None, seats |-> {}, key |-> None, now |-> 0,
                err |-> "", reply |-> "", result |-> None]
IdleConfirmReq == [pc |-> "idle", user |-> None, hold |-> None, key |-> None, now |-> 0,
                   err |-> "", reply |-> "", result |-> None]
IdleReleaseReq == [pc |-> "idle", user |-> None, hold |-> None, reply |-> ""]
IdleWorker == [pc |-> "idle", now |-> 0, batch |-> {}, hold |-> None]

HoldReplies == {"CREATED", "EXISTING", "KEY_REUSED", "SHOWTIME_UNAVAILABLE",
                "SEAT_UNAVAILABLE", "LOCK_UNAVAILABLE", "FAILED", "LOST"}
ConfirmReplies == {"CREATED", "EXISTING", "KEY_REUSED", "NOT_FOUND", "FORBIDDEN",
                   "HOLD_EXPIRED", "LOCK_UNAVAILABLE", "FAILED", "LOST"}
ReleaseReplies == HoldStatus \cup {"NOT_FOUND", "FORBIDDEN", "FAILED", "LOST"}

\* A request that has arrived has its arguments; pc says what its handler does next.
HoldReq == [pc: {"prepare", "acquire", "tx", "undo", "dupe", "done"},
            user: Users, seats: SUBSET Seats, key: IdemKeys, now: Nat,
            err: {"", "mismatch", "duplicate", "failed"},
            reply: HoldReplies \cup {""}, result: HoldCalls \cup {None}]
ConfirmReq == [pc: {"byHold", "load", "verify", "stamp", "tx", "recoverHold",
                    "recoverKey", "cleanup", "done"},
               user: Users, hold: HoldCalls, key: IdemKeys, now: Nat,
               err: {"", "expired", "failed"},
               reply: ConfirmReplies \cup {""}, result: ConfirmCalls \cup {None}]
ReleaseReq == [pc: {"tx", "recover", "cleanup", "done"}, user: Users, hold: HoldCalls,
               reply: ReleaseReplies \cup {""}]
\* A worker has a batch while it expires, and a hold while it finishes that one.
Worker == [pc: {"expire"}, now: Nat, batch: SUBSET HoldCalls, hold: {None}]
            \cup [pc: {"reread", "cleanup"}, now: Nat, batch: SUBSET HoldCalls,
                  hold: HoldCalls]

Init ==
    /\ clock = 0
    /\ seats = [s \in Seats |-> AvailableSeat]
    /\ holds = [h \in HoldCalls |-> NoHold]
    /\ bookings = {}
    /\ outbox = {}
    /\ audit = [h \in HoldCalls |-> <<>>]
    /\ LocksInit
    /\ hreq = [r \in HoldCalls |-> IdleHoldReq]
    /\ creq = [c \in ConfirmCalls |-> IdleConfirmReq]
    /\ rreq = [r \in ReleaseCalls |-> IdleReleaseReq]
    /\ wrk = [w \in Workers |-> IdleWorker]
    /\ faults = 0

(* A store call fails, or a process dies, as often as the bound allows. *)
Fault(kind) == kind \in FaultKinds /\ faults < MaxFaults /\ faults' = faults + 1
NoFault == UNCHANGED faults

-----------------------------------------------------------------------------
(* What the conditional updates match and write *)

\* Mutants: lock_expires_at is not looked at; a lapsed expiry is enough.
Claimable_AnyLocked(s, now) == seats[s].status \in {"AVAILABLE", "LOCKED"}
Claimable_NoStatus(s, now) == seats[s].until <= now

\* The filter of the hold transaction: free, or locked by a hold that has lapsed.
Claimable(s, now) ==
    \/ seats[s].status = "AVAILABLE"
    \/ seats[s].status = "LOCKED" /\ seats[s].until <= now

\* The filter by which release and expiry find the seats they may free.
StillHeld(s, h) == seats[s].status = "LOCKED" /\ seats[s].hold = h

\* The seat filter of the confirmation transaction.
Bookable(s, h, user, now) ==
    StillHeld(s, h) /\ seats[s].user = user /\ seats[s].until > now

\* Mutants: hold_id is not in the filter; UpdateOne for UpdateMany; status is unset too.
FreeSeats_AnyHold(h) ==
    seats' = [s \in Seats |-> IF s \in holds[h].seats /\ seats[s].status = "LOCKED"
                              THEN AvailableSeat ELSE seats[s]]
FreeSeats_One(h) ==
    \E t \in holds[h].seats :
        seats' = [s \in Seats |-> IF s = t /\ StillHeld(s, h)
                                  THEN AvailableSeat ELSE seats[s]]
FreeSeats_NoStatus(h) ==
    seats' = [s \in Seats |-> IF s \in holds[h].seats /\ StillHeld(s, h)
                              THEN [AvailableSeat EXCEPT !.status = None] ELSE seats[s]]

FreeSeats(h) ==
    seats' = [s \in Seats |-> IF s \in holds[h].seats /\ StillHeld(s, h)
                              THEN AvailableSeat ELSE seats[s]]

\* What moves a hold out of ACTIVE, with the audit records it inserts.
EndHold(h, status, events) ==
    /\ holds' = [holds EXCEPT ![h].status = status]
    /\ audit' = [audit EXCEPT ![h] = @ \o events]

\* The document CreateHold prepares before it talks to Redis.
HoldDoc(r) == [status |-> "ACTIVE", user |-> hreq[r].user, seats |-> hreq[r].seats,
               key |-> hreq[r].key, expires |-> hreq[r].now + TTL]

\* Mutant: the seats of the two requests are not compared.
SameHoldRequest_KeyOnly(h, S) == TRUE

SameHoldRequest(h, S) == holds[h].seats = S

HoldsByKey(user, key) == {h \in HoldCalls : /\ holds[h].status # None
                                            /\ holds[h].user = user
                                            /\ holds[h].key = key}
BookingsByKey(user, key) == {b \in bookings : b.user = user /\ b.key = key}
BookingsByHold(h) == {b \in bookings : b.hold = h}

\* The ownership-safe release of a hold's keys, whose own failure is only logged.
CleanUp(S, h) ==
    \/ ReleaseKeys(S, h) /\ NoFault
    \/ UNCHANGED locks /\ Fault("redisError")

-----------------------------------------------------------------------------
(* CreateHold *)

\* A request record answered with reply; its handler's locals are gone.
Answered(req, reply, result) ==
    [req EXCEPT !.pc = "done", !.reply = reply, !.result = result, !.now = 0, !.err = ""]

AnswerHold(r, reply, h) == hreq' = [hreq EXCEPT ![r] = Answered(@, reply, h)]

\* An idempotent answer: the hold its key already stands for, if that hold is the same.
AnsweredByHold(req, h) ==
    IF SameHoldRequest(h, req.seats) THEN Answered(req, "EXISTING", h)
                                     ELSE Answered(req, "KEY_REUSED", None)

NewHoldReq(user, S, key) ==
    [pc |-> "prepare", user |-> user, seats |-> S, key |-> key, now |-> 0, err |-> "",
     reply |-> "", result |-> None]

\* The request arrives, and its handler looks the Idempotency-Key up.
HoldLookup(r) ==
    /\ hreq[r].pc = "idle"
    /\ \E user \in Users, S \in (SUBSET Seats) \ {{}}, key \in IdemKeys :
         \/ /\ HoldsByKey(user, key) = {}
            /\ hreq' = [hreq EXCEPT ![r] = NewHoldReq(user, S, key)]
         \/ \E h \in HoldsByKey(user, key) :
              hreq' = [hreq EXCEPT ![r] = AnsweredByHold(NewHoldReq(user, S, key), h)]
    /\ NoFault
    /\ UNCHANGED <<clock, mongo, locks, creq, rreq, wrk>>

\* now is read, and the showtime must not have started by then.
HoldPrepare(r) ==
    /\ hreq[r].pc = "prepare"
    /\ \/ /\ clock < StartTime
          /\ hreq' = [hreq EXCEPT ![r] = [@ EXCEPT !.pc = "acquire", !.now = clock]]
       \/ clock >= StartTime /\ AnswerHold(r, "SHOWTIME_UNAVAILABLE", None)
    /\ NoFault
    /\ UNCHANGED <<clock, mongo, locks, creq, rreq, wrk>>

\* Redis takes all the keys or none; an error reply leaves both possible.
HoldAcquire(r) ==
    /\ hreq[r].pc = "acquire"
    /\ \/ /\ KeysFree(hreq[r].seats) /\ NoFault
          /\ AcquireKeys(hreq[r].seats, r, clock)
          /\ hreq' = [hreq EXCEPT ![r].pc = "tx"]
       \/ /\ ~KeysFree(hreq[r].seats) /\ NoFault
          /\ AnswerHold(r, "SEAT_UNAVAILABLE", None)
          /\ UNCHANGED locks
       \/ /\ Fault("redisError")
          /\ \/ KeysFree(hreq[r].seats) /\ AcquireKeys(hreq[r].seats, r, clock)
             \/ UNCHANGED locks
          /\ AnswerHold(r, "LOCK_UNAVAILABLE", None)
    /\ UNCHANGED <<clock, mongo, creq, rreq, wrk>>

SeatsMatch(r) == \A s \in hreq[r].seats : Claimable(s, hreq[r].now)

\* Mutant: the index on (user_id, idempotency_key) is not unique.
HoldKeyTaken_NoIndex(r) == FALSE

\* uniq_hold_idempotency rejects the hold.
HoldKeyTaken(r) == HoldsByKey(hreq[r].user, hreq[r].key) # {}

\* The hold transaction commits; the driver may still report an error.
HoldCommit(r) ==
    /\ hreq[r].pc = "tx"
    /\ SeatsMatch(r)
    /\ ~HoldKeyTaken(r)
    /\ seats' = [s \in Seats |->
                   IF s \in hreq[r].seats
                   THEN [seats[s] EXCEPT !.status = "LOCKED", !.hold = r,
                                         !.user = hreq[r].user, !.until = HoldDoc(r).expires]
                   ELSE seats[s]]
    /\ holds' = [holds EXCEPT ![r] = HoldDoc(r)]
    /\ \/ AnswerHold(r, "CREATED", r) /\ NoFault
       \/ /\ Fault("commitUnknown")
          /\ hreq' = [hreq EXCEPT ![r] = [@ EXCEPT !.pc = "undo", !.err = "failed"]]
    /\ UNCHANGED <<clock, bookings, outbox, audit, locks, creq, rreq, wrk>>

\* Mutant: a seat mismatch is answered before the compensation.
HoldAbort_NoUndo(r) ==
    /\ hreq[r].pc = "tx" /\ ~SeatsMatch(r) /\ NoFault
    /\ AnswerHold(r, "SEAT_UNAVAILABLE", None)
    /\ UNCHANGED <<clock, mongo, locks, creq, rreq, wrk>>

\* The hold transaction aborts.
HoldAbort(r) ==
    /\ hreq[r].pc = "tx"
    /\ \E err \in {"mismatch", "duplicate", "failed"} :
         /\ hreq' = [hreq EXCEPT ![r] = [@ EXCEPT !.pc = "undo", !.err = err]]
         /\ \/ err = "mismatch" /\ ~SeatsMatch(r) /\ NoFault
            \/ err = "duplicate" /\ SeatsMatch(r) /\ HoldKeyTaken(r) /\ NoFault
            \/ err = "failed" /\ Fault("mongoError")
    /\ UNCHANGED <<clock, mongo, locks, creq, rreq, wrk>>

\* Compensation in Redis.
HoldUndo(r) ==
    /\ hreq[r].pc = "undo"
    /\ CleanUp(hreq[r].seats, r)
    /\ hreq' = [hreq EXCEPT ![r] =
                  IF @.err = "duplicate" THEN [@ EXCEPT !.pc = "dupe"]
                  ELSE Answered(@, IF @.err = "mismatch" THEN "SEAT_UNAVAILABLE"
                                                         ELSE "FAILED", None)]
    /\ UNCHANGED <<clock, mongo, creq, rreq, wrk>>

\* After a duplicate key the winner's hold is looked up once more.
HoldDupe(r) ==
    /\ hreq[r].pc = "dupe"
    /\ \E h \in HoldsByKey(hreq[r].user, hreq[r].key) :
         hreq' = [hreq EXCEPT ![r] = AnsweredByHold(@, h)]
    /\ NoFault
    /\ UNCHANGED <<clock, mongo, locks, creq, rreq, wrk>>

\* A read fails: of the showtime and its seats, or of the winner's hold.
HoldReadFails(r) ==
    /\ hreq[r].pc \in {"prepare", "dupe"} /\ Fault("mongoError")
    /\ AnswerHold(r, "FAILED", None)
    /\ UNCHANGED <<clock, mongo, locks, creq, rreq, wrk>>

HoldStep(r) ==
    \/ HoldLookup(r) \/ HoldPrepare(r) \/ HoldAcquire(r) \/ HoldCommit(r)
    \/ HoldAbort(r) \/ HoldUndo(r) \/ HoldDupe(r) \/ HoldReadFails(r)

-----------------------------------------------------------------------------
(* Confirm *)

AnswerConfirm(c, reply, b) == creq' = [creq EXCEPT ![c] = Answered(@, reply, b)]

NewConfirmReq(user, h, key) ==
    [pc |-> "byHold", user |-> user, hold |-> h, key |-> key, now |-> 0, err |-> "",
     reply |-> "", result |-> None]

\* The request arrives, and its handler looks the confirmation key up.
ConfirmByKey(c) ==
    /\ creq[c].pc = "idle"
    /\ \E user \in Users, h \in HoldCalls, key \in IdemKeys :
         LET req == NewConfirmReq(user, h, key) IN
         \/ BookingsByKey(user, key) = {} /\ creq' = [creq EXCEPT ![c] = req]
         \/ \E b \in BookingsByKey(user, key) :
              creq' = [creq EXCEPT ![c] = IF b.hold = h THEN Answered(req, "EXISTING", b.id)
                                          ELSE Answered(req, "KEY_REUSED", None)]
    /\ NoFault
    /\ UNCHANGED <<clock, mongo, locks, hreq, rreq, wrk>>

\* Mutant: the lookup forgets whose booking it is.
OwnBookings_AnyUser(c) == BookingsByHold(creq[c].hold)

\* The caller's booking of a hold, if there is one (bookings.hold_id is unique).
OwnBookings(c) == {b \in BookingsByHold(creq[c].hold) : b.user = creq[c].user}

ConfirmByHold(c) ==
    /\ creq[c].pc = "byHold"
    /\ \/ OwnBookings(c) = {} /\ creq' = [creq EXCEPT ![c].pc = "load"]
       \/ \E b \in OwnBookings(c) : AnswerConfirm(c, "EXISTING", b.id)
    /\ NoFault
    /\ UNCHANGED <<clock, mongo, locks, hreq, rreq, wrk>>

\* The hold is read and checked against the clock.
ConfirmLoad(c) ==
    LET h == holds[creq[c].hold] IN
    /\ creq[c].pc = "load"
    /\ \/ h.status = None /\ AnswerConfirm(c, "NOT_FOUND", None)
       \/ h.status # None /\ h.user # creq[c].user /\ AnswerConfirm(c, "FORBIDDEN", None)
       \/ /\ h.user = creq[c].user
          /\ h.status # "ACTIVE" \/ clock >= h.expires
          /\ AnswerConfirm(c, "HOLD_EXPIRED", None)
       \/ /\ h.user = creq[c].user /\ h.status = "ACTIVE" /\ clock < h.expires
          /\ creq' = [creq EXCEPT ![c].pc = "verify"]
    /\ NoFault
    /\ UNCHANGED <<clock, mongo, locks, hreq, rreq, wrk>>

ConfirmVerify(c) ==
    LET owned == KeysOwned(holds[creq[c].hold].seats, creq[c].hold) IN
    /\ creq[c].pc = "verify"
    /\ \/ owned /\ creq' = [creq EXCEPT ![c].pc = "stamp"] /\ NoFault
       \/ ~owned /\ AnswerConfirm(c, "HOLD_EXPIRED", None) /\ NoFault
       \/ AnswerConfirm(c, "LOCK_UNAVAILABLE", None) /\ Fault("redisError")
    /\ UNCHANGED <<clock, mongo, locks, hreq, rreq, wrk>>

\* The booking is assembled and the transaction's callback reads its own time.
ConfirmStamp(c) ==
    /\ creq[c].pc = "stamp"
    /\ creq' = [creq EXCEPT ![c] = [@ EXCEPT !.pc = "tx", !.now = clock]]
    /\ NoFault
    /\ UNCHANGED <<clock, mongo, locks, hreq, rreq, wrk>>

\* A read before the transaction fails.
ConfirmReadFails(c) ==
    /\ creq[c].pc \in {"byHold", "load", "stamp"} /\ Fault("mongoError")
    /\ AnswerConfirm(c, "FAILED", None)
    /\ UNCHANGED <<clock, mongo, locks, hreq, rreq, wrk>>

HoldConfirmable(c) ==
    LET h == holds[creq[c].hold]
    IN h.user = creq[c].user /\ h.status = "ACTIVE" /\ h.expires > creq[c].now

\* Mutant: the seats are matched by their status alone.
HoldSeatsBookable_AnyLocked(c) ==
    \A s \in holds[creq[c].hold].seats : seats[s].status = "LOCKED"

HoldSeatsBookable(c) ==
    \A s \in holds[creq[c].hold].seats :
        Bookable(s, creq[c].hold, creq[c].user, creq[c].now)

\* Mutant: the index on (user_id, confirmation_idempotency_key) is not unique.
BookingRejected_NoKeyIndex(c) == BookingsByHold(creq[c].hold) # {}

\* uniq_booking_hold or uniq_booking_confirmation rejects the booking.
BookingRejected(c) ==
    BookingsByHold(creq[c].hold) # {} \/ BookingsByKey(creq[c].user, creq[c].key) # {}

\* The confirmation transaction commits; the driver may still report an error.
ConfirmCommit(c) ==
    LET h == creq[c].hold IN
    /\ creq[c].pc = "tx"
    /\ HoldConfirmable(c)
    /\ HoldSeatsBookable(c)
    /\ ~BookingRejected(c)
    /\ EndHold(h, "CONFIRMED", <<"BOOKING_SUCCESS">>)
    /\ seats' = [s \in Seats |-> IF s \in holds[h].seats
                                 THEN [AvailableSeat EXCEPT !.status = "BOOKED", !.booking = c]
                                 ELSE seats[s]]
    /\ bookings' = bookings \cup {[id |-> c, hold |-> h, user |-> creq[c].user,
                                   key |-> creq[c].key, seats |-> holds[h].seats]}
    /\ outbox' = outbox \cup {c}
    /\ \/ creq' = [creq EXCEPT ![c].pc = "cleanup"] /\ NoFault
       \/ /\ Fault("commitUnknown")
          /\ creq' = [creq EXCEPT ![c] = [@ EXCEPT !.pc = "recoverHold", !.err = "failed"]]
    /\ UNCHANGED <<clock, locks, hreq, rreq, wrk>>

ConfirmAbort(c) ==
    /\ creq[c].pc = "tx"
    /\ \E err \in {"expired", "failed"} :
         /\ creq' = [creq EXCEPT ![c] = [@ EXCEPT !.pc = "recoverHold", !.err = err]]
         /\ \/ err = "expired" /\ NoFault /\ ~(HoldConfirmable(c) /\ HoldSeatsBookable(c))
            \/ /\ err = "failed" /\ NoFault
               /\ HoldConfirmable(c) /\ HoldSeatsBookable(c) /\ BookingRejected(c)
            \/ err = "failed" /\ Fault("mongoError")
    /\ UNCHANGED <<clock, mongo, locks, hreq, rreq, wrk>>

\* After an error: was this hold booked after all?  A failing read counts as "no".
ConfirmRecoverHold(c) ==
    /\ creq[c].pc = "recoverHold"
    /\ \/ NoFault /\ \E b \in OwnBookings(c) : AnswerConfirm(c, "EXISTING", b.id)
       \/ /\ (OwnBookings(c) = {} /\ NoFault) \/ Fault("mongoError")
          /\ creq' = [creq EXCEPT ![c].pc = "recoverKey"]
    /\ UNCHANGED <<clock, mongo, locks, hreq, rreq, wrk>>

\* ... or does the key stand for the booking of another hold?
ConfirmRecoverKey(c) ==
    LET other == {b \in BookingsByKey(creq[c].user, creq[c].key) : b.hold # creq[c].hold}
        final == IF creq[c].err = "expired" THEN "HOLD_EXPIRED" ELSE "FAILED"
    IN /\ creq[c].pc = "recoverKey"
       /\ \/ other # {} /\ NoFault /\ AnswerConfirm(c, "KEY_REUSED", None)
          \/ /\ (other = {} /\ NoFault) \/ Fault("mongoError")
             /\ AnswerConfirm(c, final, None)
       /\ UNCHANGED <<clock, mongo, locks, hreq, rreq, wrk>>

\* The Redis keys go after the commit.
ConfirmCleanup(c) ==
    /\ creq[c].pc = "cleanup"
    /\ CleanUp(holds[creq[c].hold].seats, creq[c].hold)
    /\ AnswerConfirm(c, "CREATED", c)
    /\ UNCHANGED <<clock, mongo, hreq, rreq, wrk>>

ConfirmStep(c) ==
    \/ ConfirmByKey(c) \/ ConfirmByHold(c) \/ ConfirmLoad(c) \/ ConfirmVerify(c)
    \/ ConfirmStamp(c) \/ ConfirmReadFails(c) \/ ConfirmCommit(c) \/ ConfirmAbort(c)
    \/ ConfirmRecoverHold(c) \/ ConfirmRecoverKey(c) \/ ConfirmCleanup(c)

-----------------------------------------------------------------------------
(* ReleaseHold *)

AnswerRelease(d, reply) ==
    rreq' = [rreq EXCEPT ![d] = [@ EXCEPT !.pc = "done", !.reply = reply]]

\* A release request as the reading of its hold leaves it.
IsLoadedRelease(req) ==
    LET h == holds[req.hold] IN
    \/ h.status = None /\ req.pc = "done" /\ req.reply = "NOT_FOUND"
    \/ h.status # None /\ h.user # req.user /\ req.pc = "done" /\ req.reply = "FORBIDDEN"
    \/ h.user = req.user /\ h.status # "ACTIVE" /\ req.pc = "done" /\ req.reply = h.status
    \/ h.user = req.user /\ h.status = "ACTIVE" /\ req.pc = "tx" /\ req.reply = ""

\* The request arrives, and its handler reads the hold.
ReleaseLoad(d) ==
    /\ rreq[d].pc = "idle"
    /\ \E req \in ReleaseReq : IsLoadedRelease(req) /\ rreq' = [rreq EXCEPT ![d] = req]
    /\ NoFault
    /\ UNCHANGED <<clock, mongo, locks, hreq, creq, wrk>>

\* Mutant: the update does not ask for an ACTIVE hold.
EndableHold_AnyStatus(h) == holds[h].status # None

\* Only an ACTIVE hold is released or expired.
EndableHold(h) == holds[h].status = "ACTIVE"

ReleaseCommit(d) ==
    LET h == rreq[d].hold IN
    /\ rreq[d].pc = "tx"
    /\ EndableHold(h)
    /\ EndHold(h, "RELEASED", <<"SEAT_RELEASED">>)
    /\ FreeSeats(h)
    /\ \/ rreq' = [rreq EXCEPT ![d].pc = "cleanup"] /\ NoFault
       \/ rreq' = [rreq EXCEPT ![d].pc = "recover"] /\ Fault("commitUnknown")
    /\ UNCHANGED <<clock, bookings, outbox, locks, hreq, creq, wrk>>

ReleaseAbort(d) ==
    /\ rreq[d].pc = "tx"
    /\ (~EndableHold(rreq[d].hold) /\ NoFault) \/ Fault("mongoError")
    /\ rreq' = [rreq EXCEPT ![d].pc = "recover"]
    /\ UNCHANGED <<clock, mongo, locks, hreq, creq, wrk>>

\* Mutant: an error is taken for a release that went through.
ReleaseRecover_AssumesDone(d) ==
    /\ rreq[d].pc = "recover" /\ AnswerRelease(d, "RELEASED") /\ NoFault
    /\ UNCHANGED <<clock, mongo, locks, hreq, creq, wrk>>

\* After an error the hold is read again: its status is the answer if it is final.
ReleaseRecover(d) ==
    LET h == rreq[d].hold IN
    /\ rreq[d].pc = "recover"
    /\ \/ /\ holds[h].status \in HoldStatus \ {"ACTIVE"} /\ NoFault
          /\ AnswerRelease(d, holds[h].status)
       \/ /\ (holds[h].status \in {"ACTIVE", None} /\ NoFault) \/ Fault("mongoError")
          /\ AnswerRelease(d, "FAILED")
    /\ UNCHANGED <<clock, mongo, locks, hreq, creq, wrk>>

ReleaseCleanup(d) ==
    /\ rreq[d].pc = "cleanup"
    /\ CleanUp(holds[rreq[d].hold].seats, rreq[d].hold)
    /\ AnswerRelease(d, "RELEASED")
    /\ UNCHANGED <<clock, mongo, hreq, creq, wrk>>

ReleaseStep(d) ==
    \/ ReleaseLoad(d) \/ ReleaseCommit(d) \/ ReleaseAbort(d)
    \/ ReleaseRecover(d) \/ ReleaseCleanup(d)

-----------------------------------------------------------------------------
(* The worker's RunExpiration loop: ExpireDueHolds and expireOne *)

\* Mutant: the sweep does not ask for ACTIVE holds.
DueHolds_AnyStatus == {h \in HoldCalls : holds[h].status # None /\ holds[h].expires <= clock}

DueHolds == {h \in HoldCalls : holds[h].status = "ACTIVE" /\ holds[h].expires <= clock}

\* B is what the sweep's sorted and limited query may return.
IsSweep(B) ==
    /\ B \subseteq DueHolds
    /\ Cardinality(B) <= SweepLimit
    /\ Cardinality(B) < SweepLimit => B = DueHolds
    /\ \A h \in B, other \in DueHolds \ B : holds[h].expires <= holds[other].expires

WorkerSweep(w) ==
    /\ wrk[w].pc = "idle"
    /\ \E B \in SUBSET HoldCalls :
         /\ IsSweep(B)
         /\ wrk' = [wrk EXCEPT ![w] = IF B = {} THEN IdleWorker
                                      ELSE [pc |-> "expire", now |-> clock, batch |-> B,
                                            hold |-> None]]
    /\ NoFault
    /\ UNCHANGED <<clock, mongo, locks, hreq, creq, rreq>>

\* The worker is through with h and turns to the rest of its batch.
Proceeded(rec, h) ==
    IF rec.batch = {h} THEN IdleWorker
    ELSE [rec EXCEPT !.pc = "expire", !.batch = @ \ {h}, !.hold = None]

\* The holds of a batch are taken in the order of their expiry.
IsFirst(w, h) ==
    h \in wrk[w].batch /\ \A g \in wrk[w].batch : holds[h].expires <= holds[g].expires

\* The expiry transaction claims h; the driver may still report an error.
WorkerExpire(w) ==
    /\ wrk[w].pc = "expire"
    /\ \E h \in HoldCalls :
         /\ IsFirst(w, h)
         /\ EndableHold(h) /\ holds[h].expires <= wrk[w].now
         /\ EndHold(h, "EXPIRED", <<"BOOKING_TIMEOUT", "SEAT_RELEASED">>)
         /\ FreeSeats(h)
         /\ \/ wrk' = [wrk EXCEPT ![w] = [@ EXCEPT !.pc = "reread", !.hold = h]] /\ NoFault
            \/ wrk' = [wrk EXCEPT ![w] = Proceeded(@, h)] /\ Fault("commitUnknown")
    /\ UNCHANGED <<clock, bookings, outbox, locks, hreq, creq, rreq>>

\* The transaction finds h already ended, or fails: the next hold is tried.
WorkerSkip(w) ==
    /\ wrk[w].pc = "expire"
    /\ \E h \in HoldCalls :
         /\ IsFirst(w, h)
         /\ (~EndableHold(h) /\ NoFault) \/ Fault("mongoError")
         /\ wrk' = [wrk EXCEPT ![w] = Proceeded(@, h)]
    /\ UNCHANGED <<clock, mongo, locks, hreq, creq, rreq>>

WorkerReread(w) ==
    /\ wrk[w].pc = "reread"
    /\ \/ /\ holds[wrk[w].hold].status = "EXPIRED" /\ NoFault
          /\ wrk' = [wrk EXCEPT ![w].pc = "cleanup"]
       \/ /\ Fault("mongoError")
          /\ wrk' = [wrk EXCEPT ![w] = Proceeded(@, wrk[w].hold)]
    /\ UNCHANGED <<clock, mongo, locks, hreq, creq, rreq>>

WorkerCleanup(w) ==
    /\ wrk[w].pc = "cleanup"
    /\ CleanUp(holds[wrk[w].hold].seats, wrk[w].hold)
    /\ wrk' = [wrk EXCEPT ![w] = Proceeded(@, wrk[w].hold)]
    /\ UNCHANGED <<clock, mongo, hreq, creq, rreq>>

WorkerStep(w) ==
    \/ WorkerSweep(w) \/ WorkerExpire(w) \/ WorkerSkip(w)
    \/ WorkerReread(w) \/ WorkerCleanup(w)

-----------------------------------------------------------------------------
(* Time, crashes and lost keys *)

\* Bound: by then every hold that can exist has lapsed.
LastExpiry == StartTime - 1 + TTL

Tick ==
    /\ clock < LastExpiry
    /\ clock' = clock + 1
    /\ DropExpiredKeys(clock')
    /\ UNCHANGED <<mongo, hreq, creq, rreq, wrk, faults>>

Running(req) == req.pc \notin {"idle", "done"}

\* The API process dies under a handler, whose caller gets no answer.
CrashHandler ==
    /\ Fault("crash")
    /\ \/ \E r \in HoldCalls : /\ Running(hreq[r])
                               /\ AnswerHold(r, "LOST", None)
                               /\ UNCHANGED <<creq, rreq>>
       \/ \E c \in ConfirmCalls : /\ Running(creq[c])
                                  /\ AnswerConfirm(c, "LOST", None)
                                  /\ UNCHANGED <<hreq, rreq>>
       \/ \E d \in ReleaseCalls : /\ Running(rreq[d])
                                  /\ AnswerRelease(d, "LOST")
                                  /\ UNCHANGED <<hreq, creq>>
    /\ UNCHANGED <<clock, mongo, locks, wrk>>

\* A worker dies and is restarted.
CrashWorker ==
    /\ Fault("crash")
    /\ \E w \in Workers : wrk[w].pc # "idle" /\ wrk' = [wrk EXCEPT ![w] = IdleWorker]
    /\ UNCHANGED <<clock, mongo, locks, hreq, creq, rreq>>

RedisRestart ==
    /\ Fault("redisLoss")
    /\ \E S \in (SUBSET Seats) \ {{}} : LoseKeys(S)
    /\ UNCHANGED <<clock, mongo, hreq, creq, rreq, wrk>>

Next ==
    \/ Tick
    \/ \E r \in HoldCalls : HoldStep(r)
    \/ \E c \in ConfirmCalls : ConfirmStep(c)
    \/ \E d \in ReleaseCalls : ReleaseStep(d)
    \/ \E w \in Workers : WorkerStep(w)
    \/ CrashHandler \/ CrashWorker \/ RedisRestart

Spec == Init /\ [][Next]_vars

\* Time passes, and each worker's loop runs on (its container is restarted).
Fairness == WF_vars(Tick) /\ \A w \in Workers : WF_vars(WorkerStep(w))

FairSpec == Spec /\ Fairness

\* Every store, handler and worker is in a state of its kind.
TypeOK ==
    /\ clock \in Nat
    /\ seats \in [Seats -> Seat]
    /\ holds \in [HoldCalls -> Hold]
    /\ bookings \subseteq BookingDoc
    /\ outbox \subseteq ConfirmCalls
    /\ audit \in [HoldCalls -> Seq(AuditEvents)]
    /\ LocksTypeOK
    /\ hreq \in [HoldCalls -> HoldReq \cup {IdleHoldReq}]
    /\ creq \in [ConfirmCalls -> ConfirmReq \cup {IdleConfirmReq}]
    /\ rreq \in [ReleaseCalls -> ReleaseReq \cup {IdleReleaseReq}]
    /\ wrk \in [Workers -> Worker \cup {IdleWorker}]
    /\ faults \in Nat
=============================================================================
