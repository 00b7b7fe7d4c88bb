-------------------------- MODULE BookingProperties --------------------------
(* What Booking must guarantee, and where its documentation promises more. *)
EXTENDS Booking

\* A LOCKED seat always belongs to an ACTIVE hold that names it and agrees with it on
\* user and expiry: hold, release, confirmation and expiry never leave the two
\* collections apart (booking.go:100-112, 160-175, 273-301, 368-383).
SeatsFollowHolds ==
    \A s \in Seats : seats[s].status = "LOCKED" =>
        LET h == holds[seats[s].hold]
        IN /\ seats[s].hold \in HoldCalls
           /\ h.status = "ACTIVE"
           /\ s \in h.seats
           /\ seats[s].user = h.user
           /\ seats[s].until = h.expires

Live(h) == holds[h].status = "ACTIVE" /\ clock < holds[h].expires

\* A hold keeps every one of its seats until it lapses, however late the transactions
\* of other requests and workers commit that read the clock before (booking.go:101).
LiveHoldOwnsSeats ==
    \A h \in HoldCalls : Live(h) => \A s \in holds[h].seats :
        seats[s].status = "LOCKED" /\ seats[s].hold = h

\* Every seat of every booking is BOOKED by that booking and no other, and no seat is
\* BOOKED without a booking that names it: nothing is sold twice or lost (booking.go:284-293).
BookingsOwnSeats ==
    /\ \A b \in bookings : \A s \in b.seats :
         seats[s].status = "BOOKED" /\ seats[s].booking = b.id
    /\ \A s \in Seats : seats[s].status = "BOOKED" =>
         \E b \in bookings : b.id = seats[s].booking /\ s \in b.seats

\* The audit records about a hold, by its status.
EndOf(status) ==
    CASE status \in {None, "ACTIVE"} -> <<>>
      [] status = "CONFIRMED" -> <<"BOOKING_SUCCESS">>
      [] status = "RELEASED" -> <<"SEAT_RELEASED">>
      [] status = "EXPIRED" -> <<"BOOKING_TIMEOUT", "SEAT_RELEASED">>

\* A hold comes to exactly one end, recorded once in the audit log, however many
\* confirmations, releases and workers race for it; it is CONFIRMED exactly when one
\* booking of it, for its user and its seats, exists, with the booking's event in the
\* outbox (booking.go:277-300, 161-173, 369-381).
OneEndPerHold ==
    /\ \A h \in HoldCalls :
         /\ audit[h] = EndOf(holds[h].status)
         /\ IF holds[h].status = "CONFIRMED"
            THEN \E b \in bookings : /\ BookingsByHold(h) = {b}
                                     /\ b.user = holds[h].user
                                     /\ b.seats = holds[h].seats
            ELSE BookingsByHold(h) = {}
    /\ outbox = {b.id : b \in bookings}

\* An Idempotency-Key stands for one hold and for one booking of its user
\* (booking.go:59-66, 116-123, 202-209; database/mongo.go:62, 68).
KeysAreUnique ==
    \A user \in Users, key \in IdemKeys :
        /\ Cardinality(HoldsByKey(user, key)) <= 1
        /\ Cardinality(BookingsByKey(user, key)) <= 1

\* An answer tells what is in the database: a hold answer names the hold of that
\* caller, key and seat set, and a refusal leaves none behind (booking.go:59-63,
\* 92-97, 113-130).
HoldAnswersHonest ==
    \A r \in HoldCalls :
        LET req == hreq[r]
            h == holds[req.result]
        IN /\ req.reply \in {"CREATED", "EXISTING"} =>
                /\ req.result \in HoldCalls
                /\ h.user = req.user /\ h.key = req.key /\ h.seats = req.seats
           /\ req.reply = "KEY_REUSED" =>
                \E g \in HoldsByKey(req.user, req.key) : holds[g].seats # req.seats
           /\ req.reply \in {"EXISTING", "KEY_REUSED", "SHOWTIME_UNAVAILABLE",
                             "SEAT_UNAVAILABLE", "LOCK_UNAVAILABLE"} =>
                holds[r].status = None

\* Likewise a confirmation's answer names the caller's booking of that hold and a
\* refusal leaves none of its own behind (booking.go:202-214, 302-319), and a release
\* answers with the status the hold has come to for good (booking.go:148-191).
EndAnswersHonest ==
    /\ \A c \in ConfirmCalls :
         LET req == creq[c]
         IN /\ req.reply \in {"CREATED", "EXISTING"} =>
                 \E b \in bookings :
                     b.id = req.result /\ b.hold = req.hold /\ b.user = req.user
            /\ req.reply = "KEY_REUSED" =>
                 \E b \in BookingsByKey(req.user, req.key) : b.hold # req.hold
            /\ req.reply \in {"KEY_REUSED", "NOT_FOUND", "FORBIDDEN", "HOLD_EXPIRED",
                              "LOCK_UNAVAILABLE"} => c \notin outbox
    /\ \A d \in ReleaseCalls :
         rreq[d].reply \in HoldStatus =>
             /\ holds[rreq[d].hold].status = rreq[d].reply
             /\ rreq[d].reply # "ACTIVE"
             /\ holds[rreq[d].hold].user = rreq[d].user

\* While nothing fails, Redis never gives up the keys of a hold before MongoDB lets it
\* lapse, so a live hold can be confirmed (booking.go:84-87, 229-237).
RedisBacksLiveHolds ==
    \A h \in HoldCalls : Live(h) => KeysOwned(holds[h].seats, h)

\* While nothing fails, every key is on its way out or backs an ACTIVE hold: each way a
\* hold can end or fail to be made deletes its keys (booking.go:114, 187, 315, 397).
NoOrphanKeys ==
    \A s \in Seats : locks[s].owner # None =>
        LET h == locks[s].owner
        IN \/ holds[h].status = "ACTIVE"
           \/ hreq[h].pc \in {"tx", "undo"}
           \/ \E c \in ConfirmCalls : creq[c].pc = "cleanup" /\ creq[c].hold = h
           \/ \E d \in ReleaseCalls : rreq[d].pc = "cleanup" /\ rreq[d].hold = h
           \/ \E w \in Workers : wrk[w].pc \in {"reread", "cleanup"} /\ wrk[w].hold = h

TakesNothingBack ==
    /\ \A s \in Seats : seats[s].status = "BOOKED" => seats'[s] = seats[s]
    /\ \A h \in HoldCalls :
         /\ holds[h].status \in HoldStatus \ {"ACTIVE"} => holds'[h] = holds[h]
         /\ Live(h) => holds'[h].status \in {"ACTIVE", "CONFIRMED", "RELEASED"}
         /\ Live(h) /\ holds'[h].status = "ACTIVE" =>
              \A s \in holds[h].seats : seats'[s] = seats[s]

\* No step takes a seat from a hold that has not lapsed except its user's own release
\* or confirmation, none changes a BOOKED seat, and none reopens a hold that has ended
\* (README.md:186-198).
NothingIsTakenBack == [][TakesNothingBack]_vars

\* Every hold comes to an end and every locked seat is freed or sold, as long as the
\* clock and the workers run (processor.go:36-52, booking.go:342-402).
HoldsEnd == \A h \in HoldCalls : holds[h].status = "ACTIVE" ~> holds[h].status # "ACTIVE"

-----------------------------------------------------------------------------
(* Why the seats stay consistent: the inductive invariant behind the proofs *)

\* Every time a handler or a worker has noted is one it has read (booking.go:68, 343).
StampsArePast ==
    /\ \A r \in HoldCalls : hreq[r].now <= clock
    /\ \A w \in Workers : wrk[w].now <= clock

\* The ids of holds and bookings are new: no document carries the id of a request whose
\* transaction has not committed yet (booking.go:84, 270).
IdsAreFresh ==
    /\ \A r \in HoldCalls : hreq[r].pc \in {"idle", "prepare", "acquire", "tx"} =>
         holds[r].status = None
    /\ \A c \in ConfirmCalls :
         creq[c].pc \in {"idle", "byHold", "load", "verify", "stamp", "tx"} =>
             \A b \in bookings : b.id # c

\* The state of the stores that every step relies on and preserves, with the noted times
\* and fresh ids it takes to see that (booking.go:100-112, 160-175, 273-301, 368-383).
SafetyInv ==
    /\ TypeOK
    /\ SeatsFollowHolds
    /\ LiveHoldOwnsSeats
    /\ BookingsOwnSeats
    /\ OneEndPerHold
    /\ StampsArePast
    /\ IdsAreFresh

-----------------------------------------------------------------------------
(* Why the answers are honest: what the handlers know between their steps *)

\* No two holds and no two bookings carry the key of one user (mongo.go:62, 68).
OnePerKey ==
    /\ \A g, h \in HoldCalls :
         holds[g].status # None /\ h \in HoldsByKey(holds[g].user, holds[g].key) => g = h
    /\ \A a, b \in bookings : a.user = b.user /\ a.key = b.key => a = b

\* A CreateHold handler that compensates for a mismatch or a duplicate has left no hold; a
\* hold is the one its request asked for (booking.go:88-130).
HoldReqsKnow ==
    \A r \in HoldCalls :
        LET req == hreq[r]
        IN /\ req.reply # "" => req.pc = "done"
           /\ req.pc = "dupe" \/ (req.pc = "undo" /\ req.err # "failed") =>
                holds[r].status = None
           /\ holds[r].status # None =>
                holds[r].user = req.user /\ holds[r].key = req.key /\ holds[r].seats = req.seats
           /\ req.reply \in {"CREATED", "EXISTING"} => holds[req.result].status # None

\* A booking is the one its Confirm request asked for; the handler that reports one has made
\* it, and one that looks for it after "expired" has not (booking.go:273-319).
ConfirmReqsKnow ==
    \A c \in ConfirmCalls :
        LET req == creq[c]
        IN /\ req.reply # "" => req.pc = "done"
           /\ \A b \in bookings : b.id = c =>
                /\ b.hold = req.hold /\ b.user = req.user /\ b.key = req.key
                /\ req.pc \in {"recoverHold", "recoverKey"} => req.err = "failed"
           /\ req.pc = "cleanup" =>
                \E b \in bookings : b.id = c /\ holds[req.hold].status = "CONFIRMED"

\* A release acts for the user of a hold that exists, and cleans up after one that it has
\* released (booking.go:148-190).
ReleaseReqsKnow ==
    \A d \in ReleaseCalls :
        LET h == holds[rreq[d].hold]
        IN /\ rreq[d].reply # "" => rreq[d].pc = "done"
           /\ rreq[d].pc \in {"tx", "recover", "cleanup"} =>
                h.status # None /\ h.user = rreq[d].user
           /\ rreq[d].pc = "cleanup" => h.status = "RELEASED"

\* With SafetyInv, the state of stores and handlers that makes every answer true.
AnswersInv ==
    /\ OnePerKey
    /\ HoldReqsKnow /\ ConfirmReqsKnow /\ ReleaseReqsKnow
    /\ HoldAnswersHonest /\ EndAnswersHonest

-----------------------------------------------------------------------------
(* Why Redis backs the holds: whose keys there are, and for how long *)

\* A key is of a seat that its hold asked for, whose handler took it (redis.go:70-84).
KeysAreAskedFor ==
    \A s \in Seats : locks[s].owner # None =>
        LET r == locks[s].owner
        IN s \in hreq[r].seats /\ hreq[r].pc \notin {"idle", "prepare", "acquire"}

\* Keys are only deleted for a hold that has come to its end (booking.go:187, 315, 397).
WorkersKnow ==
    \A w \in Workers : wrk[w].pc \in {"reread", "cleanup"} =>
        holds[wrk[w].hold].status = "EXPIRED"

\* From the moment they are taken to the moment the hold lapses, its keys are there and
\* will not be dropped before; an undo is of a hold that was not made (booking.go:84-114).
KeysOutliveHolds ==
    /\ \A r \in HoldCalls :
         /\ hreq[r].pc = "undo" => holds[r].status = None
         /\ hreq[r].pc = "tx" /\ clock < hreq[r].now + TTL => \A s \in hreq[r].seats :
              locks[s].owner = r /\ locks[s].until >= hreq[r].now + TTL
    /\ \A h \in HoldCalls : Live(h) => \A s \in holds[h].seats :
         locks[s].owner = h /\ locks[s].until >= holds[h].expires

\* With SafetyInv and AnswersInv, while Redis keeps its data and commits report their outcome.
KeysInv == KeysAreAskedFor /\ WorkersKnow /\ KeysOutliveHolds

-----------------------------------------------------------------------------
(* What the documentation says and the code does not do *)

\* README.md:159, "Repeating the same hold returns its existing booking with 200 OK": a
\* confirmation is not refused as expired once its user's booking of the hold exists
\* (booking.go:226, 234).
RepeatedConfirmFindsBooking ==
    [][\A c \in ConfirmCalls :
          creq[c].pc # "done" /\ creq'[c].reply = "HOLD_EXPIRED" => OwnBookings(c) = {}]_vars
=============================================================================
