---------------------------- MODULE BookingLedger ----------------------------
(* How the collections of Booking read as the ledger of SeatLedger. *)
EXTENDS BookingProperties

\* The booking a BOOKED seat names.
BookingOf(s) == CHOOSE b \in bookings : b.id = seats[s].booking

OwnerOf(s) ==
    CASE seats[s].status = "LOCKED" -> seats[s].hold
      [] seats[s].status = "BOOKED" -> BookingOf(s).hold
      [] OTHER -> None

LifeOf(h) ==
    CASE holds[h].status = "ACTIVE" -> "held"
      [] holds[h].status = "CONFIRMED" -> "sold"
      [] holds[h].status = "RELEASED" -> "returned"
      [] holds[h].status = "EXPIRED" -> "lapsed"
      [] OTHER -> "new"

Ledger == INSTANCE SeatLedger WITH
    Claims <- HoldCalls,
    time <- clock,
    owner <- [s \in Seats |-> OwnerOf(s)],
    life <- [h \in HoldCalls |-> LifeOf(h)],
    claimed <- [h \in HoldCalls |-> holds[h].seats],
    until <- [h \in HoldCalls |-> holds[h].expires]

\* Whatever the handlers, workers, stores and faults do, what the collections say of the seats
\* changes as if by one ledger: a hold gets all its seats together, only free ones or those of
\* a hold that has lapsed by the time of the commit; it is sold only while it still has all
\* of them; it ends once, and gives back exactly the seats it still has (README.md:182-198).
ImplementsLedger == Ledger!Spec
=============================================================================
