------------------------- MODULE BookingLedgerProofs -------------------------
(***************************************************************************)
(* Booking implements SeatLedger: each of the three ways in which the      *)
(* collections change is a step of the ledger, and nothing else is.        *)
(***************************************************************************)
EXTENDS BookingSafetyProofs, BookingLedger

USE DEF mongo

BookingIdsUnique == \A b1, b2 \in bookings : b1.id = b2.id => b1 = b2

\* What the refinement needs to know of the states.
LedgerInv == SafetyInv /\ BookingIdsUnique

-----------------------------------------------------------------------------
(* The mapping *)

\* The owner of a seat, without the choice of a booking.
LEMMA OwnerValues ==
    ASSUME LedgerInv, NEW s \in Seats
    PROVE  /\ seats[s].status = "AVAILABLE" => OwnerOf(s) = None
           /\ seats[s].status = "LOCKED" => OwnerOf(s) = seats[s].hold
           /\ \A b \in bookings :
                seats[s].status = "BOOKED" /\ seats[s].booking = b.id => OwnerOf(s) = b.hold
<1>1. ASSUME NEW b \in bookings, seats[s].booking = b.id PROVE BookingOf(s) = b
  BY <1>1 DEF LedgerInv, BookingIdsUnique, BookingOf
<1> QED BY <1>1 DEF OwnerOf

LEMMA OwnerValuesNext ==
    ASSUME LedgerInv', NEW s \in Seats
    PROVE  /\ seats'[s].status = "AVAILABLE" => OwnerOf(s)' = None
           /\ seats'[s].status = "LOCKED" => OwnerOf(s)' = seats'[s].hold
           /\ \A b \in bookings' :
                seats'[s].status = "BOOKED" /\ seats'[s].booking = b.id => OwnerOf(s)' = b.hold
<1>1. ASSUME NEW b \in bookings', seats'[s].booking = b.id PROVE BookingOf(s)' = b
  BY <1>1 DEF LedgerInv, BookingIdsUnique, BookingOf
<1> QED BY <1>1 DEF OwnerOf

\* A seat's status is one of three, and a BOOKED seat has its booking.
LEMMA SeatKinds ==
    ASSUME LedgerInv, NEW s \in Seats
    PROVE  \/ seats[s].status = "AVAILABLE"
           \/ seats[s].status = "LOCKED"
           \/ /\ seats[s].status = "BOOKED"
              /\ \E b \in bookings : b.id = seats[s].booking /\ s \in b.seats
<1>1. seats[s] \in Seat
  BY DEF LedgerInv, SafetyInv, TypeOK
<1> QED BY <1>1 DEF Seat, SeatStatus, LedgerInv, SafetyInv, BookingsOwnSeats

\* An unchanged seat keeps its owner while no booking goes.
LEMMA OwnerStays ==
    ASSUME LedgerInv, LedgerInv', NEW s \in Seats, seats'[s] = seats[s],
           bookings \subseteq bookings'
    PROVE  OwnerOf(s)' = OwnerOf(s)
BY SeatKinds, OwnerValues, OwnerValuesNext

LEMMA LivesNext ==
    ASSUME NEW h \in HoldCalls
    PROVE  /\ LifeOf(h) = "held" <=> holds[h].status = "ACTIVE"
           /\ holds[h].status = None => LifeOf(h) = "new"
           /\ holds'[h] = holds[h] => LifeOf(h)' = LifeOf(h)
           /\ holds'[h].status = "ACTIVE" => LifeOf(h)' = "held"
           /\ holds'[h].status = "CONFIRMED" => LifeOf(h)' = "sold"
           /\ holds'[h].status = "RELEASED" => LifeOf(h)' = "returned"
           /\ holds'[h].status = "EXPIRED" => LifeOf(h)' = "lapsed"
BY NoneIsFresh DEF LifeOf, HoldStatus

-----------------------------------------------------------------------------
(* The steps *)

LEMMA GrantStep ==
    ASSUME LedgerInv, LedgerInv', NEW r \in HoldCalls, HoldCommit(r)
    PROVE  Ledger!Grant(r)
<1> DEFINE S == hreq[r].seats
<1>0. /\ TypeOK /\ IdsAreFresh /\ StampsArePast /\ SeatsFollowHolds
  BY DEF LedgerInv, SafetyInv
<1>1. /\ holds[r].status = None /\ holds' = [holds EXCEPT ![r] = HoldDoc(r)]
      /\ holds'[r] = HoldDoc(r) /\ HoldDoc(r).status = "ACTIVE" /\ HoldDoc(r).seats = S
      /\ UNCHANGED <<clock, bookings>>
      /\ \A g \in HoldCalls \ {r} : holds'[g] = holds[g]
  BY <1>0, HoldCommitEffect DEF TypeOK
<1>2. hreq[r] \in HoldReq
  <2>1. hreq[r] \in HoldReq \/ hreq[r] = IdleHoldReq
    BY <1>0 DEF TypeOK
  <2> QED BY <2>1, IdlePC DEF HoldCommit
<1>3. S \in SUBSET Seats /\ HoldDoc(r).expires \in 0..(clock + TTL)
  <2>1. S \in SUBSET Seats /\ hreq[r].now \in Nat /\ hreq[r].now <= clock /\ clock \in Nat
    BY <1>0, <1>2 DEF HoldReq, StampsArePast, TypeOK
  <2>2. HoldDoc(r).expires = hreq[r].now + TTL
    BY DEF HoldDoc
  <2> QED BY <2>1, <2>2, TTLAssumption
<1>4. LifeOf(r) = "new"
  BY <1>1, LivesNext
<1>5. [h \in HoldCalls |-> LifeOf(h)]' = [[h \in HoldCalls |-> LifeOf(h)] EXCEPT ![r] = "held"]
  BY <1>1, LivesNext
<1>6. [h \in HoldCalls |-> holds[h].seats]' = [[h \in HoldCalls |-> holds[h].seats] EXCEPT ![r] = S]
  <2>1. /\ holds'[r].seats = S
        /\ \A g \in HoldCalls \ {r} : holds'[g].seats = holds[g].seats
    BY <1>1
  <2> HIDE DEF S
  <2> QED BY <2>1
<1>7. [h \in HoldCalls |-> holds[h].expires]'
        = [[h \in HoldCalls |-> holds[h].expires] EXCEPT ![r] = HoldDoc(r).expires]
  <2>1. /\ holds'[r].expires = HoldDoc(r).expires
        /\ \A g \in HoldCalls \ {r} : holds'[g].expires = holds[g].expires
    BY <1>1
  <2> QED BY <2>1
<1>8. ASSUME NEW s \in S PROVE Ledger!Open(s) /\ OwnerOf(s)' = r
  <2>1. /\ s \in Seats /\ seats'[s].status = "LOCKED" /\ seats'[s].hold = r
        /\ \/ seats[s].status = "AVAILABLE"
           \/ seats[s].status = "LOCKED" /\ seats[s].until <= clock
    BY <1>0, HoldCommitEffect
  <2>2. OwnerOf(s)' = r
    BY <2>1, OwnerValuesNext
  <2>3. CASE seats[s].status = "AVAILABLE"
    BY <2>1, <2>2, <2>3, OwnerValues DEF Ledger!Open
  <2>4. CASE seats[s].status = "LOCKED" /\ seats[s].until <= clock
    <3>1. /\ OwnerOf(s) = seats[s].hold /\ seats[s].hold \in HoldCalls
          /\ holds[seats[s].hold].status = "ACTIVE"
          /\ holds[seats[s].hold].expires <= clock
      BY <1>0, <2>1, <2>4, OwnerValues DEF SeatsFollowHolds
    <3>2. LifeOf(seats[s].hold) = "held"
      BY <3>1, LivesNext
    <3> QED BY <2>1, <2>2, <3>1, <3>2 DEF Ledger!Open
  <2> QED BY <2>1, <2>3, <2>4
<1>9. [s \in Seats |-> OwnerOf(s)]'
        = [s \in Seats |-> IF s \in S THEN r ELSE [t \in Seats |-> OwnerOf(t)][s]]
  <2>1. \A s \in Seats \ S : seats'[s] = seats[s]
    BY <1>0, HoldCommitEffect
  <2>2. \A s \in Seats \ S : OwnerOf(s)' = OwnerOf(s)
    BY <1>1, <2>1, OwnerStays
  <2> QED BY <1>8, <2>2
<1> HIDE DEF S
<1> QED BY <1>1, <1>3, <1>4, <1>5, <1>6, <1>7, <1>8, <1>9 DEF Ledger!Grant

LEMMA SellStep ==
    ASSUME LedgerInv, LedgerInv', NEW c \in ConfirmCalls, ConfirmCommit(c)
    PROVE  \E h \in HoldCalls : Ledger!Sell(h)
<1>0. TypeOK /\ IdsAreFresh
  BY DEF LedgerInv, SafetyInv
<1>1. PICK h \in HoldCalls, b \in BookingDoc :
        /\ holds[h].status = "ACTIVE"
        /\ EndHold(h, "CONFIRMED", <<"BOOKING_SUCCESS">>)
        /\ b.id = c /\ b.hold = h
        /\ bookings' = bookings \cup {b}
        /\ \A s \in holds[h].seats :
             /\ s \in Seats
             /\ seats[s].status = "LOCKED" /\ seats[s].hold = h
             /\ seats'[s].status = "BOOKED" /\ seats'[s].booking = c
        /\ \A s \in Seats \ holds[h].seats : seats'[s] = seats[s]
        /\ clock' = clock
  BY <1>0, ConfirmCommitEffect
<1>2. /\ \A g \in HoldCalls \ {h} : holds'[g] = holds[g]
      /\ holds'[h].status = "CONFIRMED"
      /\ holds'[h].seats = holds[h].seats /\ holds'[h].expires = holds[h].expires
  BY <1>0, <1>1, EndHoldEffect
<1>3. [g \in HoldCalls |-> LifeOf(g)]' = [[g \in HoldCalls |-> LifeOf(g)] EXCEPT ![h] = "sold"]
  BY <1>2, LivesNext
<1>4. /\ [g \in HoldCalls |-> holds[g].seats]' = [g \in HoldCalls |-> holds[g].seats]
      /\ [g \in HoldCalls |-> holds[g].expires]' = [g \in HoldCalls |-> holds[g].expires]
  BY <1>2
<1>5. \A s \in holds[h].seats : s \in Seats /\ OwnerOf(s) = h /\ OwnerOf(s)' = h
  BY <1>1, OwnerValues, OwnerValuesNext
<1>6. \A s \in Seats \ holds[h].seats : OwnerOf(s)' = OwnerOf(s)
  BY <1>1, OwnerStays
<1>7. [s \in Seats |-> OwnerOf(s)]' = [s \in Seats |-> OwnerOf(s)]
  BY <1>5, <1>6
<1>8. LifeOf(h) = "held"
  BY <1>1, LivesNext
<1> QED BY <1>1, <1>3, <1>4, <1>5, <1>7, <1>8 DEF Ledger!Sell

LEMMA EndsStep ==
    ASSUME LedgerInv, LedgerInv', NEW h \in HoldCalls, HoldEnds(h)
    PROVE  Ledger!Return(h) \/ Ledger!Lapse(h)
<1>0. TypeOK /\ SeatsFollowHolds /\ OneEndPerHold
  BY DEF LedgerInv, SafetyInv
<1>1. /\ holds[h].status = "ACTIVE"
      /\ \A s \in Seats :
           IF s \in holds[h].seats /\ seats[s].status = "LOCKED" /\ seats[s].hold = h
           THEN seats'[s].status = "AVAILABLE"
           ELSE seats'[s] = seats[s]
      /\ UNCHANGED <<clock, bookings>>
  BY <1>0, HoldEndsEffect
<1>2. /\ \A g \in HoldCalls \ {h} : holds'[g] = holds[g]
      /\ holds'[h].seats = holds[h].seats /\ holds'[h].expires = holds[h].expires
      /\ holds'[h].status \in {"RELEASED", "EXPIRED"}
      /\ holds'[h].status = "EXPIRED" => holds[h].expires <= clock
  BY <1>0, HoldEndsOnlyItself, EndHoldEffect DEF HoldEnds
<1>3. ASSUME NEW s \in Seats
      PROVE  OwnerOf(s)' = IF OwnerOf(s) = h THEN None ELSE OwnerOf(s)
  <2>1. CASE seats[s].status = "LOCKED" /\ seats[s].hold = h
    <3>1. s \in holds[h].seats
      BY <1>0, <2>1 DEF SeatsFollowHolds
    <3> QED BY <1>1, <2>1, <3>1, OwnerValues, OwnerValuesNext
  <2>2. CASE ~(seats[s].status = "LOCKED" /\ seats[s].hold = h)
    <3>1. OwnerOf(s)' = OwnerOf(s)
      BY <1>1, <2>2, OwnerStays
    <3>2. \A b \in bookings : b.hold # h
      BY <1>0, <1>1 DEF OneEndPerHold, BookingsByHold
    <3>3. None # h
      BY NoneIsFresh
    <3>4. OwnerOf(s) # h
      BY <2>2, <3>2, <3>3, SeatKinds, OwnerValues
    <3> QED BY <3>1, <3>4
  <2> QED BY <2>1, <2>2
<1>4. [s \in Seats |-> OwnerOf(s)]'
        = [s \in Seats |-> IF [t \in Seats |-> OwnerOf(t)][s] = h THEN None
                           ELSE [t \in Seats |-> OwnerOf(t)][s]]
  BY <1>3
<1>5. /\ [g \in HoldCalls |-> holds[g].seats]' = [g \in HoldCalls |-> holds[g].seats]
      /\ [g \in HoldCalls |-> holds[g].expires]' = [g \in HoldCalls |-> holds[g].expires]
  BY <1>2
<1>6. LifeOf(h) = "held"
  BY <1>1, LivesNext
<1>7. ASSUME NEW end, LifeOf(h)' = end PROVE Ledger!Ends(h, end)
  <2>1. [g \in HoldCalls |-> LifeOf(g)]' = [[g \in HoldCalls |-> LifeOf(g)] EXCEPT ![h] = end]
    BY <1>2, <1>7, LivesNext
  <2> QED BY <1>1, <1>4, <1>5, <1>6, <2>1 DEF Ledger!Ends
<1>8. CASE holds'[h].status = "RELEASED"
  BY <1>7, <1>8, LivesNext DEF Ledger!Return
<1>9. CASE holds'[h].status = "EXPIRED"
  BY <1>2, <1>7, <1>9, LivesNext DEF Ledger!Lapse
<1> QED BY <1>2, <1>8, <1>9

LEMMA BookingIdsStay ==
    ASSUME LedgerInv, Next
    PROVE  BookingIdsUnique'
<1>0. TypeOK /\ IdsAreFresh /\ StampsArePast /\ BookingIdsUnique
  BY DEF LedgerInv, SafetyInv
<1>1. ASSUME NEW c \in ConfirmCalls, ConfirmCommit(c) PROVE BookingIdsUnique'
  BY <1>0, <1>1, ConfirmCommitEffect DEF BookingIdsUnique
<1>2. ASSUME UNCHANGED bookings PROVE BookingIdsUnique'
  BY <1>0, <1>2 DEF BookingIdsUnique
<1> QED BY <1>0, <1>1, <1>2, StepKinds DEF HoldCommit, HoldEnds

LEMMA LedgerInvHolds == Spec => []LedgerInv
<1>1. Init => BookingIdsUnique
  BY DEF Init, BookingIdsUnique
<1>2. SafetyInv /\ BookingIdsUnique /\ [Next]_vars => BookingIdsUnique'
  <2>1. CASE UNCHANGED vars
    BY <2>1 DEF vars, BookingIdsUnique
  <2> QED BY <2>1, BookingIdsStay DEF LedgerInv
<1>3. Spec => []SafetyInv
  BY SafetyHolds
<1> QED BY <1>1, <1>2, <1>3, PTL DEF Spec, LedgerInv

LEMMA LedgerInit == Init => Ledger!Init
<1> SUFFICES ASSUME Init PROVE Ledger!Init
  OBVIOUS
<1>1. \A s \in Seats : OwnerOf(s) = None
  <2>1. AvailableSeat.status = "AVAILABLE"
    BY DEF AvailableSeat
  <2> QED BY <2>1 DEF Init, OwnerOf
<1>2. \A h \in HoldCalls : /\ LifeOf(h) = "new" /\ holds[h].seats = {}
                           /\ holds[h].expires = 0
  <2>1. NoHold.status = None /\ NoHold.seats = {} /\ NoHold.expires = 0
    BY DEF NoHold
  <2>2. \A h \in HoldCalls : holds[h] = NoHold
    BY DEF Init
  <2> QED BY <2>1, <2>2, LivesNext
<1> QED BY <1>1, <1>2 DEF Init, Ledger!Init

LEMMA LedgerStutters ==
    ASSUME LedgerInv, LedgerInv', UNCHANGED mongo
    PROVE  /\ [s \in Seats |-> OwnerOf(s)]' = [s \in Seats |-> OwnerOf(s)]
           /\ [h \in HoldCalls |-> LifeOf(h)]' = [h \in HoldCalls |-> LifeOf(h)]
           /\ [h \in HoldCalls |-> holds[h].seats]' = [h \in HoldCalls |-> holds[h].seats]
           /\ [h \in HoldCalls |-> holds[h].expires]' = [h \in HoldCalls |-> holds[h].expires]
<1>1. \A s \in Seats : OwnerOf(s)' = OwnerOf(s)
  BY OwnerStays
<1>2. \A h \in HoldCalls : LifeOf(h)' = LifeOf(h)
  BY LivesNext
<1> QED BY <1>1, <1>2

LEMMA LedgerNext ==
    ASSUME LedgerInv, LedgerInv', [Next]_vars
    PROVE  [Ledger!Next]_(Ledger!ledger)
<1>0. TypeOK /\ StampsArePast
  BY DEF LedgerInv, SafetyInv
<1>1. CASE UNCHANGED mongo /\ clock' = clock
  BY <1>1, LedgerStutters DEF Ledger!ledger
<1>2. CASE UNCHANGED mongo /\ Tick
  BY <1>2, LedgerStutters DEF Tick, Ledger!Next, Ledger!Pass
<1>3. CASE \E r \in HoldCalls : HoldCommit(r)
  BY <1>3, GrantStep DEF Ledger!Next
<1>4. CASE \E c \in ConfirmCalls : ConfirmCommit(c)
  BY <1>4, SellStep DEF Ledger!Next
<1>5. CASE \E h \in HoldCalls : HoldEnds(h)
  BY <1>5, EndsStep DEF Ledger!Next
<1>6. CASE UNCHANGED vars
  BY <1>1, <1>6 DEF vars
<1> QED BY <1>0, <1>1, <1>2, <1>3, <1>4, <1>5, <1>6, StepKinds

\* The booking service, with all its handlers, workers, stores and failures, changes the
\* seats exactly as the ledger does.
THEOREM BookingImplementsLedger == Spec => ImplementsLedger
<1>1. Init => Ledger!Init
  BY LedgerInit
<1>2. LedgerInv /\ LedgerInv' /\ [Next]_vars => [Ledger!Next]_(Ledger!ledger)
  BY LedgerNext
<1>3. Spec => []LedgerInv
  BY LedgerInvHolds
<1> QED BY <1>1, <1>2, <1>3, PTL DEF Spec, ImplementsLedger, Ledger!Spec
=============================================================================
