----------------------------- MODULE SeatLedger -----------------------------
(***************************************************************************)
(* What holding and booking promise of the seats of a showtime, without    *)
(* stores, handlers, retries or failures: one ledger in which claims are   *)
(* granted, sold, returned and lapse, each indivisibly.                    *)
(***************************************************************************)
EXTENDS Naturals

CONSTANTS
    Seats,
    Claims,
    TTL,     \* how long a claim may keep its seats
    None     \* the owner of a free seat

VARIABLES
    time,
    owner,    \* whose each seat is
    life,     \* what has become of each claim
    claimed,  \* the seats each claim was granted
    until     \* when a claim lapses

ledger == <<time, owner, life, claimed, until>>

Init ==
    /\ time = 0
    /\ owner = [s \in Seats |-> None]
    /\ life = [c \in Claims |-> "new"]
    /\ claimed = [c \in Claims |-> {}]
    /\ until = [c \in Claims |-> 0]

\* A seat may be claimed if it is free, or if the claim that has it could have lapsed.
Open(s) == owner[s] # None => life[owner[s]] = "held" /\ until[owner[s]] <= time

\* A claim is granted all of its seats or none, once, for at most TTL from now.
Grant(c) ==
    /\ life[c] = "new"
    /\ \E S \in SUBSET Seats, t \in 0..(time + TTL) :
         /\ \A s \in S : Open(s)
         /\ owner' = [s \in Seats |-> IF s \in S THEN c ELSE owner[s]]
         /\ claimed' = [claimed EXCEPT ![c] = S]
         /\ until' = [until EXCEPT ![c] = t]
    /\ life' = [life EXCEPT ![c] = "held"]
    /\ UNCHANGED time

\* A claim that still has all of its seats is sold: it keeps them for good.
Sell(c) ==
    /\ life[c] = "held"
    /\ \A s \in claimed[c] : owner[s] = c
    /\ life' = [life EXCEPT ![c] = "sold"]
    /\ UNCHANGED <<time, owner, claimed, until>>

\* A claim gives back the seats it still has.
Ends(c, end) ==
    /\ life[c] = "held"
    /\ life' = [life EXCEPT ![c] = end]
    /\ owner' = [s \in Seats |-> IF owner[s] = c THEN None ELSE owner[s]]
    /\ UNCHANGED <<time, claimed, until>>

Return(c) == Ends(c, "returned")
Lapse(c) == until[c] <= time /\ Ends(c, "lapsed")

Pass == time' = time + 1 /\ UNCHANGED <<owner, life, claimed, until>>

Next == Pass \/ \E c \in Claims : Grant(c) \/ Sell(c) \/ Return(c) \/ Lapse(c)

Spec == Init /\ [][Next]_ledger
=============================================================================
