--------------------------- MODULE SeatFeedProofs ---------------------------
(***************************************************************************)
(* A settled client follows the feed, for every number of seats, holds,    *)
(* clients and connections, every capacity and any number of any faults.   *)
(* FeedInv, of SeatFeed, is inductive.  What the proof says of queues it   *)
(* says by Mentions and LastSays: how a message that joins a queue or      *)
(* leaves it changes them, and what Replay makes of a queue, come first.   *)
(***************************************************************************)
EXTENDS SeatFeed, TLAPS, SequenceTheorems, WellFoundedInduction

-----------------------------------------------------------------------------
(* Sets of numbers have a least member, and what passes from each to the next holds for all *)

Below == {p \in Nat \X Nat : p[1] < p[2]}

LEMMA LeastMember ==
    ASSUME NEW T, T \subseteq Nat, T # {}
    PROVE  \E x \in T : \A y \in T : x <= y
<1>1. Below = OpToRel(<, Nat)
  BY DEF OpToRel, Below
<1>2. IsWellFoundedOn(Below, Nat)
  BY <1>1, NatLessThanWellFounded
<1>3. \A x, y \in Nat : <<x, y>> \in Below <=> x < y
  BY DEF Below
<1>4. PICK x \in T : \A y \in T : ~ (<<y, x>> \in Below)
  BY <1>2, WFMin
<1>5. \A y \in T : ~(y < x) /\ x \in Nat /\ y \in Nat
  BY <1>4, <1>3
<1> QED BY <1>5

LEMMA AllUpTo ==
    ASSUME NEW n \in Nat, NEW T, 0 \in T,
           \A i \in 1..n : i - 1 \in T => i \in T
    PROVE  \A i \in 0..n : i \in T
<1> DEFINE out == {i \in 0..n : i \notin T}
<1>1. SUFFICES ASSUME out # {} PROVE FALSE
  OBVIOUS
<1>2. out \subseteq Nat
  OBVIOUS
<1> HIDE DEF out
<1>3. PICK x \in out : \A y \in out : x <= y
  BY <1>1, <1>2, LeastMember
<1>4. x \in 0..n /\ x \notin T
  BY <1>3 DEF out
<1>5. x - 1 \notin out
  BY <1>2, <1>3
<1> QED BY <1>4, <1>5 DEF out

-----------------------------------------------------------------------------
(* What a queue says of a seat *)

LEMMA NothingMentioned ==
    \A s, v : ~Mentions(<<>>, s) /\ LastSays(<<>>, s, v)
BY DEF Mentions, LastSays

LEMMA UnmentionedSaysNothing ==
    ASSUME NEW q, NEW s, ~Mentions(q, s)
    PROVE  \A v : LastSays(q, s, v)
BY DEF Mentions, LastSays

LEMMA NamesSame == ASSUME claimed' = claimed
    PROVE  /\ \A m, s : Names(m, s)' <=> Names(m, s)
           /\ \A q, s : Mentions(q, s)' <=> Mentions(q, s)
           /\ \A q, s, v : LastSays(q, s, v)' <=> LastSays(q, s, v)
BY DEF Mentions, LastSays, Names, SeatsOf, Tells

LEMMA JoinedMentions ==
    ASSUME NEW q \in Seq(Message), NEW m \in Message, NEW s
    PROVE  Mentions(Append(q, m), s) <=> Mentions(q, s) \/ Names(m, s)
<1> DEFINE a == Append(q, m)
<1>1. /\ Len(q) \in Nat /\ DOMAIN q = 1..Len(q) /\ DOMAIN a = 1..(Len(q) + 1)
      /\ \A i \in 1..Len(q) : a[i] = q[i]
      /\ a[Len(q) + 1] = m
  BY AppendProperties, LenProperties
<1> HIDE DEF a
<1>2. Mentions(a, s) <=> Mentions(q, s) \/ Names(m, s)
  BY <1>1 DEF Mentions
<1> QED BY <1>2 DEF a

LEMMA JoinedSays ==
    ASSUME NEW q \in Seq(Message), NEW m \in Message, NEW s, NEW v,
           IF Names(m, s) THEN Tells(m) = v ELSE LastSays(q, s, v)
    PROVE  LastSays(Append(q, m), s, v)
<1> DEFINE a == Append(q, m)
<1>1. /\ Len(q) \in Nat /\ DOMAIN q = 1..Len(q) /\ DOMAIN a = 1..(Len(q) + 1)
      /\ \A i \in 1..Len(q) : a[i] = q[i]
      /\ a[Len(q) + 1] = m
  BY AppendProperties, LenProperties
<1> HIDE DEF a
<1>2. SUFFICES ASSUME NEW i \in DOMAIN a, Names(a[i], s),
                      \A j \in DOMAIN a : j > i => ~Names(a[j], s)
               PROVE  Tells(a[i]) = v
  BY <1>2 DEF LastSays, a
<1>3. CASE i = Len(q) + 1
  BY <1>1, <1>2, <1>3
<1>4. CASE i \in 1..Len(q)
  <2>1. ~Names(m, s)
    BY <1>1, <1>2, <1>4
  <2>2. \A j \in DOMAIN q : j > i => ~Names(q[j], s)
    BY <1>1, <1>2, <1>4
  <2>3. LastSays(q, s, v) /\ Names(q[i], s) /\ a[i] = q[i] /\ i \in DOMAIN q
    BY <1>1, <1>2, <1>4, <2>1
  <2> QED BY <2>2, <2>3 DEF LastSays
<1> QED BY <1>1, <1>2, <1>3, <1>4

LEMMA TakenHead ==
    ASSUME NEW q \in Seq(Message), q # <<>>
    PROVE  /\ Head(q) \in Message /\ Tail(q) \in Seq(Message)
           /\ Len(q) \in Nat \ {0} /\ Head(q) = q[1]
           /\ DOMAIN q = 1..Len(q) /\ DOMAIN Tail(q) = 1..(Len(q) - 1)
           /\ \A i \in 1..(Len(q) - 1) : Tail(q)[i] = q[i + 1]
<1>1. Tail(q) \in Seq(Message) /\ Len(Tail(q)) = Len(q) - 1
  BY HeadTailProperties
<1> QED BY <1>1, HeadTailProperties, LenProperties, EmptySeq

LEMMA TakenMentions ==
    ASSUME NEW q \in Seq(Message), q # <<>>, NEW s
    PROVE  Mentions(q, s) <=> Names(Head(q), s) \/ Mentions(Tail(q), s)
<1> DEFINE t == Tail(q)
<1>1. /\ Len(q) \in Nat \ {0} /\ Head(q) = q[1]
      /\ DOMAIN q = 1..Len(q) /\ DOMAIN t = 1..(Len(q) - 1)
      /\ \A i \in 1..(Len(q) - 1) : t[i] = q[i + 1]
  BY TakenHead
<1> HIDE DEF t
<1>2. Mentions(t, s) => Mentions(q, s)
  BY <1>1 DEF Mentions
<1>3. Names(Head(q), s) => Mentions(q, s)
  BY <1>1 DEF Mentions
<1>4. ASSUME NEW i \in DOMAIN q, Names(q[i], s), i # 1
      PROVE  Mentions(t, s)
  <2>1. i - 1 \in DOMAIN t /\ t[i - 1] = q[i]
    BY <1>1, <1>4
  <2> QED BY <2>1, <1>4 DEF Mentions
<1>5. Mentions(q, s) => Names(Head(q), s) \/ Mentions(t, s)
  BY <1>1, <1>4 DEF Mentions
<1> QED BY <1>2, <1>3, <1>5 DEF t

LEMMA TakenSays ==
    ASSUME NEW q \in Seq(Message), q # <<>>, NEW s, NEW v, LastSays(q, s, v)
    PROVE  /\ LastSays(Tail(q), s, v)
           /\ Names(Head(q), s) /\ ~Mentions(Tail(q), s) => Tells(Head(q)) = v
<1> DEFINE t == Tail(q)
<1>1. /\ Len(q) \in Nat \ {0} /\ Head(q) = q[1]
      /\ DOMAIN q = 1..Len(q) /\ DOMAIN t = 1..(Len(q) - 1)
      /\ \A i \in 1..(Len(q) - 1) : t[i] = q[i + 1]
  BY TakenHead
<1> HIDE DEF t
<1>2. ASSUME NEW i \in DOMAIN t, Names(t[i], s),
             \A j \in DOMAIN t : j > i => ~Names(t[j], s)
      PROVE  Tells(t[i]) = v
  <2>1. i + 1 \in DOMAIN q /\ q[i + 1] = t[i]
    BY <1>1
  <2>2. ASSUME NEW j \in DOMAIN q, j > i + 1
        PROVE  ~Names(q[j], s)
    <3>1. j - 1 \in DOMAIN t /\ j - 1 > i /\ t[j - 1] = q[j]
      BY <1>1, <2>2
    <3> QED BY <3>1, <1>2
  <2> QED BY <2>1, <2>2, <1>2 DEF LastSays
<1>3. ASSUME Names(Head(q), s), ~Mentions(t, s)
      PROVE  Tells(Head(q)) = v
  <2>1. ASSUME NEW j \in DOMAIN q, j > 1
        PROVE  ~Names(q[j], s)
    <3>1. j - 1 \in DOMAIN t /\ t[j - 1] = q[j]
      BY <1>1, <2>1
    <3> QED BY <3>1, <1>3 DEF Mentions
  <2> QED BY <2>1, <1>1, <1>3 DEF LastSays
<1> QED BY <1>2, <1>3 DEF LastSays, t

-----------------------------------------------------------------------------
(* What a client makes of its buffered events *)

LEMMA MapsStayMaps ==
    ASSUME NEW map \in SeatMap, NEW e
    PROVE  /\ Tells(e) \in SeatStatus /\ Tells(e) # None
           /\ Apply(map, e) \in SeatMap
           /\ \A s \in Seats : Apply(map, e)[s] =
                IF s \in SeatsOf(e) /\ map[s] # None THEN Tells(e) ELSE map[s]
<1>1. Tells(e) \in SeatStatus
  BY DEF Tells, SeatStatus
<1>2. Tells(e) # None
  BY <1>1, NoneIsNothing DEF SeatStatus
<1> QED BY <1>1, <1>2 DEF Apply, SeatMap

\* Replay's function: it is the one that starts from the map and applies each event in turn.
LEMMA ReplaySteps ==
    ASSUME NEW map \in SeatMap, NEW q \in Seq(Event)
    PROVE  \E f \in [0..Len(q) -> SeatMap] :
             /\ f[0] = map
             /\ \A i \in 1..Len(q) : f[i] = Apply(f[i - 1], q[i])
             /\ Replay(map, q) = f[Len(q)]
<1> DEFINE n == Len(q)
           Runs(f, i) == /\ f \in [0..i -> SeatMap] /\ f[0] = map
                         /\ \A j \in 1..i : f[j] = Apply(f[j - 1], q[j])
           run == {i \in 0..n : \E f : Runs(f, i)}
           Solves(g) == g = [i \in 0..n |-> IF i = 0 THEN map ELSE Apply(g[i - 1], q[i])]
           after == CHOOSE g : Solves(g)
<1>1. n \in Nat
  BY LenProperties
<1> HIDE DEF n
<1>2. 0 \in run
  <2>1. Runs([j \in 0..0 |-> map], 0)
    OBVIOUS
  <2> HIDE DEF Runs
  <2> QED BY <2>1, <1>1
<1>3. ASSUME NEW i \in 1..n, i - 1 \in run
      PROVE  i \in run
  <2>1. PICK f : Runs(f, i - 1)
    BY <1>3
  <2> DEFINE g == [j \in 0..i |-> IF j = i THEN Apply(f[i - 1], q[i]) ELSE f[j]]
  <2>2. f[i - 1] \in SeatMap
    BY <2>1, <1>1
  <2>3. Apply(f[i - 1], q[i]) \in SeatMap
    BY <2>2, MapsStayMaps
  <2>4. g \in [0..i -> SeatMap] /\ g[0] = map
    BY <2>1, <2>3, <1>1
  <2>5. \A j \in 1..i : g[j] = Apply(g[j - 1], q[j])
    BY <2>1, <1>1
  <2>6. Runs(g, i)
    BY <2>4, <2>5
  <2> HIDE DEF Runs
  <2> QED BY <2>6, <1>1
<1>4. PICK f : Runs(f, n)
  <2>1. \A i \in 0..n : i \in run
    <3> HIDE DEF run
    <3> QED BY <1>1, <1>2, <1>3, AllUpTo
  <2> HIDE DEF Runs
  <2> QED BY <2>1, <1>1
<1>5. Solves(f)
  <2>1. \A i \in 0..n : f[i] = IF i = 0 THEN map ELSE Apply(f[i - 1], q[i])
    BY <1>4, <1>1
  <2> QED BY <2>1, <1>4
<1>6. Solves(after)
  <2> HIDE DEF Solves
  <2> QED BY <1>5
<1>7. after[n] = f[n]
  <2> DEFINE same == {i \in 0..n : after[i] = f[i]}
  <2> HIDE DEF after
  <2>1. 0 \in same
    BY <1>6, <1>4, <1>1
  <2>2. ASSUME NEW i \in 1..n, i - 1 \in same
        PROVE  i \in same
    <3>1. after[i] = Apply(after[i - 1], q[i])
      BY <1>6, <1>1
    <3>2. f[i] = Apply(f[i - 1], q[i])
      BY <1>4
    <3> QED BY <3>1, <3>2, <2>2
  <2>3. \A i \in 0..n : i \in same
    <3> HIDE DEF same
    <3> QED BY <1>1, <2>1, <2>2, AllUpTo
  <2> QED BY <2>3, <1>1
<1>8. Replay(map, q) = after[n]
  BY DEF Replay, n
<1>9. f[n] = Replay(map, q) /\ Runs(f, n)
  BY <1>4, <1>7, <1>8
<1> QED BY <1>9 DEF n

LEMMA ReplayIsAMap ==
    ASSUME NEW map \in SeatMap, NEW q \in Seq(Event)
    PROVE  Replay(map, q) \in SeatMap
<1>1. Len(q) \in 0..Len(q)
  BY LenProperties
<1> QED BY <1>1, ReplaySteps

\* A replayed event is the last word on its seats; the others stay as they were read.
LEMMA ReplayTells ==
    ASSUME NEW map \in SeatMap, NEW q \in Seq(Event), NEW s \in Seats, map[s] # None
    PROVE  /\ Replay(map, q)[s] # None
           /\ ~Mentions(q, s) => Replay(map, q)[s] = map[s]
           /\ \A v : Mentions(q, s) /\ LastSays(q, s, v) => Replay(map, q)[s] = v
<1>1. PICK f \in [0..Len(q) -> SeatMap] :
             /\ f[0] = map
             /\ \A i \in 1..Len(q) : f[i] = Apply(f[i - 1], q[i])
             /\ Replay(map, q) = f[Len(q)]
  BY ReplaySteps
<1>2. /\ Len(q) \in Nat /\ DOMAIN q = 1..Len(q)
      /\ \A i \in 1..Len(q) : Names(q[i], s) <=> s \in SeatsOf(q[i])
  <2>1. \A i \in 1..Len(q) : q[i] \in Event
    BY LenProperties
  <2>2. \A e \in Event : e # Snapshot
    BY DEF Event, Snapshot
  <2> QED BY <2>1, <2>2, LenProperties DEF Names
<1> DEFINE n == Len(q)
           LastOf(j, i) == Names(q[j], s) /\ \A k \in 1..i : k > j => ~Names(q[k], s)
           Silent(i) == \A j \in 1..i : ~Names(q[j], s)
           right == {i \in 0..n : /\ f[i][s] # None
                                  /\ \/ Silent(i) /\ f[i][s] = map[s]
                                     \/ \E j \in 1..i : LastOf(j, i) /\ f[i][s] = Tells(q[j])}
<1>3. 0 \in right
  BY <1>1, <1>2
<1>4. ASSUME NEW i \in 1..n, i - 1 \in right
      PROVE  i \in right
  <2>1. f[i - 1] \in SeatMap /\ f[i] = Apply(f[i - 1], q[i])
    BY <1>1, <1>2
  <2>2. /\ Tells(q[i]) # None
        /\ f[i][s] = IF s \in SeatsOf(q[i]) /\ f[i - 1][s] # None
                     THEN Tells(q[i]) ELSE f[i - 1][s]
    BY <2>1, MapsStayMaps
  <2>3. CASE Names(q[i], s)
    <3>1. f[i][s] = Tells(q[i])
      BY <1>2, <1>4, <2>2, <2>3
    <3>2. LastOf(i, i)
      BY <2>3, <1>2
    <3> QED BY <3>1, <3>2, <2>2, <1>2
  <2>4. CASE ~Names(q[i], s)
    <3>1. f[i][s] = f[i - 1][s] /\ f[i][s] # None
      BY <1>2, <1>4, <2>2, <2>4
    <3>2. Silent(i - 1) => Silent(i)
      BY <2>4, <1>2
    <3>3. ASSUME NEW j \in 1..(i - 1), LastOf(j, i - 1)
          PROVE  LastOf(j, i) /\ j \in 1..i
      BY <3>3, <2>4, <1>2
    <3> HIDE DEF LastOf, Silent
    <3>4. i - 1 \in 0..n /\ i \in 0..n
      BY <1>2
    <3> QED BY <3>1, <3>2, <3>3, <3>4, <1>4
  <2> QED BY <2>3, <2>4
<1>5. n \in right
  <2>1. \A i \in 0..n : i \in right
    <3> HIDE DEF right
    <3> QED BY <1>2, <1>3, <1>4, AllUpTo
  <2> QED BY <2>1, <1>2
<1>6. Silent(n) => ~Mentions(q, s)
  BY <1>2 DEF Mentions
<1>7. ASSUME NEW j \in 1..n, LastOf(j, n)
      PROVE  Mentions(q, s) /\ \A v : LastSays(q, s, v) => Tells(q[j]) = v
  BY <1>7, <1>2 DEF Mentions, LastSays
<1> HIDE DEF LastOf, Silent
<1> QED BY <1>1, <1>5, <1>6, <1>7

-----------------------------------------------------------------------------
(* Types *)

LEMMA QueuesOfMessages ==
    /\ Event \subseteq Message /\ Snapshot \in Message /\ Snapshot \notin Event
    /\ Seq(Event) \subseteq Seq(Message)
<1>1. Event \subseteq Message
  BY DEF Message
<1>2. Snapshot \in Message /\ Snapshot \notin Event
  BY DEF Message, Snapshot, Event
<1> QED BY <1>1, <1>2, SeqMonotonic

LEMMA CastsAreCasts ==
    /\ NoCast \in Cast
    /\ \A e \in Event, S \in SUBSET Conns : CastTo(e, S) \in Cast
BY DEF Cast, NoCast, CastTo

LEMMA SeenIsAStatus == \A s : Seen(s) \in SeatStatus /\ Seen(s) # None
BY NoneIsNothing DEF Seen, SeatStatus

LEMMA TypeInit == Init => TypeOK
<1> SUFFICES ASSUME Init PROVE TypeOK
  OBVIOUS
<1>1. <<>> \in Seq(Event) /\ <<>> \in Seq(Message)
  BY EmptySeq
<1>2. NoSeats \in SeatMap
  BY DEF NoSeats, SeatMap
<1> QED BY <1>1, <1>2, CastsAreCasts DEF Init, Ledger!Init, TypeOK, SeatStatus

LEMMA CommitTyped ==
    ASSUME TypeOK, NEW h \in Claims, Commit(h)
    PROVE  TypeOK'
<1>1. unsent' \subseteq Event
  <2>1. \E type \in {"locked", "released", "booked"} : Owes(type, h)
    BY DEF Commit, Holds, Books, Frees
  <2> QED BY <2>1 DEF Owes, TypeOK, Event
<1>2. /\ owner' \in [Seats -> Claims \cup {None}]
      /\ life' \in [Claims -> {"new", "held", "sold", "returned", "lapsed"}]
      /\ claimed' \in [Claims -> SUBSET Seats]
  <2>1. CASE Holds(h)
    BY <2>1 DEF TypeOK, Holds, Ledger!Grant
  <2>2. CASE Books(h)
    BY <2>2 DEF TypeOK, Books, Ledger!Sell
  <2>3. CASE Frees(h)
    BY <2>3 DEF TypeOK, Frees, Ledger!Return, Ledger!Ends
  <2> QED BY <2>1, <2>2, <2>3 DEF Commit
<1> QED BY <1>1, <1>2 DEF TypeOK, Commit, hub, conns, views, history, NoFault

LEMMA MissedTyped ==
    ASSUME TypeOK, NEW S \in SUBSET Seats, Miss(S)
    PROVE  missed' \in [Clients -> SUBSET Seats]
BY DEF TypeOK, Miss

LEMMA FaultTyped ==
    ASSUME TypeOK, NoFault \/ \E kind : Fault(kind)
    PROVE  faults' \in Nat
BY DEF TypeOK, NoFault, Fault

LEMMA SeatsOfTyped ==
    ASSUME TypeOK
    PROVE  /\ \A e \in Event : SeatsOf(e) \subseteq Seats
           /\ \A q \in Seq(Event) : SeatsIn(q) \subseteq Seats
<1>1. \A e \in Event : SeatsOf(e) \subseteq Seats
  BY DEF TypeOK, SeatsOf, Event
<1>2. \A q \in Seq(Event) : \A i \in DOMAIN q : q[i] \in Event
  BY LenProperties
<1> QED BY <1>1, <1>2 DEF SeatsIn

LEMMA PublishTyped ==
    ASSUME TypeOK, NEW e \in Event, PublishSeatEvent(e)
    PROVE  TypeOK'
<1>1. faults' \in Nat
  BY FaultTyped DEF PublishSeatEvent, Published, Unheard
<1>2. /\ channel' \in Seq(Event)
      /\ told' \in [Seats -> SeatStatus] /\ missed' \in [Clients -> SUBSET Seats]
  <2>1. CASE Published(e)
    <3>1. Append(channel, e) \in Seq(Event)
      BY AppendProperties DEF TypeOK
    <3>2. Tells(e) \in SeatStatus
      BY DEF Tells, SeatStatus
    <3> QED BY <2>1, <3>1, <3>2 DEF Published, TypeOK
  <2>2. CASE Unheard(e)
    <3>1. missed' \in [Clients -> SUBSET Seats]
      BY <2>2, MissedTyped, SeatsOfTyped DEF Unheard
    <3> QED BY <2>2, <3>1 DEF Unheard, TypeOK
  <2> QED BY <2>1, <2>2 DEF PublishSeatEvent
<1> QED BY <1>1, <1>2 DEF TypeOK, PublishSeatEvent, db, conns, views

LEMMA UnregisterTyped ==
    ASSUME TypeOK, NEW k \in Conns, Unregister(k)
    PROVE  room' \subseteq Conns /\ open' \in [Conns -> BOOLEAN] /\ buf' \in [Conns -> Seq(Message)]
<1>1. <<>> \in Seq(Message)
  BY EmptySeq
<1> QED BY <1>1 DEF TypeOK, Unregister

LEMMA PutTyped ==
    ASSUME TypeOK, NEW k \in Conns, NEW m \in Message, Put(k, m)
    PROVE  room' \subseteq Conns /\ open' \in [Conns -> BOOLEAN] /\ buf' \in [Conns -> Seq(Message)]
<1>1. Append(buf[k], m) \in Seq(Message)
  BY AppendProperties DEF TypeOK
<1> QED BY <1>1 DEF TypeOK, Put

LEMMA HubTyped ==
    ASSUME TypeOK, MessagesKnown,
           Receive \/ SubscriptionEnds \/ Crash \/ Panic \/ \E k \in Conns : Send(k)
    PROVE  TypeOK'
<1>1. CASE Receive
  <2>1. Head(channel) \in Event /\ Tail(channel) \in Seq(Event)
    BY <1>1, HeadTailProperties DEF Receive, TypeOK
  <2>2. cast' \in Cast
    BY <1>1, <2>1, CastsAreCasts DEF Receive, TypeOK
  <2> QED BY <1>1, <2>1, <2>2 DEF Receive, TypeOK, NoFault, db, conns, views, history
<1>2. CASE SubscriptionEnds
  <2>1. <<>> \in Seq(Event)
    BY EmptySeq
  <2>2. missed' \in [Clients -> SUBSET Seats]
    <3>1. Miss(SeatsIn(channel)) /\ SeatsIn(channel) \in SUBSET Seats
      BY <1>2, SeatsOfTyped DEF SubscriptionEnds, TypeOK
    <3> QED BY <3>1, MissedTyped
  <2>3. faults' \in Nat
    BY <1>2, FaultTyped DEF SubscriptionEnds
  <2> QED BY <1>2, <2>1, <2>2, <2>3 DEF SubscriptionEnds, TypeOK, db, conns, views
<1>3. CASE Crash \/ Panic
  <2>1. Restart /\ faults' \in Nat
    BY <1>3, FaultTyped DEF Crash, Panic
  <2>2. <<>> \in Seq(Event) /\ <<>> \in Seq(Message)
    BY EmptySeq
  <2>3. missed' \in [Clients -> SUBSET Seats]
    BY <2>1, MissedTyped DEF Restart
  <2>4. /\ buf' \in [Conns -> Seq(Message)] /\ open' \in [Conns -> BOOLEAN]
        /\ stage' \in [Conns -> {"free", "dialing", "registered", "serving"}]
        /\ cast' \in Cast /\ channel' \in Seq(Event) /\ running' \in BOOLEAN /\ room' \subseteq Conns
    BY <2>1, <2>2, CastsAreCasts DEF Restart
  <2>5. /\ asking' \in [Clients -> {"no", "asked", "answered"}]
        /\ answer' \in [Clients -> SeatMap] /\ syncing' \in [Clients -> BOOLEAN]
        /\ unsent' \subseteq Event
    BY <2>1 DEF Restart, NoSeats, SeatMap, TypeOK
  <2> QED BY <2>1, <2>3, <2>4, <2>5 DEF Restart, TypeOK, db
<1>4. ASSUME NEW k \in Conns, Send(k)
      PROVE  TypeOK'
  <2>1. cast.left \in SUBSET Conns /\ k \in cast.left /\ cast \in Cast
    BY <1>4 DEF Send, TypeOK, Cast
  <2>2. cast.event \in Event
    BY <2>1 DEF MessagesKnown
  <2>3. cast' \in Cast
    BY <1>4, <2>1, <2>2, CastsAreCasts DEF Send
  <2>4. room' \subseteq Conns /\ open' \in [Conns -> BOOLEAN] /\ buf' \in [Conns -> Seq(Message)]
    BY <1>4, <2>2, QueuesOfMessages, PutTyped, UnregisterTyped DEF Send, Offer
  <2> QED BY <1>4, <2>3, <2>4 DEF Send, TypeOK, NoFault, db, views, history
<1> QED BY <1>1, <1>2, <1>3, <1>4

LEMMA HandlersTyped ==
    ASSUME TypeOK, NEW k \in Conns, ServeStep(k) \/ Disconnect(k)
    PROVE  TypeOK'
<1>1. CASE Register(k)
  <2>1. room' \subseteq Conns /\ stage' \in [Conns -> {"free", "dialing", "registered", "serving"}]
    <3>1. CASE open[k]
      <4>1. room' = room \cup {k} /\ stage' = [stage EXCEPT ![k] = "registered"]
        BY <1>1, <3>1 DEF Register
      <4> QED BY <4>1 DEF TypeOK
    <3>2. CASE ~open[k]
      BY <1>1, <3>2 DEF Register, TypeOK
    <3> QED BY <3>1, <3>2
  <2> QED BY <1>1, <2>1 DEF Register, TypeOK, NoFault, db, views, history
<1>2. CASE SendSnapshot(k)
  <2>1. room' \subseteq Conns /\ open' \in [Conns -> BOOLEAN] /\ buf' \in [Conns -> Seq(Message)]
    BY <1>2, PutTyped, QueuesOfMessages DEF SendSnapshot, TypeOK
  <2> QED BY <1>2, <2>1 DEF SendSnapshot, TypeOK, NoFault, db, views, history
<1>3. CASE HandlerEnds(k)
  <2>1. room' \subseteq Conns /\ open' \in [Conns -> BOOLEAN] /\ buf' \in [Conns -> Seq(Message)]
    BY <1>3, UnregisterTyped DEF HandlerEnds
  <2> QED BY <1>3, <2>1 DEF HandlerEnds, TypeOK, NoFault, db, views, history
<1>4. CASE ProxyTimesOut(k) \/ Disconnect(k)
  <2>1. faults' \in Nat
    BY <1>4, FaultTyped DEF ProxyTimesOut, Disconnect
  <2> QED BY <1>4, <2>1 DEF ProxyTimesOut, Disconnect, TypeOK, db, hub, views, history
<1> QED BY <1>1, <1>2, <1>3, <1>4 DEF ServeStep

LEMMA ViewTyped ==
    ASSUME TypeOK, NEW c \in Clients, ViewStep(c) \/ SynchronizeFails(c) \/ HoldRefused(c)
    PROVE  TypeOK'
<1>1. NoSeats \in SeatMap /\ <<>> \in Seq(Event) /\ <<>> \in Seq(Message)
  BY EmptySeq DEF NoSeats, SeatMap
<1>2. CASE Connect(c)
  <2>1. PICK k \in Conns :
          /\ socket' = [socket EXCEPT ![c] = k]
          /\ stage' = [stage EXCEPT ![k] = "dialing"]
          /\ open' = [open EXCEPT ![k] = TRUE]
          /\ buf' = [buf EXCEPT ![k] = <<>>]
    BY <1>2 DEF Connect
  <2>2. /\ socket' \in [Clients -> Conns \cup {None}]
        /\ stage' \in [Conns -> {"free", "dialing", "registered", "serving"}]
        /\ open' \in [Conns -> BOOLEAN] /\ buf' \in [Conns -> Seq(Message)]
    BY <2>1, <1>1 DEF TypeOK
  <2>3. /\ syncing' \in [Clients -> BOOLEAN] /\ pending' \in [Clients -> Seq(Event)]
        /\ asking' \in [Clients -> {"no", "asked", "answered"}]
        /\ answer' \in [Clients -> SeatMap] /\ missed' \in [Clients -> SUBSET Seats]
    BY <1>2, <1>1 DEF Connect, TypeOK
  <2> QED BY <1>2, <2>2, <2>3 DEF Connect, TypeOK, NoFault, db, hub
<1>3. CASE Listen(c)
  <2> DEFINE k == socket[c]
             m == Head(buf[k])
  <2>1. k \in Conns /\ buf[k] \in Seq(Message) /\ buf[k] # <<>>
    BY <1>3 DEF Listen, Connected, TypeOK
  <2>2. m \in Message /\ Tail(buf[k]) \in Seq(Message)
    BY <2>1, HeadTailProperties
  <2>3. buf' \in [Conns -> Seq(Message)]
    BY <1>3, <2>1, <2>2 DEF Listen, TypeOK
  <2>4. /\ syncing' \in [Clients -> BOOLEAN] /\ pending' \in [Clients -> Seq(Event)]
        /\ asking' \in [Clients -> {"no", "asked", "answered"}]
        /\ answer' \in [Clients -> SeatMap] /\ shown' \in [Clients -> SeatMap]
    <3>1. CASE m = Snapshot
      BY <1>3, <3>1, <1>1 DEF Listen, Synchronize, TypeOK
    <3>2. CASE m # Snapshot /\ syncing[c]
      <4>1. Append(pending[c], m) \in Seq(Event)
        BY <2>2, <3>2, AppendProperties DEF Message, TypeOK
      <4> QED BY <1>3, <3>2, <4>1 DEF Listen, TypeOK
    <3>3. CASE m # Snapshot /\ ~syncing[c]
      <4>1. Apply(shown[c], m) \in SeatMap
        BY MapsStayMaps DEF TypeOK
      <4> QED BY <1>3, <3>3, <4>1 DEF Listen, TypeOK
    <3> QED BY <3>1, <3>2, <3>3
  <2> QED BY <1>3, <2>3, <2>4 DEF Listen, TypeOK, NoFault, db, hub, history
<1>4. CASE ReadSeats(c)
  <2>1. [s \in Seats |-> Seen(s)] \in SeatMap
    BY SeenIsAStatus DEF SeatMap
  <2> QED BY <1>4, <2>1 DEF ReadSeats, TypeOK, NoFault, db, hub, conns, history
<1>5. CASE Synchronized(c)
  <2>1. Replay(answer[c], pending[c]) \in SeatMap
    <3>1. answer[c] \in SeatMap /\ pending[c] \in Seq(Event)
      BY DEF TypeOK
    <3> QED BY <3>1, ReplayIsAMap
  <2> QED BY <1>5, <1>1, <2>1 DEF Synchronized, TypeOK, NoFault, db, hub, conns, history
<1>6. CASE SynchronizeFails(c)
  <2>1. faults' \in Nat
    BY <1>6, FaultTyped DEF SynchronizeFails
  <2> QED BY <1>6, <1>1, <2>1 DEF SynchronizeFails, TypeOK, db, hub, history
<1>7. CASE HoldRefused(c)
  BY <1>7, <1>1 DEF HoldRefused, Synchronize, TypeOK, NoFault, db, hub, conns, history
<1> QED BY <1>2, <1>3, <1>4, <1>5, <1>6, <1>7 DEF ViewStep

LEMMA TypeStep ==
    ASSUME TypeOK, MessagesKnown, [Next]_vars
    PROVE  TypeOK'
<1>1. CASE UNCHANGED vars
  BY <1>1 DEF vars, db, hub, conns, views, history, TypeOK
<1>2. CASE Next
  BY <1>2, CommitTyped, PublishTyped, HubTyped, HandlersTyped, ViewTyped DEF Next, HubStep
<1> QED BY <1>1, <1>2

-----------------------------------------------------------------------------
(* Owners and messages *)

\* Only commits change the ledger, and each leaves a message to be sent.
LEMMA LedgerMoves ==
    ASSUME [Next]_vars
    PROVE  UNCHANGED db \/ \E h \in Claims : Commit(h)
<1>1. CASE UNCHANGED vars
  BY <1>1 DEF vars
<1>2. CASE HubStep \/ SubscriptionEnds \/ Crash \/ \E e \in Event : PublishSeatEvent(e)
  BY <1>2 DEF HubStep, Receive, Panic, Send, SubscriptionEnds, Crash, Restart, PublishSeatEvent
<1>3. CASE \E k \in Conns : ServeStep(k) \/ Disconnect(k)
  BY <1>3 DEF ServeStep, Register, SendSnapshot, HandlerEnds, ProxyTimesOut, Disconnect
<1>4. CASE \E c \in Clients : ViewStep(c) \/ SynchronizeFails(c) \/ HoldRefused(c)
  BY <1>4 DEF ViewStep, Connect, Listen, ReadSeats, Synchronized, SynchronizeFails, HoldRefused
<1> QED BY <1>1, <1>2, <1>3, <1>4 DEF Next

LEMMA CommitKinds ==
    ASSUME TypeOK, OwnersKnown, NEW h \in Claims, Commit(h)
    PROVE  /\ life[h] = "new" \/ claimed' = claimed
           /\ life'[h] # "new"
           /\ \A c \in Claims \ {h} : life'[c] = life[c] /\ claimed'[c] = claimed[c]
           /\ \E type \in {"locked", "released", "booked"} : Owes(type, h)
           /\ \A s \in Seats \ claimed'[h] : owner'[s] = owner[s] /\ owner[s] # h
           /\ OwnersKnown'
<1>1. CASE Holds(h)
  <2>1. PICK S \in SUBSET Seats :
          /\ owner' = [s \in Seats |-> IF s \in S THEN h ELSE owner[s]]
          /\ claimed' = [claimed EXCEPT ![h] = S]
    BY <1>1 DEF Holds, Ledger!Grant
  <2>2. life[h] = "new" /\ life' = [life EXCEPT ![h] = "held"] /\ Owes("locked", h)
    BY <1>1 DEF Holds, Ledger!Grant
  <2>3. life'[h] = "held" /\ claimed'[h] = S
    BY <2>1, <2>2 DEF TypeOK
  <2>4. \A s \in Seats : owner[s] # h
    BY <2>2, NoneIsNothing DEF OwnersKnown
  <2>5. \A c \in Claims \ {h} : life'[c] = life[c] /\ claimed'[c] = claimed[c]
    BY <2>1, <2>2 DEF TypeOK
  <2>6. OwnersKnown'
    BY <2>1, <2>3, <2>4, <2>5 DEF OwnersKnown, TypeOK
  <2> QED BY <2>1, <2>2, <2>3, <2>4, <2>5, <2>6
<1>2. CASE Books(h)
  <2>1. /\ life[h] = "held" /\ life' = [life EXCEPT ![h] = "sold"]
        /\ owner' = owner /\ claimed' = claimed /\ Owes("booked", h)
    BY <1>2 DEF Books, Ledger!Sell
  <2>2. life'[h] = "sold" /\ \A c \in Claims \ {h} : life'[c] = life[c]
    BY <2>1 DEF TypeOK
  <2>3. \A s \in Seats \ claimed[h] : owner[s] # h
    BY NoneIsNothing DEF OwnersKnown
  <2>4. OwnersKnown'
    BY <2>1, <2>2 DEF OwnersKnown, TypeOK
  <2> QED BY <2>1, <2>2, <2>3, <2>4
<1>3. CASE Frees(h)
  <2>1. /\ life[h] = "held" /\ life' = [life EXCEPT ![h] = "returned"]
        /\ owner' = [s \in Seats |-> IF owner[s] = h THEN None ELSE owner[s]]
        /\ claimed' = claimed /\ Owes("released", h)
    BY <1>3 DEF Frees, Ledger!Return, Ledger!Ends
  <2>2. life'[h] = "returned" /\ \A c \in Claims \ {h} : life'[c] = life[c]
    BY <2>1 DEF TypeOK
  <2>3. \A s \in Seats \ claimed[h] : owner[s] # h
    BY NoneIsNothing DEF OwnersKnown
  <2>4. OwnersKnown'
    BY <2>1, <2>2 DEF OwnersKnown, TypeOK
  <2> QED BY <2>1, <2>2, <2>3, <2>4
<1> QED BY <1>1, <1>2, <1>3 DEF Commit

LEMMA OwnersStep ==
    ASSUME TypeOK, OwnersKnown, [Next]_vars
    PROVE  OwnersKnown'
<1>1. CASE UNCHANGED db
  BY <1>1 DEF db, OwnersKnown
<1> QED BY <1>1, LedgerMoves, CommitKinds

\* A claim that was granted stays granted.
LEMMA GrantedStays ==
    ASSUME TypeOK, OwnersKnown, [Next]_vars
    PROVE  /\ \A m \in Message : Granted(m) => Granted(m)'
           /\ \A q \in Seq(Message) : AllGranted(q) => AllGranted(q)'
<1>1. \A h \in Claims : life[h] # "new" => life'[h] # "new"
  <2>1. CASE UNCHANGED db
    BY <2>1 DEF db
  <2> QED BY <2>1, LedgerMoves, CommitKinds
<1>2. \A m \in Message : Granted(m) => Granted(m)'
  BY <1>1 DEF Granted, Message, Event
<1>3. \A q \in Seq(Message) : \A i \in DOMAIN q : q[i] \in Message
  BY LenProperties
<1> QED BY <1>2, <1>3 DEF AllGranted

LEMMA GrantedQueues ==
    /\ AllGranted(<<>>) /\ Granted(Snapshot)
    /\ \A q \in Seq(Message), m \in Message :
         AllGranted(q) /\ Granted(m) => AllGranted(Append(q, m))
    /\ \A q \in Seq(Message) :
         AllGranted(q) /\ q # <<>> => AllGranted(Tail(q)) /\ Granted(Head(q))
<1>1. AllGranted(<<>>) /\ Granted(Snapshot)
  BY DEF AllGranted, Granted
<1>2. ASSUME NEW q \in Seq(Message), NEW m \in Message, AllGranted(q), Granted(m)
      PROVE  AllGranted(Append(q, m))
  <2> DEFINE a == Append(q, m)
  <2>1. /\ Len(q) \in Nat /\ DOMAIN q = 1..Len(q) /\ DOMAIN a = 1..(Len(q) + 1)
        /\ \A i \in 1..Len(q) : a[i] = q[i]
        /\ a[Len(q) + 1] = m
    BY AppendProperties, LenProperties
  <2> HIDE DEF a
  <2>2. \A i \in DOMAIN a : Granted(a[i])
    BY <1>2, <2>1 DEF AllGranted
  <2> QED BY <2>2 DEF AllGranted, a
<1>3. ASSUME NEW q \in Seq(Message), AllGranted(q), q # <<>>
      PROVE  AllGranted(Tail(q)) /\ Granted(Head(q))
  <2> DEFINE t == Tail(q)
  <2>1. /\ Len(q) \in Nat \ {0} /\ Head(q) = q[1]
        /\ DOMAIN q = 1..Len(q) /\ DOMAIN t = 1..(Len(q) - 1)
        /\ \A i \in 1..(Len(q) - 1) : t[i] = q[i + 1]
    BY <1>3, TakenHead
  <2> HIDE DEF t
  <2>2. \A i \in DOMAIN t : Granted(t[i])
    BY <1>3, <2>1 DEF AllGranted
  <2> QED BY <1>3, <2>1, <2>2 DEF AllGranted, t
<1> QED BY <1>1, <1>2, <1>3

\* It is enough that what lies in the queues after a step was granted before it.
LEMMA MessagesCarry ==
    ASSUME TypeOK, TypeOK', OwnersKnown, [Next]_vars,
           \A e \in unsent' : Granted(e) \/ Granted(e)',
           AllGranted(channel'),
           cast'.left # {} => cast'.event \in Event /\ Granted(cast'.event),
           \A k \in Conns : AllGranted(buf'[k]),
           \A c \in Clients : AllGranted(pending'[c])
    PROVE  MessagesKnown'
<1>1. /\ channel' \in Seq(Message) /\ unsent' \subseteq Message
      /\ \A k \in Conns : buf'[k] \in Seq(Message)
      /\ \A c \in Clients : pending'[c] \in Seq(Message)
  BY QueuesOfMessages DEF TypeOK
<1>2. \A e \in unsent' : Granted(e)'
  BY <1>1, GrantedStays
<1>3. AllGranted(channel)'
  BY <1>1, GrantedStays
<1>4. \A k \in Conns : AllGranted(buf[k])'
  BY <1>1, GrantedStays
<1>5. \A c \in Clients : AllGranted(pending[c])'
  BY <1>1, GrantedStays
<1>6. (cast.left # {} => cast.event \in Event /\ Granted(cast.event))'
  BY GrantedStays, QueuesOfMessages
<1> QED BY <1>2, <1>3, <1>4, <1>5, <1>6 DEF MessagesKnown

LEMMA MessagesStep ==
    ASSUME TypeOK, TypeOK', OwnersKnown, MessagesKnown, [Next]_vars
    PROVE  MessagesKnown'
<1> DEFINE Sent == \A e \in unsent' : Granted(e) \/ Granted(e)'
           Channelled == AllGranted(channel')
           Casting == cast'.left # {} => cast'.event \in Event /\ Granted(cast'.event)
           Buffered == \A k \in Conns : AllGranted(buf'[k])
           Pending == \A c \in Clients : AllGranted(pending'[c])
<1>1. /\ unsent' \subseteq unsent => Sent
      /\ UNCHANGED channel => Channelled
      /\ UNCHANGED cast => Casting
      /\ UNCHANGED buf => Buffered
      /\ UNCHANGED pending => Pending
  BY DEF MessagesKnown
<1>2. /\ channel \in Seq(Message) /\ unsent \subseteq Message
      /\ \A k \in Conns : buf[k] \in Seq(Message)
      /\ \A c \in Clients : pending[c] \in Seq(Message)
  BY QueuesOfMessages DEF TypeOK
<1>3. SUFFICES Sent /\ Channelled /\ Casting /\ Buffered /\ Pending
  BY MessagesCarry
<1> HIDE DEF Sent, Channelled, Casting, Buffered, Pending
<1>4. CASE UNCHANGED vars
  BY <1>1, <1>4 DEF vars, hub, conns, views
<1>5. ASSUME NEW h \in Claims, Commit(h)
      PROVE  Sent /\ Channelled /\ Casting /\ Buffered /\ Pending
  <2>1. PICK type \in {"locked", "released", "booked"} : Owes(type, h)
    BY <1>5, CommitKinds
  <2>2. life'[h] # "new"
    BY <1>5, CommitKinds
  <2>3. Granted([type |-> type, claim |-> h])'
    BY <2>2 DEF Granted
  <2>4. Sent
    BY <2>1, <2>3 DEF Owes, Sent, MessagesKnown
  <2> QED BY <1>1, <1>5, <2>4 DEF Commit, hub, conns, views
<1>6. ASSUME NEW e \in Event, PublishSeatEvent(e)
      PROVE  Sent /\ Channelled /\ Casting /\ Buffered /\ Pending
  <2>1. UNCHANGED <<cast, buf, pending>> /\ unsent' \subseteq unsent
    BY <1>6 DEF PublishSeatEvent, conns, views
  <2>2. Channelled
    <3>1. e \in Message /\ Granted(e)
      BY <1>6, QueuesOfMessages DEF PublishSeatEvent, MessagesKnown
    <3>2. AllGranted(Append(channel, e))
      BY <3>1, <1>2, GrantedQueues DEF MessagesKnown
    <3>3. channel' = Append(channel, e) \/ UNCHANGED channel
      BY <1>6 DEF PublishSeatEvent, Published, Unheard
    <3> QED BY <1>1, <3>2, <3>3 DEF Channelled
  <2> QED BY <1>1, <2>1, <2>2
<1>7. CASE Receive
  <2>1. UNCHANGED <<unsent, buf, pending>>
    BY <1>7 DEF Receive, conns, views
  <2>2. AllGranted(Tail(channel)) /\ Granted(Head(channel))
    BY <1>2, <1>7, GrantedQueues DEF MessagesKnown, Receive
  <2>3. Head(channel) \in Event
    BY <1>7, HeadTailProperties DEF Receive, TypeOK
  <2>4. Casting
    BY <1>7, <2>2, <2>3 DEF Receive, CastTo, NoCast, Casting
  <2>5. Channelled
    BY <1>7, <2>2 DEF Receive, Channelled
  <2> QED BY <1>1, <2>1, <2>4, <2>5
<1>8. ASSUME NEW k \in Conns, Send(k)
      PROVE  Sent /\ Channelled /\ Casting /\ Buffered /\ Pending
  <2>1. UNCHANGED <<unsent, channel, pending>>
    BY <1>8 DEF Send, views
  <2>2. cast.event \in Event /\ Granted(cast.event)
    BY <1>8 DEF Send, MessagesKnown
  <2>3. Casting
    BY <1>8, <2>2 DEF Send, CastTo, NoCast, Casting
  <2>4. AllGranted(Append(buf[k], cast.event)) /\ AllGranted(<<>>)
    BY <2>2, <1>2, GrantedQueues, QueuesOfMessages DEF MessagesKnown
  <2>5. /\ \A j \in Conns \ {k} : buf'[j] = buf[j]
        /\ buf'[k] = Append(buf[k], cast.event) \/ buf'[k] = <<>>
    BY <1>8 DEF Send, Offer, Put, Unregister, TypeOK
  <2>6. Buffered
    BY <2>4, <2>5 DEF MessagesKnown, Buffered
  <2> QED BY <1>1, <2>1, <2>3, <2>6
<1>9. CASE SubscriptionEnds
  <2>1. Channelled
    BY <1>9, GrantedQueues DEF SubscriptionEnds, Channelled
  <2> QED BY <1>1, <1>9, <2>1 DEF SubscriptionEnds, conns, views
<1>10. CASE Crash \/ Panic
  <2>1. Restart
    BY <1>10 DEF Crash, Panic
  <2>2. Channelled /\ Buffered /\ Casting
    BY <2>1, GrantedQueues DEF Restart, Channelled, Buffered, Casting, NoCast
  <2>3. unsent' \subseteq unsent /\ UNCHANGED pending
    BY <2>1 DEF Restart
  <2> QED BY <1>1, <2>2, <2>3
<1>11. ASSUME NEW k \in Conns, ServeStep(k) \/ Disconnect(k)
       PROVE  Sent /\ Channelled /\ Casting /\ Buffered /\ Pending
  <2>1. UNCHANGED <<unsent, channel, cast, pending>>
    BY <1>11 DEF ServeStep, Register, SendSnapshot, HandlerEnds, ProxyTimesOut, Disconnect,
                 views, hub
  <2>2. \/ UNCHANGED buf
        \/ buf' = [buf EXCEPT ![k] = Append(buf[k], Snapshot)]
        \/ buf' = [buf EXCEPT ![k] = <<>>]
    BY <1>11 DEF ServeStep, Register, SendSnapshot, HandlerEnds, ProxyTimesOut, Disconnect,
                 Put, Unregister
  <2>3. AllGranted(Append(buf[k], Snapshot)) /\ AllGranted(<<>>)
    BY <1>2, GrantedQueues, QueuesOfMessages DEF MessagesKnown
  <2>4. Buffered
    BY <1>1, <2>2, <2>3 DEF Buffered, MessagesKnown, TypeOK
  <2> QED BY <1>1, <2>1, <2>4
<1>12. ASSUME NEW c \in Clients, Listen(c)
       PROVE  Sent /\ Channelled /\ Casting /\ Buffered /\ Pending
  <2> DEFINE k == socket[c]
             m == Head(buf[k])
  <2>1. UNCHANGED <<unsent, channel, cast>> /\ k \in Conns /\ buf[k] # <<>>
    BY <1>12 DEF Listen, hub, Connected, TypeOK
  <2>2. AllGranted(Tail(buf[k])) /\ Granted(m) /\ m \in Message
    BY <1>2, <2>1, GrantedQueues, TakenHead DEF MessagesKnown
  <2>3. AllGranted(Append(pending[c], m))
    BY <1>2, <2>2, GrantedQueues DEF MessagesKnown
  <2>4. buf' = [buf EXCEPT ![k] = Tail(buf[k])]
    BY <1>12 DEF Listen
  <2>5. UNCHANGED pending \/ pending' = [pending EXCEPT ![c] = Append(pending[c], m)]
    BY <1>12 DEF Listen
  <2>6. Buffered
    BY <2>2, <2>4 DEF Buffered, MessagesKnown, TypeOK
  <2>7. Pending
    BY <1>1, <2>3, <2>5 DEF Pending, MessagesKnown, TypeOK
  <2> QED BY <1>1, <2>1, <2>6, <2>7
<1>13. ASSUME NEW c \in Clients, ~Listen(c),
              ViewStep(c) \/ SynchronizeFails(c) \/ HoldRefused(c)
       PROVE  Sent /\ Channelled /\ Casting /\ Buffered /\ Pending
  <2>1. UNCHANGED <<unsent, channel, cast>>
    BY <1>13 DEF ViewStep, Connect, ReadSeats, Synchronized, SynchronizeFails, HoldRefused, hub
  <2>2. UNCHANGED buf \/ \E k \in Conns : buf' = [buf EXCEPT ![k] = <<>>]
    BY <1>13 DEF ViewStep, Connect, ReadSeats, Synchronized, SynchronizeFails, HoldRefused,
                 conns
  <2>3. UNCHANGED pending \/ pending' = [pending EXCEPT ![c] = <<>>]
    BY <1>13 DEF ViewStep, Connect, ReadSeats, Synchronized, SynchronizeFails, HoldRefused
  <2>4. Buffered
    BY <1>1, <2>2, GrantedQueues DEF Buffered, MessagesKnown, TypeOK
  <2>5. Pending
    BY <1>1, <2>3, GrantedQueues DEF Pending, MessagesKnown, TypeOK
  <2> QED BY <1>1, <2>1, <2>4, <2>5
<1> QED BY <1>4, <1>5, <1>6, <1>7, <1>8, <1>9, <1>10, <1>11, <1>12, <1>13
        DEF Next, HubStep, ViewStep

-----------------------------------------------------------------------------
(* Connections *)

\* What RoomsKnown says of one connection is kept where nothing about it changes.
RoomOf(k) ==
    /\ stage[k] = "free" => ~open[k] /\ k \notin room
    /\ stage[k] = "dialing" => k \notin room /\ k \notin cast.left /\ buf[k] = <<>>
    /\ stage[k] \in {"registered", "serving"} /\ open[k] => k \in room

LEMMA RoomsStep ==
    ASSUME TypeOK, TypeOK', RoomsKnown, [Next]_vars
    PROVE  RoomsKnown'
<1>1. \A k \in Conns : RoomOf(k)
  BY DEF RoomsKnown, RoomOf
<1>2. SUFFICES ASSUME NEW k \in Conns PROVE RoomOf(k)'
  BY <1>2 DEF RoomsKnown, RoomOf
<1>3. RoomOf(k)
  BY <1>1
<1>4. ASSUME UNCHANGED <<stage, open, room, buf>>, cast'.left \subseteq cast.left
      PROVE  RoomOf(k)'
  BY <1>3, <1>4 DEF RoomOf
<1>5. CASE UNCHANGED vars
  BY <1>4, <1>5 DEF vars, conns, hub
<1>6. CASE \E h \in Claims : Commit(h)
  BY <1>4, <1>6 DEF Commit, conns, hub
<1>7. CASE \E e \in Event : PublishSeatEvent(e)
  BY <1>4, <1>7 DEF PublishSeatEvent, conns
<1>8. CASE SubscriptionEnds
  BY <1>4, <1>8 DEF SubscriptionEnds, conns
<1>9. CASE Receive
  <2>1. UNCHANGED <<stage, open, room, buf>> /\ cast'.left \subseteq room
    BY <1>9 DEF Receive, conns, CastTo, NoCast
  <2> QED BY <2>1, <1>3 DEF RoomOf
<1>10. ASSUME NEW j \in Conns, Send(j)
       PROVE  RoomOf(k)'
  <2>1. cast'.left \subseteq cast.left /\ UNCHANGED stage
    BY <1>10 DEF Send, CastTo, NoCast
  <2>2. CASE k # j
    <3>1. open'[k] = open[k] /\ buf'[k] = buf[k] /\ (k \in room' <=> k \in room)
      BY <1>10, <2>2 DEF Send, Offer, Put, Unregister, TypeOK
    <3> QED BY <2>1, <3>1, <1>3 DEF RoomOf
  <2>3. CASE k = j
    <3>1. stage[k] # "dialing" /\ stage[k] # "free"
      BY <1>10, <2>3, <1>3 DEF Send, RoomOf
    <3>2. CASE HasRoom(j)
      BY <1>10, <2>1, <2>3, <3>1, <3>2, <1>3 DEF Send, Offer, Put, RoomOf
    <3>3. CASE ~HasRoom(j)
      <4>1. ~open'[k]
        BY <1>10, <2>3, <3>3 DEF Send, Offer, Unregister, TypeOK
      <4> QED BY <4>1, <2>1, <3>1 DEF RoomOf
    <3> QED BY <3>2, <3>3
  <2> QED BY <2>2, <2>3
<1>11. CASE Crash \/ Panic
  <2>1. Restart
    BY <1>11 DEF Crash, Panic
  <2>2. stage'[k] = "free" /\ open'[k] = FALSE /\ room' = {}
    BY <2>1 DEF Restart
  <2> QED BY <2>2 DEF RoomOf
<1>12. ASSUME NEW j \in Conns, ServeStep(j) \/ Disconnect(j)
       PROVE  RoomOf(k)'
  <2>1. UNCHANGED cast
    BY <1>12 DEF ServeStep, Register, SendSnapshot, HandlerEnds, ProxyTimesOut, Disconnect, hub
  <2>2. CASE k # j
    <3>1. /\ open'[k] = open[k] /\ buf'[k] = buf[k] /\ stage'[k] = stage[k]
          /\ k \in room' <=> k \in room
      <4>1. CASE Register(j)
        BY <4>1, <2>2 DEF Register, TypeOK
      <4>2. CASE SendSnapshot(j)
        BY <4>2, <2>2 DEF SendSnapshot, Put, TypeOK
      <4>3. CASE HandlerEnds(j)
        BY <4>3, <2>2 DEF HandlerEnds, Unregister, TypeOK
      <4>4. CASE ProxyTimesOut(j) \/ Disconnect(j)
        BY <4>4, <2>2 DEF ProxyTimesOut, Disconnect, TypeOK, hub
      <4> QED BY <1>12, <4>1, <4>2, <4>3, <4>4 DEF ServeStep
    <3> QED BY <2>1, <3>1, <1>3 DEF RoomOf
  <2>3. CASE k = j /\ Register(j)
    <3>1. CASE open[k]
      <4>1. stage'[k] = "registered" /\ k \in room'
        BY <2>3, <3>1 DEF Register, TypeOK
      <4> QED BY <4>1 DEF RoomOf
    <3>2. CASE ~open[k]
      <4>1. stage[k] = "dialing" /\ stage'[k] = "free" /\ UNCHANGED <<open, room>>
        BY <2>3, <3>2 DEF Register, TypeOK
      <4> QED BY <4>1, <3>2, <1>3 DEF RoomOf
    <3> QED BY <3>1, <3>2
  <2>4. CASE k = j /\ SendSnapshot(j)
    <3>1. UNCHANGED <<room, open>> /\ stage[k] = "registered"
      BY <2>4 DEF SendSnapshot, Put
    <3>2. \/ stage'[k] = "serving" /\ k \in room
          \/ stage'[k] = "free" /\ k \notin room
      BY <2>4 DEF SendSnapshot, TypeOK
    <3> QED BY <3>1, <3>2, <1>3 DEF RoomOf
  <2>5. CASE k = j /\ HandlerEnds(j)
    <3>1. ~open'[k] /\ k \notin room' /\ stage'[k] = "free"
      BY <2>5 DEF HandlerEnds, Unregister, TypeOK
    <3> QED BY <3>1 DEF RoomOf
  <2>6. CASE k = j /\ (ProxyTimesOut(j) \/ Disconnect(j))
    <3>1. ~open'[k] /\ UNCHANGED <<room, stage, buf>>
      BY <2>6 DEF ProxyTimesOut, Disconnect, TypeOK, hub
    <3> QED BY <3>1, <2>1, <1>3 DEF RoomOf
  <2> QED BY <1>12, <2>2, <2>3, <2>4, <2>5, <2>6 DEF ServeStep
<1>13. ASSUME NEW c \in Clients, Connect(c)
       PROVE  RoomOf(k)'
  <2>1. PICK j \in Conns :
          /\ Unused(j, c)
          /\ stage' = [stage EXCEPT ![j] = "dialing"]
          /\ open' = [open EXCEPT ![j] = TRUE]
          /\ buf' = [buf EXCEPT ![j] = <<>>]
    BY <1>13 DEF Connect
  <2>2. UNCHANGED <<room, cast>>
    BY <1>13 DEF Connect, hub
  <2>3. CASE k = j
    <3>1. stage'[k] = "dialing" /\ buf'[k] = <<>>
      BY <2>1, <2>3 DEF TypeOK
    <3>2. k \notin room /\ k \notin cast.left
      BY <2>1, <2>3, <1>3 DEF Unused, RoomOf
    <3> QED BY <2>2, <3>1, <3>2 DEF RoomOf
  <2>4. CASE k # j
    <3>1. stage'[k] = stage[k] /\ open'[k] = open[k] /\ buf'[k] = buf[k]
      BY <2>1, <2>4 DEF TypeOK
    <3> QED BY <2>2, <3>1, <1>3 DEF RoomOf
  <2> QED BY <2>3, <2>4
<1>14. ASSUME NEW c \in Clients, Listen(c)
       PROVE  RoomOf(k)'
  <2>1. UNCHANGED <<room, cast, stage, open>>
    BY <1>14 DEF Listen, hub
  <2>2. stage[socket[c]] = "serving" /\ buf' = [buf EXCEPT ![socket[c]] = Tail(@)]
    BY <1>14 DEF Listen
  <2>3. stage[k] = "serving" \/ buf'[k] = buf[k]
    BY <2>2 DEF TypeOK
  <2> QED BY <2>1, <2>3, <1>3 DEF RoomOf
<1>15. ASSUME NEW c \in Clients, ReadSeats(c) \/ Synchronized(c) \/ HoldRefused(c)
       PROVE  RoomOf(k)'
  BY <1>4, <1>15 DEF ReadSeats, Synchronized, HoldRefused, hub, conns
<1>16. ASSUME NEW c \in Clients, SynchronizeFails(c)
       PROVE  RoomOf(k)'
  <2>1. UNCHANGED <<room, cast, stage, buf>>
    BY <1>16 DEF SynchronizeFails, hub
  <2>2. open'[k] => open[k]
    BY <1>16 DEF SynchronizeFails, TypeOK
  <2> QED BY <2>1, <2>2, <1>3 DEF RoomOf
<1> QED BY <1>5, <1>6, <1>7, <1>8, <1>9, <1>10, <1>11, <1>12, <1>13, <1>14, <1>15, <1>16
        DEF Next, HubStep, ViewStep

-----------------------------------------------------------------------------
(* Clients *)

\* No snapshot lies in the queue.
Plain(q) == \A i \in DOMAIN q : q[i] # Snapshot

LEMMA PlainQueues ==
    /\ Plain(<<>>)
    /\ \A q \in Seq(Message), m \in Message :
         Plain(Append(q, m)) <=> Plain(q) /\ m # Snapshot
    /\ \A q \in Seq(Message) :
         q # <<>> => (Plain(q) <=> Head(q) # Snapshot /\ Plain(Tail(q)))
<1>1. Plain(<<>>)
  BY DEF Plain
<1>2. ASSUME NEW q \in Seq(Message), NEW m \in Message
      PROVE  Plain(Append(q, m)) <=> Plain(q) /\ m # Snapshot
  <2> DEFINE a == Append(q, m)
  <2>1. /\ Len(q) \in Nat /\ DOMAIN q = 1..Len(q) /\ DOMAIN a = 1..(Len(q) + 1)
        /\ \A i \in 1..Len(q) : a[i] = q[i]
        /\ a[Len(q) + 1] = m
    BY AppendProperties, LenProperties
  <2> HIDE DEF a
  <2>2. Plain(a) <=> Plain(q) /\ m # Snapshot
    BY <2>1 DEF Plain
  <2> QED BY <2>2 DEF a
<1>3. ASSUME NEW q \in Seq(Message), q # <<>>
      PROVE  Plain(q) <=> Head(q) # Snapshot /\ Plain(Tail(q))
  <2> DEFINE t == Tail(q)
  <2>1. /\ Len(q) \in Nat \ {0} /\ Head(q) = q[1]
        /\ DOMAIN q = 1..Len(q) /\ DOMAIN t = 1..(Len(q) - 1)
        /\ \A i \in 1..(Len(q) - 1) : t[i] = q[i + 1]
    BY <1>3, TakenHead
  <2> HIDE DEF t
  <2>2. Plain(q) => Head(q) # Snapshot /\ Plain(t)
    BY <2>1 DEF Plain
  <2>3. ASSUME Head(q) # Snapshot, Plain(t), NEW i \in DOMAIN q
        PROVE  q[i] # Snapshot
    <3>1. CASE i = 1
      BY <2>1, <2>3, <3>1
    <3>2. CASE i # 1
      <4>1. i - 1 \in DOMAIN t /\ t[i - 1] = q[i]
        BY <2>1, <2>3, <3>2
      <4> QED BY <4>1, <2>3 DEF Plain
    <3> QED BY <3>1, <3>2
  <2> QED BY <2>2, <2>3 DEF Plain, t
<1> QED BY <1>1, <1>2, <1>3

LEMMA ReadingIsPlain ==
    \A c :
        /\ Reading(c) <=>
             Connected(c) /\ stage[socket[c]] = "serving" /\ Plain(buf[socket[c]])
        /\ Reading(c)' <=>
             Connected(c)' /\ stage'[socket'[c]] = "serving" /\ Plain(buf'[socket'[c]])
BY DEF Reading, Plain

\* Nothing of the client's changes but how much it has missed, and that it is registered.
Untouched(c) ==
    /\ Connected(c)
    /\ UNCHANGED <<socket[c], syncing[c], pending[c], asking[c], answer[c], shown[c]>>
    /\ buf'[socket[c]] = buf[socket[c]]
    /\ missed[c] \subseteq missed'[c]
    /\ stage'[socket[c]] \in {stage[socket[c]], "registered"}

\* The client's connection has one more message to write.
Given(c, m) ==
    /\ Connected(c)
    /\ UNCHANGED <<views, missed>>
    /\ buf'[socket[c]] = Append(buf[socket[c]], m)

ClientStep(c) ==
    \/ Untouched(c)
    \/ Send(socket[c]) /\ Given(c, cast.event) /\ UNCHANGED stage
    \/ /\ SendSnapshot(socket[c]) /\ Given(c, Snapshot)
       /\ stage[socket[c]] = "registered" /\ stage'[socket[c]] = "serving"
    \/ Connect(c) /\ buf'[socket'[c]] = <<>> /\ stage'[socket'[c]] = "dialing"
    \/ Listen(c) \/ ReadSeats(c) \/ Synchronized(c) \/ HoldRefused(c)

LEMMA OwnConnectionsStep ==
    ASSUME TypeOK, OwnConnections, [Next]_vars
    PROVE  OwnConnections'
<1>1. CASE UNCHANGED socket
  BY <1>1 DEF OwnConnections
<1>2. ASSUME NEW c \in Clients, Connect(c)
      PROVE  OwnConnections'
  <2>1. PICK k \in Conns : Unused(k, c) /\ socket' = [socket EXCEPT ![c] = k]
    BY <1>2 DEF Connect
  <2>2. \A d \in Clients \ {c} : socket'[d] = socket[d] /\ socket[d] # k
    BY <2>1 DEF Unused, TypeOK
  <2>3. socket'[c] = k
    BY <2>1 DEF TypeOK
  <2> QED BY <2>2, <2>3 DEF OwnConnections
<1>3. CASE UNCHANGED vars
  BY <1>1, <1>3 DEF vars, views
<1>4. CASE (\E h \in Claims : Commit(h)) \/ (\E e \in Event : PublishSeatEvent(e))
  BY <1>1, <1>4 DEF Commit, PublishSeatEvent, views
<1>5. CASE HubStep \/ SubscriptionEnds \/ Crash
  BY <1>1, <1>5 DEF HubStep, Receive, Panic, Send, SubscriptionEnds, Crash, Restart, views
<1>6. CASE \E k \in Conns : ServeStep(k) \/ Disconnect(k)
  BY <1>1, <1>6 DEF ServeStep, Register, SendSnapshot, HandlerEnds, ProxyTimesOut, Disconnect,
                    views
<1>7. ASSUME NEW c \in Clients, ~Connect(c),
             ViewStep(c) \/ SynchronizeFails(c) \/ HoldRefused(c)
      PROVE  OwnConnections'
  BY <1>1, <1>7 DEF ViewStep, Listen, ReadSeats, Synchronized, SynchronizeFails, HoldRefused
<1> QED BY <1>2, <1>3, <1>4, <1>5, <1>6, <1>7 DEF Next, ViewStep

\* What a step may do to a client that is connected after it.
LEMMA ClientSteps ==
    ASSUME TypeOK, TypeOK', RoomsKnown, OwnConnections, [Next]_vars,
           NEW c \in Clients, Connected(c)'
    PROVE  ClientStep(c)
<1> DEFINE k == socket[c]
<1>1. socket'[c] \in Conns /\ socket'[c] # None /\ open'[socket'[c]]
  BY DEF Connected, TypeOK
<1>2. ASSUME UNCHANGED views, UNCHANGED open, UNCHANGED stage, UNCHANGED buf,
             missed[c] \subseteq missed'[c]
      PROVE  ClientStep(c)
  BY <1>1, <1>2 DEF Untouched, Connected, views, ClientStep
<1>3. CASE UNCHANGED vars
  <2>1. UNCHANGED views /\ UNCHANGED open /\ UNCHANGED stage /\ UNCHANGED buf /\ UNCHANGED missed
    BY <1>3 DEF vars, conns, history
  <2> QED BY <1>2, <2>1
<1>4. CASE \E h \in Claims : Commit(h)
  <2>1. UNCHANGED views /\ UNCHANGED open /\ UNCHANGED stage /\ UNCHANGED buf /\ UNCHANGED missed
    BY <1>4 DEF Commit, conns, history
  <2> QED BY <1>2, <2>1
<1>5. ASSUME NEW S, Miss(S)
      PROVE  missed[c] \subseteq missed'[c]
  BY <1>5 DEF Miss
<1>6. CASE (\E e \in Event : PublishSeatEvent(e)) \/ SubscriptionEnds \/ Receive
  <2>1. UNCHANGED views /\ UNCHANGED open /\ UNCHANGED stage /\ UNCHANGED buf
    BY <1>6 DEF PublishSeatEvent, SubscriptionEnds, Receive, conns
  <2>2. UNCHANGED missed \/ \E S : Miss(S)
    BY <1>6 DEF PublishSeatEvent, Published, Unheard, SubscriptionEnds, Receive, history
  <2>3. missed[c] \subseteq missed'[c]
    BY <1>5, <2>2
  <2> QED BY <1>2, <2>1, <2>3
<1>7. CASE Crash \/ Panic
  <2>1. \A j \in Conns : ~open'[j]
    BY <1>7 DEF Crash, Panic, Restart
  <2> QED BY <1>1, <2>1
<1>8. ASSUME NEW j \in Conns, Send(j)
      PROVE  ClientStep(c)
  <2>1. UNCHANGED <<views, stage, missed>>
    BY <1>8 DEF Send, history
  <2>2. k \in Conns /\ k # None /\ open'[k]
    BY <1>1, <2>1 DEF views
  <2>3. CASE j # k
    <3>1. open'[k] = open[k] /\ buf'[k] = buf[k]
      BY <1>8, <2>2, <2>3 DEF Send, Offer, Put, Unregister, TypeOK
    <3> QED BY <2>1, <2>2, <3>1 DEF Untouched, Connected, views, ClientStep
  <2>4. CASE j = k
    <3>1. HasRoom(k)
      BY <1>8, <2>2, <2>4 DEF Send, Offer, Unregister, TypeOK
    <3>2. UNCHANGED open /\ buf'[k] = Append(buf[k], cast.event)
      BY <1>8, <2>2, <2>4, <3>1 DEF Send, Offer, Put, TypeOK
    <3>3. Given(c, cast.event)
      BY <2>1, <2>2, <3>2 DEF Given, Connected
    <3> QED BY <1>8, <2>1, <2>4, <3>3 DEF ClientStep
  <2> QED BY <2>3, <2>4
<1>9. ASSUME NEW j \in Conns, ServeStep(j) \/ Disconnect(j)
      PROVE  ClientStep(c)
  <2>1. UNCHANGED <<views, missed>>
    BY <1>9 DEF ServeStep, Register, SendSnapshot, HandlerEnds, ProxyTimesOut, Disconnect,
                history
  <2>2. k \in Conns /\ k # None /\ open'[k]
    BY <1>1, <2>1 DEF views
  <2>3. ASSUME open'[k] = open[k], buf'[k] = buf[k],
               stage'[k] \in {stage[k], "registered"}
        PROVE  ClientStep(c)
    BY <2>1, <2>2, <2>3 DEF Untouched, Connected, views, ClientStep
  <2>4. CASE j # k
    <3>1. /\ open'[k] = open[k] /\ buf'[k] = buf[k] /\ stage'[k] = stage[k]
      <4>1. CASE Register(j)
        BY <4>1, <2>2, <2>4 DEF Register, TypeOK
      <4>2. CASE SendSnapshot(j)
        <5>1. UNCHANGED open /\ stage'[k] = stage[k]
          BY <4>2, <2>2, <2>4 DEF SendSnapshot, Put, TypeOK
        <5>2. buf'[k] = buf[k]
          BY <4>2, <2>2, <2>4 DEF SendSnapshot, Put, TypeOK
        <5> QED BY <5>1, <5>2
      <4>3. CASE HandlerEnds(j)
        <5>1. /\ open' = [open EXCEPT ![j] = FALSE] /\ buf' = [buf EXCEPT ![j] = <<>>]
              /\ stage' = [stage EXCEPT ![j] = "free"]
          BY <4>3 DEF HandlerEnds, Unregister
        <5> QED BY <5>1, <2>2, <2>4 DEF TypeOK
      <4>4. CASE ProxyTimesOut(j) \/ Disconnect(j)
        BY <4>4, <2>2, <2>4 DEF ProxyTimesOut, Disconnect, TypeOK
      <4> QED BY <1>9, <4>1, <4>2, <4>3, <4>4 DEF ServeStep
    <3> QED BY <2>3, <3>1
  <2>5. CASE j = k /\ Register(k)
    <3>1. open'[k] = open[k] /\ buf'[k] = buf[k] /\ stage'[k] = "registered"
      BY <2>2, <2>5 DEF Register, TypeOK
    <3> QED BY <2>3, <3>1
  <2>6. CASE j = k /\ SendSnapshot(k)
    <3>1. UNCHANGED open /\ stage[k] = "registered"
      BY <2>6 DEF SendSnapshot, Put
    <3>2. k \in room
      BY <2>2, <3>1 DEF RoomsKnown
    <3>3. buf'[k] = Append(buf[k], Snapshot) /\ stage'[k] = "serving"
      BY <2>2, <2>6, <3>2 DEF SendSnapshot, Put, TypeOK
    <3>4. Given(c, Snapshot)
      BY <2>1, <2>2, <3>1, <3>3 DEF Given, Connected
    <3> QED BY <2>6, <3>1, <3>3, <3>4 DEF ClientStep
  <2>7. CASE j = k /\ (HandlerEnds(k) \/ ProxyTimesOut(k) \/ Disconnect(k))
    <3>1. ~open'[k]
      BY <2>2, <2>7 DEF HandlerEnds, ProxyTimesOut, Disconnect, Unregister, TypeOK
    <3> QED BY <2>2, <3>1
  <2> QED BY <1>9, <2>4, <2>5, <2>6, <2>7 DEF ServeStep
<1>10. ASSUME NEW d \in Clients, Connect(d)
       PROVE  ClientStep(c)
  <2>1. PICK j \in Conns :
          /\ Unused(j, d)
          /\ socket' = [socket EXCEPT ![d] = j]
          /\ stage' = [stage EXCEPT ![j] = "dialing"]
          /\ open' = [open EXCEPT ![j] = TRUE]
          /\ buf' = [buf EXCEPT ![j] = <<>>]
    BY <1>10 DEF Connect
  <2>2. CASE d = c
    <3>1. buf'[socket'[c]] = <<>> /\ stage'[socket'[c]] = "dialing"
      BY <2>1, <2>2 DEF TypeOK
    <3> QED BY <1>10, <2>2, <3>1 DEF ClientStep
  <2>3. CASE d # c
    <3>1. socket'[c] = k /\ k \in Conns /\ k # None /\ open'[k] /\ k # j
      BY <1>1, <2>1, <2>3 DEF TypeOK, Unused
    <3>2. open'[k] = open[k] /\ buf'[k] = buf[k] /\ stage'[k] = stage[k]
      BY <2>1, <3>1 DEF TypeOK
    <3>3. UNCHANGED <<syncing[c], pending[c]>>
      <4>1. /\ syncing' = [syncing EXCEPT ![d] = TRUE]
            /\ pending' = [pending EXCEPT ![d] = <<>>]
        BY <1>10 DEF Connect
      <4> QED BY <4>1, <2>3 DEF TypeOK
    <3>4. UNCHANGED <<asking[c], answer[c]>>
      <4>1. /\ asking' = [asking EXCEPT ![d] = "no"]
            /\ answer' = [answer EXCEPT ![d] = NoSeats]
        BY <1>10 DEF Connect
      <4> QED BY <4>1, <2>3 DEF TypeOK
    <3>5. UNCHANGED missed[c]
      <4>1. missed' = [missed EXCEPT ![d] = {}]
        BY <1>10 DEF Connect
      <4> QED BY <4>1, <2>3 DEF TypeOK
    <3>6. UNCHANGED shown[c]
      BY <1>10 DEF Connect
    <3> QED BY <3>1, <3>2, <3>3, <3>4, <3>5, <3>6 DEF Untouched, Connected, ClientStep
  <2> QED BY <2>2, <2>3
<1>11. ASSUME NEW d \in Clients \ {c},
              Listen(d) \/ ReadSeats(d) \/ Synchronized(d) \/ HoldRefused(d)
       PROVE  ClientStep(c)
  <2>1. UNCHANGED <<socket, stage, open, missed>>
    BY <1>11 DEF Listen, ReadSeats, Synchronized, HoldRefused, conns, history
  <2>2. k \in Conns /\ k # None /\ open[k]
    BY <1>1, <2>1
  <2>3. buf'[k] = buf[k]
    <3>1. CASE Listen(d)
      <4>1. k # socket[d]
        BY <1>11, <2>2 DEF OwnConnections
      <4> QED BY <2>2, <3>1, <4>1 DEF Listen, TypeOK
    <3> QED BY <1>11, <3>1 DEF ReadSeats, Synchronized, HoldRefused, conns
  <2>4. UNCHANGED <<syncing[c], pending[c], asking[c], answer[c], shown[c]>>
    <3>1. CASE Listen(d)
      BY <1>11, <3>1 DEF Listen, Synchronize, TypeOK
    <3>2. CASE ReadSeats(d) \/ Synchronized(d) \/ HoldRefused(d)
      BY <1>11, <3>2 DEF ReadSeats, Synchronized, HoldRefused, Synchronize, TypeOK
    <3> QED BY <1>11, <3>1, <3>2
  <2> QED BY <2>1, <2>2, <2>3, <2>4 DEF Untouched, Connected, ClientStep
<1>12. ASSUME NEW d \in Clients, SynchronizeFails(d)
       PROVE  ClientStep(c)
  <2>1. UNCHANGED <<socket, stage, buf, missed, pending, shown>>
    BY <1>12 DEF SynchronizeFails, history
  <2>2. k \in Conns /\ k # None /\ open'[k]
    BY <1>1, <2>1
  <2>3. k # socket[d]
    BY <1>12, <2>2 DEF SynchronizeFails, TypeOK
  <2>4. open'[k] = open[k]
    BY <1>12, <2>2, <2>3 DEF SynchronizeFails, TypeOK
  <2>5. UNCHANGED <<syncing[c], asking[c], answer[c]>>
    <3>1. c # d
      BY <2>3
    <3> HIDE DEF k
    <3> QED BY <1>12, <3>1 DEF SynchronizeFails, TypeOK
  <2> QED BY <2>1, <2>2, <2>4, <2>5 DEF Untouched, Connected, ClientStep
<1>13. CASE Listen(c) \/ ReadSeats(c) \/ Synchronized(c) \/ HoldRefused(c)
  BY <1>13 DEF ClientStep
<1> QED BY <1>3, <1>4, <1>6, <1>7, <1>8, <1>9, <1>10, <1>11, <1>12, <1>13
        DEF Next, HubStep, ViewStep

LEMMA SyncingStep ==
    ASSUME TypeOK, TypeOK', RoomsKnown, MessagesKnown, OwnConnections, SyncingKnown,
           [Next]_vars
    PROVE  SyncingKnown'
<1>1. ASSUME NEW c \in Clients
      PROVE  (asking[c] # "no" => syncing[c])'
  <2>1. asking[c] # "no" => syncing[c]
    BY DEF SyncingKnown
  <2>2. CASE UNCHANGED <<asking[c], syncing[c]>>
    BY <2>1, <2>2
  <2>3. CASE asking'[c] = "no" \/ syncing'[c]
    BY <2>3
  <2>4. CASE UNCHANGED vars
    BY <2>2, <2>4 DEF vars, views
  <2>5. CASE (\E h \in Claims : Commit(h)) \/ (\E e \in Event : PublishSeatEvent(e))
    BY <2>2, <2>5 DEF Commit, PublishSeatEvent, views
  <2>6. CASE Receive \/ SubscriptionEnds \/ \E k \in Conns : Send(k)
    BY <2>2, <2>6 DEF Receive, Send, SubscriptionEnds, views
  <2>7. CASE Crash \/ Panic
    BY <2>3, <2>7 DEF Crash, Panic, Restart
  <2>8. CASE \E k \in Conns : ServeStep(k) \/ Disconnect(k)
    BY <2>2, <2>8 DEF ServeStep, Register, SendSnapshot, HandlerEnds, ProxyTimesOut,
                      Disconnect, views
  <2>9. ASSUME NEW d \in Clients, ViewStep(d) \/ SynchronizeFails(d) \/ HoldRefused(d)
        PROVE  (asking[c] # "no" => syncing[c])'
    <3>1. \/ UNCHANGED <<asking, syncing>>
          \/ asking' = [asking EXCEPT ![d] = "no"] /\ UNCHANGED syncing
          \/ asking' = [asking EXCEPT ![d] = "no"] /\ \E b : syncing' = [syncing EXCEPT ![d] = b]
          \/ asking' = [asking EXCEPT ![d] = "asked"] /\ syncing' = [syncing EXCEPT ![d] = TRUE]
          \/ asking[d] = "asked" /\ asking' = [asking EXCEPT ![d] = "answered"]
             /\ UNCHANGED syncing
      BY <2>9 DEF ViewStep, Connect, Listen, ReadSeats, Synchronized, SynchronizeFails,
                  HoldRefused, Synchronize
    <3>2. CASE c # d
      BY <2>2, <3>1, <3>2 DEF TypeOK
    <3>3. CASE c = d
      BY <2>1, <3>1, <3>3 DEF TypeOK
    <3> QED BY <3>2, <3>3
  <2> QED BY <2>4, <2>5, <2>6, <2>7, <2>8, <2>9 DEF Next, HubStep
<1>2. ASSUME NEW c \in Clients, Connected(c)'
      PROVE  (/\ ~syncing[c] \/ stage[socket[c]] = "dialing" => pending[c] = <<>>
              /\ Reading(c) /\ asking[c] = "no" => ~syncing[c])'
  <2> DEFINE k == socket[c]
             Buffers == ~syncing[c] \/ stage[k] = "dialing" => pending[c] = <<>>
             Syncs == Reading(c) /\ asking[c] = "no" => ~syncing[c]
  <2>1. ClientStep(c)
    BY <1>2, ClientSteps
  <2>2. asking[c] # "no" => syncing[c]
    BY DEF SyncingKnown
  <2>3. Connected(c) => Buffers /\ Syncs
    BY DEF SyncingKnown
  <2>4. k \in Conns => buf[k] \in Seq(Message)
    BY DEF TypeOK
  <2>5. Connected(c) => k \in Conns
    BY DEF Connected, TypeOK
  <2>6. SUFFICES Buffers' /\ Syncs'
    OBVIOUS
  <2>7. CASE Untouched(c)
    <3>1. /\ Connected(c) /\ UNCHANGED <<syncing[c], pending[c], asking[c]>>
          /\ socket'[c] = k /\ buf'[k] = buf[k] /\ stage'[k] \in {stage[k], "registered"}
      BY <2>7 DEF Untouched
    <3>2. Reading(c)' => Reading(c)
      BY <3>1, ReadingIsPlain
    <3> QED BY <2>3, <3>1, <3>2
  <2>8. CASE Send(k) /\ Given(c, cast.event) /\ UNCHANGED stage
    <3>1. cast.event \in Message
      BY <2>8, QueuesOfMessages DEF Send, MessagesKnown
    <3>2. /\ Connected(c) /\ UNCHANGED <<syncing[c], pending[c], asking[c], stage>>
          /\ socket'[c] = k /\ buf'[k] = Append(buf[k], cast.event)
      BY <2>8 DEF Given, views
    <3>3. Reading(c)' => Reading(c)
      <4>1. Plain(Append(buf[k], cast.event)) => Plain(buf[k])
        BY <2>4, <2>5, <3>1, <3>2, PlainQueues
      <4> QED BY <3>2, <4>1, ReadingIsPlain
    <3> QED BY <2>3, <3>2, <3>3
  <2>9. CASE Given(c, Snapshot) /\ stage[k] = "registered" /\ stage'[k] = "serving"
    <3>1. /\ Connected(c) /\ UNCHANGED <<syncing[c], pending[c], asking[c]>>
          /\ socket'[c] = k /\ buf'[k] = Append(buf[k], Snapshot)
      BY <2>9 DEF Given, views
    <3>2. ~Reading(c)'
      <4>1. ~Plain(Append(buf[k], Snapshot))
        BY <2>4, <2>5, <3>1, PlainQueues, QueuesOfMessages
      <4> QED BY <3>1, <4>1, ReadingIsPlain
    <3> QED BY <2>3, <2>9, <3>1, <3>2
  <2>10. CASE Connect(c) /\ stage'[socket'[c]] = "dialing"
    <3>1. pending'[c] = <<>>
      BY <2>10 DEF Connect, TypeOK
    <3>2. ~Reading(c)'
      BY <2>10, ReadingIsPlain
    <3> QED BY <3>1, <3>2
  <2>11. CASE Listen(c)
    <3>1. /\ Connected(c) /\ stage[k] = "serving" /\ buf[k] # <<>> /\ UNCHANGED <<stage, socket>>
          /\ buf' = [buf EXCEPT ![k] = Tail(@)]
      BY <2>11 DEF Listen
    <3>2. buf'[k] = Tail(buf[k])
      BY <2>5, <3>1 DEF TypeOK
    <3>3. CASE Head(buf[k]) = Snapshot
      <4>1. syncing'[c] /\ asking'[c] = "asked"
        BY <2>11, <3>3 DEF Listen, Synchronize, TypeOK
      <4> QED BY <3>1, <4>1
    <3>4. CASE Head(buf[k]) # Snapshot
      <4>1. UNCHANGED <<syncing, asking>> /\ (~syncing[c] => UNCHANGED pending)
        BY <2>11, <3>4 DEF Listen
      <4>2. Reading(c)' => Reading(c)
        BY <2>4, <2>5, <3>1, <3>2, <3>4, PlainQueues, ReadingIsPlain
      <4> QED BY <2>3, <3>1, <4>1, <4>2
    <3> QED BY <3>3, <3>4
  <2>12. CASE ReadSeats(c)
    <3>1. UNCHANGED <<syncing, pending, stage, socket, open>> /\ asking'[c] = "answered"
      BY <2>12 DEF ReadSeats, conns, TypeOK
    <3>2. Connected(c)
      BY <1>2, <3>1 DEF Connected
    <3> QED BY <2>3, <3>1, <3>2
  <2>13. CASE Synchronized(c)
    <3>1. pending'[c] = <<>> /\ ~syncing'[c]
      BY <2>13 DEF Synchronized, TypeOK
    <3> QED BY <3>1
  <2>14. CASE HoldRefused(c)
    <3>1. UNCHANGED <<pending, stage, socket, open>> /\ asking'[c] = "asked" /\ syncing'[c]
      BY <2>14 DEF HoldRefused, Synchronize, conns, TypeOK
    <3>2. Connected(c)
      BY <1>2, <3>1 DEF Connected
    <3> QED BY <2>3, <3>1, <3>2
  <2> QED BY <2>1, <2>7, <2>8, <2>9, <2>10, <2>11, <2>12, <2>13, <2>14 DEF ClientStep
<1> QED BY <1>1, <1>2 DEF SyncingKnown

-----------------------------------------------------------------------------
(* The order of the messages *)

\* Commits do not change what the messages under way name.
LEMMA CommitNames ==
    ASSUME TypeOK, OwnersKnown, NEW h \in Claims, Commit(h)
    PROVE  /\ \A m \in Message : Granted(m) => \A s : Names(m, s)' <=> Names(m, s)
           /\ \A q \in Seq(Message) : AllGranted(q) =>
                \A s : /\ Mentions(q, s)' <=> Mentions(q, s)
                       /\ \A v : LastSays(q, s, v)' <=> LastSays(q, s, v)
<1>1. ASSUME NEW m \in Message, Granted(m), NEW s
      PROVE  Names(m, s)' <=> Names(m, s)
  <2>1. CASE m = Snapshot
    BY <2>1 DEF Names
  <2>2. CASE m # Snapshot
    <3>1. m.claim \in Claims /\ life[m.claim] # "new"
      BY <1>1, <2>2 DEF Message, Event, Granted
    <3>2. claimed'[m.claim] = claimed[m.claim]
      BY <3>1, CommitKinds
    <3> QED BY <3>2 DEF Names, SeatsOf
  <2> QED BY <2>1, <2>2
<1>2. ASSUME NEW q \in Seq(Message), AllGranted(q), NEW s
      PROVE  /\ Mentions(q, s)' <=> Mentions(q, s)
             /\ \A v : LastSays(q, s, v)' <=> LastSays(q, s, v)
  <2>1. \A i \in DOMAIN q : Names(q[i], s)' <=> Names(q[i], s)
    <3>1. \A i \in DOMAIN q : q[i] \in Message /\ Granted(q[i])
      BY <1>2, LenProperties DEF AllGranted
    <3> QED BY <3>1, <1>1
  <2>2. \A m : Tells(m)' = Tells(m)
    BY DEF Tells
  <2> QED BY <2>1, <2>2 DEF Mentions, LastSays
<1> QED BY <1>1, <1>2

LEMMA ChannelStep ==
    ASSUME TypeOK, TypeOK', OwnersKnown, MessagesKnown, ChannelInOrder, [Next]_vars
    PROVE  ChannelInOrder'
<1> SUFFICES ASSUME NEW s \in Seats
             PROVE  (/\ LastSays(channel, s, told[s])
                     /\ cast.left # {} /\ Names(cast.event, s) /\ ~Mentions(channel, s) =>
                          Tells(cast.event) = told[s])'
  BY DEF ChannelInOrder
<1>1. /\ LastSays(channel, s, told[s])
      /\ cast.left # {} /\ Names(cast.event, s) /\ ~Mentions(channel, s) =>
           Tells(cast.event) = told[s]
  BY DEF ChannelInOrder
<1>2. channel \in Seq(Message) /\ (cast.left # {} => cast.event \in Message)
  BY QueuesOfMessages DEF TypeOK, MessagesKnown
<1>3. \A m : Tells(m)' = Tells(m)
  BY DEF Tells
<1>4. ASSUME UNCHANGED <<claimed, channel, told>>, cast' = cast
      PROVE  (/\ LastSays(channel, s, told[s])
              /\ cast.left # {} /\ Names(cast.event, s) /\ ~Mentions(channel, s) =>
                   Tells(cast.event) = told[s])'
  BY <1>1, <1>3, <1>4, NamesSame
<1>5. CASE UNCHANGED vars
  BY <1>4, <1>5 DEF vars, db, hub, history
<1>6. ASSUME NEW h \in Claims, Commit(h)
      PROVE  (/\ LastSays(channel, s, told[s])
              /\ cast.left # {} /\ Names(cast.event, s) /\ ~Mentions(channel, s) =>
                   Tells(cast.event) = told[s])'
  <2>1. UNCHANGED <<channel, told>> /\ cast' = cast
    BY <1>6 DEF Commit, hub, history
  <2>2. AllGranted(channel) /\ (cast.left # {} => Granted(cast.event))
    BY DEF MessagesKnown
  <2> QED BY <1>1, <1>2, <1>3, <1>6, <2>1, <2>2, CommitNames
<1>7. ASSUME NEW e \in Event, PublishSeatEvent(e)
      PROVE  (/\ LastSays(channel, s, told[s])
              /\ cast.left # {} /\ Names(cast.event, s) /\ ~Mentions(channel, s) =>
                   Tells(cast.event) = told[s])'
  <2>1. UNCHANGED claimed /\ cast' = cast
    BY <1>7 DEF PublishSeatEvent, db
  <2>2. CASE Unheard(e)
    BY <1>4, <2>1, <2>2 DEF Unheard
  <2>3. CASE Published(e)
    <3>1. channel' = Append(channel, e) /\ e \in Message
      BY <2>3, QueuesOfMessages DEF Published
    <3>2. (s \in SeatsOf(e) <=> Names(e, s))
      BY QueuesOfMessages DEF Names
    <3>3. told'[s] = IF Names(e, s) THEN Tells(e) ELSE told[s]
      BY <2>3, <3>2 DEF Published
    <3>4. LastSays(Append(channel, e), s, told'[s])
      BY <1>1, <1>2, <3>1, <3>3, JoinedSays
    <3>5. Mentions(Append(channel, e), s) <=> Mentions(channel, s) \/ Names(e, s)
      BY <1>2, <3>1, JoinedMentions
    <3> QED BY <1>1, <1>3, <2>1, <3>1, <3>3, <3>4, <3>5, NamesSame
  <2> QED BY <1>7, <2>2, <2>3 DEF PublishSeatEvent
<1>8. CASE Receive
  <2>1. UNCHANGED <<claimed, told>> /\ channel' = Tail(channel) /\ channel # <<>>
    BY <1>8 DEF Receive, db, history
  <2>2. cast'.left # {} => cast'.event = Head(channel)
    BY <1>8 DEF Receive, CastTo, NoCast
  <2>3. /\ LastSays(Tail(channel), s, told[s])
        /\ Names(Head(channel), s) /\ ~Mentions(Tail(channel), s) =>
             Tells(Head(channel)) = told[s]
    BY <1>1, <1>2, <2>1, TakenSays
  <2> QED BY <1>3, <2>1, <2>2, <2>3, NamesSame
<1>9. ASSUME NEW k \in Conns, Send(k)
      PROVE  (/\ LastSays(channel, s, told[s])
              /\ cast.left # {} /\ Names(cast.event, s) /\ ~Mentions(channel, s) =>
                   Tells(cast.event) = told[s])'
  <2>1. UNCHANGED <<claimed, channel, told>> /\ cast.left # {}
    BY <1>9 DEF Send, db, history
  <2>2. cast'.left # {} => cast'.event = cast.event
    BY <1>9 DEF Send, CastTo, NoCast
  <2> QED BY <1>1, <1>3, <2>1, <2>2, NamesSame
<1>10. CASE SubscriptionEnds
  <2>1. UNCHANGED <<claimed, told>> /\ channel' = <<>> /\ cast.left = {} /\ cast' = cast
    BY <1>10 DEF SubscriptionEnds, NoCast, db
  <2> QED BY <2>1, NothingMentioned, NamesSame
<1>11. CASE Crash \/ Panic
  <2>1. UNCHANGED <<claimed, told>> /\ channel' = <<>> /\ cast'.left = {}
    BY <1>11 DEF Crash, Panic, Restart, NoCast, db
  <2> QED BY <2>1, NothingMentioned, NamesSame
<1>12. CASE \E k \in Conns : ServeStep(k) \/ Disconnect(k)
  <2>1. UNCHANGED <<claimed, channel, told>> /\ cast' = cast
    BY <1>12 DEF ServeStep, Register, SendSnapshot, HandlerEnds, ProxyTimesOut, Disconnect,
                 db, hub, history
  <2> QED BY <1>4, <2>1
<1>13. CASE \E c \in Clients : ViewStep(c) \/ SynchronizeFails(c) \/ HoldRefused(c)
  <2>1. UNCHANGED <<claimed, channel, told>> /\ cast' = cast
    BY <1>13 DEF ViewStep, Connect, Listen, ReadSeats, Synchronized, SynchronizeFails,
                 HoldRefused, db, hub, history
  <2> QED BY <1>4, <2>1
<1> QED BY <1>5, <1>6, <1>7, <1>8, <1>9, <1>10, <1>11, <1>12, <1>13 DEF Next, HubStep

-----------------------------------------------------------------------------
(* What the clients follow *)

LEMMA SeenSame == ASSUME UNCHANGED db
    PROVE  /\ claimed' = claimed
           /\ \A s : Seen(s)' = Seen(s)
           /\ \A e : SeatsOf(e)' = SeatsOf(e)
BY DEF db, Seen, SeatsOf

\* A status is followed as long as the seat, the feed of it and the events to come stay.
LEMMA FollowsStays ==
    ASSUME UNCHANGED <<db, unsent>>, NEW c, NEW s, NEW v, told'[s] = told[s],
           OnTheWay(c, s) => OnTheWay(c, s)',
           Mentions(pending[c], s) => OnTheWay(c, s)' \/ Mentions(pending[c], s)',
           Follows(c, s, v)
    PROVE  Follows(c, s, v)'
<1>1. UNCHANGED db /\ UNCHANGED unsent
  OBVIOUS
<1>2. Seen(s)' = Seen(s) /\ \A e : SeatsOf(e)' = SeatsOf(e)
  BY <1>1, SeenSame
<1> QED BY <1>1, <1>2 DEF Follows

\* A client to which nothing happened, in a step that changes what is about to reach it.
LEMMA UntouchedFollows ==
    ASSUME FeedInv, TypeOK', [Next]_vars, NEW c \in Clients, Connected(c)', Untouched(c),
           NEW s \in Seats \ missed'[c]
    PROVE  QueuesInOrder(c, s)' /\ ViewFollows(c, s)'
<1> DEFINE k == socket[c]
<1>1. /\ Connected(c) /\ k \in Conns /\ k # None /\ open'[k]
      /\ socket'[c] = k /\ buf'[k] = buf[k] /\ UNCHANGED <<pending[c], asking[c], answer[c], shown[c]>>
      /\ stage'[k] \in {stage[k], "registered"}
      /\ s \notin missed[c]
  BY DEF Untouched, Connected, FeedInv, TypeOK
<1>2. QueuesInOrder(c, s) /\ ViewFollows(c, s)
  BY <1>1 DEF FeedInv, ClientsFollow
<1>3. Reading(c)' => Reading(c)
  BY <1>1, ReadingIsPlain
<1>4. /\ channel \in Seq(Message) /\ (cast.left # {} => cast.event \in Message)
      /\ buf[k] \in Seq(Message) /\ pending[c] \in Seq(Message)
  BY <1>1, QueuesOfMessages DEF FeedInv, TypeOK, MessagesKnown
<1> HIDE DEF k
<1>5. ASSUME UNCHANGED <<db, unsent>>, channel' = channel, told'[s] = told[s],
             BeingSent(c, s)' <=> BeingSent(c, s)
      PROVE  QueuesInOrder(c, s)' /\ ViewFollows(c, s)'
  <2>1. claimed' = claimed
    BY <1>5 DEF db
  <2>2. /\ Mentions(channel, s)' <=> Mentions(channel, s)
        /\ Mentions(buf[socket[c]], s)' <=> Mentions(buf[socket[c]], s)
        /\ Mentions(pending[c], s)' <=> Mentions(pending[c], s)
        /\ LastSays(buf[socket[c]], s, told[s])' <=> LastSays(buf[socket[c]], s, told[s])
        /\ LastSays(pending[c], s, told[s])' <=> LastSays(pending[c], s, told[s])
    BY <1>1, <1>5, <2>1, NamesSame DEF k
  <2>3. OnTheWay(c, s)' <=> OnTheWay(c, s)
    BY <1>5, <2>2 DEF OnTheWay
  <2>4. QueuesInOrder(c, s)'
    BY <1>2, <1>5, <2>2, <2>3 DEF QueuesInOrder
  <2>5. \A v : Follows(c, s, v) => Follows(c, s, v)'
    BY <1>5, <2>2, <2>3, FollowsStays
  <2> QED BY <1>1, <1>2, <1>3, <2>4, <2>5 DEF ViewFollows
<1>6. ASSUME NEW h \in Claims, Commit(h)
      PROVE  QueuesInOrder(c, s)' /\ ViewFollows(c, s)'
  <2>1. UNCHANGED <<channel, told>> /\ cast' = cast
    BY <1>6 DEF Commit, hub, history
  <2>2. TypeOK /\ OwnersKnown /\ MessagesKnown
    BY DEF FeedInv
  <2>3. /\ AllGranted(channel) /\ AllGranted(buf[k]) /\ AllGranted(pending[c])
        /\ cast.left # {} => Granted(cast.event)
        /\ \A e \in unsent : Granted(e) /\ e \in Event
    BY <1>1, <2>2 DEF MessagesKnown, TypeOK
  <2>4. /\ Mentions(channel, s)' <=> Mentions(channel, s)
        /\ Mentions(buf[socket[c]], s)' <=> Mentions(buf[socket[c]], s)
        /\ Mentions(pending[c], s)' <=> Mentions(pending[c], s)
        /\ LastSays(buf[socket[c]], s, told[s])' <=> LastSays(buf[socket[c]], s, told[s])
        /\ LastSays(pending[c], s, told[s])' <=> LastSays(pending[c], s, told[s])
    BY <1>1, <1>4, <1>6, <2>1, <2>2, <2>3, CommitNames DEF k
  <2>5. BeingSent(c, s)' <=> BeingSent(c, s)
    BY <1>1, <1>4, <1>6, <2>1, <2>2, <2>3, CommitNames DEF k, BeingSent
  <2>6. OnTheWay(c, s)' <=> OnTheWay(c, s)
    BY <2>4, <2>5 DEF OnTheWay
  <2>7. QueuesInOrder(c, s)'
    BY <1>2, <2>4, <2>5, <2>6 DEF QueuesInOrder
  <2>8. ASSUME NEW v, Follows(c, s, v)
        PROVE  Follows(c, s, v)'
    <3>1. PICK type \in {"locked", "released", "booked"} : Owes(type, h)
      BY <1>6, <2>2, CommitKinds
    <3>2. v # None
      BY <2>8 DEF Follows
    <3>3. CASE s \in claimed'[h]
      <4>1. [type |-> type, claim |-> h] \in unsent'
        BY <3>1 DEF Owes
      <4>2. s \in SeatsOf([type |-> type, claim |-> h])'
        BY <3>3 DEF SeatsOf
      <4> QED BY <3>2, <4>1, <4>2 DEF Follows
    <3>4. CASE s \notin claimed'[h]
      <4>1. Seen(s)' = Seen(s)
        <5>1. owner'[s] = owner[s] /\ owner[s] # h /\ owner[s] \in Claims \cup {None}
          BY <1>6, <2>2, <3>4, CommitKinds DEF TypeOK
        <5>2. owner[s] # None => life'[owner[s]] = life[owner[s]]
          BY <1>6, <2>2, <5>1, CommitKinds
        <5> QED BY <5>1, <5>2 DEF Seen
      <4>2. ASSUME NEW e \in unsent, s \in SeatsOf(e)
            PROVE  e \in unsent' /\ s \in SeatsOf(e)'
        <5>1. e \in unsent'
          BY <3>1 DEF Owes
        <5>2. e \in Message /\ Granted(e) /\ e # Snapshot
          BY <2>3, QueuesOfMessages
        <5>3. Names(e, s)' <=> Names(e, s)
          BY <1>6, <2>2, <5>2, CommitNames
        <5> QED BY <4>2, <5>1, <5>2, <5>3 DEF Names
      <4> QED BY <2>1, <2>4, <2>6, <2>8, <4>1, <4>2 DEF Follows
    <3> QED BY <3>3, <3>4
  <2> QED BY <1>1, <1>2, <1>3, <2>7, <2>8 DEF ViewFollows
<1>7. ASSUME NEW e \in Event, PublishSeatEvent(e)
      PROVE  QueuesInOrder(c, s)' /\ ViewFollows(c, s)'
  <2>1. UNCHANGED db /\ claimed' = claimed /\ cast' = cast /\ unsent' = unsent \ {e}
    BY <1>7 DEF PublishSeatEvent, db
  <2>2. e \in Message /\ (Names(e, s) <=> s \in SeatsOf(e))
    BY QueuesOfMessages DEF Names
  <2>3. ~Names(e, s) \/ Published(e)
    <3>1. CASE Unheard(e)
      <4>1. missed'[c] = missed[c] \cup SeatsOf(e)
        BY <1>1, <3>1 DEF Unheard, Miss
      <4> QED BY <2>2, <4>1
    <3> QED BY <1>7, <3>1 DEF PublishSeatEvent
  <2>4. CASE Names(e, s)
    <3>1. channel' = Append(channel, e)
      BY <2>3, <2>4 DEF Published
    <3>2. Mentions(channel, s)'
      BY <1>4, <2>1, <2>2, <2>4, <3>1, JoinedMentions, NamesSame
    <3>3. \A v : Follows(c, s, v) => Follows(c, s, v)'
      BY <3>2 DEF Follows, OnTheWay
    <3> QED BY <1>1, <1>2, <1>3, <3>2, <3>3 DEF QueuesInOrder, OnTheWay, ViewFollows
  <2>5. CASE ~Names(e, s)
    <3>1. told'[s] = told[s]
      BY <1>7, <2>2, <2>5 DEF PublishSeatEvent, Published, Unheard
    <3>2. Mentions(channel, s)' <=> Mentions(channel, s)
      <4>1. channel' = Append(channel, e) \/ channel' = channel
        BY <1>7 DEF PublishSeatEvent, Published, Unheard
      <4>2. Mentions(Append(channel, e), s) <=> Mentions(channel, s)
        BY <1>4, <2>2, <2>5, JoinedMentions
      <4> QED BY <2>1, <4>1, <4>2, NamesSame
    <3>3. BeingSent(c, s)' <=> BeingSent(c, s)
      BY <1>1, <2>1, NamesSame DEF BeingSent, k
    <3>4. /\ Mentions(buf[socket[c]], s)' <=> Mentions(buf[socket[c]], s)
          /\ Mentions(pending[c], s)' <=> Mentions(pending[c], s)
          /\ LastSays(buf[socket[c]], s, told[s])' <=> LastSays(buf[socket[c]], s, told[s])
          /\ LastSays(pending[c], s, told[s])' <=> LastSays(pending[c], s, told[s])
      BY <1>1, <2>1, <3>1, NamesSame DEF k
    <3>5. OnTheWay(c, s)' <=> OnTheWay(c, s)
      BY <3>2, <3>3, <3>4 DEF OnTheWay
    <3>6. QueuesInOrder(c, s)'
      BY <1>2, <3>2, <3>3, <3>4, <3>5 DEF QueuesInOrder
    <3>7. Seen(s)' = Seen(s) /\ \A f : SeatsOf(f)' = SeatsOf(f)
      BY <2>1, SeenSame
    <3>8. \A f \in unsent : s \in SeatsOf(f) => f \in unsent'
      BY <2>1, <2>2, <2>5
    <3>9. \A v : Follows(c, s, v) => Follows(c, s, v)'
      BY <3>1, <3>4, <3>5, <3>7, <3>8 DEF Follows
    <3> QED BY <1>1, <1>2, <1>3, <3>6, <3>9 DEF ViewFollows
  <2> QED BY <2>4, <2>5
<1>8. CASE Receive
  <2>1. /\ UNCHANGED <<db, unsent>> /\ UNCHANGED <<told, stage>> /\ claimed' = claimed
        /\ channel # <<>> /\ channel' = Tail(channel) /\ cast.left = {}
        /\ cast' = CastTo(Head(channel), room)
    BY <1>8 DEF Receive, db, conns, history, NoCast
  <2>2. Mentions(channel, s) <=> Names(Head(channel), s) \/ Mentions(Tail(channel), s)
    BY <1>4, <2>1, TakenMentions
  <2>3. ~BeingSent(c, s)
    BY <2>1 DEF BeingSent
  <2>4. BeingSent(c, s)' <=> k \in room /\ Names(Head(channel), s)
    <3>1. k \in room => cast' = [event |-> Head(channel), left |-> room]
      BY <2>1 DEF CastTo
    <3>2. cast'.left = room
      BY <2>1 DEF CastTo, NoCast
    <3>3. BeingSent(c, s)' <=> k \in cast'.left /\ Names(cast'.event, s)
      BY <1>1, <2>1, NamesSame DEF BeingSent
    <3> QED BY <3>1, <3>2, <3>3
  <2>5. k \notin room => buf[k] = <<>> /\ pending[c] = <<>> /\ ~Reading(c)
    <3>1. RoomsKnown /\ SyncingKnown /\ TypeOK
      BY DEF FeedInv
    <3>2. open[k]
      BY <1>1 DEF Connected, k
    <3>3. k \notin room => stage[k] = "dialing"
      BY <1>1, <3>1, <3>2 DEF RoomsKnown, TypeOK
    <3> QED BY <1>1, <3>1, <3>3, ReadingIsPlain DEF RoomsKnown, SyncingKnown, k
  <2>6. /\ Mentions(channel, s)' <=> Mentions(Tail(channel), s)
        /\ Mentions(buf[socket[c]], s)' <=> Mentions(buf[socket[c]], s)
        /\ Mentions(pending[c], s)' <=> Mentions(pending[c], s)
        /\ LastSays(buf[socket[c]], s, told[s])' <=> LastSays(buf[socket[c]], s, told[s])
        /\ LastSays(pending[c], s, told[s])' <=> LastSays(pending[c], s, told[s])
    BY <1>1, <2>1, NamesSame DEF k
  <2>7. CASE k \notin room
    <3>1. /\ LastSays(buf[socket[c]], s, told[s]) /\ LastSays(pending[c], s, told[s])
      BY <2>5, <2>7, NothingMentioned DEF k
    <3>2. QueuesInOrder(c, s)'
      BY <2>6, <3>1 DEF QueuesInOrder
    <3> QED BY <1>3, <2>5, <2>7, <3>2 DEF ViewFollows
  <2>8. CASE k \in room
    <3>1. OnTheWay(c, s)' <=> OnTheWay(c, s)
      BY <2>2, <2>3, <2>4, <2>6, <2>8 DEF OnTheWay
    <3>2. Mentions(channel, s)' \/ BeingSent(c, s)' <=> Mentions(channel, s) \/ BeingSent(c, s)
      BY <2>2, <2>3, <2>4, <2>6, <2>8
    <3>3. QueuesInOrder(c, s)'
      BY <1>2, <2>6, <3>1, <3>2 DEF QueuesInOrder
    <3>4. \A v : Follows(c, s, v) => Follows(c, s, v)'
      BY <2>1, <2>6, <3>1, FollowsStays
    <3> QED BY <1>1, <1>2, <1>3, <3>3, <3>4 DEF ViewFollows
  <2> QED BY <2>7, <2>8
<1>9. CASE SubscriptionEnds
  <2>1. /\ UNCHANGED <<db, unsent>> /\ UNCHANGED told /\ claimed' = claimed
        /\ channel' = <<>> /\ cast' = cast
        /\ missed'[c] = missed[c] \cup SeatsIn(channel)
    BY <1>1, <1>9 DEF SubscriptionEnds, db, Miss
  <2>2. ~Mentions(channel, s)
    BY <2>1 DEF Mentions, Names, SeatsIn
  <2>3. ~Mentions(channel, s)'
    BY <2>1, NothingMentioned, NamesSame
  <2>4. BeingSent(c, s)' <=> BeingSent(c, s)
    BY <1>1, <2>1, NamesSame DEF BeingSent, k
  <2>5. /\ Mentions(buf[socket[c]], s)' <=> Mentions(buf[socket[c]], s)
        /\ Mentions(pending[c], s)' <=> Mentions(pending[c], s)
        /\ LastSays(buf[socket[c]], s, told[s])' <=> LastSays(buf[socket[c]], s, told[s])
        /\ LastSays(pending[c], s, told[s])' <=> LastSays(pending[c], s, told[s])
    BY <1>1, <2>1, NamesSame DEF k
  <2>6. OnTheWay(c, s)' <=> OnTheWay(c, s)
    BY <2>2, <2>3, <2>4, <2>5 DEF OnTheWay
  <2>7. QueuesInOrder(c, s)'
    BY <1>2, <2>2, <2>3, <2>4, <2>5, <2>6 DEF QueuesInOrder
  <2>8. \A v : Follows(c, s, v) => Follows(c, s, v)'
    BY <2>1, <2>5, <2>6, FollowsStays
  <2> QED BY <1>1, <1>2, <1>3, <2>7, <2>8 DEF ViewFollows
<1>10. ASSUME NEW j \in Conns, Send(j)
       PROVE  QueuesInOrder(c, s)' /\ ViewFollows(c, s)'
  <2>1. /\ UNCHANGED <<db, unsent>> /\ channel' = channel /\ told' = told
        /\ cast' = CastTo(cast.event, cast.left \ {j}) /\ j \in cast.left /\ claimed' = claimed
    BY <1>10 DEF Send, db, history
  <2>2. j # k
    <3>1. SUFFICES ASSUME j = k PROVE FALSE
      OBVIOUS
    <3>2. HasRoom(k)
      BY <1>1, <1>10, <3>1 DEF Send, Offer, Unregister, FeedInv, TypeOK
    <3>3. buf'[k] = Append(buf[k], cast.event)
      BY <1>1, <1>10, <3>1, <3>2 DEF Send, Offer, Put, FeedInv, TypeOK
    <3>4. Len(Append(buf[k], cast.event)) = Len(buf[k]) + 1 /\ Len(buf[k]) \in Nat
      BY <1>4, <2>1, AppendProperties, LenProperties
    <3> QED BY <1>1, <3>3, <3>4
  <2>3. /\ k \in cast'.left <=> k \in cast.left
        /\ k \in cast.left => cast'.event = cast.event
    BY <2>1, <2>2 DEF CastTo, NoCast
  <2>4. BeingSent(c, s)' <=> BeingSent(c, s)
    BY <1>1, <2>1, <2>3, NamesSame DEF BeingSent, k
  <2> QED BY <1>5, <2>1, <2>4
<1>11. ASSUME UNCHANGED <<db, unsent>>, channel' = channel, told' = told, cast' = cast
       PROVE  QueuesInOrder(c, s)' /\ ViewFollows(c, s)'
  <2>1. claimed' = claimed
    BY <1>11 DEF db
  <2>2. BeingSent(c, s)' <=> BeingSent(c, s)
    BY <1>1, <1>11, <2>1, NamesSame DEF BeingSent, k
  <2> QED BY <1>5, <1>11, <2>2
<1>12. CASE UNCHANGED vars
  BY <1>11, <1>12 DEF vars, hub, history
<1>13. CASE Crash \/ Panic
  BY <1>1, <1>13 DEF Crash, Panic, Restart
<1>14. CASE \E j \in Conns : ServeStep(j) \/ Disconnect(j)
  <2>1. UNCHANGED <<db, unsent>> /\ channel' = channel /\ told' = told /\ cast' = cast
    BY <1>14 DEF ServeStep, Register, SendSnapshot, HandlerEnds, ProxyTimesOut, Disconnect,
                 hub, history
  <2> QED BY <1>11, <2>1
<1>15. CASE \E d \in Clients : ViewStep(d) \/ SynchronizeFails(d) \/ HoldRefused(d)
  <2>1. UNCHANGED <<db, unsent>> /\ channel' = channel /\ told' = told /\ cast' = cast
    BY <1>15 DEF ViewStep, Connect, Listen, ReadSeats, Synchronized, SynchronizeFails,
                 HoldRefused, hub, history
  <2> QED BY <1>11, <2>1
<1> QED BY <1>6, <1>7, <1>8, <1>9, <1>10, <1>12, <1>13, <1>14, <1>15 DEF Next, HubStep

LEMMA SentFollows ==
    ASSUME FeedInv, NEW c \in Clients, NEW s \in Seats \ missed'[c],
           Send(socket[c]), Given(c, cast.event), UNCHANGED stage
    PROVE  QueuesInOrder(c, s)' /\ ViewFollows(c, s)'
<1> DEFINE k == socket[c]
           m == cast.event
<1>1. /\ Connected(c) /\ k \in Conns /\ s \notin missed[c]
      /\ socket'[c] = k /\ buf'[k] = Append(buf[k], m) /\ stage'[k] = stage[k]
      /\ UNCHANGED <<pending[c], asking[c], answer[c], shown[c]>>
  BY DEF Given, views, Connected, FeedInv, TypeOK
<1>2. /\ UNCHANGED <<db, unsent>> /\ channel' = channel /\ told' = told /\ claimed' = claimed
      /\ cast' = CastTo(m, cast.left \ {k}) /\ k \in cast.left
  BY DEF Send, db, history
<1>3. QueuesInOrder(c, s) /\ ViewFollows(c, s)
  BY <1>1 DEF FeedInv, ClientsFollow
<1>4. buf[k] \in Seq(Message) /\ m \in Message
  BY <1>1, <1>2, QueuesOfMessages DEF FeedInv, TypeOK, MessagesKnown
<1>5. Names(m, s) /\ ~Mentions(channel, s) => Tells(m) = told[s]
  BY <1>2 DEF FeedInv, ChannelInOrder
<1>6. BeingSent(c, s) <=> Names(m, s)
  BY <1>2 DEF BeingSent
<1>7. ~BeingSent(c, s)'
  <2>1. k \notin cast'.left
    BY <1>2 DEF CastTo, NoCast
  <2> QED BY <1>1, <2>1 DEF BeingSent
<1> HIDE DEF m
<1>8. Mentions(buf[socket[c]], s)' <=> Mentions(buf[socket[c]], s) \/ Names(m, s)
  <2>1. Mentions(Append(buf[k], m), s) <=> Mentions(buf[k], s) \/ Names(m, s)
    BY <1>4, JoinedMentions
  <2> QED BY <1>1, <1>2, <2>1, NamesSame
<1>9. /\ Mentions(channel, s)' <=> Mentions(channel, s)
      /\ Mentions(pending[c], s)' <=> Mentions(pending[c], s)
      /\ LastSays(pending[c], s, told[s])' <=> LastSays(pending[c], s, told[s])
  BY <1>1, <1>2, NamesSame
<1>10. OnTheWay(c, s)' <=> OnTheWay(c, s)
  BY <1>6, <1>7, <1>8, <1>9 DEF OnTheWay
<1>11. ~Mentions(channel, s)' => LastSays(buf[socket[c]], s, told[s])'
  <2>1. ASSUME ~Mentions(channel, s)
        PROVE  LastSays(Append(buf[k], m), s, told[s])
    <3>1. IF Names(m, s) THEN Tells(m) = told[s] ELSE LastSays(buf[k], s, told[s])
      BY <2>1, <1>3, <1>5, <1>6 DEF QueuesInOrder
    <3> QED BY <1>4, <3>1, JoinedSays
  <2> QED BY <1>1, <1>2, <1>9, <2>1, NamesSame
<1>12. QueuesInOrder(c, s)'
  BY <1>3, <1>9, <1>10, <1>11 DEF QueuesInOrder
<1>13. Reading(c)' => Reading(c)
  <2>1. Plain(Append(buf[k], m)) => Plain(buf[k])
    BY <1>4, PlainQueues
  <2> QED BY <1>1, <2>1, ReadingIsPlain
<1>14. \A v : Follows(c, s, v) => Follows(c, s, v)'
  BY <1>2, <1>9, <1>10, FollowsStays
<1> QED BY <1>1, <1>3, <1>12, <1>13, <1>14 DEF ViewFollows

LEMMA SnapshotFollows ==
    ASSUME FeedInv, NEW c \in Clients, NEW s \in Seats \ missed'[c],
           SendSnapshot(socket[c]), Given(c, Snapshot)
    PROVE  QueuesInOrder(c, s)' /\ ViewFollows(c, s)'
<1> DEFINE k == socket[c]
<1>1. /\ Connected(c) /\ k \in Conns /\ s \notin missed[c]
      /\ socket'[c] = k /\ buf'[k] = Append(buf[k], Snapshot) /\ pending'[c] = pending[c]
  BY DEF Given, views, Connected, FeedInv, TypeOK
<1>2. channel' = channel /\ told' = told /\ claimed' = claimed /\ cast' = cast
  BY DEF SendSnapshot, db, history
<1>3. QueuesInOrder(c, s)
  BY <1>1 DEF FeedInv, ClientsFollow
<1>4. buf[k] \in Seq(Message) /\ Snapshot \in Message /\ ~Names(Snapshot, s)
  BY <1>1, QueuesOfMessages DEF FeedInv, TypeOK, Names
<1>5. Mentions(buf[socket[c]], s)' <=> Mentions(buf[socket[c]], s)
  <2>1. Mentions(Append(buf[k], Snapshot), s) <=> Mentions(buf[k], s)
    BY <1>4, JoinedMentions
  <2> QED BY <1>1, <1>2, <2>1, NamesSame
<1>6. LastSays(buf[socket[c]], s, told[s]) => LastSays(buf[socket[c]], s, told[s])'
  <2>1. LastSays(buf[k], s, told[s]) => LastSays(Append(buf[k], Snapshot), s, told[s])
    BY <1>4, JoinedSays
  <2> QED BY <1>1, <1>2, <2>1, NamesSame
<1>7. /\ Mentions(channel, s)' <=> Mentions(channel, s)
      /\ BeingSent(c, s)' <=> BeingSent(c, s)
      /\ LastSays(pending[c], s, told[s])' <=> LastSays(pending[c], s, told[s])
  BY <1>1, <1>2, NamesSame DEF BeingSent
<1>8. QueuesInOrder(c, s)'
  BY <1>3, <1>5, <1>6, <1>7 DEF QueuesInOrder, OnTheWay
<1>9. ~Reading(c)'
  <2>1. ~Plain(Append(buf[k], Snapshot))
    BY <1>4, PlainQueues
  <2> QED BY <1>1, <2>1, ReadingIsPlain
<1> QED BY <1>8, <1>9 DEF ViewFollows

LEMMA ConnectFollows ==
    ASSUME FeedInv, NEW c \in Clients, NEW s \in Seats, Connect(c),
           buf'[socket'[c]] = <<>>, stage'[socket'[c]] = "dialing"
    PROVE  QueuesInOrder(c, s)' /\ ViewFollows(c, s)'
<1>1. pending'[c] = <<>> /\ claimed' = claimed
  BY DEF Connect, FeedInv, TypeOK, db
<1>2. LastSays(buf[socket[c]], s, told[s])' /\ LastSays(pending[c], s, told[s])'
  BY <1>1, NothingMentioned, NamesSame
<1>3. ~Reading(c)'
  BY ReadingIsPlain
<1> QED BY <1>2, <1>3 DEF QueuesInOrder, ViewFollows

LEMMA ListenFollows ==
    ASSUME FeedInv, NEW c \in Clients, NEW s \in Seats \ missed'[c], Listen(c)
    PROVE  QueuesInOrder(c, s)' /\ ViewFollows(c, s)'
<1> DEFINE k == socket[c]
           m == Head(buf[k])
           t == Tail(buf[k])
<1>1. /\ Connected(c) /\ k \in Conns /\ s \notin missed[c] /\ stage[k] = "serving"
      /\ buf[k] # <<>> /\ socket' = socket /\ buf'[k] = t /\ stage' = stage /\ open' = open
  BY DEF Listen, Connected, FeedInv, TypeOK, history
<1>2. /\ UNCHANGED <<db, unsent>> /\ channel' = channel /\ told' = told /\ claimed' = claimed
      /\ cast' = cast
  BY DEF Listen, db, hub, history
<1>3. QueuesInOrder(c, s) /\ ViewFollows(c, s)
  BY <1>1 DEF FeedInv, ClientsFollow
<1>4. /\ buf[k] \in Seq(Message) /\ m \in Message /\ t \in Seq(Message)
      /\ pending[c] \in Seq(Message) /\ shown[c] \in SeatMap
  BY <1>1, TakenHead, QueuesOfMessages DEF FeedInv, TypeOK
<1>5. Mentions(buf[k], s) <=> Names(m, s) \/ Mentions(t, s)
  BY <1>1, <1>4, TakenMentions
<1>6. \A v : LastSays(buf[k], s, v) =>
        LastSays(t, s, v) /\ (Names(m, s) /\ ~Mentions(t, s) => Tells(m) = v)
  BY <1>1, <1>4, TakenSays
<1>7. Plain(buf[k]) <=> m # Snapshot /\ Plain(t)
  BY <1>1, <1>4, PlainQueues
<1>8. m = Snapshot => ~Names(m, s)
  BY DEF Names
<1>9. /\ m = Snapshot => asking'[c] = "asked" /\ UNCHANGED pending
      /\ m # Snapshot => UNCHANGED <<syncing, asking, answer>>
      /\ m # Snapshot /\ syncing[c] => /\ pending'[c] = Append(pending[c], m) /\ UNCHANGED shown
      /\ m # Snapshot /\ ~syncing[c] => /\ shown'[c] = Apply(shown[c], m) /\ UNCHANGED pending
  BY DEF Listen, Synchronize, FeedInv, TypeOK
<1> HIDE DEF m, t
<1>10. /\ Mentions(channel, s)' <=> Mentions(channel, s)
       /\ BeingSent(c, s)' <=> BeingSent(c, s)
       /\ Mentions(buf[socket[c]], s)' <=> Mentions(t, s)
       /\ \A v : LastSays(buf[socket[c]], s, v)' <=> LastSays(t, s, v)
  BY <1>1, <1>2, NamesSame DEF BeingSent
<1>11. /\ UNCHANGED pending => (Mentions(pending[c], s)' <=> Mentions(pending[c], s))
       /\ UNCHANGED pending => \A v : LastSays(pending[c], s, v)' <=> LastSays(pending[c], s, v)
  BY <1>2, NamesSame
<1>12. ~Names(m, s) => (OnTheWay(c, s)' <=> OnTheWay(c, s))
  BY <1>5, <1>10 DEF OnTheWay
<1>13. ~OnTheWay(c, s)' /\ Names(m, s) => Tells(m) = told[s]
  BY <1>3, <1>6, <1>10 DEF OnTheWay, QueuesInOrder
<1>14. ~Mentions(channel, s)' /\ ~BeingSent(c, s)' => LastSays(buf[socket[c]], s, told[s])'
  BY <1>2, <1>3, <1>6, <1>10 DEF QueuesInOrder
<1>15. TypeOK /\ (asking[c] # "no" => syncing[c])
       /\ (~syncing[c] => pending[c] = <<>>) /\ (Reading(c) /\ asking[c] = "no" => ~syncing[c])
  BY <1>1 DEF FeedInv, SyncingKnown
<1>16. Reading(c)' /\ m # Snapshot => Reading(c)
  BY <1>1, <1>7, ReadingIsPlain
<1>17. CASE m = Snapshot
  <2>1. ~OnTheWay(c, s)' => LastSays(pending[c], s, told[s])'
    BY <1>2, <1>3, <1>8, <1>9, <1>11, <1>12, <1>17 DEF QueuesInOrder
  <2> QED BY <1>9, <1>14, <1>17, <2>1 DEF QueuesInOrder, ViewFollows
<1>18. CASE m # Snapshot /\ syncing[c]
  <2>1. Mentions(pending[c], s)' <=> Mentions(pending[c], s) \/ Names(m, s)
    <3>1. Mentions(Append(pending[c], m), s) <=> Mentions(pending[c], s) \/ Names(m, s)
      BY <1>4, JoinedMentions
    <3> QED BY <1>2, <1>9, <1>18, <3>1, NamesSame
  <2>2. ASSUME ~OnTheWay(c, s)'
        PROVE  LastSays(pending[c], s, told[s])'
    <3>1. IF Names(m, s) THEN Tells(m) = told[s] ELSE LastSays(pending[c], s, told[s])
      BY <2>2, <1>3, <1>12, <1>13 DEF QueuesInOrder
    <3>2. LastSays(Append(pending[c], m), s, told[s])
      BY <1>4, <3>1, JoinedSays
    <3> QED BY <1>2, <1>9, <1>18, <3>2, NamesSame
  <2>3. ASSUME NEW v, Follows(c, s, v)
        PROVE  Follows(c, s, v)'
    <3>1. OnTheWay(c, s) => OnTheWay(c, s)' \/ Mentions(pending[c], s)'
      BY <1>12, <2>1
    <3>2. Seen(s)' = Seen(s) /\ \A e : SeatsOf(e)' = SeatsOf(e)
      BY <1>2, SeenSame
    <3> QED BY <1>2, <2>1, <2>3, <3>1, <3>2 DEF Follows
  <2>4. ViewFollows(c, s)'
    BY <1>3, <1>9, <1>15, <1>16, <1>18, <2>3 DEF ViewFollows
  <2> QED BY <1>14, <2>2, <2>4 DEF QueuesInOrder
<1>19. CASE m # Snapshot /\ ~syncing[c]
  <2>1. pending'[c] = <<>> /\ asking'[c] = "no" /\ asking[c] = "no"
    BY <1>9, <1>15, <1>19 DEF TypeOK
  <2>2. LastSays(pending[c], s, told[s])'
    BY <1>2, <2>1, NothingMentioned, NamesSame
  <2>3. ASSUME Reading(c)'
        PROVE  Follows(c, s, shown[c][s])'
    <3>1. Follows(c, s, shown[c][s])
      BY <1>3, <1>16, <1>19, <2>1, <2>3 DEF ViewFollows
    <3>2. shown'[c][s] = IF s \in SeatsOf(m) /\ shown[c][s] # None THEN Tells(m) ELSE shown[c][s]
      BY <1>4, <1>9, <1>19, MapsStayMaps
    <3>3. CASE Names(m, s)
      <4>1. shown'[c][s] = Tells(m) /\ Tells(m) # None
        BY <1>4, <3>1, <3>2, <3>3, MapsStayMaps DEF Follows, Names
      <4>2. OnTheWay(c, s)' \/ shown'[c][s] = told'[s]
        BY <1>2, <1>13, <3>3, <4>1
      <4> QED BY <4>1, <4>2 DEF Follows
    <3>4. CASE ~Names(m, s)
      <4>1. shown'[c][s] = shown[c][s]
        BY <1>19, <3>2, <3>4 DEF Names
      <4>2. Mentions(pending[c], s)' <=> Mentions(pending[c], s)
        BY <1>9, <1>11, <1>19
      <4>3. \A v : Follows(c, s, v) => Follows(c, s, v)'
        BY <1>2, <1>12, <3>4, <4>2, FollowsStays
      <4> QED BY <3>1, <4>1, <4>3
    <3> QED BY <3>3, <3>4
  <2> QED BY <1>14, <2>1, <2>2, <2>3 DEF QueuesInOrder, ViewFollows
<1> QED BY <1>17, <1>18, <1>19

LEMMA RequestFollows ==
    ASSUME FeedInv, TypeOK', NEW c \in Clients, NEW s \in Seats \ missed'[c], Connected(c)',
           ReadSeats(c) \/ Synchronized(c) \/ HoldRefused(c)
    PROVE  QueuesInOrder(c, s)' /\ ViewFollows(c, s)'
<1>1. /\ UNCHANGED <<db, unsent>> /\ channel' = channel /\ told' = told /\ claimed' = claimed
      /\ cast' = cast /\ buf' = buf /\ socket' = socket /\ stage' = stage /\ open' = open
      /\ missed' = missed
  BY DEF ReadSeats, Synchronized, HoldRefused, db, hub, conns, history
<1>2. Connected(c)
  BY <1>1 DEF Connected
<1>3. QueuesInOrder(c, s) /\ ViewFollows(c, s)
  BY <1>1, <1>2 DEF FeedInv, ClientsFollow
<1>4. /\ Mentions(channel, s)' <=> Mentions(channel, s)
      /\ BeingSent(c, s)' <=> BeingSent(c, s)
      /\ Mentions(buf[socket[c]], s)' <=> Mentions(buf[socket[c]], s)
      /\ LastSays(buf[socket[c]], s, told[s])' <=> LastSays(buf[socket[c]], s, told[s])
  BY <1>1, NamesSame DEF BeingSent
<1>5. OnTheWay(c, s)' <=> OnTheWay(c, s)
  BY <1>4 DEF OnTheWay
<1>6. Reading(c)' <=> Reading(c)
  BY <1>1, <1>2, ReadingIsPlain
<1>7. CASE ReadSeats(c) \/ HoldRefused(c)
  <2>1. pending' = pending
    BY <1>7 DEF ReadSeats, HoldRefused
  <2>2. QueuesInOrder(c, s)'
    BY <1>1, <1>3, <1>4, <1>5, <2>1, NamesSame DEF QueuesInOrder
  <2>3. CASE HoldRefused(c)
    <3>1. asking'[c] = "asked"
      BY <2>3 DEF HoldRefused, Synchronize, FeedInv, TypeOK
    <3> QED BY <2>2, <3>1 DEF ViewFollows
  <2>4. CASE ReadSeats(c)
    <3>1. asking'[c] = "answered" /\ answer'[c][s] = Seen(s)
      BY <2>4 DEF ReadSeats, FeedInv, TypeOK
    <3>2. Seen(s)' = Seen(s) /\ Seen(s) # None
      BY <1>1, SeenSame, SeenIsAStatus
    <3>3. Follows(c, s, answer[c][s])'
      BY <3>1, <3>2 DEF Follows
    <3> QED BY <2>2, <3>1, <3>3 DEF ViewFollows
  <2> QED BY <1>7, <2>3, <2>4
<1>8. CASE Synchronized(c)
  <2>1. /\ asking[c] = "answered" /\ asking'[c] = "no" /\ pending'[c] = <<>>
        /\ shown'[c] = Replay(answer[c], pending[c])
    BY <1>8 DEF Synchronized, FeedInv, TypeOK
  <2>2. ~Mentions(pending[c], s)' /\ LastSays(pending[c], s, told[s])'
    BY <1>1, <2>1, NothingMentioned, NamesSame
  <2>3. QueuesInOrder(c, s)'
    BY <1>1, <1>3, <1>4, <2>2 DEF QueuesInOrder
  <2>4. ASSUME Reading(c)
        PROVE  Follows(c, s, shown[c][s])'
    <3>1. Follows(c, s, answer[c][s])
      BY <1>3, <2>1, <2>4 DEF ViewFollows
    <3>2. answer[c] \in SeatMap /\ pending[c] \in Seq(Event) /\ answer[c][s] # None
      BY <3>1 DEF FeedInv, TypeOK, Follows
    <3>3. /\ shown'[c][s] # None
          /\ ~Mentions(pending[c], s) => shown'[c][s] = answer[c][s]
          /\ \A v : Mentions(pending[c], s) /\ LastSays(pending[c], s, v) => shown'[c][s] = v
      BY <2>1, <3>2, ReplayTells
    <3>4. CASE ~Mentions(pending[c], s)
      <4>1. shown'[c][s] = answer[c][s]
        BY <3>3, <3>4
      <4>2. \A v : Follows(c, s, v) => Follows(c, s, v)'
        BY <1>1, <1>5, <3>4, FollowsStays
      <4> QED BY <3>1, <4>1, <4>2
    <3>5. CASE Mentions(pending[c], s) /\ OnTheWay(c, s)
      BY <1>5, <3>3, <3>5 DEF Follows
    <3>6. CASE Mentions(pending[c], s) /\ ~OnTheWay(c, s)
      <4>1. shown'[c][s] = told'[s]
        BY <1>1, <1>3, <3>3, <3>6 DEF QueuesInOrder
      <4> QED BY <3>3, <4>1 DEF Follows
    <3> QED BY <3>4, <3>5, <3>6
  <2> QED BY <1>6, <2>1, <2>3, <2>4 DEF ViewFollows
<1> QED BY <1>7, <1>8

LEMMA ClientsStep ==
    ASSUME FeedInv, TypeOK', [Next]_vars
    PROVE  ClientsFollow'
<1> SUFFICES ASSUME NEW c \in Clients, Connected(c)', NEW s \in Seats \ missed'[c]
             PROVE  QueuesInOrder(c, s)' /\ ViewFollows(c, s)'
  BY DEF ClientsFollow
<1>1. ClientStep(c)
  BY ClientSteps DEF FeedInv
<1> QED BY <1>1, UntouchedFollows, SentFollows, SnapshotFollows, ConnectFollows, ListenFollows,
           RequestFollows DEF ClientStep

-----------------------------------------------------------------------------
(* The results *)

LEMMA FeedInit == Init => FeedInv
<1> SUFFICES ASSUME Init PROVE FeedInv
  OBVIOUS
<1>1. TypeOK
  BY TypeInit
<1>2. OwnersKnown
  BY DEF Init, Ledger!Init, OwnersKnown
<1>3. MessagesKnown
  BY GrantedQueues DEF Init, MessagesKnown, NoCast
<1>4. RoomsKnown /\ OwnConnections /\ SyncingKnown
  BY DEF Init, RoomsKnown, OwnConnections, SyncingKnown, Connected
<1>5. ChannelInOrder
  BY NothingMentioned DEF Init, ChannelInOrder, NoCast
<1>6. ClientsFollow
  BY DEF Init, ClientsFollow, Connected
<1> QED BY <1>1, <1>2, <1>3, <1>4, <1>5, <1>6 DEF FeedInv

LEMMA FeedStep == FeedInv /\ [Next]_vars => FeedInv'
<1> SUFFICES ASSUME FeedInv, [Next]_vars PROVE FeedInv'
  OBVIOUS
<1>1. /\ TypeOK /\ OwnersKnown /\ MessagesKnown /\ RoomsKnown /\ OwnConnections
      /\ SyncingKnown /\ ChannelInOrder
  BY DEF FeedInv
<1>2. TypeOK'
  BY <1>1, TypeStep
<1>3. OwnersKnown' /\ MessagesKnown'
  BY <1>1, <1>2, OwnersStep, MessagesStep
<1>4. RoomsKnown' /\ OwnConnections' /\ SyncingKnown'
  BY <1>1, <1>2, RoomsStep, OwnConnectionsStep, SyncingStep
<1>5. ChannelInOrder' /\ ClientsFollow'
  BY <1>1, <1>2, ChannelStep, ClientsStep
<1> QED BY <1>2, <1>3, <1>4, <1>5 DEF FeedInv

\* The inductive invariant: what the database, the hub, the connections and the clients know
\* of each other, where each message is, and what a client may be taking for the status of a
\* seat until the messages about it have come (booking.go:430-440, hub.go:40-152,
\* SeatsView.vue:44-128).
THEOREM TheFeedIsKept == Spec => []FeedInv
<1>1. Init => FeedInv
  BY FeedInit
<1>2. FeedInv /\ [Next]_vars => FeedInv'
  BY FeedStep
<1> QED BY <1>1, <1>2, PTL DEF Spec

\* Every part of the feed is in a state of its kind, whatever the interleaving and the faults.
THEOREM FeedTypeCorrect == Spec => []TypeOK
<1>1. FeedInv => TypeOK
  BY DEF FeedInv
<1> QED BY <1>1, TheFeedIsKept, PTL

LEMMA FollowingClientsFollow == FeedInv => SettledClientsFollowTheFeed
<1> SUFFICES ASSUME FeedInv, NEW c \in Clients, Settled(c), NEW s \in Seats \ missed[c]
             PROVE  \/ shown[c][s] = Seen(s)
                    \/ shown[c][s] = told[s]
                    \/ \E e \in unsent : s \in SeatsOf(e)
  BY DEF SettledClientsFollowTheFeed
<1>1. /\ Connected(c) /\ stage[socket[c]] = "serving" /\ ~syncing[c] /\ asking[c] = "no"
      /\ channel = <<>> /\ socket[c] \notin cast.left /\ buf[socket[c]] = <<>>
  BY DEF Settled
<1>2. Reading(c)
  BY <1>1, PlainQueues, ReadingIsPlain
<1>3. Follows(c, s, shown[c][s])
  BY <1>1, <1>2 DEF FeedInv, ClientsFollow, ViewFollows
<1>4. pending[c] = <<>>
  BY <1>1 DEF FeedInv, SyncingKnown
<1>5. ~OnTheWay(c, s) /\ ~Mentions(pending[c], s)
  BY <1>1, <1>4, NothingMentioned DEF OnTheWay, BeingSent
<1> QED BY <1>3, <1>5 DEF Follows

\* A client with nothing on its way to it shows each seat as it is, or as the last message
\* about it said, or an event about it has still to be published: no message falls through
\* between the registration of a connection, its snapshot, the reload that this brings about
\* and the events buffered in the meantime (hub.go:59-118, SeatsView.vue:44-113).
THEOREM SettledClientsFollow == Spec => []SettledClientsFollowTheFeed
<1> QED BY FollowingClientsFollow, TheFeedIsKept, PTL
=============================================================================
