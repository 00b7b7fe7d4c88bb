--------------------------- MODULE DeliveryProofs ---------------------------
(* Proofs about Delivery, for every value of its constants. *)
EXTENDS Delivery, SequenceTheorems, TLAPS

USE DEF broker

-----------------------------------------------------------------------------
(* Types *)

LEMMA PutType ==
    ASSUME NEW q \in [Message -> Nat], NEW m \in Message
    PROVE  Put(q, m) \in [Message -> Nat]
BY DEF Put

LEMMA PublishType ==
    ASSUME TypeOK, NEW w \in Workers, NEW m \in Message, Publish(w, m)
    PROVE  wire' \in [Workers -> Seq(Message)]
BY DEF TypeOK, Publish

\* A handler away from idle holds an event, or a message, and its retry count is in range.
LEMMA Busy ==
    ASSUME TypeOK, NEW w \in Workers
    PROVE  /\ pub[w].pc # "idle" => pub[w] \in Outbox
           /\ con[w].pc # "idle" => con[w] \in Consumer /\ con[w].msg \in Message
BY DEF TypeOK, Outbox, Consumer, IdleOutbox, IdleConsumer

\* The next program counter of a busy loop keeps its locals.
Pubs == [Workers -> Outbox \cup {IdleOutbox}]
Cons == [Workers -> Consumer \cup {IdleConsumer}]

LEMMA OutboxProgress ==
    ASSUME TypeOK, NEW w \in Workers, pub[w].pc # "idle"
    PROVE  /\ [pub EXCEPT ![w].pc = "await"] \in Pubs
           /\ [pub EXCEPT ![w].pc = "mark"] \in Pubs
           /\ [pub EXCEPT ![w].pc = "release"] \in Pubs
           /\ [pub EXCEPT ![w] = IdleOutbox] \in Pubs
<1>1. pub[w] \in Outbox /\ \A v \in Workers : pub[v] \in Outbox \cup {IdleOutbox}
  BY Busy DEF TypeOK
<1>2. ASSUME NEW pc \in {"await", "mark", "release"} PROVE [pub[w] EXCEPT !.pc = pc] \in Outbox
  BY <1>1 DEF Outbox
<1> QED BY <1>1, <1>2 DEF TypeOK, Pubs

LEMMA ConsumerProgress ==
    ASSUME TypeOK, NEW w \in Workers, con[w].pc # "idle"
    PROVE  /\ [con EXCEPT ![w].pc = "mail"] \in Cons
           /\ [con EXCEPT ![w].pc = "record"] \in Cons
           /\ [con EXCEPT ![w].pc = "ack"] \in Cons
           /\ [con EXCEPT ![w].pc = "retry"] \in Cons
           /\ [con EXCEPT ![w].pc = "await"] \in Cons
           /\ [con EXCEPT ![w].pc = "nack"] \in Cons
           /\ [con EXCEPT ![w] = IdleConsumer] \in Cons
<1>1. con[w] \in Consumer /\ \A v \in Workers : con[v] \in Consumer \cup {IdleConsumer}
  BY Busy DEF TypeOK
<1>2. ASSUME NEW pc \in {"mail", "record", "ack", "retry", "await", "nack"}
      PROVE  [con[w] EXCEPT !.pc = pc] \in Consumer
  BY <1>1 DEF Consumer
<1> QED BY <1>1, <1>2 DEF TypeOK, Cons

LEMMA TypePreserved ==
    ASSUME TypeOK, [Next]_vars
    PROVE  TypeOK'
<1> USE DEF NoFault, Fault
<1>1. CASE UNCHANGED vars
  BY <1>1 DEF TypeOK, vars
<1>2. ASSUME NEW w \in Workers, Claim(w) PROVE TypeOK'
  <2>1. ASSUME NEW e \in Events
        PROVE  [pub EXCEPT ![w] = [pc |-> "send", event |-> e]] \in Pubs
    BY DEF TypeOK, Outbox, Pubs
  <2>2. row' \in [Events -> Row] /\ faults' \in Nat
    BY <1>2 DEF Claim, TypeOK, Row
  <2>3. pub' \in Pubs
    <3>1. pub \in Pubs
      BY DEF TypeOK, Pubs
    <3> QED BY <1>2, <2>1, <3>1 DEF Claim
  <2> QED BY <1>2, <2>2, <2>3 DEF Claim, TypeOK, Pubs
<1>3. ASSUME NEW w \in Workers, SendEvent(w) PROVE TypeOK'
  <2>1. FirstCopy(pub[w].event) \in Message
    BY <1>3, Busy DEF SendEvent, Outbox, Message, LastRetry, FirstCopy
  <2>2. wire' \in [Workers -> Seq(Message)]
    BY <1>3, <2>1, PublishType DEF SendEvent, TypeOK
  <2>3. pub' \in Pubs
    BY <1>3, OutboxProgress DEF SendEvent
  <2> QED BY <1>3, <2>2, <2>3 DEF SendEvent, TypeOK, Pubs
<1>4. ASSUME NEW w \in Workers, AwaitEvent(w) PROVE TypeOK'
  <2>1. pub' \in Pubs
    BY <1>4, OutboxProgress DEF AwaitEvent
  <2> QED BY <1>4, <2>1 DEF AwaitEvent, TypeOK, Pubs
<1>5. ASSUME NEW w \in Workers, MarkPublished(w) PROVE TypeOK'
  <2>1. pub' \in Pubs
    BY <1>5, OutboxProgress DEF MarkPublished
  <2>2. row' \in [Events -> Row]
    <3>1. pub[w].event \in Events
      BY <1>5, Busy DEF MarkPublished, Outbox
    <3>2. [row EXCEPT ![pub[w].event] = [status |-> "PUBLISHED", leased |-> FALSE]]
            \in [Events -> Row]
      BY <3>1 DEF TypeOK, Row
    <3>3. row \in [Events -> Row]
      BY DEF TypeOK
    <3> QED BY <1>5, <3>2, <3>3 DEF MarkPublished
  <2>3. faults' \in Nat
    BY <1>5 DEF MarkPublished, TypeOK
  <2> QED BY <1>5, <2>1, <2>2, <2>3 DEF MarkPublished, TypeOK, Pubs
<1>6. ASSUME NEW w \in Workers, ReleaseRow(w) PROVE TypeOK'
  <2>1. pub' \in Pubs
    BY <1>6, OutboxProgress DEF ReleaseRow
  <2>2. row' \in [Events -> Row]
    <3>1. pub[w].event \in Events
      BY <1>6, Busy DEF ReleaseRow, Outbox
    <3>2. [row EXCEPT ![pub[w].event] = [status |-> "PENDING", leased |-> FALSE]]
            \in [Events -> Row]
      BY <3>1 DEF TypeOK, Row
    <3>3. row \in [Events -> Row]
      BY DEF TypeOK
    <3> QED BY <1>6, <3>2, <3>3 DEF ReleaseRow
  <2>3. faults' \in Nat
    BY <1>6 DEF ReleaseRow, TypeOK
  <2> QED BY <1>6, <2>1, <2>2, <2>3 DEF ReleaseRow, TypeOK, Pubs
<1>7. ASSUME NEW w \in Workers, Deliver(w) PROVE TypeOK'
  <2>1. PICK m \in Message : /\ queue[m] > 0
                              /\ queue' = [queue EXCEPT ![m] = @ - 1]
                              /\ con' = [con EXCEPT ![w] = [pc |-> "check", msg |-> m]]
    BY <1>7 DEF Deliver
  <2>2. con' \in Cons
    BY <2>1 DEF TypeOK, Consumer, Cons
  <2>3. queue' \in [Message -> Nat]
    BY <2>1 DEF TypeOK
  <2> QED BY <1>7, <2>2, <2>3 DEF Deliver, TypeOK, Cons
<1>8. ASSUME NEW w \in Workers, Check(w) PROVE TypeOK'
  <2>1. con' \in Cons
    BY <1>8, ConsumerProgress DEF Check
  <2> QED BY <1>8, <2>1 DEF Check, TypeOK, Cons
<1>9. ASSUME NEW w \in Workers, Mail(w) PROVE TypeOK'
  <2>1. con' \in Cons
    BY <1>9, ConsumerProgress DEF Mail
  <2>2. mails' \in [Events -> Nat] /\ faults' \in Nat
    BY <1>9 DEF Mail, TypeOK
  <2> QED BY <1>9, <2>1, <2>2 DEF Mail, TypeOK, Cons
<1>10. ASSUME NEW w \in Workers, Record(w) PROVE TypeOK'
  <2>1. con[w].msg.event \in Events
    BY <1>10, Busy DEF Record, Message
  <2>2. con' \in Cons
    BY <1>10, ConsumerProgress DEF Record
  <2>3. notified' \subseteq Events /\ faults' \in Nat
    BY <1>10, <2>1 DEF Record, TypeOK
  <2> QED BY <1>10, <2>2, <2>3 DEF Record, TypeOK, Cons
<1>11. ASSUME NEW w \in Workers, SendRetry(w) PROVE TypeOK'
  <2>1. con[w].msg \in Message
    BY <1>11, Busy DEF SendRetry
  <2>2. con[w].msg.retry < LastRetry => NextCopy(con[w].msg) \in Message
    BY <2>1 DEF Message, LastRetry, NextCopy
  <2>3. wire' \in [Workers -> Seq(Message)]
    BY <1>11, <2>2, PublishType DEF SendRetry, TypeOK
  <2>4. con' \in Cons
    BY <1>11, ConsumerProgress DEF SendRetry
  <2> QED BY <1>11, <2>3, <2>4 DEF SendRetry, TypeOK, Cons
<1>12. ASSUME NEW w \in Workers, AwaitRetry(w) PROVE TypeOK'
  <2>1. con' \in Cons
    BY <1>12, ConsumerProgress DEF AwaitRetry
  <2> QED BY <1>12, <2>1 DEF AwaitRetry, TypeOK, Cons
<1>13. ASSUME NEW w \in Workers, Settle(w) PROVE TypeOK'
  <2>1. con' \in Cons
    BY <1>13, ConsumerProgress DEF Settle
  <2>2. dead' \in [Message -> Nat]
    BY <1>13, Busy, PutType DEF Settle, TypeOK
  <2> QED BY <1>13, <2>1, <2>2 DEF Settle, TypeOK, Cons
<1>14. ASSUME NEW w \in Workers, Accept(w) PROVE TypeOK'
  <2>1. Head(wire[w]) \in Message /\ Tail(wire[w]) \in Seq(Message)
    BY <1>14 DEF Accept, TypeOK
  <2>2. wire' \in [Workers -> Seq(Message)]
    BY <1>14, <2>1 DEF Accept, TypeOK
  <2>3. queue' \in [Message -> Nat] /\ delayed' \in [Message -> Nat]
    <3>1. /\ Put(queue, Head(wire[w])) \in [Message -> Nat]
          /\ Put(delayed, Head(wire[w])) \in [Message -> Nat]
      BY <2>1, PutType DEF TypeOK
    <3> QED BY <1>14, <3>1 DEF Accept, TypeOK
  <2> QED BY <1>14, <2>2, <2>3 DEF Accept, TypeOK
<1>15. ASSUME NEW w \in Workers, Refuse(w) PROVE TypeOK'
  <2>1. wire' \in [Workers -> Seq(Message)]
    <3>1. Tail(wire[w]) \in Seq(Message)
      BY <1>15 DEF Refuse, TypeOK
    <3> QED BY <1>15, <3>1 DEF Refuse, TypeOK
  <2>2. pub' \in Pubs
    <3> DEFINE pc == IF pub[w].pc = "await" /\ Len(wire[w]) = 1 THEN "release" ELSE pub[w].pc
    <3>1. [pub[w] EXCEPT !.pc = pc] \in Outbox \cup {IdleOutbox}
      <4>1. CASE pub[w] \in Outbox
        BY <4>1 DEF Outbox
      <4>2. CASE pub[w] = IdleOutbox
        BY <4>2 DEF IdleOutbox
      <4> QED BY <4>1, <4>2 DEF TypeOK
    <3>2. pub' = [pub EXCEPT ![w] = [pub[w] EXCEPT !.pc = pc]]
      BY <1>15 DEF Refuse, TypeOK
    <3> HIDE DEF pc
    <3> QED BY <3>1, <3>2 DEF TypeOK, Pubs
  <2>3. con' \in Cons
    <3> DEFINE pc == IF con[w].pc = "await" /\ Len(wire[w]) = 1 THEN "nack" ELSE con[w].pc
    <3>1. [con[w] EXCEPT !.pc = pc] \in Consumer \cup {IdleConsumer}
      <4>1. CASE con[w] \in Consumer
        BY <4>1 DEF Consumer
      <4>2. CASE con[w] = IdleConsumer
        BY <4>2 DEF IdleConsumer
      <4> QED BY <4>1, <4>2 DEF TypeOK
    <3>2. con' = [con EXCEPT ![w] = [con[w] EXCEPT !.pc = pc]]
      BY <1>15 DEF Refuse, TypeOK
    <3> HIDE DEF pc
    <3> QED BY <3>1, <3>2 DEF TypeOK, Cons
  <2> QED BY <1>15, <2>1, <2>2, <2>3 DEF Refuse, TypeOK, Pubs, Cons
<1>16. ASSUME NEW w \in Workers PROVE Requeued(w) \in [Message -> Nat]
  BY Busy, PutType DEF Requeued, TypeOK
<1>17. ASSUME NEW w \in Workers
       PROVE  [wire EXCEPT ![w] = <<>>] \in [Workers -> Seq(Message)]
  BY DEF TypeOK
<1>18. ASSUME NEW w \in Workers, ConnectionLost(w) PROVE TypeOK'
  <2>1. up' \in [Workers -> BOOLEAN] /\ faults' \in Nat
    BY <1>18 DEF ConnectionLost, TypeOK
  <2> QED BY <1>16, <1>17, <1>18, <2>1 DEF ConnectionLost, TypeOK
<1>19. ASSUME NEW w \in Workers, Exit(w) \/ Crash(w) PROVE TypeOK'
  <2>1. Restart(w) /\ faults' \in Nat
    BY <1>19 DEF Exit, Crash, TypeOK
  <2>2. /\ up' \in [Workers -> BOOLEAN]
        /\ pub' \in Pubs
        /\ con' \in Cons
    BY <2>1 DEF Restart, TypeOK, Pubs, Cons
  <2> QED BY <1>16, <1>17, <2>1, <2>2 DEF Restart, TypeOK, Pubs, Cons
<1>20. ASSUME NEW e \in Events, LeasePasses(e) PROVE TypeOK'
  <2>1. row' \in [Events -> Row]
    BY <1>20 DEF LeasePasses, TypeOK, Row
  <2>2. faults' \in Nat
    BY <1>20 DEF LeasePasses, TypeOK
  <2> QED BY <1>20, <2>1, <2>2 DEF LeasePasses, TypeOK
<1>21. ASSUME NEW m \in Message, DelayPasses(m) PROVE TypeOK'
  <2>1. delayed' \in [Message -> Nat]
    BY <1>21 DEF DelayPasses, TypeOK
  <2>2. queue' \in [Message -> Nat]
    BY <1>21, PutType DEF DelayPasses, TypeOK
  <2> QED BY <1>21, <2>1, <2>2 DEF DelayPasses, TypeOK
<1> QED
  BY <1>1, <1>2, <1>3, <1>4, <1>5, <1>6, <1>7, <1>8, <1>9, <1>10, <1>11, <1>12, <1>13,
     <1>14, <1>15, <1>18, <1>19, <1>20, <1>21
  DEF Next, OutboxStep, NotifyStep, BrokerStep

LEMMA TypeInit ==
    Init => TypeOK
BY DEF Init, TypeOK, Row, NoMessages, IdleOutbox, IdleConsumer

\* Every store, loop and queue of every number of workers only holds values of its kind; a
\* message's retry count stays within the retry queues there are (processor.go:124).
THEOREM DeliveryTypeCorrect == Spec => []TypeOK
BY TypeInit, TypePreserved, PTL DEF Spec
\* A step of a busy loop, or a refusal, moves its counter and keeps its local.
LEMMA ConsumerMoves ==
    ASSUME TypeOK, NEW w \in Workers,
           Check(w) \/ Mail(w) \/ Record(w) \/ SendRetry(w) \/ AwaitRetry(w)
    PROVE  /\ con'[w].pc \in {"mail", "record", "ack", "retry", "await", "nack"}
           /\ con'[w].msg = con[w].msg
           /\ \A v \in Workers : v # w => con'[v] = con[v]
           /\ con'[w].pc = "await" => /\ SendRetry(w) /\ ~Publishing(w)
                                      /\ Publish(w, NextCopy(con[w].msg))
                                      /\ con[w].msg.retry < LastRetry
           /\ con'[w].pc = "ack" => \/ con[w].msg.event \in notified'
                                    \/ AwaitRetry(w) /\ Confirmed(w)
<1>1. con \in Cons /\ (con[w].pc # "idle" => con[w] \in Consumer)
  BY Busy DEF TypeOK, Cons
<1>2. CASE Check(w)
  BY <1>1, <1>2 DEF Check, Cons, Consumer
<1>3. CASE Mail(w)
  BY <1>1, <1>3 DEF Mail, Cons, Consumer
<1>4. CASE Record(w)
  BY <1>1, <1>4 DEF Record, Cons, Consumer
<1>5. CASE SendRetry(w)
  BY <1>1, <1>5 DEF SendRetry, Cons, Consumer
<1>6. CASE AwaitRetry(w)
  BY <1>1, <1>6 DEF AwaitRetry, Cons, Consumer
<1> QED BY <1>2, <1>3, <1>4, <1>5, <1>6

LEMMA OutboxMoves ==
    ASSUME TypeOK, NEW w \in Workers, SendEvent(w) \/ AwaitEvent(w)
    PROVE  /\ pub'[w].pc \in {"await", "mark", "release"}
           /\ pub'[w].event = pub[w].event
           /\ pub'[w].pc = "await" => /\ SendEvent(w) /\ ~Publishing(w)
                                      /\ Publish(w, FirstCopy(pub[w].event))
           /\ pub'[w].pc = "mark" => AwaitEvent(w) /\ Confirmed(w)
<1>1. pub \in Pubs /\ (pub[w].pc # "idle" => pub[w] \in Outbox)
  BY Busy DEF TypeOK, Pubs
<1>2. CASE SendEvent(w)
  BY <1>1, <1>2 DEF SendEvent, Pubs, Outbox
<1>3. CASE AwaitEvent(w)
  BY <1>1, <1>3 DEF AwaitEvent, Pubs, Outbox
<1> QED BY <1>2, <1>3

LEMMA RefuseMoves ==
    ASSUME TypeOK, NEW w \in Workers, Refuse(w)
    PROVE  /\ IF pub[w].pc = "await" /\ Len(wire[w]) = 1 THEN pub'[w].pc = "release"
                                                          ELSE pub'[w] = pub[w]
           /\ IF con[w].pc = "await" /\ Len(wire[w]) = 1
              THEN con'[w].pc = "nack" /\ con'[w].msg = con[w].msg
              ELSE con'[w] = con[w]
           /\ \A v \in Workers : v # w => con'[v] = con[v]
<1>1. /\ pub'[w] = [pub[w] EXCEPT !.pc = IF @ = "await" /\ Len(wire[w]) = 1 THEN "release" ELSE @]
      /\ con'[w] = [con[w] EXCEPT !.pc = IF @ = "await" /\ Len(wire[w]) = 1 THEN "nack" ELSE @]
      /\ \A v \in Workers : v # w => con'[v] = con[v]
  BY DEF Refuse, TypeOK
<1>2. pub[w] \in Outbox \/ pub[w] = IdleOutbox
  BY DEF TypeOK
<1>3. con[w] \in Consumer \/ con[w] = IdleConsumer
  BY DEF TypeOK
<1>4. IF pub[w].pc = "await" /\ Len(wire[w]) = 1 THEN pub'[w].pc = "release"
                                                 ELSE pub'[w] = pub[w]
  BY <1>1, <1>2 DEF Outbox, IdleOutbox
<1>5. IF con[w].pc = "await" /\ Len(wire[w]) = 1
      THEN con'[w].pc = "nack" /\ con'[w].msg = con[w].msg
      ELSE con'[w] = con[w]
  BY <1>1, <1>3 DEF Consumer, IdleConsumer
<1> QED BY <1>1, <1>4, <1>5

-----------------------------------------------------------------------------
(* Nothing is lost *)

\* What a step does to worker w's loops and connection is an action of w's.
LEMMA OwnStep ==
    ASSUME [Next]_vars, TypeOK, NEW w \in Workers
    PROVE  \/ OutboxStep(w) \/ NotifyStep(w) \/ BrokerStep(w)
           \/ ConnectionLost(w) \/ Restart(w)
           \/ /\ pub'[w] = pub[w] /\ con'[w] = con[w] /\ wire'[w] = wire[w]
              /\ up'[w] = up[w]
<1>1. ASSUME NEW v \in Workers, v # w, OutboxStep(v)
      PROVE  pub'[w] = pub[w] /\ con'[w] = con[w] /\ wire'[w] = wire[w] /\ up'[w] = up[w]
  BY <1>1 DEF OutboxStep, Claim, SendEvent, AwaitEvent, MarkPublished, ReleaseRow, Publish, TypeOK
<1>2. ASSUME NEW v \in Workers, v # w, NotifyStep(v)
      PROVE  pub'[w] = pub[w] /\ con'[w] = con[w] /\ wire'[w] = wire[w] /\ up'[w] = up[w]
  BY <1>2 DEF NotifyStep, Deliver, Check, Mail, Record, SendRetry, AwaitRetry, Settle, Publish,
              TypeOK
<1>3. ASSUME NEW v \in Workers, v # w, BrokerStep(v) \/ ConnectionLost(v) \/ Restart(v)
      PROVE  pub'[w] = pub[w] /\ con'[w] = con[w] /\ wire'[w] = wire[w] /\ up'[w] = up[w]
  BY <1>3 DEF BrokerStep, Accept, Refuse, ConnectionLost, Restart, TypeOK
<1>4. ASSUME \/ UNCHANGED vars
             \/ (\E e \in Events : LeasePasses(e)) \/ (\E m \in Message : DelayPasses(m))
      PROVE  pub' = pub /\ con' = con /\ wire' = wire /\ up' = up
  BY <1>4 DEF LeasePasses, DelayPasses, vars
<1> QED BY <1>1, <1>2, <1>3, <1>4 DEF Next, Exit, Crash

\* A message leaves the broker only when it is acknowledged.
HasMessage(w, m) == up[w] /\ con[w].pc # "idle" /\ con[w].msg = m

LEMMA NothingTaken ==
    ASSUME NEW m \in Message, AtBroker(m), TypeOK, TypeOK',
           queue'[m] >= queue[m], delayed'[m] >= delayed[m], dead'[m] >= dead[m],
           \A w \in Workers : HasMessage(w, m) => HasMessage(w, m)'
    PROVE  AtBroker(m)'
BY DEF AtBroker, HasMessage, TypeOK

LEMMA PutAdds ==
    ASSUME NEW q \in [Message -> Nat], NEW m \in Message, NEW n \in Message
    PROVE  Put(q, n)[m] >= q[m] /\ Put(q, m)[m] > 0
BY DEF Put

LEMMA BrokerKeeps ==
    ASSUME TypeOK, TypeOK', [Next]_vars, NEW m \in Message, AtBroker(m)
    PROVE  \/ AtBroker(m)'
           \/ \E w \in Workers : con[w].pc = "ack" /\ con[w].msg = m /\ up[w] /\ Settle(w)
<1>1. \A q \in [Message -> Nat] : q[m] \in Nat /\ q[m] >= q[m]
  OBVIOUS
<1>2. CASE UNCHANGED <<con, up, broker>>
  BY <1>1, <1>2, NothingTaken DEF HasMessage, TypeOK
<1>3. ASSUME NEW w \in Workers, Deliver(w) PROVE AtBroker(m)'
  <2>1. PICK n \in Message : /\ queue[n] > 0
                              /\ queue' = [queue EXCEPT ![n] = @ - 1]
                              /\ con' = [con EXCEPT ![w] = [pc |-> "check", msg |-> n]]
    BY <1>3 DEF Deliver
  <2>2. CASE n = m
    <3>1. con'[w] = [pc |-> "check", msg |-> m] /\ up'[w]
      BY <1>3, <2>1, <2>2 DEF Deliver, TypeOK
    <3> QED BY <3>1 DEF AtBroker
  <2>3. CASE n # m
    <3>1. queue'[m] >= queue[m] /\ delayed' = delayed /\ dead' = dead
      BY <1>1, <1>3, <2>1, <2>3 DEF Deliver, TypeOK
    <3>2. ASSUME NEW v \in Workers, HasMessage(v, m) PROVE HasMessage(v, m)'
      BY <1>3, <2>1, <3>2 DEF HasMessage, Deliver, TypeOK
    <3> QED BY <1>1, <3>1, <3>2, NothingTaken DEF TypeOK
  <2> QED BY <2>2, <2>3
<1>4. ASSUME NEW w \in Workers, Check(w) \/ Mail(w) \/ Record(w) \/ SendRetry(w) \/ AwaitRetry(w)
      PROVE  AtBroker(m)'
  <2>1. ASSUME NEW v \in Workers, HasMessage(v, m) PROVE HasMessage(v, m)'
    <3>1. up' = up
      BY <1>4 DEF Check, Mail, Record, SendRetry, AwaitRetry
    <3> QED BY <1>4, <2>1, <3>1, ConsumerMoves DEF HasMessage
  <2>2. UNCHANGED broker
    BY <1>4 DEF Check, Mail, Record, SendRetry, AwaitRetry
  <2> QED BY <1>1, <2>1, <2>2, NothingTaken DEF TypeOK
<1>5. ASSUME NEW w \in Workers, Settle(w), ~(con[w].pc = "ack" /\ con[w].msg = m /\ up[w])
      PROVE  AtBroker(m)'
  <2>1. queue' = queue /\ delayed' = delayed /\ up' = up
    BY <1>5 DEF Settle
  <2>2. CASE HasMessage(w, m)
    <3>1. dead' = Put(dead, m)
      BY <1>5, <2>2 DEF Settle, HasMessage
    <3> QED BY <3>1, PutAdds DEF AtBroker, TypeOK
  <2>3. CASE ~HasMessage(w, m)
    <3>1. dead'[m] >= dead[m]
      BY <1>1, <1>5, Busy, PutAdds DEF Settle, TypeOK
    <3>2. ASSUME NEW v \in Workers, HasMessage(v, m) PROVE HasMessage(v, m)'
      BY <1>5, <2>1, <2>3, <3>2 DEF HasMessage, Settle, TypeOK
    <3> QED BY <1>1, <2>1, <3>1, <3>2, NothingTaken DEF TypeOK
  <2> QED BY <2>2, <2>3
<1>6. ASSUME NEW w \in Workers, Accept(w) PROVE AtBroker(m)'
  <2>1. Head(wire[w]) \in Message
    BY <1>6 DEF Accept, TypeOK
  <2>2. queue'[m] >= queue[m] /\ delayed'[m] >= delayed[m]
    BY <1>1, <1>6, <2>1, PutAdds DEF Accept, TypeOK
  <2> QED BY <1>1, <1>6, <2>2, NothingTaken DEF Accept, HasMessage, TypeOK
<1>7. ASSUME NEW w \in Workers, Refuse(w) PROVE AtBroker(m)'
  <2>1. ASSUME NEW v \in Workers, HasMessage(v, m) PROVE HasMessage(v, m)'
    BY <1>7, <2>1, RefuseMoves DEF HasMessage, Refuse
  <2> QED BY <1>1, <1>7, <2>1, NothingTaken DEF Refuse, TypeOK
<1>8. ASSUME NEW w \in Workers, ConnectionLost(w) \/ Restart(w) PROVE AtBroker(m)'
  <2>1. queue' = Requeued(w) /\ delayed' = delayed /\ dead' = dead
    BY <1>8 DEF ConnectionLost, Restart
  <2>2. CASE HasMessage(w, m)
    <3>1. queue' = Put(queue, m)
      BY <2>1, <2>2 DEF Requeued, HasMessage
    <3> QED BY <3>1, PutAdds DEF AtBroker, TypeOK
  <2>3. CASE ~HasMessage(w, m)
    <3>1. queue'[m] >= queue[m]
      BY <1>1, <2>1, Busy, PutAdds DEF Requeued, TypeOK
    <3>2. ASSUME NEW v \in Workers, HasMessage(v, m) PROVE HasMessage(v, m)'
      BY <1>8, <2>3, <3>2 DEF HasMessage, ConnectionLost, Restart, TypeOK
    <3> QED BY <1>1, <2>1, <3>1, <3>2, NothingTaken DEF TypeOK
  <2> QED BY <2>2, <2>3
<1>9. ASSUME NEW n \in Message, DelayPasses(n) PROVE AtBroker(m)'
  <2>1. CASE n = m
    BY <1>9, <2>1, PutAdds DEF DelayPasses, AtBroker, TypeOK
  <2>2. CASE n # m
    <3>1. queue'[m] >= queue[m] /\ delayed'[m] >= delayed[m]
      BY <1>1, <1>9, <2>2, PutAdds DEF DelayPasses, TypeOK
    <3> QED BY <1>1, <1>9, <3>1, NothingTaken DEF DelayPasses, HasMessage, TypeOK
  <2> QED BY <2>1, <2>2
<1>10. ASSUME NEW w \in Workers, OutboxStep(w) PROVE UNCHANGED <<con, up, broker>>
  BY <1>10 DEF OutboxStep, Claim, SendEvent, AwaitEvent, MarkPublished, ReleaseRow
<1>11. ASSUME NEW e \in Events, LeasePasses(e) PROVE UNCHANGED <<con, up, broker>>
  BY <1>11 DEF LeasePasses
<1>12. UNCHANGED vars => UNCHANGED <<con, up, broker>>
  BY DEF vars
<1> QED
  BY <1>2, <1>3, <1>4, <1>5, <1>6, <1>7, <1>8, <1>9, <1>10, <1>11, <1>12
  DEF Next, NotifyStep, BrokerStep, Exit, Crash

\* What the mail record and the broker keep, they keep.
LEMMA KeptStays ==
    ASSUME TypeOK, TypeOK', AcknowledgedMailsAreKept, [Next]_vars,
           NEW e \in Events, NEW r \in Nat, Kept(e, r)
    PROVE  Kept(e, r)'
<1>1. notified \subseteq notified'
  BY DEF Next, OutboxStep, NotifyStep, BrokerStep, Claim, SendEvent, AwaitEvent, MarkPublished,
     ReleaseRow, Deliver, Check, Mail, Record, SendRetry, AwaitRetry, Settle, Accept, Refuse,
     LeasePasses, DelayPasses, ConnectionLost, Restart, Exit, Crash, vars
<1>2. CASE e \in notified
  BY <1>1, <1>2 DEF Kept
<1>3. CASE e \notin notified
  <2>1. PICK m \in Message : m.event = e /\ m.retry >= r /\ AtBroker(m)
    BY <1>3 DEF Kept
  <2>2. CASE AtBroker(m)'
    BY <2>1, <2>2 DEF Kept
  <2>3. CASE ~AtBroker(m)'
    <3>1. PICK w \in Workers : con[w].pc = "ack" /\ con[w].msg = m /\ up[w] /\ Settle(w)
      BY <2>1, <2>3, BrokerKeeps
    <3>2. PICK n \in Message : n.event = e /\ n.retry >= m.retry + 1 /\ AtBroker(n)
      BY <1>3, <2>1, <3>1 DEF AcknowledgedMailsAreKept, Kept
    <3>3. n # m /\ n.retry >= r
      BY <2>1, <3>2 DEF Message
    <3>4. AtBroker(n)'
      <4>1. ASSUME NEW v \in Workers, HasMessage(v, n) PROVE HasMessage(v, n)'
        BY <3>1, <3>3, <4>1 DEF HasMessage, Settle, TypeOK
      <4>2. queue' = queue /\ delayed' = delayed /\ dead' = dead
        BY <3>1 DEF Settle
      <4>3. \A q \in [Message -> Nat] : q[n] \in Nat /\ q[n] >= q[n]
        OBVIOUS
      <4> QED BY <3>2, <4>1, <4>2, <4>3, NothingTaken DEF TypeOK
    <3> QED BY <3>2, <3>3, <3>4 DEF Kept
  <2> QED BY <2>2, <2>3
<1> QED BY <1>2, <1>3
\* A sequence and its tail end with the same element, while the tail has one.
LEMMA TailLast ==
    ASSUME NEW S, NEW s \in Seq(S), s # <<>>
    PROVE  /\ Len(s) = 1 => Tail(s) = <<>> /\ Head(s) = s[1]
           /\ Len(s) # 1 => Tail(s) # <<>> /\ Tail(s)[Len(Tail(s))] = s[Len(s)]
<1>1. Len(s) \in Nat \ {0}
  BY EmptySeq
<1>2. Tail(s) \in Seq(S) /\ Len(Tail(s)) = Len(s) - 1
  BY HeadTailProperties
<1>3. \A i \in 1..Len(Tail(s)) : Tail(s)[i] = s[i + 1]
  BY HeadTailProperties
<1>4. Tail(s) # <<>> => Len(Tail(s)) \in Nat \ {0}
  BY <1>2, EmptySeq
<1>5. Tail(s) = <<>> => Len(Tail(s)) = 0
  BY EmptySeq
<1>6. Head(s) = s[1]
  OBVIOUS
<1>7. CASE Len(s) # 1
  <2>1. Len(Tail(s)) \in 1..Len(Tail(s)) /\ Len(Tail(s)) + 1 = Len(s)
    BY <1>1, <1>2, <1>7
  <2> QED BY <1>3, <1>5, <1>7, <2>1
<1> QED BY <1>1, <1>2, <1>4, <1>6, <1>7

\* What a connection's user waits for, it waits for or the broker keeps.
LEMMA WaitGoesOn ==
    ASSUME TypeOK, TypeOK', AcknowledgedMailsAreKept, [Next]_vars,
           NEW w \in Workers, NEW m, m.event \in Events, m.retry \in Nat, Awaited(w, m),
           \/ wire'[w] = wire[w]
           \/ Accept(w)
           \/ Refuse(w) /\ Len(wire[w]) # 1
    PROVE  Awaited(w, m)'
<1>1. wire[w] \in Seq(Message)
  BY DEF TypeOK
<1>5. Accept(w) \/ Refuse(w) => wire[w] # <<>> /\ wire'[w] = Tail(wire[w])
  BY DEF Accept, Refuse, TypeOK
<1>2. CASE wire'[w] = wire[w]
  BY <1>2, KeptStays DEF Awaited
<1>3. CASE wire[w] # <<>> /\ wire'[w] = Tail(wire[w]) /\ Len(wire[w]) # 1
  <2>1. Tail(wire[w]) # <<>> /\ Tail(wire[w])[Len(Tail(wire[w]))] = wire[w][Len(wire[w])]
    BY <1>1, <1>3, TailLast
  <2> QED BY <1>3, <2>1 DEF Awaited
<1>4. CASE Accept(w) /\ Len(wire[w]) = 1
  <2>1. wire'[w] = <<>> /\ Head(wire[w]) = m
    <3>1. wire[w] # <<>> /\ Head(wire[w]) = wire[w][1] /\ Tail(wire[w]) = <<>>
      BY <1>1, <1>4, <1>5, TailLast
    <3>2. wire'[w] = Tail(wire[w])
      BY <1>4 DEF Accept, TypeOK
    <3> QED BY <1>4, <3>1, <3>2 DEF Awaited
  <2>2. m \in Message
    BY <1>1, <1>4, <2>1, HeadTailProperties DEF Accept
  <2>3. queue' = Put(queue, m) \/ delayed' = Put(delayed, m)
    BY <1>4, <2>1 DEF Accept
  <2>4. AtBroker(m)'
    BY <2>2, <2>3, PutAdds DEF AtBroker, TypeOK
  <2> QED BY <2>2, <2>1, <2>4 DEF Awaited, Kept, Message
<1> QED BY <1>2, <1>3, <1>4, <1>5

LEMMA PublishedIsAwaited ==
    ASSUME TypeOK, NEW w \in Workers, NEW m \in Message, Publish(w, m)
    PROVE  Awaited(w, m)'
<1>1. wire'[w] = Append(wire[w], m) /\ wire[w] \in Seq(Message)
  BY DEF Publish, TypeOK
<1>2. Append(wire[w], m) # <<>>
      /\ Append(wire[w], m)[Len(Append(wire[w], m))] = m
  BY <1>1
<1> QED BY <1>1, <1>2 DEF Awaited

LEMMA OnePublisherPreserved ==
    ASSUME TypeOK, OnePublisher, [Next]_vars
    PROVE  OnePublisher'
<1> SUFFICES ASSUME NEW w \in Workers
             PROVE  ~(pub'[w].pc = "await" /\ con'[w].pc = "await")
  BY DEF OnePublisher
<1>1. CASE OutboxStep(w)
  <2>1. con'[w] = con[w]
    BY <1>1 DEF OutboxStep, Claim, SendEvent, AwaitEvent, MarkPublished, ReleaseRow
  <2>2. CASE SendEvent(w) \/ AwaitEvent(w)
    BY <2>1, <2>2, OutboxMoves DEF Publishing
  <2>3. CASE Claim(w) \/ MarkPublished(w) \/ ReleaseRow(w)
    BY <2>1, <2>3 DEF Claim, MarkPublished, ReleaseRow, IdleOutbox, OnePublisher, TypeOK
  <2> QED BY <1>1, <2>2, <2>3 DEF OutboxStep
<1>2. CASE NotifyStep(w)
  <2>1. pub'[w] = pub[w]
    BY <1>2 DEF NotifyStep, Deliver, Check, Mail, Record, SendRetry, AwaitRetry, Settle
  <2>2. CASE Deliver(w) \/ Settle(w)
    BY <2>2 DEF Deliver, Settle, IdleConsumer, TypeOK
  <2>3. CASE Check(w) \/ Mail(w) \/ Record(w) \/ SendRetry(w) \/ AwaitRetry(w)
    BY <2>1, <2>3, ConsumerMoves DEF Publishing
  <2> QED BY <1>2, <2>2, <2>3 DEF NotifyStep
<1>3. CASE BrokerStep(w) \/ ConnectionLost(w) \/ Restart(w)
  <2>1. CASE Refuse(w)
    BY <2>1, RefuseMoves DEF OnePublisher
  <2>2. CASE Accept(w) \/ ConnectionLost(w) \/ Restart(w)
    BY <2>2 DEF Accept, ConnectionLost, Restart, OnePublisher, IdleOutbox, TypeOK
  <2> QED BY <1>3, <2>1, <2>2 DEF BrokerStep
<1>4. CASE pub'[w] = pub[w] /\ con'[w] = con[w]
  BY <1>4 DEF OnePublisher
<1> QED BY <1>1, <1>2, <1>3, <1>4, OwnStep

LEMMA ConfirmedPreserved ==
    ASSUME TypeOK, TypeOK', OnePublisher, ConfirmedEventsAreKept, AcknowledgedMailsAreKept,
           [Next]_vars
    PROVE  ConfirmedEventsAreKept'
<1> SUFFICES ASSUME NEW w \in Workers
             PROVE  /\ pub'[w].pc = "mark" => Kept(pub[w].event, 0)'
                    /\ pub'[w].pc = "await" /\ up'[w] => Awaited(w, FirstCopy(pub[w].event))'
  BY DEF ConfirmedEventsAreKept, FirstCopy
<1>1. pub[w].pc # "idle" => pub[w].event \in Events /\ FirstCopy(pub[w].event) \in Message
  BY Busy DEF Outbox, FirstCopy, Message, LastRetry
<1>2. ASSUME pub'[w] = pub[w], up'[w] => up[w],
             \/ wire'[w] = wire[w]
             \/ Accept(w)
             \/ Refuse(w) /\ Len(wire[w]) # 1
             \/ pub[w].pc # "await"
      PROVE  /\ pub'[w].pc = "mark" => Kept(pub[w].event, 0)'
             /\ pub'[w].pc = "await" /\ up'[w] => Awaited(w, FirstCopy(pub[w].event))'
  <2>1. pub'[w].pc = "mark" => Kept(pub[w].event, 0)'
    BY <1>1, <1>2, KeptStays DEF ConfirmedEventsAreKept
  <2>2. ASSUME pub[w].pc = "await", up[w] PROVE Awaited(w, FirstCopy(pub[w].event))'
    <3>1. Awaited(w, FirstCopy(pub[w].event))
      BY <2>2 DEF ConfirmedEventsAreKept
    <3> DEFINE m == FirstCopy(pub[w].event)
    <3>2. m.event \in Events /\ m.retry \in Nat
      BY <1>1, <2>2 DEF FirstCopy
    <3>3. m' = m
      BY <1>2 DEF FirstCopy
    <3> HIDE DEF m
    <3> QED BY <1>2, <2>2, <3>1, <3>2, <3>3, WaitGoesOn DEF m
  <2> QED BY <1>2, <2>1, <2>2
<1>3. ASSUME pub'[w].pc \notin {"mark", "await"}
      PROVE  /\ pub'[w].pc = "mark" => Kept(pub[w].event, 0)'
             /\ pub'[w].pc = "await" /\ up'[w] => Awaited(w, FirstCopy(pub[w].event))'
  BY <1>3
<1>4. CASE SendEvent(w) \/ AwaitEvent(w)
  <2>1. pub[w].pc # "idle"
    BY <1>4 DEF SendEvent, AwaitEvent
  <2>2. ASSUME pub'[w].pc = "mark" PROVE Kept(pub[w].event, 0)'
    <3>1. Kept(pub[w].event, 0)
      BY <1>4, <2>2, OutboxMoves
      DEF AwaitEvent, Confirmed, ConfirmedEventsAreKept, Awaited, FirstCopy
    <3> DEFINE e == pub[w].event
    <3>2. e \in Events /\ e' = e
      BY <1>1, <1>4, <2>1, OutboxMoves
    <3> HIDE DEF e
    <3> QED BY <3>1, <3>2, KeptStays DEF e
  <2>3. ASSUME pub'[w].pc = "await" PROVE Awaited(w, FirstCopy(pub[w].event))'
    <3> DEFINE m == FirstCopy(pub[w].event)
    <3>1. m \in Message /\ m' = m /\ Publish(w, m)
      BY <1>1, <1>4, <2>1, <2>3, OutboxMoves DEF FirstCopy
    <3> HIDE DEF m
    <3> QED BY <3>1, PublishedIsAwaited DEF m
  <2> QED BY <2>2, <2>3
<1>5. CASE Claim(w) \/ MarkPublished(w) \/ ReleaseRow(w)
  <2>1. pub'[w].pc \notin {"mark", "await"}
    BY <1>5 DEF Claim, MarkPublished, ReleaseRow, IdleOutbox, TypeOK
  <2> QED BY <1>3, <2>1
<1>6. CASE NotifyStep(w)
  <2>1. pub'[w] = pub[w] /\ up'[w] = up[w]
    BY <1>6 DEF NotifyStep, Deliver, Check, Mail, Record, SendRetry, AwaitRetry, Settle
  <2>2. wire'[w] = wire[w] \/ pub[w].pc # "await"
    BY <1>6 DEF NotifyStep, Deliver, Check, Mail, Record, SendRetry, AwaitRetry, Settle, Publishing
  <2> QED BY <1>2, <2>1, <2>2
<1>7. CASE Refuse(w)
  <2>1. up' = up
    BY <1>7 DEF Refuse
  <2>2. CASE pub[w].pc = "await" /\ Len(wire[w]) = 1
    BY <1>3, <1>7, <2>2, RefuseMoves
  <2>3. CASE ~(pub[w].pc = "await" /\ Len(wire[w]) = 1)
    BY <1>2, <1>7, <2>1, <2>3, RefuseMoves
  <2> QED BY <2>2, <2>3
<1>8. CASE Accept(w)
  <2>1. pub'[w] = pub[w] /\ up'[w] = up[w]
    BY <1>8 DEF Accept
  <2> QED BY <1>2, <1>8, <2>1
<1>9. CASE ConnectionLost(w)
  <2>1. pub'[w] = pub[w] /\ pub' = pub /\ ~up'[w]
    BY <1>9 DEF ConnectionLost, TypeOK
  <2>2. ASSUME pub'[w].pc = "mark" PROVE Kept(pub[w].event, 0)'
    BY <1>1, <2>1, <2>2, KeptStays DEF ConfirmedEventsAreKept
  <2> QED BY <2>1, <2>2
<1>10. CASE Restart(w)
  <2>1. pub'[w].pc \notin {"mark", "await"}
    BY <1>10 DEF Restart, IdleOutbox, TypeOK
  <2> QED BY <1>3, <2>1
<1>11. CASE pub'[w] = pub[w] /\ con'[w] = con[w] /\ wire'[w] = wire[w] /\ up'[w] = up[w]
  BY <1>2, <1>11
<1> QED
  BY <1>4, <1>5, <1>6, <1>7, <1>8, <1>9, <1>10, <1>11, OwnStep DEF OutboxStep, BrokerStep

LEMMA AcknowledgedPreserved ==
    ASSUME TypeOK, TypeOK', OnePublisher, AcknowledgedMailsAreKept, [Next]_vars
    PROVE  AcknowledgedMailsAreKept'
<1> SUFFICES ASSUME NEW w \in Workers
             PROVE  /\ con'[w].pc = "ack" => Kept(con[w].msg.event, con[w].msg.retry + 1)'
                    /\ con'[w].pc = "await" /\ up'[w] => Awaited(w, NextCopy(con[w].msg))'
  BY DEF AcknowledgedMailsAreKept, NextCopy
<1> DEFINE m == con[w].msg
<1>1. con[w].pc # "idle" => m \in Message /\ m.event \in Events /\ m.retry + 1 \in Nat
  BY Busy DEF Message, LastRetry
<1>2. ASSUME con'[w].msg = m, con[w].pc = "ack" PROVE Kept(con[w].msg.event, con[w].msg.retry + 1)'
  <2>1. Kept(m.event, m.retry + 1)
    BY <1>2 DEF AcknowledgedMailsAreKept
  <2>2. m' = m
    BY <1>2
  <2>3. m.event \in Events /\ m.retry + 1 \in Nat
    BY <1>1, <1>2
  <2> HIDE DEF m
  <2> QED BY <2>1, <2>2, <2>3, KeptStays DEF m
<1>3. ASSUME con'[w].pc \notin {"ack", "await"}
      PROVE  /\ con'[w].pc = "ack" => Kept(con[w].msg.event, con[w].msg.retry + 1)'
             /\ con'[w].pc = "await" /\ up'[w] => Awaited(w, NextCopy(con[w].msg))'
  BY <1>3
<1>4. ASSUME con'[w] = con[w], up'[w] => up[w],
             \/ wire'[w] = wire[w]
             \/ Accept(w)
             \/ Refuse(w) /\ Len(wire[w]) # 1
             \/ con[w].pc # "await"
      PROVE  /\ con'[w].pc = "ack" => Kept(con[w].msg.event, con[w].msg.retry + 1)'
             /\ con'[w].pc = "await" /\ up'[w] => Awaited(w, NextCopy(con[w].msg))'
  <2>1. ASSUME con[w].pc = "await", up[w] PROVE Awaited(w, NextCopy(con[w].msg))'
    <3> DEFINE n == NextCopy(con[w].msg)
    <3>1. Awaited(w, n)
      BY <2>1 DEF AcknowledgedMailsAreKept
    <3>2. n.event \in Events /\ n.retry \in Nat
      BY <2>1, Busy DEF NextCopy, Message, LastRetry
    <3>3. n' = n
      BY <1>4 DEF NextCopy
    <3> HIDE DEF n
    <3> QED BY <1>4, <2>1, <3>1, <3>2, <3>3, WaitGoesOn DEF n
  <2> QED BY <1>2, <1>4, <2>1
<1>5. CASE Check(w) \/ Mail(w) \/ Record(w) \/ SendRetry(w) \/ AwaitRetry(w)
  <2>1. con'[w].msg = m /\ con[w].pc # "idle"
    BY <1>5, ConsumerMoves DEF Check, Mail, Record, SendRetry, AwaitRetry
  <2>2. ASSUME con'[w].pc = "ack" PROVE Kept(con[w].msg.event, con[w].msg.retry + 1)'
    <3>1. CASE m.event \in notified'
      BY <2>1, <3>1 DEF Kept
    <3>2. CASE AwaitRetry(w) /\ Confirmed(w)
      <4>1. Kept(m.event, m.retry + 1)
        <5>1. con[w].pc = "await" /\ up[w] /\ wire[w] = <<>>
          BY <3>2 DEF AwaitRetry, Confirmed
        <5>2. Kept(NextCopy(m).event, NextCopy(m).retry)
          BY <5>1 DEF AcknowledgedMailsAreKept, Awaited
        <5> QED BY <1>1, <5>1, <5>2 DEF NextCopy, Message
      <4>2. m.event \in Events /\ m.retry + 1 \in Nat /\ m' = m
        BY <1>1, <2>1
      <4> HIDE DEF m
      <4> QED BY <4>1, <4>2, KeptStays DEF m
    <3> QED BY <1>5, <2>2, <3>1, <3>2, ConsumerMoves
  <2>3. ASSUME con'[w].pc = "await" PROVE Awaited(w, NextCopy(con[w].msg))'
    <3> DEFINE n == NextCopy(con[w].msg)
    <3>1. Publish(w, n) /\ n' = n
      BY <1>5, <2>1, <2>3, ConsumerMoves DEF NextCopy
    <3>2. n \in Message
      BY <1>1, <1>5, <2>1, <2>3, ConsumerMoves DEF NextCopy, Message, LastRetry
    <3> HIDE DEF n
    <3> QED BY <3>1, <3>2, PublishedIsAwaited DEF n
  <2> QED BY <2>2, <2>3
<1>6. CASE Deliver(w) \/ Settle(w) \/ Restart(w)
  <2>1. con'[w].pc \notin {"ack", "await"}
    BY <1>6 DEF Deliver, Settle, Restart, IdleConsumer, TypeOK
  <2> QED BY <1>3, <2>1
<1>7. CASE OutboxStep(w)
  <2>1. con'[w] = con[w] /\ up'[w] = up[w]
    BY <1>7 DEF OutboxStep, Claim, SendEvent, AwaitEvent, MarkPublished, ReleaseRow
  <2>2. wire'[w] = wire[w] \/ con[w].pc # "await"
    BY <1>7 DEF OutboxStep, Claim, SendEvent, AwaitEvent, MarkPublished, ReleaseRow, Publishing
  <2> QED BY <1>4, <2>1, <2>2
<1>8. CASE Refuse(w)
  <2>1. up' = up
    BY <1>8 DEF Refuse
  <2>2. CASE con[w].pc = "await" /\ Len(wire[w]) = 1
    BY <1>3, <1>8, <2>2, RefuseMoves
  <2>3. CASE ~(con[w].pc = "await" /\ Len(wire[w]) = 1)
    BY <1>4, <1>8, <2>1, <2>3, RefuseMoves
  <2> QED BY <2>2, <2>3
<1>9. CASE Accept(w)
  <2>1. con'[w] = con[w] /\ up'[w] = up[w]
    BY <1>9 DEF Accept
  <2> QED BY <1>4, <1>9, <2>1
<1>10. CASE ConnectionLost(w)
  <2>1. con'[w] = con[w] /\ ~up'[w]
    BY <1>10 DEF ConnectionLost, TypeOK
  <2> QED BY <1>2, <2>1
<1>11. CASE pub'[w] = pub[w] /\ con'[w] = con[w] /\ wire'[w] = wire[w] /\ up'[w] = up[w]
  BY <1>4, <1>11
<1> QED
  BY <1>5, <1>6, <1>7, <1>8, <1>9, <1>10, <1>11, OwnStep DEF NotifyStep, BrokerStep

LEMMA NoneForgottenPreserved ==
    ASSUME TypeOK, TypeOK', ConfirmedEventsAreKept, AcknowledgedMailsAreKept,
           NoBookingForgotten, [Next]_vars
    PROVE  NoBookingForgotten'
<1> SUFFICES ASSUME NEW e \in Events, row'[e].status = "PUBLISHED" PROVE Kept(e, 0)'
  BY DEF NoBookingForgotten
<1>1. CASE row[e].status = "PUBLISHED"
  BY <1>1, KeptStays DEF NoBookingForgotten
<1>2. CASE row[e].status # "PUBLISHED"
  <2>1. ASSUME NEW w \in Workers, MarkPublished(w) PROVE Kept(e, 0)
    <3>1. pub[w].event = e
      BY <1>2, <2>1 DEF MarkPublished, TypeOK
    <3> QED BY <2>1, <3>1 DEF MarkPublished, ConfirmedEventsAreKept
  <2>2. ASSUME NEW w \in Workers, Claim(w) \/ ReleaseRow(w) PROVE FALSE
    BY <1>2, <2>2 DEF Claim, ReleaseRow, TypeOK, Row
  <2>3. ASSUME NEW f \in Events, LeasePasses(f) PROVE FALSE
    BY <1>2, <2>3 DEF LeasePasses, TypeOK, Row
  <2>4. row' # row
    BY <1>2
  <2>5. \E w \in Workers : MarkPublished(w)
    BY <2>2, <2>3, <2>4
    DEF Next, OutboxStep, NotifyStep, BrokerStep, SendEvent, AwaitEvent, Deliver, Check, Mail,
        Record, SendRetry, AwaitRetry, Settle, Accept, Refuse, DelayPasses, ConnectionLost,
        Restart, Exit, Crash, vars
  <2> QED BY <2>1, <2>5, KeptStays
<1> QED BY <1>1, <1>2

LEMMA DeliveryInit ==
    Init => DeliveryInv
BY TypeInit
DEF Init, DeliveryInv, OnePublisher, ConfirmedEventsAreKept, AcknowledgedMailsAreKept,
    NoBookingForgotten, IdleOutbox, IdleConsumer

\* No interleaving of workers, lost confirmations, passed leases, retries, lost connections
\* and crashes drops an event between the outbox, the wire, the queues and the record.
THEOREM NothingIsLost == Spec => []DeliveryInv
<1>1. DeliveryInv /\ [Next]_vars => DeliveryInv'
  BY TypePreserved, OnePublisherPreserved, ConfirmedPreserved, AcknowledgedPreserved,
     NoneForgottenPreserved DEF DeliveryInv
<1> QED BY DeliveryInit, <1>1, PTL DEF Spec

\* A row that says PUBLISHED stands for a mail that was recorded or a message the broker
\* still has, for every number of events, workers and faults.
THEOREM NoBookingIsForgotten == Spec => []NoBookingForgotten
<1>1. DeliveryInv => NoBookingForgotten
  BY DEF DeliveryInv
<1> QED BY NothingIsLost, <1>1, PTL
-----------------------------------------------------------------------------
(* Mails are repeated only across failures *)

Recording(e) == \E w \in Workers : con[w].pc = "record" /\ con[w].msg.event = e

\* Each mail is accounted for by its record, or the recording going on, or a fault.
MailsAccountedFor ==
    \A e \in Events : mails[e] <= faults + IF e \in notified \/ Recording(e) THEN 1 ELSE 0

\* What a worker is about to mail, or to record, is not recorded.
MailsAreNew ==
    \A w \in Workers : con[w].pc \in {"mail", "record"} => con[w].msg.event \notin notified

\* Where each step of a delivery's handling leads.
LEMMA MailSteps ==
    ASSUME TypeOK, NEW w \in Workers
    PROVE  /\ Check(w) => \/ con'[w].pc \in {"ack", "retry"}
                          \/ con'[w].pc = "mail" /\ con[w].msg.event \notin notified
           /\ Mail(w) => \/ con'[w].pc = "record" /\ NoFault
                         \/ con'[w].pc = "retry" /\ faults' = faults + 1
           /\ SendRetry(w) \/ AwaitRetry(w) => con'[w].pc \in {"await", "ack", "nack"}
           /\ Record(w) => \/ con[w].msg.event \in notified' /\ con'[w].pc = "ack"
                           \/ con'[w].pc = "retry" /\ faults' = faults + 1
<1>1. con \in Cons /\ (con[w].pc # "idle" => con[w] \in Consumer)
  BY Busy DEF TypeOK, Cons
<1>2. CASE Check(w)
  BY <1>1, <1>2 DEF Check, Cons, Consumer, Mail, Record, SendRetry, AwaitRetry
<1>3. CASE Mail(w)
  BY <1>1, <1>3 DEF Mail, Cons, Consumer, Check, Record, SendRetry, AwaitRetry, Fault
<1>4. CASE SendRetry(w)
  BY <1>1, <1>4 DEF SendRetry, Cons, Consumer, Check, Record, Mail, AwaitRetry
<1>5. CASE AwaitRetry(w)
  BY <1>1, <1>5 DEF AwaitRetry, Cons, Consumer, Check, Record, Mail, SendRetry
<1>6. CASE Record(w)
  BY <1>1, <1>6 DEF Record, Cons, Consumer, Check, Mail, SendRetry, AwaitRetry, Fault
<1> QED BY <1>2, <1>3, <1>4, <1>5, <1>6

LEMMA OneMailerStep ==
    ASSUME NEW w, Workers = {w}, TypeOK, TypeOK', MailsAreNew, MailsAccountedFor, [Next]_vars
    PROVE  MailsAreNew' /\ MailsAccountedFor'
<1> DEFINE Now(e) == con[w].pc = "record" /\ con[w].msg.event = e
<1>1. w \in Workers
  OBVIOUS
<1>2. \A e \in Events : mails[e] \in Nat /\ mails'[e] \in Nat /\ faults \in Nat /\ faults' \in Nat
  BY DEF TypeOK
<1>3. \A e \in Events : mails[e] <= faults + IF e \in notified \/ Now(e) THEN 1 ELSE 0
  BY <1>1 DEF MailsAccountedFor, Recording
<1>4. SUFFICES /\ con'[w].pc \in {"mail", "record"} => con'[w].msg.event \notin notified'
               /\ \A e \in Events :
                    mails'[e] <= faults' + IF e \in notified' \/ Now(e)' THEN 1 ELSE 0
  BY <1>1 DEF MailsAccountedFor, MailsAreNew, Recording
<1>5. con[w].pc \in {"mail", "record"} => con[w].msg.event \notin notified
  BY <1>1 DEF MailsAreNew
<1>6. ASSUME con'[w] = con[w], mails' = mails, notified' = notified, faults' >= faults
      PROVE  /\ con'[w].pc \in {"mail", "record"} => con'[w].msg.event \notin notified'
             /\ \A e \in Events :
                  mails'[e] <= faults' + IF e \in notified' \/ Now(e)' THEN 1 ELSE 0
  <2>1. \A e \in Events : Now(e)' <=> Now(e)
    BY <1>6
  <2> HIDE DEF Now
  <2> QED BY <1>2, <1>3, <1>5, <1>6, <2>1
<1>7. ASSUME con[w].pc # "record", con'[w].pc \notin {"mail", "record"},
             mails' = mails, notified' = notified, faults' >= faults
      PROVE  /\ con'[w].pc \in {"mail", "record"} => con'[w].msg.event \notin notified'
             /\ \A e \in Events :
                  mails'[e] <= faults' + IF e \in notified' \/ Now(e)' THEN 1 ELSE 0
  BY <1>2, <1>3, <1>7
<1>8. faults' >= faults
  BY <1>2 DEF TypeOK, Next, OutboxStep, NotifyStep, BrokerStep, Claim, SendEvent, AwaitEvent,
     MarkPublished, ReleaseRow, Deliver, Check, Mail, Record, SendRetry, AwaitRetry, Settle,
     Accept, Refuse, LeasePasses, DelayPasses, ConnectionLost, Restart, Exit, Crash, Fault,
     NoFault, vars
<1>9. CASE \/ OutboxStep(w) \/ Accept(w) \/ ConnectionLost(w) \/ UNCHANGED vars
           \/ (\E e \in Events : LeasePasses(e)) \/ (\E m \in Message : DelayPasses(m))
  <2>1. con'[w] = con[w] /\ mails' = mails /\ notified' = notified
    BY <1>9 DEF OutboxStep, Claim, SendEvent, AwaitEvent, MarkPublished, ReleaseRow, Accept,
                ConnectionLost, LeasePasses, DelayPasses, vars
  <2> QED BY <1>6, <1>8, <2>1
<1>10. CASE Check(w)
  <2>1. /\ con[w].pc # "record" /\ con'[w].pc # "record"
        /\ con'[w].pc = "mail" => con[w].msg.event \notin notified
        /\ con'[w].msg = con[w].msg /\ mails' = mails /\ notified' = notified
    BY <1>1, <1>10, MailSteps, ConsumerMoves DEF Check
  <2> QED BY <1>2, <1>3, <1>8, <2>1
<1>11. CASE Mail(w)
  <2> DEFINE f == con[w].msg.event
  <2>1. /\ con[w].pc = "mail" /\ con'[w].msg = con[w].msg /\ notified' = notified
        /\ con'[w].pc \in {"record", "retry"} /\ f \notin notified
        /\ \A e \in Events : mails'[e] = mails[e] \/ (e = f /\ mails'[e] = mails[e] + 1)
    BY <1>1, <1>2, <1>5, <1>11, MailSteps, ConsumerMoves DEF Mail, TypeOK
  <2>2. con'[w].pc = "record" \/ faults' = faults + 1
    BY <1>1, <1>11, MailSteps
  <2>3. ASSUME NEW e \in Events
        PROVE  mails'[e] <= faults' + IF e \in notified' \/ Now(e)' THEN 1 ELSE 0
    <3>1. CASE e = f
      BY <1>2, <1>3, <1>8, <2>1, <2>2, <3>1
    <3>2. CASE e # f
      BY <1>2, <1>3, <1>8, <2>1, <3>2
    <3> QED BY <3>1, <3>2
  <2> QED BY <2>1, <2>3
<1>12. CASE Record(w)
  <2> DEFINE f == con[w].msg.event
  <2>1. /\ con[w].pc = "record" /\ con'[w].msg = con[w].msg /\ mails' = mails
        /\ con'[w].pc \in {"ack", "retry"} /\ notified \subseteq notified'
        /\ f \in notified' \/ faults' = faults + 1
    BY <1>1, <1>12, MailSteps, ConsumerMoves DEF Record
  <2>2. ASSUME NEW e \in Events
        PROVE  mails'[e] <= faults' + IF e \in notified' \/ Now(e)' THEN 1 ELSE 0
    <3>1. CASE e = f
      BY <1>2, <1>3, <1>8, <2>1, <3>1
    <3>2. CASE e # f
      BY <1>2, <1>3, <1>8, <2>1, <3>2
    <3> QED BY <3>1, <3>2
  <2> QED BY <2>1, <2>2
<1>13. CASE SendRetry(w) \/ AwaitRetry(w)
  <2>1. /\ con[w].pc # "record" /\ con'[w].pc \notin {"mail", "record"}
        /\ mails' = mails /\ notified' = notified
    BY <1>1, <1>13, MailSteps DEF SendRetry, AwaitRetry
  <2> QED BY <1>7, <1>8, <2>1
<1>14. CASE Deliver(w) \/ Settle(w) \/ Exit(w)
  <2>1. /\ con[w].pc # "record" /\ con'[w].pc \notin {"mail", "record"}
        /\ mails' = mails /\ notified' = notified
    BY <1>1, <1>14 DEF Deliver, Settle, Exit, Restart, IdleConsumer, TypeOK
  <2> QED BY <1>7, <1>8, <2>1
<1>15. CASE Crash(w)
  <2>1. /\ con'[w].pc = "idle" /\ mails' = mails /\ notified' = notified
        /\ faults' = faults + 1
    BY <1>1, <1>15 DEF Crash, Restart, Fault, IdleConsumer, TypeOK
  <2> QED BY <1>2, <1>3, <2>1
<1>16. CASE Refuse(w)
  <2>1. mails' = mails /\ notified' = notified
    BY <1>16 DEF Refuse
  <2>2. CASE con[w].pc = "await" /\ Len(wire[w]) = 1
    BY <1>1, <1>7, <1>8, <1>16, <2>1, <2>2, RefuseMoves
  <2>3. CASE ~(con[w].pc = "await" /\ Len(wire[w]) = 1)
    BY <1>1, <1>6, <1>8, <1>16, <2>1, <2>3, RefuseMoves
  <2> QED BY <2>2, <2>3
<1> QED
  BY <1>9, <1>10, <1>11, <1>12, <1>13, <1>14, <1>15, <1>16
  DEF Next, NotifyStep, BrokerStep

\* One worker, as deployed, mails a booking again only across a fault, one repetition for
\* each, however many times its event is published and its message delivered.
THEOREM OneMailerRepeatsOnlyAcrossFailures ==
    ASSUME NEW w, Workers = {w}
    PROVE  Spec => []MailsRepeatOnlyAcrossFailures
<1> DEFINE Accounts == TypeOK /\ MailsAreNew /\ MailsAccountedFor
<1>1. Init => Accounts
  BY TypeInit DEF Init, MailsAreNew, MailsAccountedFor, IdleConsumer
<1>2. Accounts /\ [Next]_vars => Accounts'
  BY TypePreserved, OneMailerStep
<1>3. Accounts => MailsRepeatOnlyAcrossFailures
  <2> SUFFICES ASSUME Accounts, NEW e \in Events PROVE mails[e] <= 1 + faults
    BY DEF MailsRepeatOnlyAcrossFailures
  <2>1. mails[e] \in Nat /\ faults \in Nat
    BY DEF TypeOK
  <2>2. mails[e] <= faults + IF e \in notified \/ Recording(e) THEN 1 ELSE 0
    BY DEF MailsAccountedFor
  <2> QED BY <2>1, <2>2
<1> HIDE DEF Accounts
<1> QED BY <1>1, <1>2, <1>3, PTL DEF Spec
=============================================================================
