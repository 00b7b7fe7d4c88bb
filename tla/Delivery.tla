------------------------------ MODULE Delivery ------------------------------
(***************************************************************************)
(* From a booking's outbox row to the mail that confirms it: the loops     *)
(* RunOutbox and RunNotifications of backend/internal/worker/processor.go  *)
(* over RabbitMQ (backend/internal/messaging/rabbit.go), with the mailer   *)
(* as a call that may send its mail and still fail.                        *)
(*                                                                         *)
(* A worker process runs both loops over one connection, on which it       *)
(* publishes one message at a time (Rabbit.mu).  Delays (next_attempt_at,  *)
(* the ticks, the TTLs of the retry queues, the lease) are time that has   *)
(* or has not passed yet; how much of it is left out.                      *)
(***************************************************************************)
EXTENDS Naturals, Sequences

CONSTANTS
    Events,      \* the booking.confirmed events Confirm wrote to the outbox
    Workers,     \* worker processes
    None,
    FaultKinds,  \* what may go wrong
    MaxFaults    \* bound: how often something goes wrong in a behaviour

ASSUME NoneIsNoEvent == None \notin Events
ASSUME DeliveryFaults ==
    /\ FaultKinds \subseteq {"mongoError", "smtpError", "smtpLateError", "confirmTimeout",
                             "brokerNack", "connectionLost", "crash", "slowWorker"}
    /\ MaxFaults \in Nat

VARIABLES
    row,       \* collection outbox_events
    notified,  \* collection notifications: the events recorded as mailed
    pub,       \* each worker's RunOutbox loop
    con,       \* each worker's RunNotifications loop
    up,        \* whether each worker's connection to the broker is up
    wire,      \* messages published on each connection and not yet handled by the broker
    queue,     \* booking.notifications: how many copies of each message are ready
    delayed,   \* the three retry queues
    dead,      \* the dead-letter queue
    mails,     \* how often the mail of each event was accepted by the SMTP server
    faults     \* how many faults have happened

vars == <<row, notified, pub, con, up, wire, queue, delayed, dead, mails, faults>>
broker == <<queue, delayed, dead>>

LastRetry == 3  \* the retry queues, and the last x-retry-count

Message == [event: Events, retry: 0..LastRetry]
Row == [status: {"PENDING", "PROCESSING", "PUBLISHED"}, leased: BOOLEAN]
Outbox == [pc: {"send", "await", "mark", "release"}, event: Events]
Consumer == [pc: {"check", "mail", "record", "ack", "retry", "await", "nack"}, msg: Message]

IdleOutbox == [pc |-> "idle", event |-> None]
IdleConsumer == [pc |-> "idle", msg |-> None]
NoMessages == [m \in Message |-> 0]

Put(q, m) == [q EXCEPT ![m] = @ + 1]

FirstCopy(e) == [event |-> e, retry |-> 0]
NextCopy(m) == [m EXCEPT !.retry = @ + 1]

Init ==
    /\ row = [e \in Events |-> [status |-> "PENDING", leased |-> FALSE]]
    /\ notified = {}
    /\ pub = [w \in Workers |-> IdleOutbox]
    /\ con = [w \in Workers |-> IdleConsumer]
    /\ up = [w \in Workers |-> TRUE]
    /\ wire = [w \in Workers |-> <<>>]
    /\ queue = NoMessages /\ delayed = NoMessages /\ dead = NoMessages
    /\ mails = [e \in Events |-> 0]
    /\ faults = 0

Fault(kind) == kind \in FaultKinds /\ faults < MaxFaults /\ faults' = faults + 1
NoFault == UNCHANGED faults

-----------------------------------------------------------------------------
(* Publishing on a worker's connection *)

\* Rabbit.mu is held from the publishing of a message until its confirmation.
Publishing(w) == pub[w].pc = "await" \/ con[w].pc = "await"

\* The broker confirms in order, and the message awaited is the last one published.
Confirmed(w) == up[w] /\ wire[w] = <<>>

Publish(w, m) == up[w] /\ wire' = [wire EXCEPT ![w] = Append(@, m)]

\* The broker takes the next message on a connection to its queue and confirms it.
Accept(w) ==
    /\ wire[w] # <<>>
    /\ wire' = [wire EXCEPT ![w] = Tail(@)]
    /\ LET m == Head(wire[w]) IN
       IF m.retry = 0 THEN queue' = Put(queue, m) /\ UNCHANGED delayed
                      ELSE delayed' = Put(delayed, m) /\ UNCHANGED queue
    /\ NoFault
    /\ UNCHANGED <<row, notified, pub, con, up, dead, mails>>

\* It refuses the next message, and tells whoever waits for it.
Refuse(w) ==
    /\ wire[w] # <<>> /\ Fault("brokerNack")
    /\ wire' = [wire EXCEPT ![w] = Tail(@)]
    /\ pub' = [pub EXCEPT ![w].pc = IF @ = "await" /\ Len(wire[w]) = 1 THEN "release" ELSE @]
    /\ con' = [con EXCEPT ![w].pc = IF @ = "await" /\ Len(wire[w]) = 1 THEN "nack" ELSE @]
    /\ UNCHANGED <<row, notified, up, broker, mails>>

-----------------------------------------------------------------------------
(* RunOutbox *)

\* Mutant: a claimed row is not claimed again, its lease passed or not.
Due_PendingOnly(e) == row[e].status = "PENDING"

Due(e) ==
    \/ row[e].status = "PENDING"
    \/ row[e].status = "PROCESSING" /\ ~row[e].leased

\* claimOutbox; the claim may succeed although its reply is lost.
Claim(w) ==
    /\ pub[w].pc = "idle"
    /\ \E e \in Events :
         /\ Due(e)
         /\ row' = [row EXCEPT ![e] = [status |-> "PROCESSING", leased |-> TRUE]]
         /\ \/ pub' = [pub EXCEPT ![w] = [pc |-> "send", event |-> e]] /\ NoFault
            \/ UNCHANGED pub /\ Fault("mongoError")
    /\ UNCHANGED <<notified, con, up, wire, broker, mails>>

\* The event is published as a first delivery, or not at all on a closed connection.
SendEvent(w) ==
    /\ pub[w].pc = "send" /\ ~Publishing(w)
    /\ \/ /\ Publish(w, FirstCopy(pub[w].event))
          /\ pub' = [pub EXCEPT ![w].pc = "await"]
       \/ ~up[w] /\ pub' = [pub EXCEPT ![w].pc = "release"] /\ UNCHANGED wire
    /\ NoFault
    /\ UNCHANGED <<row, notified, con, up, broker, mails>>

\* Mutant: the confirmation is not waited for.
AwaitEvent_NoConfirm(w) ==
    /\ pub[w].pc = "await" /\ NoFault
    /\ pub' = [pub EXCEPT ![w].pc = "mark"]
    /\ UNCHANGED <<row, notified, con, up, wire, broker, mails>>

\* It is confirmed, or the connection is closed, or ten seconds pass, and the broker may
\* handle the message later.
AwaitEvent(w) ==
    /\ pub[w].pc = "await"
    /\ \/ Confirmed(w) /\ NoFault /\ pub' = [pub EXCEPT ![w].pc = "mark"]
       \/ /\ (~up[w] /\ NoFault) \/ Fault("confirmTimeout")
          /\ pub' = [pub EXCEPT ![w].pc = "release"]
    /\ UNCHANGED <<row, notified, con, up, wire, broker, mails>>

\* The row becomes PUBLISHED if it is still PROCESSING, whoever has claimed it since.
MarkPublished(w) ==
    LET e == pub[w].event IN
    /\ pub[w].pc = "mark"
    /\ \/ /\ row' = IF row[e].status = "PROCESSING"
                    THEN [row EXCEPT ![e] = [status |-> "PUBLISHED", leased |-> FALSE]]
                    ELSE row
          /\ NoFault \/ Fault("mongoError")
       \/ UNCHANGED row /\ Fault("mongoError")
    /\ pub' = [pub EXCEPT ![w] = IdleOutbox]
    /\ UNCHANGED <<notified, con, up, wire, broker, mails>>

\* After a failure the row becomes PENDING again, whatever it has become since.
ReleaseRow(w) ==
    /\ pub[w].pc = "release"
    /\ \/ /\ row' = [row EXCEPT ![pub[w].event] = [status |-> "PENDING", leased |-> FALSE]]
          /\ NoFault
       \/ UNCHANGED row /\ Fault("mongoError")
    /\ pub' = [pub EXCEPT ![w] = IdleOutbox]
    /\ UNCHANGED <<notified, con, up, wire, broker, mails>>

OutboxStep(w) ==
    Claim(w) \/ SendEvent(w) \/ AwaitEvent(w) \/ MarkPublished(w) \/ ReleaseRow(w)

-----------------------------------------------------------------------------
(* RunNotifications *)

\* The broker hands a message over; it stays the broker's until it is acknowledged.
Deliver(w) ==
    /\ con[w].pc = "idle" /\ up[w]
    /\ \E m \in Message :
         /\ queue[m] > 0
         /\ queue' = [queue EXCEPT ![m] = @ - 1]
         /\ con' = [con EXCEPT ![w] = [pc |-> "check", msg |-> m]]
    /\ NoFault
    /\ UNCHANGED <<row, notified, pub, up, wire, delayed, dead, mails>>

\* Mutant: notify does not look whether the event was mailed.
Check_Always(w) ==
    /\ con[w].pc = "check" /\ NoFault
    /\ con' = [con EXCEPT ![w].pc = "mail"]
    /\ UNCHANGED <<row, notified, pub, up, wire, broker, mails>>

\* An event that was recorded is done; otherwise its booking is read.
Check(w) ==
    /\ con[w].pc = "check"
    /\ \/ /\ con' = [con EXCEPT ![w].pc = IF con[w].msg.event \in notified THEN "ack"
                                                                          ELSE "mail"]
          /\ NoFault
       \/ con' = [con EXCEPT ![w].pc = "retry"] /\ Fault("mongoError")
    /\ UNCHANGED <<row, notified, pub, up, wire, broker, mails>>

\* SendBookingConfirmation: an error may come before or after the server took the mail.
Mail(w) ==
    LET e == con[w].msg.event IN
    /\ con[w].pc = "mail"
    /\ \/ /\ mails' = [mails EXCEPT ![e] = @ + 1]
          /\ \/ con' = [con EXCEPT ![w].pc = "record"] /\ NoFault
             \/ con' = [con EXCEPT ![w].pc = "retry"] /\ Fault("smtpLateError")
       \/ UNCHANGED mails /\ con' = [con EXCEPT ![w].pc = "retry"] /\ Fault("smtpError")
    /\ UNCHANGED <<row, notified, pub, up, wire, broker>>

\* The notification is recorded; finding it recorded by someone else is no error.
Record(w) ==
    LET e == con[w].msg.event IN
    /\ con[w].pc = "record"
    /\ \/ /\ notified' = notified \cup {e}
          /\ con' = [con EXCEPT ![w].pc = "ack"] /\ NoFault
       \/ /\ notified' \in {notified, notified \cup {e}}
          /\ con' = [con EXCEPT ![w].pc = "retry"] /\ Fault("mongoError")
    /\ UNCHANGED <<row, pub, up, wire, broker, mails>>

\* Mutant: there is always another retry.
SendRetry_NoLimit(w) ==
    /\ con[w].pc = "retry" /\ ~Publishing(w) /\ NoFault
    /\ Publish(w, NextCopy(con[w].msg))
    /\ con' = [con EXCEPT ![w].pc = "await"]
    /\ UNCHANGED <<row, notified, pub, up, broker, mails>>

\* After a failure a copy with the next count goes to a retry queue, while there is one.
SendRetry(w) ==
    LET m == con[w].msg IN
    /\ con[w].pc = "retry"
    /\ \/ /\ m.retry < LastRetry /\ ~Publishing(w)
          /\ Publish(w, NextCopy(m))
          /\ con' = [con EXCEPT ![w].pc = "await"]
       \/ /\ m.retry = LastRetry \/ (~up[w] /\ ~Publishing(w))
          /\ con' = [con EXCEPT ![w].pc = "nack"]
          /\ UNCHANGED wire
    /\ NoFault
    /\ UNCHANGED <<row, notified, pub, up, broker, mails>>

\* PublishRetry waits as long as the connection is up.
AwaitRetry(w) ==
    /\ con[w].pc = "await"
    /\ \/ Confirmed(w) /\ con' = [con EXCEPT ![w].pc = "ack"]
       \/ ~up[w] /\ con' = [con EXCEPT ![w].pc = "nack"]
    /\ NoFault
    /\ UNCHANGED <<row, notified, pub, up, wire, broker, mails>>

\* Mutant: a failed message is acknowledged like any other.
Settle_AckAll(w) ==
    /\ con[w].pc \in {"ack", "nack"} /\ NoFault
    /\ con' = [con EXCEPT ![w] = IdleConsumer]
    /\ UNCHANGED <<row, notified, pub, up, wire, broker, mails>>

\* An acknowledged message is gone and a refused one is dead-lettered; on a closed
\* connection neither reaches the broker, which has the message back already.
Settle(w) ==
    /\ con[w].pc \in {"ack", "nack"}
    /\ dead' = IF con[w].pc = "nack" /\ up[w] THEN Put(dead, con[w].msg) ELSE dead
    /\ con' = [con EXCEPT ![w] = IdleConsumer]
    /\ NoFault
    /\ UNCHANGED <<row, notified, pub, up, wire, queue, delayed, mails>>

NotifyStep(w) ==
    \/ Deliver(w) \/ Check(w) \/ Mail(w) \/ Record(w)
    \/ SendRetry(w) \/ AwaitRetry(w) \/ Settle(w)

-----------------------------------------------------------------------------
(* Time, connections and processes *)

\* A lease is left behind, or passes while its worker is still at it.
LeasePasses(e) ==
    /\ row[e].leased
    /\ ((\A w \in Workers : pub[w].event # e) /\ NoFault) \/ Fault("slowWorker")
    /\ row' = [row EXCEPT ![e].leased = FALSE]
    /\ UNCHANGED <<notified, pub, con, up, wire, broker, mails>>

\* The TTL of a retry queue dead-letters its message to the main queue.
DelayPasses(m) ==
    /\ delayed[m] > 0
    /\ delayed' = [delayed EXCEPT ![m] = @ - 1]
    /\ queue' = Put(queue, m)
    /\ NoFault
    /\ UNCHANGED <<row, notified, pub, con, up, wire, dead, mails>>

\* What the broker does when a connection goes: it takes the unacknowledged message back,
\* and messages still on the way are lost.
Requeued(w) == IF up[w] /\ con[w].pc # "idle" THEN Put(queue, con[w].msg) ELSE queue

ConnectionLost(w) ==
    /\ up[w] /\ Fault("connectionLost")
    /\ queue' = Requeued(w)
    /\ up' = [up EXCEPT ![w] = FALSE]
    /\ wire' = [wire EXCEPT ![w] = <<>>]
    /\ UNCHANGED <<row, notified, pub, con, delayed, dead, mails>>

\* A process starts over, and forgets what its loops were doing.
Restart(w) ==
    /\ queue' = Requeued(w)
    /\ up' = [up EXCEPT ![w] = TRUE]
    /\ wire' = [wire EXCEPT ![w] = <<>>]
    /\ pub' = [pub EXCEPT ![w] = IdleOutbox]
    /\ con' = [con EXCEPT ![w] = IdleConsumer]
    /\ UNCHANGED <<row, notified, delayed, dead, mails>>

\* RunNotifications finds its deliveries closed, and the process exits and is restarted.
Exit(w) == ~up[w] /\ con[w].pc = "idle" /\ Restart(w) /\ NoFault

Crash(w) == Restart(w) /\ Fault("crash")

BrokerStep(w) == Accept(w) \/ Refuse(w)

Next ==
    \/ \E w \in Workers : \/ OutboxStep(w) \/ NotifyStep(w) \/ BrokerStep(w)
                          \/ ConnectionLost(w) \/ Exit(w) \/ Crash(w)
    \/ \E e \in Events : LeasePasses(e)
    \/ \E m \in Message : DelayPasses(m)

Spec == Init /\ [][Next]_vars

\* Both loops and the broker go on, a process that exits is restarted, and time passes.
Fairness ==
    /\ \A w \in Workers : /\ WF_vars(OutboxStep(w)) /\ WF_vars(NotifyStep(w))
                          /\ WF_vars(Accept(w)) /\ WF_vars(Exit(w))
    /\ \A e \in Events : WF_vars(LeasePasses(e))
    /\ \A m \in Message : WF_vars(DelayPasses(m))

FairSpec == Spec /\ Fairness

-----------------------------------------------------------------------------
(* What delivery must guarantee *)

\* Every store, loop and queue is in a state of its kind.
TypeOK ==
    /\ row \in [Events -> Row]
    /\ notified \subseteq Events
    /\ pub \in [Workers -> Outbox \cup {IdleOutbox}]
    /\ con \in [Workers -> Consumer \cup {IdleConsumer}]
    /\ up \in [Workers -> BOOLEAN]
    /\ wire \in [Workers -> Seq(Message)]
    /\ queue \in [Message -> Nat] /\ delayed \in [Message -> Nat] /\ dead \in [Message -> Nat]
    /\ mails \in [Events -> Nat]
    /\ faults \in Nat

\* The broker has a copy of m: in a queue, or handed over and not acknowledged.
AtBroker(m) ==
    \/ queue[m] > 0 \/ delayed[m] > 0 \/ dead[m] > 0
    \/ \E w \in Workers : up[w] /\ con[w].pc # "idle" /\ con[w].msg = m

\* The mail of e is recorded, or the broker has e with a retry count of r or more.
Kept(e, r) == e \in notified \/ \E m \in Message : m.event = e /\ m.retry >= r /\ AtBroker(m)

\* A row is PUBLISHED only if its booking's mail was recorded or the broker still has the
\* event, in the dead-letter queue at worst: no crash, lost confirmation, passed lease or
\* failing retry makes the system forget a booking (processor.go:88-101, 117-139).
NoBookingForgotten ==
    \A e \in Events : row[e].status = "PUBLISHED" => Kept(e, 0)

\* A message waited for on a connection is the last one on its way, or the broker took it.
Awaited(w, m) ==
    IF wire[w] = <<>> THEN Kept(m.event, m.retry) ELSE wire[w][Len(wire[w])] = m

\* The outbox loop passes its wait only for an event the broker keeps (rabbit.go:90-134).
ConfirmedEventsAreKept ==
    \A w \in Workers : LET e == pub[w].event IN
        /\ pub[w].pc = "mark" => Kept(e, 0)
        /\ pub[w].pc = "await" /\ up[w] => Awaited(w, FirstCopy(e))

\* A delivery is acknowledged only when its mail is recorded or a copy with a higher retry
\* count is kept (processor.go:117-136).
AcknowledgedMailsAreKept ==
    \A w \in Workers : LET m == con[w].msg IN
        /\ con[w].pc = "ack" => Kept(m.event, m.retry + 1)
        /\ con[w].pc = "await" /\ up[w] => Awaited(w, NextCopy(m))

\* Rabbit.mu lets one of a worker's loops publish and wait at a time (rabbit.go:91, 111).
OnePublisher == \A w \in Workers : ~(pub[w].pc = "await" /\ con[w].pc = "await")

\* Nothing is dropped between the outbox, the wire, the queues and the mail record: the
\* inductive form of NoBookingForgotten.
DeliveryInv ==
    /\ TypeOK
    /\ OnePublisher
    /\ ConfirmedEventsAreKept
    /\ AcknowledgedMailsAreKept
    /\ NoBookingForgotten

\* With one worker a mail is repeated only across failures, one repetition for each: lost
\* confirmations, passed leases and redeliveries publish an event again, but notify finds it
\* recorded (processor.go:155-160, 172-180; README.md:322).
MailsRepeatOnlyAcrossFailures == \A e \in Events : mails[e] <= 1 + faults

\* Every booking is mailed and recorded, or its message dead-lettered, although workers
\* stop, leases are left behind and confirmations get lost (processor.go:54-142).
EveryBookingIsHandled ==
    \A e \in Events : <>(e \in notified \/ \E m \in Message : m.event = e /\ dead[m] > 0)
=============================================================================
