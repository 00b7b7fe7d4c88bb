------------------------------ MODULE SeatFeed ------------------------------
(***************************************************************************)
(* From a committed change of a showtime's seats to the seat maps that     *)
(* browsers show: the seat events of backend/internal/service/booking.go,  *)
(* Redis Pub/Sub, the WebSocket hub of backend/internal/realtime/hub.go    *)
(* and the client of frontend/src/views/SeatsView.vue.                     *)
(*                                                                         *)
(* The database changes as SeatLedger says, which Booking implements; how  *)
(* much time passes is left out, so a hold may have lapsed at any moment.  *)
(* A message stands for its event, whose seats are those of its hold.      *)
(***************************************************************************)
EXTENDS Naturals, Sequences

CONSTANTS
    Seats,
    Claims,      \* the holds
    Clients,     \* browsers showing the showtime's seat map
    Conns,       \* WebSocket connections, used again once both ends have let go of one
    Capacity,    \* messages a connection's channel holds (32)
    None,
    FaultKinds,  \* what may go wrong
    MaxFaults    \* bound: how often something goes wrong in a behaviour

ASSUME CapacityAssumption == Capacity \in Nat \ {0}
ASSUME NoneIsNothing ==
    None \notin Claims \cup Conns \cup {"AVAILABLE", "LOCKED", "BOOKED"}
ASSUME FeedFaults ==
    /\ FaultKinds \subseteq {"publishLost", "subscriptionEnds", "disconnect",
                             "restError", "crash"}
    /\ MaxFaults \in Nat

VARIABLES
    owner, life, claimed,  \* the database, as in SeatLedger
    unsent,   \* events whose transaction has committed and that are not published yet
    channel,  \* messages on their way from Redis to the hub's subscription
    running,  \* whether Hub.Run is still receiving
    room,     \* the connections registered for the showtime
    cast,     \* the message being broadcast, and the copied connections left to send it to
    stage,    \* how far each connection's handler is
    open,     \* whether each connection is open
    buf,      \* the channel of each connection
    socket,   \* the connection each client listens to
    syncing,  \* SeatsView's syncing,
    pending,  \*   its bufferedEvents,
    asking,   \*   its latest request for the seats,
    answer,   \*   what that was answered,
    shown,    \*   and its seats
    told,     \* history: what the last message about each seat said of it
    missed,   \* history: seats about which a message was lost since each client connected
    faults

db == <<owner, life, claimed>>
hub == <<channel, running, room, cast>>
conns == <<stage, open, buf>>
views == <<socket, syncing, pending, asking, answer, shown>>
history == <<told, missed>>
vars == <<db, unsent, hub, conns, views, history, faults>>

Ledger == INSTANCE SeatLedger WITH TTL <- 0, time <- 0, until <- [c \in Claims |-> 0]

Connected(c) == socket[c] # None /\ open[socket[c]]

SeatStatus == {"AVAILABLE", "LOCKED", "BOOKED"}
SeatMap == [Seats -> SeatStatus \cup {None}]
NoSeats == [s \in Seats |-> None]  \* a client that has not read its seats yet

Event == [type: {"locked", "released", "booked"}, claim: Claims]
Snapshot == [type |-> "snapshot", claim |-> None]
Message == Event \cup {Snapshot}
Cast == [event: Event \cup {None}, left: SUBSET Conns]
NoCast == [event |-> None, left |-> {}]

Seen(s) ==
    IF owner[s] = None THEN "AVAILABLE"
    ELSE IF life[owner[s]] = "sold" THEN "BOOKED" ELSE "LOCKED"

Init ==
    /\ Ledger!Init
    /\ unsent = {}
    /\ channel = <<>> /\ running = TRUE /\ room = {} /\ cast = NoCast
    /\ stage = [k \in Conns |-> "free"]
    /\ open = [k \in Conns |-> FALSE]
    /\ buf = [k \in Conns |-> <<>>]
    /\ socket = [c \in Clients |-> None]
    /\ syncing = [c \in Clients |-> FALSE]
    /\ pending = [c \in Clients |-> <<>>]
    /\ asking = [c \in Clients |-> "no"]
    /\ answer = [c \in Clients |-> NoSeats]
    /\ shown = [c \in Clients |-> NoSeats]
    /\ told = [s \in Seats |-> "AVAILABLE"]
    /\ missed = [c \in Clients |-> {}]
    /\ faults = 0

Fault(kind) == kind \in FaultKinds /\ faults < MaxFaults /\ faults' = faults + 1
NoFault == UNCHANGED faults

-----------------------------------------------------------------------------
(* Commits, and the events published after them *)

\* The handler or worker that committed still has this event to publish.
Owes(type, h) == unsent' = unsent \cup {[type |-> type, claim |-> h]}

\* One new hold is like another.
Holds(h) ==
    /\ life[h] = "new" /\ h = CHOOSE c \in Claims : life[c] = "new"
    /\ Ledger!Grant(h) /\ claimed'[h] # {} /\ Owes("locked", h)

Books(h) == Ledger!Sell(h) /\ Owes("booked", h)
\* Given back or expired, which look the same from here.
Frees(h) == Ledger!Return(h) /\ Owes("released", h)

Commit(h) ==
    /\ Holds(h) \/ Books(h) \/ Frees(h)
    /\ NoFault
    /\ UNCHANGED <<hub, conns, views, history>>

\* An event names all seats of its hold, whoever has them now.
SeatsOf(e) == claimed[e.claim]

\* Mutant: the type of the event is taken for the status.
Tells_Raw(e) == e.type

Tells(e) == CASE e.type = "locked" -> "LOCKED"
              [] e.type = "booked" -> "BOOKED"
              [] OTHER -> "AVAILABLE"

Miss(S) ==
    missed' = [c \in Clients |-> IF Connected(c) THEN missed[c] \cup S ELSE missed[c]]
SeatsIn(q) == UNION {SeatsOf(q[i]) : i \in DOMAIN q}

\* publishSeatEvent: whoever subscribes now will receive it.  An error is only logged, and
\* a handler that dies or cannot tell that its transaction committed publishes nothing.
Published(e) ==
    /\ running /\ NoFault
    /\ channel' = Append(channel, e)
    /\ told' = [s \in Seats |-> IF s \in SeatsOf(e) THEN Tells(e) ELSE told[s]]
    /\ UNCHANGED missed

Unheard(e) ==
    /\ (~running /\ NoFault) \/ Fault("publishLost")
    /\ Miss(SeatsOf(e))
    /\ UNCHANGED <<channel, told>>

PublishSeatEvent(e) ==
    /\ e \in unsent
    /\ unsent' = unsent \ {e}
    /\ Published(e) \/ Unheard(e)
    /\ UNCHANGED <<db, running, room, cast, conns, views>>

-----------------------------------------------------------------------------
(* Hub.Run and broadcast *)

CastTo(e, S) == IF S = {} THEN NoCast ELSE [event |-> e, left |-> S]

\* The next message is received, and the connections of the room are copied.
Receive ==
    /\ running /\ cast = NoCast /\ channel # <<>>
    /\ cast' = CastTo(Head(channel), room)
    /\ channel' = Tail(channel)
    /\ NoFault
    /\ UNCHANGED <<db, unsent, running, room, conns, views, history>>

\* Mutant: the connection is left open.
Unregister_KeepsOpen(k) ==
    /\ room' = room \ {k}
    /\ UNCHANGED <<open, buf>>

\* unregister: out of the room, channel closed, connection closed.
Unregister(k) ==
    /\ room' = room \ {k}
    /\ open' = [open EXCEPT ![k] = FALSE]
    /\ buf' = [buf EXCEPT ![k] = <<>>]

HasRoom(k) == Len(buf[k]) < Capacity
Put(k, m) == buf' = [buf EXCEPT ![k] = Append(@, m)] /\ UNCHANGED <<room, open>>

\* Mutant: the message is dropped and the client stays.
Offer_Drops(k, m) == IF HasRoom(k) THEN Put(k, m) ELSE UNCHANGED <<room, open, buf>>

\* A message that does not fit costs the client its connection.
Offer(k, m) == IF HasRoom(k) THEN Put(k, m) ELSE Unregister(k)

Send(k) ==
    /\ k \in cast.left \cap room
    /\ cast' = CastTo(cast.event, cast.left \ {k})
    /\ Offer(k, cast.event)
    /\ NoFault
    /\ UNCHANGED <<db, unsent, channel, running, stage, views, history>>

\* Run returns on a failed receive, and nothing runs it again.
SubscriptionEnds ==
    /\ running /\ cast = NoCast /\ Fault("subscriptionEnds")
    /\ running' = FALSE /\ channel' = <<>>
    /\ Miss(SeatsIn(channel))
    /\ UNCHANGED <<db, unsent, room, cast, conns, views, told>>

\* The API process dies and is started again; some of its handlers had events to publish.
Restart ==
    /\ \E lost \in SUBSET unsent : unsent' = unsent \ lost
    /\ channel' = <<>> /\ running' = TRUE /\ room' = {} /\ cast' = NoCast
    /\ stage' = [k \in Conns |-> "free"]
    /\ open' = [k \in Conns |-> FALSE]
    /\ buf' = [k \in Conns |-> <<>>]
    /\ asking' = [c \in Clients |-> "no"]
    /\ answer' = [c \in Clients |-> NoSeats]
    /\ syncing' = [c \in Clients |-> syncing[c] /\ asking[c] = "no"]
    /\ Miss(Seats)
    /\ UNCHANGED <<db, socket, pending, shown, told>>

Crash == Restart /\ Fault("crash")

\* broadcast sends on a channel that was closed after its connection was copied.
Panic == cast.left \ room # {} /\ Restart /\ NoFault

-----------------------------------------------------------------------------
(* Serve: the handler of a connection *)

\* The handshake is done and the connection joins the room, or its client has gone.
Register(k) ==
    /\ stage[k] = "dialing"
    /\ IF open[k] THEN room' = room \cup {k} /\ stage' = [stage EXCEPT ![k] = "registered"]
                  ELSE stage' = [stage EXCEPT ![k] = "free"] /\ UNCHANGED room
    /\ NoFault
    /\ UNCHANGED <<db, unsent, channel, running, cast, open, buf, views, history>>

\* The snapshot is the first thing the handler sends; it waits for room, and panics if the
\* channel has been closed, which ends no more than this handler (gin.Recovery).
SendSnapshot(k) ==
    /\ stage[k] = "registered"
    /\ \/ /\ k \in room /\ HasRoom(k)
          /\ Put(k, Snapshot)
          /\ stage' = [stage EXCEPT ![k] = "serving"]
       \/ /\ k \notin room
          /\ stage' = [stage EXCEPT ![k] = "free"]
          /\ UNCHANGED <<room, open, buf>>
    /\ NoFault
    /\ UNCHANGED <<db, unsent, channel, running, cast, views, history>>

\* readPump finds its connection closed and unregisters it.
HandlerEnds(k) ==
    /\ stage[k] = "serving" /\ ~open[k]
    /\ Unregister(k)
    /\ stage' = [stage EXCEPT ![k] = "free"]
    /\ NoFault
    /\ UNCHANGED <<db, unsent, channel, running, cast, views, history>>

\* A handler whose snapshot does not fit sends no pings: the proxy gives the connection up.
ProxyTimesOut(k) ==
    /\ stage[k] = "registered" /\ open[k] /\ ~HasRoom(k)
    /\ open' = [open EXCEPT ![k] = FALSE]
    /\ NoFault
    /\ UNCHANGED <<db, unsent, hub, stage, buf, views, history>>

Disconnect(k) ==
    /\ open[k] /\ Fault("disconnect")
    /\ open' = [open EXCEPT ![k] = FALSE]
    /\ UNCHANGED <<db, unsent, hub, stage, buf, views, history>>

-----------------------------------------------------------------------------
(* SeatsView *)

Unused(k, c) ==
    stage[k] = "free" /\ k \notin cast.left /\ \A d \in Clients \ {c} : socket[d] # k

\* connect: at first, and some time after the connection has closed.
Connect(c) ==
    LET k == CHOOSE j \in Conns : Unused(j, c) IN
    /\ ~Connected(c)
    /\ \E j \in Conns : Unused(j, c)
    /\ socket' = [socket EXCEPT ![c] = k]
    /\ stage' = [stage EXCEPT ![k] = "dialing"]
    /\ open' = [open EXCEPT ![k] = TRUE]
    /\ buf' = [buf EXCEPT ![k] = <<>>]
    /\ syncing' = [syncing EXCEPT ![c] = TRUE]
    /\ pending' = [pending EXCEPT ![c] = <<>>]
    /\ asking' = [asking EXCEPT ![c] = "no"]
    /\ answer' = [answer EXCEPT ![c] = NoSeats]
    /\ missed' = [missed EXCEPT ![c] = {}]
    /\ NoFault
    /\ UNCHANGED <<db, unsent, hub, shown, told>>

\* apply: the seats the event names are shown as it says, if seats are shown at all.
Apply(map, e) ==
    [s \in Seats |-> IF s \in SeatsOf(e) /\ map[s] # None THEN Tells(e) ELSE map[s]]

\* synchronizeSeats: a newer request makes the answer of an older one void.
Synchronize(c) ==
    /\ asking' = [asking EXCEPT ![c] = "asked"]
    /\ answer' = [answer EXCEPT ![c] = NoSeats]
    /\ syncing' = [syncing EXCEPT ![c] = TRUE]

\* writePump writes the next message and onmessage handles it.
Listen(c) ==
    LET k == socket[c]
        m == Head(buf[k])
    IN
    /\ Connected(c) /\ stage[k] = "serving" /\ buf[k] # <<>>
    /\ buf' = [buf EXCEPT ![k] = Tail(@)]
    /\ IF m = Snapshot THEN Synchronize(c) /\ UNCHANGED <<pending, shown>>
       ELSE /\ IF syncing[c]
               THEN pending' = [pending EXCEPT ![c] = Append(@, m)] /\ UNCHANGED shown
               ELSE shown' = [shown EXCEPT ![c] = Apply(@, m)] /\ UNCHANGED pending
            /\ UNCHANGED <<syncing, asking, answer>>
    /\ NoFault
    /\ UNCHANGED <<db, unsent, hub, stage, open, socket, history>>

\* The API reads the seats for a client's request.
ReadSeats(c) ==
    /\ asking[c] = "asked"
    /\ asking' = [asking EXCEPT ![c] = "answered"]
    /\ answer' = [answer EXCEPT ![c] = [s \in Seats |-> Seen(s)]]
    /\ NoFault
    /\ UNCHANGED <<db, unsent, hub, conns, socket, syncing, pending, shown, history>>

\* Mutant: the buffered events are forgotten.
Replay_Nothing(map, q) == map

\* The buffered events are applied in the order they came.
Replay(map, q) ==
    LET after[i \in 0..Len(q)] == IF i = 0 THEN map ELSE Apply(after[i - 1], q[i])
    IN  after[Len(q)]

Synchronized(c) ==
    /\ asking[c] = "answered"
    /\ shown' = [shown EXCEPT ![c] = Replay(answer[c], pending[c])]
    /\ pending' = [pending EXCEPT ![c] = <<>>]
    /\ syncing' = [syncing EXCEPT ![c] = FALSE]
    /\ asking' = [asking EXCEPT ![c] = "no"]
    /\ answer' = [answer EXCEPT ![c] = NoSeats]
    /\ NoFault
    /\ UNCHANGED <<db, unsent, hub, conns, socket, history>>

\* A failed request closes the connection, and so brings about another one.
SynchronizeFails(c) ==
    /\ asking[c] # "no" /\ Fault("restError")
    /\ open' = [open EXCEPT ![socket[c]] = FALSE]
    /\ syncing' = [syncing EXCEPT ![c] = FALSE]
    /\ asking' = [asking EXCEPT ![c] = "no"]
    /\ answer' = [answer EXCEPT ![c] = NoSeats]
    /\ UNCHANGED <<db, unsent, hub, stage, buf, socket, pending, shown, history>>

\* A hold of seats the user has been shown fails, for whatever reason, also while the seats
\* are being loaded: they are loaded again.
HoldRefused(c) ==
    /\ shown[c] # NoSeats
    /\ Synchronize(c)
    /\ NoFault
    /\ UNCHANGED <<db, unsent, hub, conns, socket, pending, shown, history>>

-----------------------------------------------------------------------------

HubStep == Receive \/ Panic \/ \E k \in Conns : Send(k)
ServeStep(k) == Register(k) \/ SendSnapshot(k) \/ HandlerEnds(k) \/ ProxyTimesOut(k)
ViewStep(c) == Connect(c) \/ Listen(c) \/ ReadSeats(c) \/ Synchronized(c)

Next ==
    \/ \E h \in Claims : Commit(h)
    \/ \E e \in Event : PublishSeatEvent(e)
    \/ HubStep \/ SubscriptionEnds \/ Crash
    \/ \E k \in Conns : ServeStep(k) \/ Disconnect(k)
    \/ \E c \in Clients : ViewStep(c) \/ SynchronizeFails(c) \/ HoldRefused(c)

Spec == Init /\ [][Next]_vars

\* The hub, the handlers, the publishers and the browsers go on; nobody has to hold a seat.
\* No client's loading is started over for ever: it cannot hold again before the loading after
\* its last hold has ended (holding, SeatsView.vue:114-128).
Fairness ==
    /\ WF_vars(HubStep)
    /\ WF_vars(\E e \in Event : PublishSeatEvent(e))
    /\ \A k \in Conns : WF_vars(ServeStep(k))
    /\ \A c \in Clients :
         /\ WF_vars(Connect(c)) /\ WF_vars(Listen(c)) /\ WF_vars(ReadSeats(c))
         /\ SF_vars(Synchronized(c))

FairSpec == Spec /\ Fairness

-----------------------------------------------------------------------------
(* What the feed must guarantee *)

\* Every part of the feed is in a state of its kind.
TypeOK ==
    /\ owner \in [Seats -> Claims \cup {None}]
    /\ life \in [Claims -> {"new", "held", "sold", "returned", "lapsed"}]
    /\ claimed \in [Claims -> SUBSET Seats]
    /\ unsent \subseteq Event
    /\ channel \in Seq(Event) /\ running \in BOOLEAN /\ room \subseteq Conns /\ cast \in Cast
    /\ stage \in [Conns -> {"free", "dialing", "registered", "serving"}]
    /\ open \in [Conns -> BOOLEAN]
    /\ buf \in [Conns -> Seq(Message)]
    /\ socket \in [Clients -> Conns \cup {None}]
    /\ syncing \in [Clients -> BOOLEAN]
    /\ pending \in [Clients -> Seq(Event)]
    /\ asking \in [Clients -> {"no", "asked", "answered"}]
    /\ answer \in [Clients -> SeatMap] /\ shown \in [Clients -> SeatMap]
    /\ told \in [Seats -> SeatStatus] /\ missed \in [Clients -> SUBSET Seats]
    /\ faults \in Nat

\* The client is connected and synchronized, and no message is on its way to it.
Settled(c) ==
    LET k == socket[c] IN
    /\ Connected(c) /\ stage[k] = "serving"
    /\ ~syncing[c] /\ asking[c] = "no"
    /\ channel = <<>> /\ k \notin cast.left /\ buf[k] = <<>>

\* A settled client shows the database, or else what the last message about the seat said:
\* between its registration, its snapshot, its reload and its buffers no message falls through,
\* however slow it is and however often it reconnects (hub.go:59-118, SeatsView.vue:44-113).
SettledClientsFollowTheFeed ==
    \A c \in Clients : Settled(c) =>
        \A s \in Seats \ missed[c] :
            \/ shown[c][s] = Seen(s)
            \/ shown[c][s] = told[s]
            \/ \E e \in unsent : s \in SeatsOf(e)

\* Every client settles again and again: after lost connections, full buffers, failed reloads,
\* a snapshot that found no room, and a hub that panicked (SeatsView.vue:62-113).
ClientsSettle == \A c \in Clients : []<>Settled(c)

\* docs/architecture.md:11, "A MongoDB REST snapshot repairs any loss or reordering": once the
\* seats stop changing, every client comes to show them and goes on to.
FeedRepairs == \A c \in Clients : <>[](\A s \in Seats : shown[c][s] = Seen(s))

-----------------------------------------------------------------------------
(* Why it follows the feed: the inductive invariant behind the proofs *)

\* A seat belongs to a claim that was granted it and has not ended.
OwnersKnown ==
    \A s \in Seats : owner[s] # None =>
        s \in claimed[owner[s]] /\ life[owner[s]] \in {"held", "sold"}

\* An event is of a claim that was granted: what a message names does not change under way.
Granted(m) == m # Snapshot => life[m.claim] # "new"
AllGranted(q) == \A i \in DOMAIN q : Granted(q[i])

MessagesKnown ==
    /\ \A e \in unsent : Granted(e)
    /\ AllGranted(channel)
    /\ cast.left # {} => cast.event \in Event /\ Granted(cast.event)
    /\ \A k \in Conns : AllGranted(buf[k])
    /\ \A c \in Clients : AllGranted(pending[c])

\* An open connection whose handler has registered it is in the room; one that is free or
\* that is being made is not, and no broadcast has it (hub.go:59-118).
RoomsKnown ==
    \A k \in Conns :
        /\ stage[k] = "free" => ~open[k] /\ k \notin room
        /\ stage[k] = "dialing" => k \notin room /\ k \notin cast.left /\ buf[k] = <<>>
        /\ stage[k] \in {"registered", "serving"} /\ open[k] => k \in room

\* The snapshot of a connection has been read.
Reading(c) ==
    /\ Connected(c) /\ stage[socket[c]] = "serving"
    /\ \A i \in DOMAIN buf[socket[c]] : buf[socket[c]][i] # Snapshot

\* Nobody shares a connection.
OwnConnections == \A c, d \in Clients : socket[c] # None /\ socket[c] = socket[d] => c = d

\* Events are buffered while the seats are being asked for, from the snapshot on, and at no
\* other time (SeatsView.vue:62-105).
SyncingKnown ==
    \A c \in Clients :
        /\ asking[c] # "no" => syncing[c]
        /\ Connected(c) =>
             /\ ~syncing[c] \/ stage[socket[c]] = "dialing" => pending[c] = <<>>
             /\ Reading(c) /\ asking[c] = "no" => ~syncing[c]

Names(m, s) == m # Snapshot /\ s \in SeatsOf(m)
Mentions(q, s) == \E i \in DOMAIN q : Names(q[i], s)
\* If q mentions s, the last time it does it says v.
LastSays(q, s, v) ==
    \A i \in DOMAIN q :
        Names(q[i], s) /\ (\A j \in DOMAIN q : j > i => ~Names(q[j], s)) => Tells(q[i]) = v

BeingSent(c, s) == socket[c] \in cast.left /\ Names(cast.event, s)
OnTheWay(c, s) ==
    Mentions(channel, s) \/ BeingSent(c, s) \/ Mentions(buf[socket[c]], s)

\* Wherever the last message about a seat is, older ones are ahead of it: it is applied last.
ChannelInOrder ==
    \A s \in Seats :
        /\ LastSays(channel, s, told[s])
        /\ cast.left # {} /\ Names(cast.event, s) /\ ~Mentions(channel, s) =>
             Tells(cast.event) = told[s]

QueuesInOrder(c, s) ==
    /\ ~Mentions(channel, s) /\ ~BeingSent(c, s) => LastSays(buf[socket[c]], s, told[s])
    /\ ~OnTheWay(c, s) => LastSays(pending[c], s, told[s])

\* What a client may take for the status of a seat: it is right, or it will be told.
Follows(c, s, v) ==
    /\ v # None
    /\ \/ v = Seen(s)
       \/ v = told[s]
       \/ \E e \in unsent : s \in SeatsOf(e)
       \/ OnTheWay(c, s)
       \/ Mentions(pending[c], s)

ViewFollows(c, s) ==
    Reading(c) =>
        /\ asking[c] = "answered" => Follows(c, s, answer[c][s])
        /\ asking[c] = "no" => Follows(c, s, shown[c][s])

ClientsFollow ==
    \A c \in Clients : Connected(c) =>
        \A s \in Seats \ missed[c] : QueuesInOrder(c, s) /\ ViewFollows(c, s)

FeedInv ==
    /\ TypeOK /\ OwnersKnown /\ MessagesKnown
    /\ RoomsKnown /\ OwnConnections /\ SyncingKnown
    /\ ChannelInOrder /\ ClientsFollow
=============================================================================
