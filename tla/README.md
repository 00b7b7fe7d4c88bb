# Cinema Ticket Booking: specifications and proofs

TLA+ modules that model how the booking system holds, sells, releases and expires seats, mails
its bookings, shows its seats to browsers and knows its users, the TLC instances that check
them, and TLAPS proofs about them. Paths are relative to the repository. `booking.go` is
`backend/internal/service/booking.go`, `redis.go` is `backend/internal/lock/redis.go`,
`mongo.go` is in `backend/internal/database/`, `hub.go` in `backend/internal/realtime/`,
`service.go` and `google.go` in `backend/internal/auth/`, `middleware.go` and `handlers.go` in
`backend/internal/httpapi/`, and `SeatsView.vue` in `frontend/src/views/`.

## The system

| component | state | operations | talks to |
| --- | --- | --- | --- |
| Booking service (`service/booking.go`) | none of its own: every request keeps locals between its store calls | `CreateHold`, `Confirm`, `ReleaseHold`, `ExpireDueHolds`/`expireOne`; reads `GetHold`, `Booking`, `MyBookings` | MongoDB, Redis locks, Pub/Sub |
| Redis seat locks (`lock/redis.go`) | one key per seat: ownership string and expiry | three Lua scripts: acquire all or none, verify, release what is still owned | Redis |
| MongoDB store (`database/mongo.go`, `domain/models.go`) | `showtime_seats`, `holds`, `bookings`, `outbox_events`, `audit_logs`, `users`, `auth_identities`, `notifications` | `WithTransaction`, unique indexes | |
| Expiration worker (`worker/processor.go:36-52`) | the batch it is expiring | a sweep of at most 100 holds on every tick | booking service |
| Outbox worker (`processor.go:54-101`) | a lease (`locked_until`) and status on each row | claim, publish, mark | MongoDB, RabbitMQ |
| Notification consumer (`processor.go:103-183`) | `notifications`, unique by `event_id` | look up, mail, record, ack, retry or dead-letter | RabbitMQ, SMTP, MongoDB |
| RabbitMQ client (`messaging/rabbit.go`) | one channel with confirms and returns behind a mutex | `Publish`, `PublishRetry`, `Consume` | RabbitMQ |
| WebSocket hub (`realtime/hub.go`) | rooms of clients with a buffer of 32 messages | `Run`, `Serve`, `register`, `unregister`, `broadcast` | Redis Pub/Sub, browsers |
| Seat map client (`SeatsView.vue`, `CheckoutView.vue`, `api/client.ts`) | seat list, buffered events, generation counters, idempotency keys in `sessionStorage` | connect, synchronize, apply, hold, confirm, release | REST API, WebSocket |
| Identity and sessions (`auth/`) | users, identities, sessions, one-time OAuth states | `ResolveIdentity`, `CreateSession`, `Session`, `DeleteSession`, OAuth `Start`/`Callback` | MongoDB, Redis |
| Rate limiter (`httpapi/middleware.go:89-112`) | a counter per user and address with a 60 s window | one atomic script per hold request | Redis |
| HTTP layer, catalogue and admin queries, seeding, configuration, other views | none that a protocol depends on | decode, query, render | |

What must be right, and what makes it hard:

- **Booking.** A seat is never sold twice, never lost, never taken from a hold that has not
  lapsed; a hold comes to one end. Redis and MongoDB share no transaction, every handler acts
  on a time and on documents it read earlier, five kinds of process race for the same seats,
  and any store call or process can fail between two others, with or without effect.
- **Idempotency.** A key stands for one hold and one booking, and an answer says what is in
  the database, also when a request races with its own repetition.
- **Redis keys.** A key is deleted by its owner only, it does not outlive the hold it backs,
  and a live hold keeps its keys while Redis keeps its data.
- **Expiry.** Every hold ends although a sweep is bounded, workers die and transactions fail.
- **Delivery.** Every booking is mailed at least once, and a mail is repeated only
  across failures; leases without tokens, confirms read by the wrong publisher and retries
  that race with dead-lettering make this hard.
- **Seat feed.** Events are published after their commits by different processes, without
  order; the hub hands them to connections it may drop at any moment, while browsers connect,
  reload and reconnect. No event may fall through between registration, snapshot, reload and
  buffers, and a client that lost its connection must come back.
- **Identity.** First logins of one person race to create the user, e-mails move between
  accounts, and unique indexes turn a lost race into an error: an account has one user for
  good, and a known one gets in. An OAuth callback may come late, twice or to another browser.
- **Rate limit.** Attempts count together in Redis: at most so many holds pass in a window,
  and a user who keeps trying is let in again after it.

`PROJECT.json` lists every component with its status and every hazard with its line.

## Modules

| module | what it holds |
| --- | --- |
| `SeatLock` | the Redis lock manager: `locks[s]` and the effect of each script, of key expiry and of lost keys |
| `Booking` | the booking service and the expiration worker over MongoDB and `SeatLock`; extends `SeatLock` |
| `BookingProperties` | what `Booking` must guarantee, and the statements of the documentation it does not keep |
| `SeatLedger` | the abstract specification: a ledger in which claims on seats are granted, sold, returned and lapse, each in one step |
| `BookingLedger` | the refinement mapping: how the collections of `Booking` read as that ledger |
| `MCBooking` | the instance of `Booking` TLC checks, with its symmetry |
| `Delivery` | from a booking's outbox row over RabbitMQ to its mail: both worker loops, the broker's queues, the mailer, and what they must guarantee |
| `MCDelivery` | the instance of `Delivery` TLC checks |
| `SeatFeed` | from a committed change of seats over Pub/Sub, the hub and its connections to the seat maps browsers show; its database is `SeatLedger` |
| `MCSeatFeed` | the instances of `SeatFeed` TLC checks |
| `Accounts` | provider accounts and local users: `ResolveIdentity` on its two collections and their unique indexes |
| `Access` | sign-in with Google, sessions, authentication and the hold rate limiter, and what they must guarantee; extends `Accounts` |
| `MCAccess` | the instance of `Access` TLC checks, with its symmetry |
| `BookingProofs` | type correctness |
| `BookingSafetyProofs` | the safety invariant and what follows from it |
| `BookingLedgerProofs` | `Booking` implements `SeatLedger` |
| `BookingAnswersProofs` | what requests know and answer; a key stands for one hold and one booking |
| `BookingLocksProofs` | whose the Redis keys are, how long they back a hold, and that none is left behind |
| `DeliveryProofs` | `Delivery`: types, nothing is lost, repeated mails |
| `SeatFeedProofs` | `SeatFeed`: types, and that settled clients follow the feed |
| `AccessProofs` | `Access`: types, whose answers and sessions are, OAuth states, the rate limit |

`Booking` and `Delivery` meet in the outbox: a confirmation's transaction inserts the row
(`booking.go:298`) that `Delivery` starts from. `OneEndPerHold` says that there is one row for
each booking, which is what `Delivery` takes for granted. `Booking` and `SeatFeed` meet in
`SeatLedger`: `Booking` implements it (`BookingImplementsLedger`), and `SeatFeed` takes its
actions as the commits that events are about, so that a hold, a sale, a return and a take-over
happen in `SeatFeed` exactly when the ledger allows them. `Access` says who a request of
`Booking` is from.

### How `Booking` corresponds to the code

The collections are `seats`, `holds`, `bookings`, `outbox` and `audit`; one showtime is
modelled, as the seats of different showtimes share no document, key or index entry that a
handler touches together. A hold's id is the `CreateHold` request that drew it (each request
draws a fresh ObjectID, `booking.go:84`), a booking's id is its `Confirm` request. `hreq`,
`creq`, `rreq` and `wrk` hold each handler's and worker's program counter and the locals
that matter after the next store call: the time it read, the error it is compensating for.

A step ends where the handler calls a store:

| request | steps |
| --- | --- |
| `CreateHold` | look the key up; read the clock, showtime and seats; acquire in Redis; transaction (`HoldCommit`, `HoldAbort`); after an error undo in Redis; after a duplicate key look the winner up |
| `Confirm` | look up by key; by hold; load the hold; verify in Redis; assemble the booking and read the transaction's time; transaction; after an error look up by hold, then by key; after success delete the keys |
| `ReleaseHold` | load; transaction; after an error read again; after success delete the keys |
| worker | sweep; per hold in order of expiry: transaction, re-read, delete the keys |

Choices the reader should know:

- **A MongoDB transaction is one step.** It reads a snapshot and aborts on a write conflict;
  `WithTransaction` then runs the callback again, which is the same step later. The seat and
  hold updates of competing transactions write the same documents, so two of them never both
  commit on one snapshot. The *time* compared inside is the one that was read before:
  `CreateHold` reads it before Redis (`booking.go:68`), `Confirm` when its callback starts
  (line 274), the sweep once for its whole batch (line 343). The clock may advance and other
  requests may commit between that and the commit.
- **Faults** are bounded by `MaxFaults` and selected by `FaultKinds`: `redisError` (an error
  reply with or without effect), `mongoError` (a read fails or a transaction aborts),
  `commitUnknown` (a transaction commits and the driver reports an error, which
  `WithTransaction` passes on after its retries), `crash` (a handler or worker stops between
  two steps), `redisLoss` (Redis restarts and has forgotten writes: the append-only file is
  synced once a second). Handlers crash one by one, which includes the death of a whole
  process within the bound. A failed deletion of keys leaves them; one that
  deletes and reports an error is the same as success, since the error is only logged.
- **Time.** All hosts read one clock. `TTL` is both the Redis TTL and the hold's duration, as
  in the code; a key lapses at the instant its hold can be taken over.
- **Retries** are further requests with the same user, key and seats.
- **Left out of the transactions' effects:** `SYSTEM_ERROR` audit records (nothing reads
  them) and the Pub/Sub seat events, which belong to the seat feed. A failing *first* lookup
  of a request and a failing sweep query have no effect and are not steps. The user in the
  filter of `ReleaseHold`'s update (line 161) repeats the check of line 152, as a hold's user
  never changes. Seat lists are sets: the handler sorts and deduplicates them before use, and
  the limits on their length are not looked at again.

### How `Delivery` corresponds to the code

| variable | code |
| --- | --- |
| `row[e]` | a document of `outbox_events`: its status, and whether its lease lies in the future |
| `notified` | `notifications`, unique by `event_id` (`mongo.go`), of which only the id matters |
| `pub[w]`, `con[w]` | where `RunOutbox` and `RunNotifications` of worker `w` are, and with which row or delivery |
| `up[w]`, `wire[w]` | the connection of the worker, and what was published on it and not yet handled |
| `queue`, `delayed`, `dead` | copies of each message in `booking.notifications`, in the retry queues, in the dead-letter queue |
| `mails[e]` | mails the SMTP server accepted |

A message is an event and its `x-retry-count`; the retry queue is the one of that number.

- **Steps** end at each store, broker or SMTP call. `Claim` is `claimOutbox`, `SendEvent`,
  `AwaitEvent`, `MarkPublished` and `ReleaseRow` are `publishOutbox`; `Deliver`, `Check`,
  `Mail`, `Record`, `SendRetry`, `AwaitRetry` and `Settle` are `RunNotifications` and `notify`.
- **Confirmations.** Both loops publish through one channel, one at a time: `Rabbit.mu` is held
  until the confirmation (`Publishing`). The broker handles a connection's messages in order,
  so the awaited message is the last on the wire and is confirmed when the wire is empty. The
  outbox gives up after ten seconds, and its message may be handled later; `PublishRetry`
  waits until the connection closes. A refused message fails the publisher that waits for it.
- **Deliveries.** The worker takes one message at a time. The prefetch of ten
  (`rabbit.go:145`) hands messages over earlier, which for a worker that is not yet handling
  them is the same as leaving them in the queue: a lost connection puts them back. A delivery
  counts as the broker's until it is acknowledged or refused on an open connection.
- **Time.** The lease, backoff, ticks and TTLs are left out but for their order: a lease passes
  any time after its worker has let go of the row, or, as the fault `slowWorker`, while it is
  still at it.
- **Faults.** `mongoError` (a call fails; a claim, mark or record with or without effect),
  `smtpError` and `smtpLateError` (before or after the mail was accepted), `confirmTimeout`,
  `brokerNack`, `connectionLost`, `crash`. After a lost connection `RunNotifications` returns,
  the process ends and is restarted (`cmd/worker/main.go:51-58`, restart policy); `Exit` and
  `Crash` start it over with a new connection.
- **Left out.** Returned messages (`rabbit.go:128`): a mandatory message returns only if its
  durable queue has been deleted, which nothing does. Undecodable payloads: the outbox only
  holds what `Confirm` wrote. The broker keeps its persistent messages.

### How `SeatFeed` corresponds to the code

| variable | code |
| --- | --- |
| `owner`, `life`, `claimed` | `showtime_seats` and `holds`, as the ledger has them; `Seen(s)` is a seat's status |
| `unsent` | events a handler or the worker has still to publish after its commit (`booking.go:129, 190, 318, 400`) |
| `channel`, `running` | the hub's subscription, and whether `Hub.Run` is still receiving |
| `room`, `cast` | the connections registered for the showtime; the copy `broadcast` is going through |
| `stage[k]`, `open[k]`, `buf[k]` | where `Serve` is with connection `k`, whether it is open, its channel of 32 messages |
| `socket[c]`, `syncing`, `pending`, `shown` | `SeatsView.vue`'s `socket`, `syncing`, `bufferedEvents` and `seats` |
| `asking[c]`, `answer[c]` | the latest request of `synchronizeSeats` and what the API has read for it |
| `told[s]`, `missed[c]` | history: what the last published message about `s` said; seats about which a message was lost while `c` was connected |

- **Commits** are the actions of `SeatLedger`, without its clock: a hold may have lapsed at any
  moment, and a release and an expiry look the same from here. Each puts its event into
  `unsent`, from where events are published in any order, some of them never (an error of
  `Publish`, a crash, a handler that found out its commit by a later read).
- **The hub.** `Receive` copies the room, `Send` offers the message to one connection after
  another, and in between connections come and go: registration and broadcast take the mutex
  separately. A full channel unregisters its connection. A connection unregistered between the
  copy and its turn has a closed channel: the send panics (`Panic`), which ends the process,
  since `Run` is a goroutine of its own, and `restart: unless-stopped` starts it again.
  `SendSnapshot` may meet a closed channel too; there `gin.Recovery` confines the panic.
- **A handler whose snapshot finds no room** waits before `writePump` runs, so nothing drains
  its channel and no ping is sent; the proxy gives such a connection up after 70 seconds
  (`frontend/nginx.conf:22`, `ProxyTimesOut`). Other silent failures of a connection are
  `Disconnect`.
- **The client.** `Connect` starts over with a new generation, which makes older answers void;
  `Listen` is `onmessage`; `Synchronize`, `ReadSeats` and `Synchronized` are the two ends of
  `synchronizeSeats` and the read in between; `HoldRefused` is the reload after a hold that failed,
  for whatever reason and also while another reload is under way, whose answer it voids.
  The snapshot's own seats are not used, as in the code, so the model's snapshot has none.
- **Faults** (`FaultKinds`, `MaxFaults`): `publishLost`, `subscriptionEnds`, `disconnect`,
  `restError`, `crash`.
- **Left out.** Malformed messages; other showtimes, whose rooms share nothing; several API
  processes: each has a hub of its own and a client is served by one.

### How `Accounts` and `Access` correspond to the code

`emailOf` and `userOf` are `users` and `auth_identities`; an account is a (provider, subject).
`call[c]` is how far request `c` is in `ResolveIdentity`, `request[c]` what it is for. `flow`
and `session` are the OAuth states and sessions in Redis, `stateCookie` and `jar` the cookies of
each browser, `count` and `left` one rate-limit counter and its time to live.

- **`ResolveIdentity`** begins with what the transaction reads first (`Begin`), and ends in one
  step on what is there when it commits (`CommitLogin`): a transaction that conflicts with
  another is tried again by `WithTransaction`. One that loses to a unique index ends in
  `DuplicateKey`, be it because it must (`Clash`) or because another has just inserted what it
  was about to (`Raced`); `FindOwn` is what the code does then. The three cases of the
  transaction (known account, known e-mail, neither) are `Targets`.
- **E-mails move.** An account may come with any e-mail, since it can be changed at the provider
  and a token keeps the one it was issued with; this is how a known account meets the address
  of another user.
- **Google sign-in.** A callback needs the state of its browser's cookie and takes it out of
  Redis (`StateFits`, `Consume`); what follows can fail at every call, and each end clears the
  cookie unless its answer is lost. A state and a session token are drawn once.
- **Requests** with a bearer token resolve the identity every time; those with a cookie read the
  session. A request that is refused at once (no credential, a wrong CSRF token, not an
  administrator) changes nothing and is not a step.
- **The rate limiter** is one script: `INCR`, and `EXPIRE` with the first. The counter followed
  is that of one user at one address; each has a key of its own. Counts above the limit are
  taken for one (`Limit + 1`), as nothing tells them apart.
- **Left out.** Names, pictures and the role. A resolution computes the role from the e-mail it
  came with and `ADMIN_EMAILS` and stores it; after a duplicate key it answers the role that is
  stored (`service.go:148-152`), which another login may have computed from another e-mail. No
  property is about the role. Also left out: the nonce and PKCE, which guard against other parties
  than the ones modelled; users that are administrators. Failing stores are unbounded: any call
  may fail at any time.

## Runs

The runs of `Booking` use `MCBooking`. `TTL = 1` and `StartTime = 2` (1 in
`two_bookings`) let holds be made at two instants, lapse, and be taken over by a second generation; the clock stops when every hold that can
exist has lapsed (`LastExpiry`). `SweepLimit = 1` makes the sweep's limit bind with two holds.
Two seats are enough for overlap and for a hold that has lost one of its seats; two users and
two keys for same and different callers and keys.

| run | instance | what it shows |
| --- | --- | --- |
| `hold_race` | three `CreateHold` requests, two seats, users and keys, one worker, no faults | a live hold owns all its seats, a key stands for one hold, answers match the database, no Redis key outlives its purpose |
| `takeover_race` | two holds on two seats, a confirmation, a release and a worker, no faults | locked seats agree with their hold, bookings own their seats, Redis backs live holds (with `KeysInv`, the inductive invariant of the proof) and nothing is taken back while a second hold takes over lapsed seats of the first; the collections change as the ledger does |
| `two_bookings` | two holds on two seats, two confirmations, two users and keys, no worker, one commit reported as failed | a key stands for one booking, and a confirmation's answer is about the caller's booking of that hold, also one that has to look for it |
| `one_hold` | one hold, two confirmations, a release, two workers, two faults of any kinds | the hold ends once, with the audit records, booking and outbox event of that end, and confirmations and releases answer what has become of it |
| `booking_faults` | two holds of one seat, a confirmation, a release, a worker, one fault of any kind | the inductive invariants of the proofs (`SafetyInv` of the collections, `AnswersInv` of the requests) and no taking back under every single fault |
| `holds_end` | two holds, two workers, sweep limit 1, one failed transaction, unreported commit or crash | under `FairSpec` every hold ends |
| `delivered` | two workers, one booking, three faults of any kind, slow workers included | the inductive invariant of the proofs, and under `FairSpec` the booking is mailed or dead-lettered |
| `one_mailer` | one worker, one booking, four faults | nothing is forgotten, and each repeated mail has its failure |
| `seat_feed` | one client with three connections, channels of one message, one hold that comes and goes, one fault of any kind | no event falls through on its way to a settled client, and every client settles again; and `FeedInv`, the inductive invariant of the proofs |
| `access` | two requests in the API, one Google and two Firebase accounts, two e-mails, users, browsers and session tokens, one OAuth state, limit 1 in a window of 2 | answers and sessions name the account's user, known accounts get in, one session for a state and only in its browser, the limit holds and lifts; and the inductive invariant of the proofs |
| `feed_repairs` | two holds of one seat, no fault | violated: see below |
| `repeated_confirm` | two confirmations of one hold | violated: see below |

`RedisBacksLiveHolds` and `NoOrphanKeys` are checked in runs without faults only: with a
forgotten write, an unreported commit, a crash or a failed deletion the code lets one or the
other fail and relies on the TTL and on MongoDB. The proofs say which fault breaks which. The
runs that allow those faults check what must hold regardless.
Deadlock is checked but in `two_bookings`, where the system rests once every request is answered, though a worker can always sweep again: the interesting way to
get stuck, a hold that never ends, is what `holds_end` asks about.

`Delivery`'s runs use `MCDelivery`. One event is enough, as events share nothing but the order
in which they are claimed and the mutex, which the two loops of one worker already contend for.
Four faults are what it takes to fail a delivery and its three retries, so `one_mailer` reaches
the dead-letter queue the long way; three let a second worker take a row whose first publisher
is slow and let the first one undo it. Deadlock is not checked there: once every
booking is mailed the system rests.

`SeatFeed`'s runs use `MCSeatFeed`. Channels of one message make every overflow of the code's 32
happen, also that of a snapshot; three connections let a client reconnect while two older
handlers have not noticed. One client is enough: clients share only the room, and another one's
connection is an older connection of the same client as far as the hub can tell. The ledger
of `feed_repairs` has a second hold, since only a take-over or a second round can make an event
wrong; `seat_feed` has one, and its fault makes up for the events a second one would add. Larger
instances were run and are too long to keep: two holds without liveness and with
one fault (5.8 million states), four connections and two faults with liveness (1.2 million), both
without an error; the first is where the invariants meet a take-over, which `seat_feed` with its
one hold has not. Deadlock is not checked: once nobody holds or releases, the feed rests.

`Access` uses `MCAccess`, and its one run covers sign-in and rate limit together, as every
request goes through both. Two e-mails and users with three accounts give every clash of the
indexes: two accounts of one provider with one address, of two providers with one, and a known
account with another's address; two requests are enough to race. One OAuth state and
two tokens are what a second session of one state takes. Deadlock is not checked: states
and tokens are drawn once and run out.

**Fairness.** `HoldsEnd` is checked under weak fairness of the clock and of each worker's
steps. `RunExpiration` (`processor.go:36-52`) sweeps on every tick of its interval, goes on
after an error, and its container is restarted when it dies; a crashed worker of the model is
idle and sweeps again. Nothing is assumed of requests. Faults are bounded, so a worker whose
transactions always fail is not covered: the code promises nothing then.
`EveryBookingIsHandled` is checked under weak fairness of each worker's two loops, which
`cmd/worker/main.go:49-56` starts and which go on after every error, of the broker's handling
of what is published, of the restart of a process that ended, and of leases and delays, which
are clocks. Losing connections, refusing and crashing are faults and never fair.
`ClientsSettle` and `FeedRepairs` are checked under weak fairness of the hub's loop, of
publishers that have committed, of each connection's handler and of each browser's connecting,
listening and reading: goroutines and event handlers that are ready run, the proxy's timeout
and the reconnection timer (`SeatsView.vue:106-112`) are clocks. The end of a reload, `Synchronized`, is strongly fair, as a
failed hold may start it over: not for ever, since a browser cannot hold again before the reload
after its last hold has ended (`holding`, `SeatsView.vue:114-128`). Nobody has to hold or
release a seat, and faults are bounded: a network that never stays up is not covered.

### Where the documentation says more than the code does

- **`feed_repairs`.** docs/architecture.md:11 says that a REST snapshot repairs any loss or
  reordering of events. The client applies events as they come, and replays those it
  buffered over the answer of its request, which may be newer than they are
  (`SeatsView.vue:68-71`). When the worker expires a hold whose seat another one has taken over
  and bought, its `seat.released` names the seat all the same (`booking.go:400`), and every
  client shows a sold seat as free; likewise a client that has read `BOOKED` replays the first
  hold's late `seat.locked` over it. Nothing reads the seats again unless the connection closes
  or a hold fails. The run's trace ends in one of the two.
  What does hold is `SettledClientsFollowTheFeed`: a settled client shows the database or what
  the *last published* message said.
- **`repeated_confirm`.** README.md:159 promises the existing booking for a repeated
  confirmation. A confirmation whose two lookups ran before a concurrent one committed finds
  the hold `CONFIRMED` (`booking.go:226`) or its Redis keys deleted (line 234) and answers
  `409 HOLD_EXPIRED`; only the path after a failed transaction looks for the booking again.

Further differences, met while modelling and not kept as runs:

- README.md:153 promises the existing hold for a repeated key. A repetition that overlaps its
  first attempt meets that attempt's own Redis keys (`booking.go:92`) and answers
  `409 SEAT_UNAVAILABLE`.
- README.md:156 describes the compensation for transactions that abort. The code runs it for
  every error (`booking.go:113`), also when the commit's outcome is unknown: a persisted hold
  loses its keys and can no longer be confirmed, although a retry with its key reports it as
  existing.
- README.md:226 dead-letters a message on its fourth failure. When the retry copy cannot be
  published (`processor.go:131-138`) it is dead-lettered at once, whatever its count. It is not
  lost (`NoBookingForgotten`), but nothing in the repository reads the dead-letter queue.
- `Hub.Run` ends on a failed receive (`hub.go:45-50`) and its process goes on serving
  connections that get nothing any more. `SeatFeed` has this as the fault
  `subscriptionEnds`; a client is only promised what was published to it.

## Proofs

`BookingProofs` proves `TypeCorrect == Spec => []TypeOK`. `BookingSafetyProofs` proves, for
any sets of seats, users, keys, requests and workers, any `TTL`, start time and sweep limit
and any kinds and number of faults:

- `SafetyHolds`: `SafetyInv` is an invariant, and from it `LiveHoldsOwnTheirSeats`,
  `LockedSeatsHaveTheirHold`, `BookingsOwnTheirSeats` and `HoldsEndOnce`;
- `NothingIsEverTakenBack`: the action property `NothingIsTakenBack`;
- `BookingImplementsLedger` (in `BookingLedgerProofs`): `Spec => ImplementsLedger`;
- `AnswersHold` (in `BookingAnswersProofs`): `AnswersInv` is an invariant, and from it
  `KeysStandForOne`, `HoldAnswersAreHonest` and `EndAnswersAreHonest`: whatever fails, crashes or
  commits unreported, `KeysAreUnique`, `HoldAnswersHonest` and `EndAnswersHonest` hold.

`BookingLocksProofs` proves of the Redis keys:

- `KeysOfTheirRequests`: whatever fails, a key is of a seat that its owner's request named
  (`KeysAreAskedFor`);
- `KeysOutliveTheirHolds` and `RedisBacksHolds`: `KeysInv` and `RedisBacksLiveHolds`, for any fault
  kinds but `redisLoss` and `commitUnknown`. Both exceptions are the code's: a Redis that forgets
  has no keys, and after a commit reported as failed `CreateHold` deletes the keys of the hold
  that it has made (`booking.go:113-114`). Errors, aborts and crashes are allowed;
- `NoKeysAreOrphaned`: `NoOrphanKeys`, when nothing but `redisLoss` happens. A crash or a
  failed deletion leaves keys behind until their TTL.

`DeliveryProofs` proves, for any sets of events and workers and any faults, slow workers
included:

- `DeliveryTypeCorrect` and `NothingIsLost`: `TypeOK` and the inductive `DeliveryInv`, and from
  it `NoBookingIsForgotten`;
- `OneMailerRepeatsOnlyAcrossFailures`: with a single worker, `MailsRepeatOnlyAcrossFailures`.

`SeatFeedProofs` proves, for any seats, claims, clients and connections, any length of the
channels and any faults:

- `FeedTypeCorrect` and `TheFeedIsKept`: `TypeOK` and the inductive `FeedInv`, and from it
  `SettledClientsFollow`: `SettledClientsFollowTheFeed`.

`AccessProofs` proves, for any accounts of both providers, e-mails, users, requests, browsers,
states and tokens, and any limit and window:

- `AccessIsSafe`: the inductive `AccessInv`, and from it `EveryAnswerIsOwn`,
  `EveryKnownAccountGetsIn`, `StatesAreUsedOnce`, `EverySessionStaysHome`, `TheLimitHolds` and
  `TheLimitLifts`;
- `AccountsKeepTheirUser`: no step moves an account to another user.

The assumptions are those on the constants, named where they are declared: hold ids are the
owners of Redis keys, `TTL`, start time, sweep limit, rate limit, window and the length of the
hub's channels are positive, `None` is not an id and in `SeatFeed` not a status either, the kinds
of faults are those of the model and `MaxFaults` is a natural number. The theorems about Redis
keys assume of `FaultKinds` what is said above, and `OneMailerRepeatsOnlyAcrossFailures` that there
is one worker; none has another hypothesis.

**The argument for `Booking`.** What Redis does is not used: `SafetyInv` speaks of MongoDB's collections,
the clock and the handlers' locals only, so the theorems say that MongoDB's conditions alone
protect the seats, whatever Redis forgets. `StepKinds` shows that the collections change in
three ways: a hold commits, a confirmation commits, or a hold is released or expired
(`HoldEnds`). Each conjunct is then shown to survive each kind.

- `LiveHoldOwnsSeats` is not inductive by itself. A hold transaction claims a locked seat if
  its `until` is not after the time the handler noted. That the seat's hold has lapsed *now*
  needs two more facts: the noted time is not after the clock (`StampsArePast`), and the
  seat's `until` is its hold's `expires` (`SeatsFollowHolds`).
- `SeatsFollowHolds` survives the end of a hold because both release and expiry free every
  seat that still carries the hold, and survives a take-over because the seat then follows
  the new hold, whose document is committed with it.
- `BookingsOwnSeats` and `OneEndPerHold` need that a commit inserts a document under an id
  nobody has used (`IdsAreFresh`) and that only an `ACTIVE` hold is ended.
- `NothingIsTakenBack` follows from `SafetyInv` and the same three kinds of step.
- `ImplementsLedger` needs `SafetyInv` and that a booking's id is unique, so that the owner
  of a `BOOKED` seat, the hold of the booking it names, is well defined and stays the same.
  A commit of a hold is then `Grant`, a confirmation is `Sell` (it changes no owner), the end
  of a hold is `Return` or `Lapse`, a tick of the clock is `Pass`, and everything else stutters.

**The argument for the answers.** An answer is given several store calls after what it is about,
so `AnswersInv` says what a handler may still rely on at each of its steps.

- `HoldReqsKnow`, `ConfirmReqsKnow` and `ReleaseReqsKnow` do so for the three requests: a
  `CreateHold` that undoes its keys or looks for a winner has no hold of its own, unless its
  transaction's outcome is unknown; a `Confirm` that looks for a booking after any other error
  has not made it; a `ReleaseHold` that ends has a hold of its user before it. What they rely on
  lasts, as documents are only added and a hold's end is final (`StoresGrow`).
- `OnePerKey` is the unique index: with the condition that a commit checks it is inductive at
  once, and `KeysUnique` turns it into the cardinalities of `KeysAreUnique`.
- Requests do not touch each other's locals, so each conjunct is shown for the one request that
  moves (its own step) and for the others (the collections' kinds of step).

**The argument for the Redis keys.** `RedisBacksLiveHolds` relates the two stores, and neither
commits with the other. `KeysOutliveHolds` bridges the gap: from the acquisition on, while the
time it read plus `TTL` has not passed, a request has all its keys and they lapse no earlier than
its hold will, since Redis counts its TTL from later than `booking.go:68` read the clock. Keys go in
three ways: they lapse, which is too late; they are released, by somebody who has seen the hold
end (`WorkersKnow`, `AnswersInv`) or not be made (`undo`); or they are taken by another request,
which `acquireScript` refuses while they stand. `NoOrphanKeys` needs that whoever ends a hold
turns to its keys (`EndedOnItsWayOut`) and that a request only has keys after it took them
(`KeysAreAskedFor`).

**The argument for `Delivery`.** `NoBookingForgotten` relates a row to the broker through four
stores and two loops, so its induction has to say what is known at each hand-over:

- `Kept(e, r)`: the mail of `e` is recorded, or the broker has `e` with a retry count of `r`
  or more. `KeptStays` shows that this lasts: `BrokerKeeps` lets a message leave the broker
  only when it is acknowledged, and then `AcknowledgedMailsAreKept` has a record, or a copy
  with a higher count, which no acknowledgement of the lower one takes away.
- `Awaited(w, m)`: the message a loop waits for is the last on its wire, or was taken. It
  survives messages being handled (`WaitGoesOn`), and since one loop publishes at a time
  (`OnePublisher`) nothing is put behind it. With it, `ConfirmedEventsAreKept` gives `Kept` to
  the loop that marks the row and `AcknowledgedMailsAreKept` to the loop that acknowledges.
- For the mails, the only worker's `Check` makes what it mails new (`MailsAreNew`), and each
  mail beyond the recorded one is paid for by a fault (`MailsAccountedFor`). Both fail with
  two workers, which can mail the same event before either records it; that deployment is not
  the documented one (README.md:321).

**The argument for `Access`.** Its three parts hardly meet, and each has its own invariant.

- In every step one request moves at most (`StepMoves`), and accounts keep the users they have.
  So what is known of the other requests stays (`OthersKeep`), and for the one that moves it is
  enough to look at its own step. `LoginsAreOfAccounts` is what it takes: a request in
  `ResolveIdentity` has an account, and an account that its transaction found still has
  a user when a duplicate key sends it to look again, which is why it is not refused.
- A state passes from Redis to one callback to one session. `UsedStatesAreGone` says that
  only one of the three has it, and `StateCookiesAreOwn` that the cookie a callback is compared
  with is of a state the browser was given; with it the callback's browser is the one that
  started. `TakingKeeps` deals at once with all steps that give nothing out.
- `LimitLifts` needs that counter and time to live begin and go together (`CounterHasTime`),
  `LimitHolds` that no more pass than are counted.

**The argument for `SeatFeed`.** A settled client has no message before it, so the property
says nothing of how it got there. `FeedInv` follows the last message about a seat on its way.

- Wherever that message is (the subscription's channel, the broadcast under way, a connection's
  channel, the client's buffer), every older one about the seat is ahead of it or gone
  (`ChannelInOrder`, `QueuesInOrder`), so it is applied last and the client shows what it said.
- What a client shows, or is about to show as the answer of its reload, is the seat's status,
  what was last said, or will be told: an event unpublished or on its way (`Follows`). A commit
  turns the first into "will be told" (`CommitKinds`: it owes an event for each seat it
  changes, or the seat's status stays). A message lost makes the seat `missed`.
- This is known from the moment a client has read its snapshot (`Reading`), whose reload it then
  awaits (`SyncingKnown`). It needs that a registered connection is in the room and one that is
  being made is not (`RoomsKnown`), and that no two clients share one (`OwnConnections`).
- `ClientSteps` sums up what a step may do to one client: nothing, while messages move one place
  towards it; or connect it, close its connection, hand it a message, or take its reload a step
  further. One lemma for each shows that `ViewFollows` and `QueuesInOrder` survive.
- `Replay` is a recursive function on sequences, and the library's induction cannot be used.
  `AllUpTo` replaces it: the natural numbers are well founded, so a property that fails for some
  length of a prefix fails for a least one, which the step before refutes. `ReplayTells` then says
  that a replay shows what the queue's last message about a seat says, or what was there before.

**Model-checked only.** The liveness properties `HoldsEnd`, `EveryBookingIsHandled` and
`ClientsSettle`, which are beyond the prover. Every other property of a passing run is proved,
as are the parts each conjunction names. The two violated runs state what the documentation
says.

## Not modelled

- Catalogue and admin queries but for the seats a client reloads: they only read.
- HTTP decoding, validation and encoding, CORS and security headers, request logging; the CSRF
  comparison and `RequireAdmin`, which refuse a request and change nothing.
- The checkout page, the other views and the stores of the frontend; the idempotency keys a
  browser keeps in `sessionStorage` (`Booking` lets any request come with any key). README.md:152
  says that the browser keeps the key of a hold until a successful response; it also forgets it
  on any error answer (`SeatsView.vue:122`), be it the proxy's for a request that committed, and
  then meets its own hold.
- Configuration, process wiring and health checks; seeding, whose result is `Init`.
- The text and transport of mails; returned messages of RabbitMQ.
- `cmd/concurrency-test`, a client of the API whose expectations are among the properties.
- Time itself in `Delivery` and `SeatFeed`, where only the order of timeouts matters.
