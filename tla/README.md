# ParcelPigeon: specification, model checking and proofs

TLA+ modules for the parts of ParcelPigeon that carry its logic: the write side of
`shipments-service` (Python), the consumer, cache and HTTP reads of
`tracking-service` (Go), the contract between them, the publisher that carries it, the
demo loader, what the requests of the write side share while they are served, and the
operations page that sends them. TLC checks them on small instances; TLAPS proves every
invariant and action property of the passing runs, and both refinements, for every value of the
constants (section 4 lists the assumptions).

## 1. Inventory

| Component | State it keeps | Operations | Talks to |
|---|---|---|---|
| Status rules, `app/shipment_status.py` | none (pure) | `next_status` | write side |
| Write side, `app/service.py`, `app/routers/shipments.py`, `app/models.py`, `app/db.py` | tables `shipment`, `scan_event`; one SQLAlchemy session per request | `create_shipment`, `add_scan`, reads | PostgreSQL, publisher |
| Publisher, `app/broker.py` | one connection and channel for the process, `_lock` | `publish_event`, `check_broker`, `close` | RabbitMQ exchange |
| Loader, `app/seed.py` | what it found (`existing`), the shipment in hand | `run`, with and without `--force` | tables, `add_scan` |
| Serving, `app/main.py`, `app/db.py`, `app/metrics.py`, `app/routers/health.py` | the connection pool, worker threads, request counters | endpoints, `get_session`, `MetricsMiddleware`, `readyz` | PostgreSQL, publisher |
| Projection, `internal/projection` | none (pure) | `Reduce` | consumer |
| Consumer, `internal/consumer`, `internal/notify` | a channel, one delivery at a time | `Run`, `consume`, `handle`, `maybeNotify` | RabbitMQ queue `tracking.projector`, Redis, SMTP |
| Store, `internal/store` | Redis: `track:<tn>` (TTL 30 days), list `track:notifications` (50) | `Get`, `Save`, `AddNotification`, `Notifications`, `Ping` | Redis |
| HTTP API and fallback, `internal/httpapi`, `internal/upstream` | one goroutine per request | `resolve`, `getTrack`, `getEvents`, `getNotifications` | store, `GET /internal/track` |
| Gateway, `services/gateway` | none | proxy with prefix rewriting, stub key check, `/readyz` fan-out | both services |
| Web, `web/src` | React state of two pages | poll, submit | gateway |

How they interact: a request to the write side is one transaction and then one
publish, with nothing that ties the two together. The exchange copies each message
to a durable queue. The consumer folds the queue into Redis with separate
`Get`/`Save` calls and acknowledges by hand. Readers hit the same Redis keys and on
a miss fill them from `shipments-service` over HTTP.

What is hard: requests of the write side overlap and lock nothing; an event can be
lost, doubled or published out of commit order; the consumer's steps are separate
calls that fail or are cut off one by one; requeued messages come back late; readers
and the consumer overwrite each other's cache entries; the same instant is
spelt in two ways in events and in HTTP answers; requests wait for each other at
threads, pool and lock; loaders race and are cut off between their many commits; and
answers to a web page overtake each other. `PROJECT.json` lists these hazards
at their lines.

What makes each component correct:

- Status rules and write side: `DELIVERED` is final, and where overlapping requests break
  that, nothing but a stale row does; the status of a row is explained by its committed
  scans; nothing is announced that is not committed; nothing committed is taken back.
- Publisher: an event is announced at most twice, copies adjacent; one reconnect makes
  up for one loss; no call hangs; a readiness probe does harm only where it crosses a call.
- Projection and consumer: each event is in the timeline once, in time order; the
  headline is the newest event's status and never goes back; no message leaves the
  queue before it is in the read model; one delivery email at most, and, but for the causes
  that can be listed, one at least; every announced event is applied in the end.
- HTTP API: answers and warmed cache entries are the shipment's own; every request is
  answered.
- Loader: whatever the interleaving, the demo is loaded completely or somebody was killed;
  no shipment's history is put together by two loaders.
- Serving: every request is answered and counted, an answer says what became of the write,
  threads and connections come back.
- Operations page: it comes to show the last state, and never shows an answer older than
  what it knew when it asked.

## 2. Modules

| Module | Models |
|---|---|
| `ShipmentStatus` | `STATUSES`, `EVENT_TO_STATUS`, `_ALLOWED`, `next_status` |
| `EventStream` | the abstract contract between the services: each shipment has one history of legal steps at increasing times, announced in order, each step at most twice and possibly never; announcements may be given up |
| `Shipments` | the handlers of the write side, step by step; implements `EventStream` when the requests on each shipment come in order |
| `Projection` | `Reduce`, with the two spellings of an instant |
| `Tracking` | queue, consumer, Redis, mail server, readers; its environment is `EventStream` |
| `PublishContract` | the abstract promise of `publish_event`: a call ends, and leaves 0, 1 or 2 adjacent copies |
| `BrokerChannel` | `publish_event` and `check_broker`, statement by statement; implements `PublishContract` |
| `Seed` | `run` of the loader, commit by commit, beside other loaders and visitors |
| `Serving` | requests as holders of threads, connections and the publisher's lock, their answers and their counting |
| `OpsPage` | the polls, submits and forms of the operations page |
| `MCShipments`, `MCTracking`, `MCBrokerChannel`, `MCSeed`, `MCServing`, `MCOpsPage` | constants for TLC; a check of `Inserted` against a stable sort |
| `ShipmentsProofs` | theorems about `Shipments`, whatever overlaps |
| `OrderedProofs` | the refinement of `EventStream` by `Shipments` |
| `ProjectionProofs` | lemmas about `Inserted` and timelines |
| `TrackingProofs` | theorems about `Tracking` |
| `BrokerChannelProofs` | theorems about `BrokerChannel`, with the refinement of `PublishContract` |
| `SeedProofs`, `ServingProofs`, `OpsPageProofs` | theorems about `Seed`, `Serving` and `OpsPage` |

`ShipmentStatus` is used by `EventStream` and `Shipments`; `Tracking` extends
`EventStream` and `Projection`; `Shipments` instantiates `EventStream` with a
refinement mapping (`Stream`), `BrokerChannel` instantiates `PublishContract`
(`Contract`). A step `End` of `PublishContract` is what `Publish` of `Shipments` and
`StreamPublish` of `EventStream` take as one step, and so is `Publish` of `Serving`. `Seed`
extends `ShipmentStatus`; `Serving` and `OpsPage` stand alone.

### Shipments: state and actions

`db` and `scan_event` are the tables, `published` the messages in the order the
exchange took them, `now` the clock, `req[r]` what thread `r` is doing, with `row`
its session's copy of the shipment. One action per point where a request meets
something shared:

| Action | Code |
|---|---|
| `BeginCreate`, `Insert`, `InsertCollides` | `create_shipment` (service.py:30-41), the unique index on `tracking_number` |
| `Load` | `get_shipment` in the route (routers/shipments.py:61-63) |
| `Accept`, `Reject` | `next_status` (service.py:78-80), the clock, the 409 |
| `Commit` | the INSERT of the scan and the UPDATE of the changed columns (service.py:82-97) |
| `Refresh` | re-reading in a new transaction (service.py:42, 98-99) |
| `Publish` | `publish_event`: 0, 1 or 2 copies |
| `DbError`, `Crash` | a failing statement; the process stops |

Four details of the code matter and are kept. SQLAlchemy writes a column only when
its value differs from the one loaded (`Flushed`), so two overlapping scans can mix
their columns. `expire_on_commit=False` with the explicit `refresh` means the status
in the event is the one in the table after the commit, while `previousStatus` is the
one loaded before it. An explicit `occurred_at` may be any time, a missing one is the
clock. An eta is kept as the instant it was computed from and which interval was
added. `create_shipment` uses one reading of the clock for the eta and the event; `born`
keeps it in the row for the refinement. The column `created_at` has a reading of its own at
the flush (models.py:32) and is left out: it orders the list of shipments and drives nothing else. Names,
places, notes and ids are left out.

`OrderedSpec` is `Spec` restricted to behaviours in which the requests on each shipment
come one after the other (`Apart`) and a scan is later than what its shipment has
(`InOrder`). Requests on different shipments overlap in it, and everything may fail.

### Tracking: state and actions

`ready` and `inflight` are the queue and the unacknowledged deliveries, by the number
of the message in `published`; a requeued message returns to its position.
`handler` is the consumer goroutine between two calls, `redis`, `mails` and `feed`
the stores, `api[a]` reader `a` between two calls. `unmailed` is a history variable: the
parcels whose email an error of the mail server, a crash before the mail, or a `Save`
that failed but was executed, has cost.

| Action | Code |
|---|---|
| `Create`, `Scan`, `Announce` | the environment: `EventStream` |
| `GiveUp` | a request of the write side ends between its commit and its publish |
| `Connect`, `Deliver`, `Take` | `Run`, `consume` (consumer.go:29-85) |
| `ConnectionLost`, `Crash`, `Expire` | the channel closes, the process stops, the TTL or an empty restart of Redis |
| `GetAndReduce`, `GetFails`, `Save`, `SaveFails` | `handle` (consumer.go:96-111) |
| `SendMail`, `SendMailFails`, `Notify`, `NotifyFails`, `Ack` | `maybeNotify` and the ack (consumer.go:112-134) |
| `Lookup`, `LookupFails` | the cache read of `resolve` (httpapi.go:43-50) |
| `FetchRow`, `FetchScans`, `FetchFails` | `Track` and the two queries of `internal_track` |
| `Warm`, `WarmFails` | the save of `resolve` (httpapi.go:57-61) |

A failing call has both outcomes where the code cannot tell them apart: a Redis SET
or a mail reported as failed may have been executed. `Faults` says which kinds of
fault a run allows and `MaxFaults` how many.

`Projection` compares `occurredAt` as the code does, as a string: instant `t` is the
number `2t` in a message (`...+00:00`, from `isoformat`) and `2t + 1` in an HTTP
answer (`...Z`), because `+` sorts before `Z`. Instants are at least a second apart
and carry no other offset. Of the State only the headline, the previous headline and
the timeline are kept: the reducer decides these; it copies the rest.

### BrokerChannel: state and actions

`lock`, `connection` and `channel` are the module's globals; connections and channels
are numbered as they are opened, and `carrier` says which connection a channel is on. `lost`
are those that no longer reach the broker, `noticed` those of them this process knows
about, which is what `is_open` tells. `declared` is whether the durable exchange exists: the
publisher may be the first to declare it, or tracking-service was (consumer.go:54).
`thread[t]` is where thread `t` is. Each read or write of a
global and each call to pika is a step, since `check_broker` runs beside
`publish_event` without the lock:

| Action | Code |
|---|---|
| `Call`, `Acquire`, `Probe` | `publish_event` up to `with _lock`; `readyz` calling `check_broker` |
| `Check`, `IsOpen`, `Return` | `_channel is not None and _channel.is_open`, the two returns of `_ensure_channel` |
| `Connect`, `StoreConnection`, `OpenChannel`, `StoreChannel`, `Declare` | the three statements that open a channel (broker.py:35-39) |
| `Publish`, `PublishVanishes`, `PublishRaises`, `PublishTorn` | `basic_publish`: taken; written to a dead socket unnoticed; an exception, without or after the broker took the message |
| `PublishRefused` | `basic_publish` to an exchange that does not exist: the broker closes the channel with 404, which this call may or may not live to see |
| `Clash` | two threads are inside pika on one connection at the same instant |
| `Recover` | the `except` clause and the loop's second round |
| `Close` | `close` at the end of the process, which starts anew |
| `BrokerStops`, `BrokerStarts`, `ConnectionDrops` | RabbitMQ and the network |

A `BlockingConnection` is not made for two threads at once. `Clash` says what may become of
a call then: it raises, with the message taken or not, and the connection may be lost;
it counts as a fault. A call that gets through unharmed is the ordinary action. `crossed`
records that a `Clash` or a `PublishRefused` has happened. The loss of connections nothing
refers to any more is left out.

### Seed: state and actions

`table[i]` is the row of the i-th demo shipment with its scans, `others` whether there
is any other shipment, `loader[l]` the local state of a loader: `existing`, the shipment
in hand, its session's copy of the status, the scans done.

| Action | Code |
|---|---|
| `Start`, `Query` | `python -m app.seed [--force]`; the query and the early return (seed.py:64-70) |
| `Delete` | `--force`: all shipments in one committed statement, their scans by the foreign key (71-74) |
| `Insert` | the loop to the next shipment not in `existing` and its commit (77-89); the unique tracking number may refuse it |
| `Refresh` | `db.refresh` in `run` and at the end of `add_scan` |
| `AddScan`, `NextShipment` | `add_scan` up to its commit; the end of the inner loop |
| `Killed`, `VisitorScans`, `VisitorCreates` | the process ends; the API is used meanwhile |

An exception (`failed`) is final as in the code: nothing catches it. Times are left out:
they are fixed distances from one reading of the clock. Two facts of the loader are
outside the module: it announces no creation (it does not call `create_shipment`), and
`--force` tells nobody, so the states cached for the old shipments survive.

### Serving: state and actions

`running`, `conn` and `lock` say who holds a worker thread, a pooled connection and the
publisher's lock; `req[r]` where request `r` is, its result and the code the metrics
middleware has seen. A request is a read, a creation, a scan, `/readyz` or `/healthz`.

| Action | Code |
|---|---|
| `Arrive`, `Invalid`, `Run` | the middleware is entered; 422 before the endpoint; the endpoint gets a thread |
| `Query` | the first statement takes a connection; 404; 409 of `next_status` |
| `Commit`, `Refresh` | the connection goes back with the commit and is taken again by the refresh |
| `Lock`, `Publish` | `with _lock` and the two attempts (broker.py:50-68) |
| `DatabaseAnswers`, `BrokerAnswers` | `readyz`: its connection is back before the broker is asked |
| `Serialize` | the response model is filled in, on a thread again |
| `Close`, `Count` | `get_session`'s `finally`, the response; the middleware's `finally` |
| `DbFails`, `TimesOut`, `BrokerStopsOrStarts` | a failing statement, the lazy load of the scans while a response is filled in (models.py:37-41) included; a checkout that waited `pool_timeout`; the broker |

Entering `get_session` needs a thread, too, but holds nothing afterwards and is part of
`Run`; leaving it has a thread of its own in FastAPI. A statement that takes a
connection and gives it back is one step.

Time is abstracted to two rules. A checkout times out only when no request can move
without waiting (`Waits`); a database so slow that its statements outlast the pool's 30 s is
thereby excluded. And pika bounds a publish to an unreachable broker: each of the two
attempts of `publish_event` ends by itself after at most 10 s (socket) to 15 s (stack), so that one
publish takes no longer than the pool's 30 s. A checkout that waits behind a
publish therefore times out only if it has already outlasted an earlier one (`outlasted`).

### OpsPage: state and actions

The list is its version, the number of writes it shows. `db` is the server's version,
`shown` the page's, `lists` and `posts` the requests in flight.

| Action | Code |
|---|---|
| `Poll`, `ListAnswered`, `ListFailed` | `refresh`, from the timer and on mounting (OpsPage.tsx:16-28) |
| `TypeForm`, `OpenScan`, `CancelScan`, `Submit` | the forms; nothing stops a second submit |
| `PostAnswered`, `PostFailed` | `createShipment` and `addScan` after their `await` (30-53) |
| `ServeList`, `FailList`, `Record`, `Refuse`, `OthersWrite` | the service behind the gateway, with answers lost after the write |

A list has no more than 100 shipments (`limit` of `list_shipments`), which a version
does not show. What is typed is reduced to whether there is something; leaving the
page drops its state, and entering it again is `Init`.

## 3. Runs

The bounds: `MaxTime` limits the clock and with it the creations and scans of a
behaviour; four steps are a creation and three scans, enough for
`RETURNED`, `OUT_FOR_DELIVERY`, `DELIVERED` and for any pair of scans to race after
one has prepared them. The event types of a run cover every target status it needs;
an unknown one (`TELEPORTED`) is refused. Two threads suffice for lost updates of one
row, since each update depends on one loaded row. `Copies` is `{0, 1, 2}`, for two
attempts, and its extremes `{0, 2}` where two threads make the state space large.

| Run | Instance | Checks |
|---|---|---|
| `shipments_ordered` | `OrderedSpec`; 2 shipments, 2 threads, client times before and after the clock, 4 ticks, 0 or 2 copies | `ImplementsStream` |
| `shipments_concurrent` | 1 shipment, 2 threads, back-dated times, 4 ticks, 0 or 2 copies | types and what holds whatever overlaps: `RequestsSound`, `StatusExplained`, `EventsTruthful`, `DeliveryIsPrepared`, `HistoryOnlyGrows`, `TerminalUnlessStale`, `EtaUnlessStale` |
| `tracking_consumer` | 1 shipment, 4 steps, prefetch 2, 0 to 2 copies, 2 faults of Redis, SMTP, connection, process; no readers | `ReadModelIsReal`, `TimelineSorted`, `NothingTwice`, `HeadlineIsNewest`, `AckedIsApplied`, `OneTrueMail`, `MailUnlessWarmed`, `HeadlineNeverRewinds`, `EventuallyApplied` |
| `tracking_readers` | 1 shipment, 3 steps, 1 reader, prefetch 2, 0 to 2 copies, a feed of 1, 1 fault of Redis, upstream, expiry or publisher | what remains true when readers write the cache: `ReadModelIsReal`, `MailUnlessWarmed`, `FeedIsMailed`; `ReadersAnswered` |
| `broker_publish` | 2 calls, 1 probe, the exchange declared before or not, 1 fault of broker, network or of threads that meet inside pika | `ImplementsContract`, `HealthyDelivers`, `RetryReconnects`, `EveryoneEnds` |
| `seed` | 2 loaders, 1 killed, 1 visitor's scan, the four demo shipments | `LoadersComplete`, `HistoriesUnmixed`, `EveryLoaderEnds` |
| `serving` | a scan, a creation, a read, `/readyz` or `/healthz`; 2 threads, 1 connection, 1 failing statement | `AnswersTruthful`, `CountedAsAnswered`, `StarvesOnlyInACrowd`, `EveryRequestAnswered` |
| `ops_page` | 2 list requests and 2 submits in flight, 3 versions, 1 failure | `PageCatchesUp`, `AnswersKeepUp` |

The runs of `Shipments` have 322,317 and 89,005 distinct states, those of `Tracking` 158,286
and 186,112, `broker_publish` 220,742, `seed` 399,909, `serving` 242,120 and `ops_page` 489,607.

The prefetch of 20 and the feed of 50 are cut to 2 and 1, so that both limits are
reached: a second delivery waits behind an unacknowledged one; a second mail of a parcel,
which a duplicate beside a reader brings about, pushes the first out. One
fault is enough to separate any two calls of a handler,
two to fail the repetition as well. The handlers of different parcels share only
the queue, the list and the consumer's time, hence one parcel. A reader's fetch is as
long as any number of the consumer's steps, so one reader meets every state it can be late for. Two
calls are enough for one to find what another left in the globals, and one probe to disturb
it. One fault of the broker spoils one attempt, and both when the broker stays away.

Two loaders are enough for each collision: a loader meets one other's row at a time. The
40 threads and 15 connections (5 and an overflow of 10) of the real service are cut to 2
and 1; four requests are then one more than threads and connections together, so that the
circle `StarvesOnlyInACrowd` speaks of closes, and opens again by a timeout. Two list
requests are what overtaking needs, two submits what a second click needs.

`CHECK_DEADLOCK FALSE` everywhere: with the bounded clock used up, every request served and
the queue empty, nothing is left to do.

### Fairness

All passing runs but the two of `Shipments` use fairness. `Run` reconnects for
ever and its loop is a goroutine the scheduler does not starve, so `Connect`,
`Deliver`, `Take` and the successful step of each call of `handle` are weakly fair;
faults are not, and there are finitely many of them. A started HTTP request runs to
its end (the fallback client has a timeout, whose outcome is `FetchFails`), so a
reader's next step is weakly fair; starting a request is not. Each committed step is
announced or given up, by the publish after the commit. In `BrokerChannel` a thread
that has been called is not starved, and a call to pika returns or raises (it connects under
a timeout, and its heartbeats notice a silent broker). `_lock` needs no stronger fairness: each
caller takes it once, so a waiting one is overtaken finitely often. A broker that
comes back is not assumed. A loader that is not killed runs on (`Seed`). In `Serving` a
request's next step is weakly fair: threads are scheduled, connection attempts end, a
checkout times out; the broker need not come back, and failing statements are not
fair. In `OpsPage` the timer ticks while the page is open and every fetch ends, with an answer or one
of finitely many failures; submits and others' writes are not fair. `Shipments` has no fairness.

### Disagreements between code and words

Four runs expect a violation and say what the code does against a line of the
repository:

- `shipments_terminal_race`: `DELIVERED: set(),  # terminal`
  (shipment_status.py:39). A shipment is in `EXCEPTION`. Two requests load that status, one
  scans it `DELIVERED`, the other `OUT_FOR_DELIVERY`; `next_status` accepts both. The first
  commits, then the second: the delivered shipment is out for delivery again. `TerminalUnlessStale`
  says that this is the only way.
- `tracking_stale_cache`: "fed only by events" (README.md:147-148). A reader misses,
  fetches the row, a scan is recorded, the consumer stores its event, and the reader
  then saves the older state. The headline stays behind for good, or until the next event.
- `tracking_lost_mail`: "On the first transition into `DELIVERED` it sends a plain-text email"
  (docs/architecture.md:54). A reader misses before the consumer's first save. It
  fetches the shipment after its delivery is recorded, and saves that state while the consumer is
  about to handle the DELIVERED event. The consumer finds a delivered state, for
  which there is nothing to announce, and nobody is mailed. No fault is needed.
- `broker_lost_event`: "Publishing failures are logged, counted, and retried once"
  (docs/architecture.md:39-40). On a broker without the exchange, `check_broker` has stored its
  channel and is about to declare the exchange on it; a `publish_event` takes the channel as it
  is. The broker refuses the message and closes the channel, after `basic_publish` has
  returned: the event is gone, and counted as published.

More disagreements are plain from the models without a run of their own:

- "can't deliver something never in transit" (tests/test_shipment_status.py:35): `Allowed`
  has `CREATED -> EXCEPTION -> DELIVERED`.
- The same promise of the email (docs/architecture.md:54): after `SendMailFails`, or a crash or
  Redis error after the SET, the message is acknowledged or changes nothing any more.
  `MailUnlessWarmed` says that these and a warming reader are all that can cost the mail.
- "The reducer is idempotent, so redelivered messages are safe" (README.md:148; also
  docs/architecture.md:47-48): beside readers they are not. A warmed state has the other
  spelling of the time and no status, so a redelivered event enters the timeline a second
  time, and `NothingTwice` is false with a reader. A reader that saves a state from before the
  delivery over the delivered one makes the redelivered DELIVERED event a transition again: the
  recipient is mailed twice, and `OneTrueMail` is false with a reader and a duplicate. TLC finds
  both within `tracking_readers` when asked. Without readers both hold.
- "killing `redis` only slows tracking" (docs/architecture.md:86-87): `LookupFails` answers 502.
- "`/readyz`: Readiness, checks DB / Redis / broker; `503` if a dependency is down"
  (docs/api.md:84): `IsOpen` trusts the cached channel (`BrokerAnswers` of `Serving` allows
  for it), and `NoDatabase` reports the database as down when the pool is empty.

A starvation no document rules out: with as many requests in progress as there are
threads and connections together, the threads may all run endpoints that wait for a
connection while each connection belongs to an answer that waits for a thread. Nobody
moves, `/healthz` included, until the checkouts time out (`StarvesOnlyInACrowd`,
`EveryRequestAnswered`).

`NothingTwice`, `HeadlineIsNewest`, `HeadlineNeverRewinds`, `AckedIsApplied` and `OneTrueMail`
are checked without readers and are false with them. `ReadModelIsReal`, `TimelineSorted`,
`FeedIsMailed` and `MailUnlessWarmed` hold in both.

## 4. Proofs

Every theorem is checked by TLAPS from the modules' named assumptions on constants alone:
bounds are numbers, the sets of requests of `Serving` and list requests of `OpsPage` are
finite, a limit that has to admit something is not 0. `MaxTime # 0` in `Tracking` is one of
these: a stream without an instant could not hold its first step. Sets of parcels, threads,
callers, probes, loaders, readers and list requests may have any size, bounds on the clock,
faults, crashes and visits any value.

Each proof module has one inductive invariant, `IInv`, proved by one lemma per part
and in it one case per action.

### `ShipmentsProofs`: whatever overlaps

| Theorem | States |
|---|---|
| `Invariance` | `Spec => []IInv` |
| `TypeCorrect`, `RequestsStaySound`, `StatusStaysExplained`, `EventsStayTruthful`, `DeliveryStaysPrepared` | each part of `IInv`, the invariants `shipments_concurrent` checks |
| `HistoryKept` | `Spec => HistoryOnlyGrows` |
| `TerminalButForStale` | `Spec => TerminalUnlessStale` |
| `EtaButForStale` | `Spec => EtaUnlessStale` |

`IInv` is `TypeOK`, `RequestsSound`, `StatusExplained`, `EventsTruthful` and
`DeliveryIsPrepared` together. The last three are not inductive alone: a thread
between `Accept` and `Commit` could hold anything. `RequestsSound` says what a
request may rely on between its steps, namely that the status it loaded is one a
committed scan explains, that its event is legal from it, and that what it is about to
announce is in the tables. It survives the steps of other threads because the tables
only grow (`Grows`), which every step satisfies; this rely-guarantee argument is
why no lock is needed for these properties. A delivery is prepared because a
`DELIVERED` scan is committed from a loaded status, which an earlier scan explains.

`TerminalIsFinal` and a right eta are lost when requests overlap, as the run
`shipments_terminal_race` shows. What is proved instead holds under every overlap: the only step that
does it is the flush of a request whose row has changed since it was loaded (`StaleFlush`).
Such a flush apart, a request that commits has decided from the row as it is. `Legal` has
no edge out of `DELIVERED`, so that row is not delivered; and what `Flushed` writes onto the row it
was computed from is what the request computed (`CurrentUpdate`). No failure, crash, refresh or
publish touches the table.

### `OrderedProofs`: the contract with tracking-service

| Theorem | States |
|---|---|
| `StreamRefinement` | `OrderedSpec => ImplementsStream` |

There is no assumption on the constants: any number of threads serve any number of shipments,
clients choose any times, and any statement or the process may fail. What `OrderedSpec`
takes from clients is that each shipment's scans are sent one after the other, each later
than the last; the service does not enforce it, and without it the contract does not hold. An overlap on one
shipment announces steps with the wrong predecessor, and a time before the last one
makes a history that is not in order.

The refinement is proved step by step: `Insert` is `StreamCreate`, `Commit` is `StreamScan`,
`Publish` is `StreamPublish` with as many copies, a `DbError` between the commit and
the publish is `StreamGiveUp` of one shipment and a `Crash` of all that had an announcement to
make, and every other step stutters. It needs the invariant `SInv`: a loaded row is
still the row of the table; the status column is the status of the last scan; what a
request has yet to announce is the last step of its shipment's history; histories are in the order
of their times. With it, what is proved of `Tracking` over `EventStream` is proved of it over the
write side.

### `ProjectionProofs` and `TrackingProofs`

| Theorem | Assumes | States |
|---|---|---|
| `Invariance` | | `Spec => []IInv` |
| `TypeCorrect`, `ReadModelStaysReal`, `TimelineStaysSorted`, `FeedStaysMailed`, `MailSentUnlessWarmed` | | the invariants that hold with readers, expiry and every fault |
| `UnreadInvariance` | `Readers = {}` | `Spec => []FInv` |
| `NothingEntersTwice`, `HeadlineStaysNewest` | `Readers = {}` | `NothingTwice`, `HeadlineIsNewest` |
| `AloneInvariance` | `Alone` | `Spec => []AInv` |
| `AckedStaysApplied`, `AtMostOneMail` | `Alone` | `AckedIsApplied`, `OneTrueMail` |
| `HeadlineKeepsUp` | `Alone` | `Spec => HeadlineNeverRewinds` |

`ProjectionProofs` has the facts about the reducer: `Inserted` puts one event in its place, moves
the others by at most one, keeps the order, and repeats nothing that was not there.

`IInv` adds to `TypeOK` that histories are numbered by their instants and end with
`DELIVERED`, that each message tells one step of one history, that what is cached, and what the
consumer and the readers are about to write, is `Sound`: sorted, and telling of nothing
that did not happen (`CacheSound`, `HandlerSound`, `ReadersSound`). Since histories only
go on (`Continues`), a state read long ago is still sound when it is written. `MailsCounted` says
that a parcel is in the feed no more often than it was mailed, the notification still due
included. `MailUnlessWarmed` needs to know, between `Get` and `Save`, that a consumer which read a
delivered state and is about to write one back finds it warmed, mailed, or lost to a fault
(`HandlerMailed`): readers may have saved older states meanwhile, so what is cached says nothing.

`FInv` adds that every cached state, and the state between `Get` and `Save`, is `Folded`: its
entries are messages about the parcel's history, each once, and its headline is that of the last. An
expiry between `Get` and `Save` does no harm to it. Readers do: they put in entries without a
status and with the other spelling of the time.

`AInv` adds for the consumer alone (`Alone`: no readers, no expiry) that nothing changes the state
between `Get` and `Save`, that after `Save` it has the message (`HandlerFresh`), that it keeps what is
acknowledged, and that a mail belongs to the step into `DELIVERED`, which happens once
since nothing in a history is newer (`MailOnce`). TLC shows that each half of
`Alone` is needed: with expiry and no reader, and with one reader and no fault at all, it finds
counterexamples to `AckedIsApplied` and `OneTrueMail`, the latter with a duplicate; with a
reader also to `NothingTwice` and `HeadlineNeverRewinds`. An expired entry has no headline to
compare, and a warmed one may have no timeline or a last entry without a status, which is
why `HeadlineNeverRewinds` and `HeadlineIsNewest` make no statement about those.

### `BrokerChannelProofs`

| Theorem | States |
|---|---|
| `Invariance`, `TypeCorrect` | `Spec => []IInv`, `Spec => []TypeOK` |
| `HealthyDeliversAlways` | `Spec => []HealthyDelivers` |
| `RetriesReconnect` | `Spec => RetryReconnects` |
| `Refinement` | `Spec => ImplementsContract` |

`IInv`: no local variable is ahead of the connections opened (`LocalsKnown`); the callers at work
are the holder of `_lock`, and probes never enter the retry loop (`LockHeld`); unless there was
trouble within the call, a second attempt works on connections that are not lost
(`SecondAttempts`); with no fault and no crossing so far, no reference is `None` where it is used,
each call that ended left one message, and without a probe there is no crossing (`Healthy`); the exchange is the messages of calls that
ended, followed by at most as many of the holder's as it made attempts (`Orderly`). That `check_broker` moves the globals under a
caller's feet is in these parts: they speak of every thread's local copy.

The mapping takes for `taken` the messages of the calls that ended (`Settled`): a call's copies
appear when it ends, in one step, which is `End` of the contract, and everything else stutters.

### `SeedProofs`, `ServingProofs`, `OpsPageProofs`

| Theorem | States |
|---|---|
| `SeedProofs`: `Invariance`, `TypeCorrect`, `HistoriesStayUnmixed`, `LoadersCompleteTogether` | `[]IInv`, `[]TypeOK`, `[]HistoriesUnmixed`, `[]LoadersComplete` |
| `ServingProofs`: `Invariance`, `TypeCorrect`, `AnswersStayTruthful`, `EveryRequestCounted`, `StarvationNeedsACrowd` | `[]IInv`, `[]TypeOK`, `[]AnswersTruthful`, `[]CountedAsAnswered`, `StarvesOnlyInACrowd` |
| `OpsPageProofs`: `Invariance`, `TypeCorrect`, `AnswersAreUpToDate` | `[]IInv`, `[]TypeOK`, `AnswersKeepUp` |

`Seed`: a loader's place in its run (`Fits`), its count of its own scans in the row in hand
(`Counts`), unmixed histories, and, as long as nobody was killed and no visitor came
(`Undisturbed`): each row's history is its plan up to where its loader is (`Whole`), a
loader at a row of its own knows its scans and status (`Knows`), and every missing shipment is ahead
of a loader that is not going to stop at a row before it (`Covered`). The last part is what
a race of several loaders with `--force` turns on.

`Serving`: `RequestsSound` says of each request which resources it can hold where it is, what is
committed and announced, and what its answer can be. A timeout happens when nobody moves.
Either the holder of the lock publishes to a broker that is away, and the wait has outlasted an
earlier publish; or every thread and every connection is somebody's, no request holds both,
and adding the two up gives the crowd.

`OpsPage`: a request knows no more than is recorded, and is answered with no less than it
knew; `AnswersKeepUp` follows because `refresh` shows whatever arrives.

### Only model-checked

- Liveness (`EventuallyApplied`, `ReadersAnswered`, `EveryoneEnds`, `EveryLoaderEnds`,
  `EveryRequestAnswered`, `PageCatchesUp`): the prover has no rules for fairness and `ENABLED`.
- `CacheCatchesUp`, `DeliveryIsMailed`, `CountedIsPublished` and `TerminalIsFinal`: the runs refute them.
- That `Inserted` is a stable sort of the appended list: an assumption TLC evaluates over bounded
  timelines (`MCTracking`); the theorems use order, places and repetition only.

## 5. Not modelled

- The gateway keeps no state between requests.
- Configuration, the single migration, scripts and teaching material have no logic of their
  own. Of the metrics the request counter is modelled, the others count single lines.
- The tracking page shows the answer of one request per submit. That a warmed state of a
  shipment without scans has `events: null` is a hazard of the list without a property: one
  input and one output.
- The gateway's stub key check and its `/readyz` fan-out depend on nothing but the request.
- A message that is not JSON is dropped by `handle`; nothing in the repository
  publishes one.
- RabbitMQ, Redis, PostgreSQL and the mail server are modelled from how the code
  uses them: a durable queue with acknowledgements, prefetch and requeue in place;
  single-key reads and writes; committed transactions read by later statements; a
  mail accepted or not.

## 6. Plan

The state machines of the repository are in place, and each invariant and action
property of their passing runs has a theorem. What is left:

1. `ParcelPigeon`: the write side, the loader and the tracking side composed without
   `EventStream` between them, on the smallest instance: `--force` under a warm cache.
2. `BrokerChannel` as the `Publish` of `Shipments`: that the copies of a call are among
   `Copies` is a fact of each of the two today, connected by `PublishContract` in words only.
3. How far the timeline and the headline recover after a reader has saved an older state.

No module has a recursive operator, so each of them can be extended by a proof module.
