------------------------------ MODULE Tracking ------------------------------
(***************************************************************************)
(* tracking-service: the durable queue tracking.projector, the consumer    *)
(* that folds its messages into Redis (internal/consumer), the HTTP        *)
(* handlers that read Redis and fall back to shipments-service             *)
(* (internal/httpapi, internal/upstream) and the delivery emails           *)
(* (internal/notify).  Its environment is EventStream: what                *)
(* shipments-service records and announces.                                *)
(*                                                                         *)
(* The consumer handles one delivery after the other, each HTTP request    *)
(* has a goroutine of its own, and all of them read and write the same     *)
(* keys without a transaction: their steps interleave at every call to     *)
(* Redis, to the mail server and to shipments-service.                     *)
(***************************************************************************)
EXTENDS EventStream, Projection, FiniteSets

CONSTANTS Readers,    \* goroutines that serve GET /track/{tn}
          Prefetch,   \* unacknowledged deliveries the broker allows (Qos)
          NotifyMax,  \* length LTRIM cuts track:notifications to
          Faults,     \* what may go wrong, of FaultKinds
          MaxFaults   \* bound on how often it does

FaultKinds == {"redis", "smtp", "upstream", "connection", "crash", "expiry", "publisher"}

ASSUME TrackingAssumption ==
  /\ MaxTime # 0
  /\ Prefetch \in Nat \ {0}
  /\ NotifyMax \in Nat \ {0}
  /\ Faults \subseteq FaultKinds
  /\ MaxFaults \in Nat

VARIABLES ready,     \* numbers of the published messages waiting in the queue
          inflight,  \* numbers delivered and not acknowledged, oldest first
          connected, \* the consumer has an open channel
          handler,   \* what the consumer goroutine is doing
          redis,     \* redis[tn]: the cached State, or Missing
          mails,     \* mails[tn]: delivery emails the mail server accepted
          unmailed,  \* parcels whose delivery email an error or a crash has cost
          feed,      \* the list track:notifications, newest first
          api,       \* api[a]: what reader a is doing
          faults     \* how many faults there have been

trackingVars ==
  <<ready, inflight, connected, handler, redis, mails, unmailed, feed, api, faults>>

vars == <<streamVars, trackingVars>>

-----------------------------------------------------------------------------
Missing == [status |-> "missing"]

StatusOrNone == Statuses \cup {""}

Event == [status : StatusOrNone, type : EventTypes \cup {""}, at : Nat]

State == [status : StatusOrNone, previous : StatusOrNone, events : Seq(Event)]

HandlerIdle == [pc |-> "idle"]

\* `before` is the status Reduce started from, `next` the state it returned.
Handling == [pc : {"get", "save", "mail", "notify", "ack"}, msg : Nat,
             before : StatusOrNone, next : State]

\* `code` is the HTTP status of a reader's last answer, 0 before the first.
ReaderIdle == [pc : {"idle"}, code : {0, 200, 404, 502}]

Reading == [pc : {"row", "scans", "warm"}, tn : TrackingNumbers, state : State]

TypeOK ==
  /\ StreamTypeOK
  /\ ready \subseteq DOMAIN published
  /\ inflight \in Seq(DOMAIN published)
  /\ connected \in BOOLEAN
  /\ handler \in Handling \cup {HandlerIdle}
  /\ redis \in [TrackingNumbers -> State \cup {Missing}]
  /\ mails \in [TrackingNumbers -> Nat]
  /\ unmailed \subseteq TrackingNumbers
  /\ feed \in Seq(TrackingNumbers)
  /\ api \in [Readers -> Reading \cup ReaderIdle]
  /\ faults \in 0..MaxFaults

Init ==
  /\ StreamInit
  /\ ready = {}
  /\ inflight = <<>>
  /\ connected = FALSE
  /\ handler = HandlerIdle
  /\ redis = [tn \in TrackingNumbers |-> Missing]
  /\ mails = [tn \in TrackingNumbers |-> 0]
  /\ unmailed = {}
  /\ feed = <<>>
  /\ api = [a \in Readers |-> [pc |-> "idle", code |-> 0]]
  /\ faults = 0

Fault(kind) ==
  /\ kind \in Faults
  /\ faults < MaxFaults
  /\ faults' = faults + 1

-----------------------------------------------------------------------------
\* The environment.  Only the order of the instants of a history matters, so
\* the next one is always one later.

Create(tn) == StreamCreate(tn, 1) /\ UNCHANGED trackingVars

Scan(tn, type) ==
  /\ Len(log[tn]) < MaxTime
  /\ StreamScan(tn, type, Len(log[tn]) + 1)
  /\ UNCHANGED trackingVars

\* The bound queue keeps what the exchange accepts, while consumers come and go.
Announce(tn) ==
  /\ \E copies \in Copies : StreamPublish(tn, copies)
  /\ ready' = ready \cup (DOMAIN published' \ DOMAIN published)
  /\ UNCHANGED <<inflight, connected, handler, redis, mails, unmailed, feed, api, faults>>

\* shipments-service fails or stops between a commit and its publish.
GiveUp ==
  /\ Fault("publisher")
  /\ \E lost \in SUBSET TrackingNumbers : StreamGiveUp(lost)
  /\ UNCHANGED <<ready, inflight, connected, handler, redis, mails, unmailed, feed, api>>

-----------------------------------------------------------------------------
\* The queue and the channel.

\* A delivery is on the channel once.
Without(seq, n) ==
  IF \E i \in DOMAIN seq : seq[i] = n
  THEN LET i == CHOOSE i \in DOMAIN seq : seq[i] = n
       IN SubSeq(seq, 1, i - 1) \o SubSeq(seq, i + 1, Len(seq))
  ELSE seq

\* consume: dial, declare, bind, set the prefetch, start consuming.
Connect ==
  /\ ~connected
  /\ handler = HandlerIdle
  /\ connected' = TRUE
  /\ UNCHANGED <<streamVars, ready, inflight, handler, redis, mails, unmailed, feed, api, faults>>

\* The broker pushes the head of the queue.
Deliver ==
  /\ connected
  /\ Len(inflight) < Prefetch
  /\ ready # {}
  /\ LET n == CHOOSE n \in ready : \A m \in ready : n <= m
     IN /\ ready' = ready \ {n}
        /\ inflight' = Append(inflight, n)
  /\ UNCHANGED <<streamVars, connected, handler, redis, mails, unmailed, feed, api, faults>>

\* The channel closes: what was not acknowledged is queued again.  A delivery
\* being handled is still handled to its end; its ack then goes nowhere.
ConnectionLost ==
  /\ connected
  /\ Fault("connection")
  /\ connected' = FALSE
  /\ ready' = ready \cup {inflight[i] : i \in DOMAIN inflight}
  /\ inflight' = <<>>
  /\ UNCHANGED <<streamVars, handler, redis, mails, unmailed, feed, api>>

\* The consumer is about to send the delivery email of tn.
MailDue(tn) == handler.pc = "mail" /\ published[handler.msg].tn = tn

\* The process stops between two steps of whatever it is doing.
Crash ==
  /\ Fault("crash")
  /\ connected' = FALSE
  /\ ready' = ready \cup {inflight[i] : i \in DOMAIN inflight}
  /\ inflight' = <<>>
  /\ handler' = HandlerIdle
  /\ unmailed' = unmailed \cup {tn \in TrackingNumbers : MailDue(tn)}
  /\ api' = [a \in Readers |-> [pc |-> "idle", code |-> 0]]
  /\ UNCHANGED <<streamVars, redis, mails, feed>>

\* A cached state is gone after its TTL, or with a Redis that restarts empty.
Expire(tn) ==
  /\ Fault("expiry")
  /\ redis[tn] # Missing
  /\ redis' = [redis EXCEPT ![tn] = Missing]
  /\ UNCHANGED <<streamVars, ready, inflight, connected, handler, mails, unmailed, feed, api>>

-----------------------------------------------------------------------------
\* handle, step by step.

\* Ack, or Nack without requeue: the delivery leaves the channel, if it is
\* still on it.
Done(n) ==
  /\ inflight' = Without(inflight, n)
  /\ handler' = HandlerIdle

\* A slip: a failed message is dropped.
RequeueNever(n) ==
  /\ Done(n)
  /\ UNCHANGED ready

\* Nack with requeue: the message goes back to its place in the queue.
Requeue(n) ==
  /\ Done(n)
  /\ ready' = IF n \in {inflight[i] : i \in DOMAIN inflight} THEN ready \cup {n} ELSE ready

Take ==
  /\ connected
  /\ handler = HandlerIdle
  /\ inflight # <<>>
  /\ handler' = [pc |-> "get", msg |-> Head(inflight), before |-> "", next |-> EmptyState]
  /\ UNCHANGED <<streamVars, ready, inflight, connected, redis, mails, unmailed, feed, api, faults>>

Stored(tn) == IF redis[tn] = Missing THEN EmptyState ELSE redis[tn]

\* RedisStore.Save: one SET, whatever the key held.
Saved(tn, state) == [redis EXCEPT ![tn] = state]

StampedMessage(n) == [published[n] EXCEPT !.at = Published(@)]

\* Get and Reduce; a message that changes nothing is acknowledged.
GetAndReduce ==
  /\ handler.pc = "get"
  /\ LET msg     == StampedMessage(handler.msg)
         current == Stored(msg.tn)
         next    == Reduce(current, msg)
     IN handler' = [handler EXCEPT !.pc = IF next = current THEN "ack" ELSE "save",
                                   !.before = current.status, !.next = next]
  /\ UNCHANGED <<streamVars, ready, inflight, connected, redis, mails, unmailed, feed, api, faults>>

GetFails ==
  /\ handler.pc = "get"
  /\ Fault("redis")
  /\ Requeue(handler.msg)
  /\ UNCHANGED <<streamVars, connected, redis, mails, unmailed, feed, api>>

\* A slip: every save of a delivered state sends a mail.
AfterSaveAlways(h) == IF h.next.status = "DELIVERED" THEN "mail" ELSE "ack"

\* A slip: the status before is read when the new one is saved.
AfterSaveReread(h) ==
  IF h.next.status = "DELIVERED" /\ redis'[published[h.msg].tn].status # "DELIVERED"
  THEN "mail" ELSE "ack"

\* maybeNotify sends on the step into DELIVERED only.
AfterSave(h) ==
  IF h.next.status = "DELIVERED" /\ h.before # "DELIVERED" THEN "mail" ELSE "ack"

Save ==
  /\ handler.pc = "save"
  /\ redis' = Saved(published[handler.msg].tn, handler.next)
  /\ handler' = [handler EXCEPT !.pc = AfterSave(handler)]
  /\ UNCHANGED <<streamVars, ready, inflight, connected, mails, unmailed, feed, api, faults>>

\* Save reports an error; Redis may have executed the SET all the same, and then the
\* message is found applied when it comes again.
SaveFails ==
  LET tn == published[handler.msg].tn IN
  /\ handler.pc = "save"
  /\ Fault("redis")
  /\ \/ UNCHANGED <<redis, unmailed>>
     \/ /\ redis' = Saved(tn, handler.next)
        /\ unmailed' = IF AfterSave(handler) = "mail" THEN unmailed \cup {tn} ELSE unmailed
  /\ Requeue(handler.msg)
  /\ UNCHANGED <<streamVars, connected, mails, feed, api>>

SendMail ==
  /\ handler.pc = "mail"
  /\ mails' = [mails EXCEPT ![published[handler.msg].tn] = @ + 1]
  /\ handler' = [handler EXCEPT !.pc = "notify"]
  /\ UNCHANGED <<streamVars, ready, inflight, connected, redis, unmailed, feed, api, faults>>

\* SendDelivered reports an error, with the mail accepted or not: logged only.
SendMailFails ==
  /\ handler.pc = "mail"
  /\ Fault("smtp")
  /\ \/ /\ mails' = [mails EXCEPT ![published[handler.msg].tn] = @ + 1]
        /\ UNCHANGED unmailed
     \/ /\ unmailed' = unmailed \cup {published[handler.msg].tn}
        /\ UNCHANGED mails
  /\ handler' = [handler EXCEPT !.pc = "ack"]
  /\ UNCHANGED <<streamVars, ready, inflight, connected, redis, feed, api>>

\* A slip: LPUSH without LTRIM.
PushedOnly(list, tn) == <<tn>> \o list

\* LPUSH and LTRIM in one transaction.
Pushed(list, tn) ==
  LET longer == <<tn>> \o list
  IN IF Len(longer) <= NotifyMax THEN longer ELSE SubSeq(longer, 1, NotifyMax)

Notify ==
  /\ handler.pc = "notify"
  /\ feed' = Pushed(feed, published[handler.msg].tn)
  /\ handler' = [handler EXCEPT !.pc = "ack"]
  /\ UNCHANGED <<streamVars, ready, inflight, connected, redis, mails, unmailed, api, faults>>

\* The error of AddNotification is dropped.
NotifyFails ==
  /\ handler.pc = "notify"
  /\ Fault("redis")
  /\ handler' = [handler EXCEPT !.pc = "ack"]
  /\ UNCHANGED <<streamVars, ready, inflight, connected, redis, mails, unmailed, feed, api>>

Ack ==
  /\ handler.pc = "ack"
  /\ Done(handler.msg)
  /\ UNCHANGED <<streamVars, ready, connected, redis, mails, unmailed, feed, api, faults>>

-----------------------------------------------------------------------------
\* GET /track/{tn} and GET /track/{tn}/events: resolve, step by step.

Answer(a, code) == api' = [api EXCEPT ![a] = [pc |-> "idle", code |-> code]]

\* A hit is answered at once; a miss asks shipments-service.
Lookup(a, tn) ==
  /\ api[a].pc = "idle"
  /\ IF redis[tn] # Missing THEN Answer(a, 200)
     ELSE api' = [api EXCEPT ![a] = [pc |-> "row", tn |-> tn, state |-> EmptyState]]
  /\ UNCHANGED <<streamVars, ready, inflight, connected, handler, redis, mails, unmailed, feed, faults>>

\* A Redis error is not a miss: resolve gives up, the client gets 502.
LookupFails(a) ==
  /\ api[a].pc = "idle"
  /\ Fault("redis")
  /\ Answer(a, 502)
  /\ UNCHANGED <<streamVars, ready, inflight, connected, handler, redis, mails, unmailed, feed>>

\* A slip: an unknown number is asked for until it is known.
FetchRowWaits(a) ==
  /\ api[a].pc = "row"
  /\ log[api[a].tn] # <<>>
  /\ api' = [api EXCEPT ![a].pc = "scans", ![a].state.status = Current(api[a].tn)]
  /\ UNCHANGED <<streamVars, ready, inflight, connected, handler, redis, mails, unmailed, feed, faults>>

\* internal_track reads the row of the shipment in one query ...
FetchRow(a) ==
  LET tn == api[a].tn IN
  /\ api[a].pc = "row"
  /\ IF log[tn] = <<>> THEN Answer(a, 404)
     ELSE api' = [api EXCEPT ![a].pc = "scans", ![a].state.status = Current(tn)]
  /\ UNCHANGED <<streamVars, ready, inflight, connected, handler, redis, mails, unmailed, feed, faults>>

\* A slip: the time of one scan with the type of another.
ScansShifted(tn) ==
  [i \in 1..(Len(log[tn]) - 1) |->
     [status |-> "", type |-> log[tn][i + 1].type, at |-> Served(log[tn][i].at)]]

\* ... and its scans, sorted by time, in a later one.  Track leaves out the
\* status of the scans and there is no entry for the creation.
Scans(tn) ==
  [i \in 1..(Len(log[tn]) - 1) |->
     [status |-> "", type |-> log[tn][i + 1].type, at |-> Served(log[tn][i + 1].at)]]

FetchScans(a) ==
  /\ api[a].pc = "scans"
  /\ api' = [api EXCEPT ![a].pc = "warm", ![a].state.events = Scans(api[a].tn)]
  /\ UNCHANGED <<streamVars, ready, inflight, connected, handler, redis, mails, unmailed, feed, faults>>

\* No answer, an error or a timeout of shipments-service.
FetchFails(a) ==
  /\ api[a].pc \in {"row", "scans"}
  /\ Fault("upstream")
  /\ Answer(a, 502)
  /\ UNCHANGED <<streamVars, ready, inflight, connected, handler, redis, mails, unmailed, feed>>

\* The state is saved over whatever is cached by now.
Warm(a) ==
  /\ api[a].pc = "warm"
  /\ redis' = Saved(api[a].tn, api[a].state)
  /\ Answer(a, 200)
  /\ UNCHANGED <<streamVars, ready, inflight, connected, handler, mails, unmailed, feed, faults>>

\* "cache warm failed" is only logged, whether the SET was executed or not.
WarmFails(a) ==
  /\ api[a].pc = "warm"
  /\ Fault("redis")
  /\ redis' \in {redis, Saved(api[a].tn, api[a].state)}
  /\ Answer(a, 200)
  /\ UNCHANGED <<streamVars, ready, inflight, connected, handler, mails, unmailed, feed>>

-----------------------------------------------------------------------------
Environment ==
  \/ \E tn \in TrackingNumbers :
       \/ Create(tn)
       \/ \E type \in ScanTypes : Scan(tn, type)
       \/ Announce(tn)
  \/ GiveUp

Consume ==
  \/ Connect \/ Deliver \/ Take
  \/ GetAndReduce \/ GetFails
  \/ Save \/ SaveFails
  \/ SendMail \/ SendMailFails
  \/ Notify \/ NotifyFails
  \/ Ack

Serve(a) ==
  \/ \E tn \in TrackingNumbers : Lookup(a, tn)
  \/ LookupFails(a)
  \/ FetchRow(a) \/ FetchScans(a) \/ FetchFails(a)
  \/ Warm(a) \/ WarmFails(a)

Next ==
  \/ Environment
  \/ Consume
  \/ ConnectionLost \/ Crash
  \/ \E tn \in TrackingNumbers : Expire(tn)
  \/ \E a \in Readers : Serve(a)

Spec == Init /\ [][Next]_vars

\* Run reconnects for ever and the consumer goroutine is never starved; a request
\* that has been accepted runs to its end; a publish follows every commit.
Fairness ==
  /\ WF_vars(Connect) /\ WF_vars(Deliver) /\ WF_vars(Take)
  /\ WF_vars(GetAndReduce) /\ WF_vars(Save) /\ WF_vars(SendMail)
  /\ WF_vars(Notify) /\ WF_vars(Ack)
  /\ \A a \in Readers : WF_vars(FetchRow(a) \/ FetchScans(a) \/ Warm(a))
  /\ \A tn \in TrackingNumbers : WF_vars(Announce(tn))

FairSpec == Spec /\ Fairness

-----------------------------------------------------------------------------
Cached(tn) == redis[tn] # Missing

\* ev stands for a step of the history of tn.
Reported(tn, ev) ==
  \E k \in DOMAIN log[tn] :
    /\ log[tn][k].type = ev.type
    /\ log[tn][k].at = Instant(ev.at)
    /\ ev.status \in {"", log[tn][k].status}

\* The read model invents nothing: each timeline entry and the headline status
\* are the shipment's own, at whatever moments the consumer and the readers read
\* and overwrote the cache (consumer.go:96-111, httpapi.go:42-62).
ReadModelIsReal ==
  \A tn \in TrackingNumbers : Cached(tn) =>
    /\ \A i \in DOMAIN redis[tn].events : Reported(tn, redis[tn].events[i])
    /\ \E k \in DOMAIN log[tn] : log[tn][k].status = redis[tn].status

\* The public timeline is in the order of its timestamps although messages are
\* requeued out of order and warmed states mix in (projection.go:89-92).
TimelineSorted ==
  \A tn \in TrackingNumbers : Cached(tn) =>
    \A i, j \in DOMAIN redis[tn].events :
      i < j => redis[tn].events[i].at <= redis[tn].events[j].at

\* Redelivered, duplicated and reordered messages enter the timeline once
\* ("The reducer is idempotent, so redelivered messages are safe", README.md:148).
NothingTwice ==
  \A tn \in TrackingNumbers : Cached(tn) =>
    \A i, j \in DOMAIN redis[tn].events :
      /\ redis[tn].events[i].type = redis[tn].events[j].type
      /\ Instant(redis[tn].events[i].at) = Instant(redis[tn].events[j].at)
      => i = j

\* "Only the chronologically newest event drives the headline status"
\* (projection.go:81): it is the status of the last timeline entry, and the previous
\* status, if there is one, is that of an earlier entry, whatever came late or never.
HeadlineIsNewest ==
  \A tn \in TrackingNumbers : Cached(tn) =>
    LET events == redis[tn].events IN
    /\ redis[tn].status = events[Len(events)].status
    /\ redis[tn].previous # "" =>
         \E i \in 1..(Len(events) - 1) : events[i].status = redis[tn].previous

\* "a late older scan is recorded without rewinding the headline status"
\* (docs/architecture.md:49): the headline moves only with a newer last entry.
HeadlineNeverRewinds ==
  [][\A tn \in TrackingNumbers :
       Cached(tn) /\ redis'[tn].status # redis[tn].status
         => redis'[tn].events[Len(redis'[tn].events)].at
              > redis[tn].events[Len(redis[tn].events)].at]_vars

\* A message leaves the queue only once it is in the read model: connection loss,
\* crash or a failed save between the steps of handle never loses one
\* (manual ack after Save, consumer.go:105-116).
AckedIsApplied ==
  \A n \in DOMAIN published \ (ready \cup {inflight[i] : i \in DOMAIN inflight}) :
    /\ Cached(published[n].tn)
    /\ Applied(redis[published[n].tn].events, StampedMessage(n))

\* A recipient gets at most one delivery email, and only for a parcel that was
\* delivered, although the message may be handled many times (consumer.go:119-122).
OneTrueMail ==
  \A tn \in TrackingNumbers :
    /\ mails[tn] <= 1
    /\ mails[tn] > 0 => \E k \in DOMAIN log[tn] : log[tn][k].status = "DELIVERED"

\* The notification feed is bounded and lists only mails the server accepted,
\* each at most once (store.go:77-87).
FeedIsMailed ==
  /\ Len(feed) <= NotifyMax
  /\ \A tn \in TrackingNumbers :
       Cardinality({i \in DOMAIN feed : feed[i] = tn}) <= mails[tn]

\* Nothing is left to do for the messages and requests there are.
Settled ==
  /\ ready = {} /\ inflight = <<>> /\ handler = HandlerIdle
  /\ \A a \in Readers : api[a].pc = "idle"
  /\ \A tn \in TrackingNumbers : sent[tn] = Len(log[tn])

\* "maintains an independent read model in Redis, fed only by events"
\* (README.md:147-148): with every event delivered and handled, the cached headline
\* is the shipment's status.  The readers feed the cache, too.
CacheCatchesUp ==
  \A tn \in TrackingNumbers : Settled /\ Cached(tn) => redis[tn].status = Current(tn)

\* "On the first transition into DELIVERED it sends a plain-text email"
\* (docs/architecture.md:54): a parcel shown as delivered has its email once there is
\* nothing left to do.  Not so when a reader finds the delivery before the consumer does.
DeliveryIsMailed ==
  \A tn \in TrackingNumbers :
    Settled /\ Cached(tn) /\ redis[tn].status = "DELIVERED" => mails[tn] > 0

\* The timeline has the delivery as shipments-service serves it, from a warmed state.
Warmed(events) == \E i \in DOMAIN events : events[i].type = "DELIVERED" /\ events[i].status = ""

\* The email of a parcel shown as delivered is sent or about to be, unless a reader
\* warmed the cache with the delivery or one of three faults has cost it: the mail
\* server's error, a crash before the mail, a failed Save that was executed
\* (consumer.go:105-126).  Nothing else does, neither readers that save older states
\* over newer ones nor messages that are lost, late or repeated.
MailUnlessWarmed ==
  \A tn \in TrackingNumbers :
    /\ Cached(tn) /\ redis[tn].status = "DELIVERED" /\ ~Warmed(redis[tn].events)
    /\ tn \notin unmailed
    => mails[tn] > 0 \/ MailDue(tn)

\* Every announced step of a history reaches the cached timeline in the end, after
\* any finite number of lost connections, crashes and failed Redis calls.
EventuallyApplied ==
  \A tn \in TrackingNumbers : \A k \in 1..MaxTime :
    (\E n \in DOMAIN published : published[n].tn = tn /\ published[n].at = k)
      ~> (Cached(tn) /\ \E i \in DOMAIN redis[tn].events :
                          Instant(redis[tn].events[i].at) = k)

\* Every tracking request is answered, whatever fails under it.
ReadersAnswered ==
  \A a \in Readers : (api[a].pc # "idle") ~> (api[a].pc = "idle")
=============================================================================
