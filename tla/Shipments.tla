------------------------------ MODULE Shipments ------------------------------
(***************************************************************************)
(* The write side of shipments-service: the handlers POST /shipments and   *)
(* POST /shipments/{id}/scans (app/routers/shipments.py), the use cases    *)
(* behind them (app/service.py), the two tables they write and the messages *)
(* they hand to the broker (app/broker.py).                                *)
(*                                                                         *)
(* FastAPI runs each request in a thread with a session of its own, so the *)
(* steps of concurrent requests interleave wherever one talks to the       *)
(* database, the clock or the broker.  Nothing locks or versions a row.    *)
(***************************************************************************)
EXTENDS ShipmentStatus, Integers, Sequences, FiniteSets

CONSTANTS TrackingNumbers, \* the values generate_tracking_number can draw
          Requests,        \* threads that serve requests
          ScanTypes,       \* event types clients submit, known ones or not
          ClientTimes,     \* explicit occurred_at values clients submit
          MaxTime,         \* bound on the instants, hence on the requests served
          Copies           \* how many copies of one publish reach the broker

ASSUME ShipmentsAssumption ==
  /\ MaxTime \in Nat
  /\ ClientTimes \subseteq 0..MaxTime
  /\ Copies \subseteq Nat
  /\ "" \notin ScanTypes

VARIABLES db,          \* table shipments: db[tn] is a row, or Absent
          scan_event,  \* table scan_events of each shipment, in commit order
          published,   \* messages in the order the exchange accepted them
          now,         \* the latest instant datetime.now(UTC) has returned
          req          \* req[r]: what thread r is doing

vars == <<db, scan_event, published, now, req>>

-----------------------------------------------------------------------------
Absent == [status |-> "absent"]

\* A computed instant: `at` itself, 8 hours later, or the creation default later.
Eta == [at : Nat, plus : {"eta_hours", "8h", "0"}]

\* `born` is no column: it keeps the instant create_shipment took for the eta and the
\* announcement.  The column created_at has a clock read of its own at the flush.
Row == [status : Statuses, eta : Eta, born : Nat]

Scan == [type : EventTypes, at : Nat]

Message == [key : {"shipment.created", "shipment.status_changed", "shipment.scan_added"},
            tn : TrackingNumbers, type : EventTypes \cup {""}, at : Nat,
            status : Statuses, prev : Statuses \cup {""}, eta : Eta]

Idle == [pc |-> "idle"]

\* `row` is the session's copy of the shipment; type "" marks a creation.
Active == [pc : {"insert", "decide", "commit", "refresh", "publish"},
           tn : TrackingNumbers, type : ScanTypes \cup {""}, at : Nat,
           prev : Statuses \cup {""}, row : Row]

TypeOK ==
  /\ db \in [TrackingNumbers -> Row \cup {Absent}]
  /\ scan_event \in [TrackingNumbers -> Seq(Scan)]
  /\ published \in Seq(Message)
  /\ now \in 0..MaxTime
  /\ req \in [Requests -> Active \cup {Idle}]

Init ==
  /\ db = [tn \in TrackingNumbers |-> Absent]
  /\ scan_event = [tn \in TrackingNumbers |-> <<>>]
  /\ published = <<>>
  /\ now = 0
  /\ req = [r \in Requests |-> Idle]

-----------------------------------------------------------------------------
\* Slips: 8 minutes instead of hours, and the 8 hours on the wrong status.
EtaMinutes(status, at, eta) ==
  IF status = "OUT_FOR_DELIVERY" THEN [at |-> at, plus |-> "8min"]
  ELSE IF status = "DELIVERED" THEN [at |-> at, plus |-> "0"]
  ELSE eta

EtaSwapped(status, at, eta) ==
  IF status = "DELIVERED" THEN [at |-> at, plus |-> "8h"]
  ELSE IF status = "OUT_FOR_DELIVERY" THEN [at |-> at, plus |-> "0"]
  ELSE eta

\* The eta the row gets with the new status.
EtaAfter(status, at, eta) ==
  IF status = "OUT_FOR_DELIVERY" THEN [at |-> at, plus |-> "8h"]
  ELSE IF status = "DELIVERED" THEN [at |-> at, plus |-> "0"]
  ELSE eta

\* The session writes a column only when its value differs from the loaded one.
Flushed(loaded, new, stored) == IF new = loaded THEN stored ELSE new

\* create_shipment up to its INSERT: the clock is read, the number is drawn.
BeginCreate(r, tn) ==
  /\ req[r] = Idle
  /\ now < MaxTime
  /\ now' = now + 1
  /\ req' = [req EXCEPT ![r] =
               [pc |-> "insert", tn |-> tn, type |-> "", at |-> now + 1, prev |-> "",
                row |-> [status |-> "CREATED", born |-> now + 1,
                         eta |-> [at |-> now + 1, plus |-> "eta_hours"]]]]
  /\ UNCHANGED <<db, scan_event, published>>

Insert(r) ==
  /\ req[r].pc = "insert"
  /\ db[req[r].tn] = Absent
  /\ db' = [db EXCEPT ![req[r].tn] = req[r].row]
  /\ req' = [req EXCEPT ![r].pc = "refresh"]
  /\ UNCHANGED <<scan_event, published, now>>

\* The drawn number is taken: the unique index refuses the row, the client gets 500.
InsertCollides(r) ==
  /\ req[r].pc = "insert"
  /\ db[req[r].tn] # Absent
  /\ req' = [req EXCEPT ![r] = Idle]
  /\ UNCHANGED <<db, scan_event, published, now>>

\* POST /shipments/{id}/scans finds the shipment (it answers 404 otherwise).
Load(r, tn, type) ==
  /\ req[r] = Idle
  /\ db[tn] # Absent
  /\ req' = [req EXCEPT ![r] =
               [pc |-> "decide", tn |-> tn, type |-> type, at |-> 0,
                prev |-> db[tn].status, row |-> db[tn]]]
  /\ UNCHANGED <<db, scan_event, published, now>>

\* Slips: the result of next_status is ignored; the event goes out before the commit.
AcceptUnchecked(r) ==
  /\ req[r].pc = "decide"
  /\ req[r].type \in EventTypes
  /\ now < MaxTime
  /\ now' = now + 1
  /\ req' = [req EXCEPT ![r].pc = "commit", ![r].at = now + 1]
  /\ UNCHANGED <<db, scan_event, published>>

AcceptAndPublish(r) ==
  /\ req[r].pc = "decide"
  /\ Legal(req[r].prev, req[r].type)
  /\ now < MaxTime
  /\ now' = now + 1
  /\ req' = [req EXCEPT ![r].pc = "publish", ![r].at = now + 1]
  /\ UNCHANGED <<db, scan_event, published>>

\* next_status accepts the loaded status; the event gets the client's time or
\* the clock's.  Either way the clock has moved on (which bounds the requests).
Accept(r) ==
  /\ req[r].pc = "decide"
  /\ Legal(req[r].prev, req[r].type)
  /\ now < MaxTime
  /\ now' = now + 1
  /\ \E at \in ClientTimes \cup {now + 1} :
       req' = [req EXCEPT ![r].pc = "commit", ![r].at = at]
  /\ UNCHANGED <<db, scan_event, published>>

\* next_status raises InvalidTransition: 409, nothing is written.
Reject(r) ==
  /\ req[r].pc = "decide"
  /\ ~Legal(req[r].prev, req[r].type)
  /\ req' = [req EXCEPT ![r] = Idle]
  /\ UNCHANGED <<db, scan_event, published, now>>

\* A slip: the new status is never assigned.
UpdatedEtaOnly(q, stored) ==
  [stored EXCEPT !.eta = EtaAfter(EventToStatus[q.type], q.at, q.row.eta)]

\* The stored row after the flush of request q.
Updated(q, stored) ==
  LET target == EventToStatus[q.type]
      eta    == EtaAfter(target, q.at, q.row.eta)
  IN [stored EXCEPT !.status = Flushed(q.row.status, target, @),
                    !.eta    = Flushed(q.row.eta, eta, @)]

\* One transaction: the scan is inserted, the changed columns are updated.
Commit(r) ==
  LET q == req[r] IN
  /\ q.pc = "commit"
  /\ scan_event' = [scan_event EXCEPT ![q.tn] = Append(@, [type |-> q.type, at |-> q.at])]
  /\ db' = [db EXCEPT ![q.tn] = Updated(q, @)]
  /\ req' = [req EXCEPT ![r].pc = "refresh"]
  /\ UNCHANGED <<published, now>>

\* A new transaction re-reads the row, with what others have committed by then.
Refresh(r) ==
  /\ req[r].pc = "refresh"
  /\ req' = [req EXCEPT ![r].pc = "publish", ![r].row = db[req[r].tn]]
  /\ UNCHANGED <<db, scan_event, published, now>>

RoutingKey(q) ==
  IF q.type = "" THEN "shipment.created"
  ELSE IF EventToStatus[q.type] # q.prev THEN "shipment.status_changed"
  ELSE "shipment.scan_added"

\* A slip: previousStatus taken from the refreshed row.
PayloadRefreshed(q) ==
  [key |-> RoutingKey(q), tn |-> q.tn, type |-> q.type, at |-> q.at,
   status |-> q.row.status, prev |-> q.row.status, eta |-> q.row.eta]

Payload(q) ==
  [key |-> RoutingKey(q), tn |-> q.tn, type |-> q.type, at |-> q.at,
   status |-> q.row.status, prev |-> q.prev, eta |-> q.row.eta]

\* publish_event holds _lock throughout, so the copies are adjacent: none when
\* both attempts fail (or nothing is bound), two when the first one failed late.
Publish(r) ==
  /\ req[r].pc = "publish"
  /\ \E copies \in Copies :
       published' = published \o [i \in 1..copies |-> Payload(req[r])]
  /\ req' = [req EXCEPT ![r] = Idle]
  /\ UNCHANGED <<db, scan_event, now>>

\* A slip: an error after the commit is answered by deleting the scans.
DbErrorUndone(r) ==
  /\ req[r].pc = "refresh"
  /\ scan_event' = [scan_event EXCEPT ![req[r].tn] = <<>>]
  /\ req' = [req EXCEPT ![r] = Idle]
  /\ UNCHANGED <<db, published, now>>

\* A statement fails: 500.  After the commit, the change stays but is not announced.
DbError(r) ==
  /\ req[r].pc \in {"insert", "commit", "refresh"}
  /\ req' = [req EXCEPT ![r] = Idle]
  /\ UNCHANGED <<db, scan_event, published, now>>

\* The process stops: every request in progress is gone, the tables are not.
Crash ==
  /\ \E r \in Requests : req[r] # Idle
  /\ req' = [r \in Requests |-> Idle]
  /\ UNCHANGED <<db, scan_event, published, now>>

Step(r) ==
  \/ \E tn \in TrackingNumbers : BeginCreate(r, tn)
  \/ Insert(r)
  \/ InsertCollides(r)
  \/ \E tn \in TrackingNumbers, type \in ScanTypes : Load(r, tn, type)
  \/ Accept(r)
  \/ Reject(r)
  \/ Commit(r)
  \/ Refresh(r)
  \/ Publish(r)
  \/ DbError(r)

Next == Crash \/ \E r \in Requests : Step(r)

Spec == Init /\ [][Next]_vars
-----------------------------------------------------------------------------
\* What the scans explain.

ScannedInto(tn, status) ==
  \E i \in DOMAIN scan_event[tn] : EventToStatus[scan_event[tn][i].type] = status

Explained(tn, status) == status = "CREATED" \/ ScannedInto(tn, status)

\* However requests interleave and fail, the status column holds CREATED exactly
\* while a shipment has no scans, and otherwise a status one of its committed
\* scans drove it into (one transaction for both tables, service.py:89-97).
StatusExplained ==
  \A tn \in TrackingNumbers :
    /\ db[tn] = Absent => scan_event[tn] = <<>>
    /\ db[tn] # Absent => /\ Explained(tn, db[tn].status)
                          /\ db[tn].status = "CREATED" <=> scan_event[tn] = <<>>

Recorded(tn, type, at) ==
  \E i \in DOMAIN scan_event[tn] : scan_event[tn][i] = [type |-> type, at |-> at]

\* A message is published only for what is committed: its shipment exists, its
\* scan is in the table and was legal from the previousStatus it names, and the
\* status it carries is one the shipment's row has really had
\* (commit before publish, service.py:97-112).
EventsTruthful ==
  \A i \in DOMAIN published :
    LET m == published[i] IN
    /\ db[m.tn] # Absent
    /\ Explained(m.tn, m.status)
    /\ m.type # "" => Legal(m.prev, m.type) /\ Recorded(m.tn, m.type, m.at)

\* Between any two steps of a request its work rests on something real: it
\* decides from a status the shipment has had, commits only what next_status
\* accepted, and announces only what is in the tables (service.py:78-112).
RequestSound(r) ==
  LET q == req[r] IN
  /\ q.pc = "insert" => q.type = "" /\ q.prev = "" /\ q.row.status = "CREATED"
  /\ q.pc \in {"decide", "commit"} =>
       /\ db[q.tn] # Absent
       /\ q.type # ""
       /\ q.prev = q.row.status
       /\ Explained(q.tn, q.prev)
  /\ q.pc = "commit" => Legal(q.prev, q.type)
  /\ q.pc \in {"refresh", "publish"} =>
       /\ db[q.tn] # Absent
       /\ q.type # "" => Legal(q.prev, q.type) /\ Recorded(q.tn, q.type, q.at)
  /\ q.pc = "publish" => Explained(q.tn, q.row.status)

RequestsSound == \A r \in Requests : RequestSound(r)

\* No shipment is recorded as delivered out of the blue: before the first
\* DELIVERED scan a scan has put the shipment out for delivery or in exception,
\* even when that scan belongs to another, concurrent request.
DeliveryIsPrepared ==
  \A tn \in TrackingNumbers : \A i \in DOMAIN scan_event[tn] :
    scan_event[tn][i].type = "DELIVERED" =>
      \E j \in 1..(i - 1) : EventToStatus[scan_event[tn][j].type]
                              \in {"OUT_FOR_DELIVERY", "EXCEPTION"}

\* What is committed stays: no request, failure or crash takes a scan, a shipment
\* or an announcement back (the handlers have no DELETE, service.py:30-112).
HistoryOnlyGrows ==
  [][/\ \A tn \in TrackingNumbers :
          /\ db[tn] # Absent => db'[tn] # Absent
          /\ Len(scan_event[tn]) <= Len(scan_event'[tn])
          /\ SubSeq(scan_event'[tn], 1, Len(scan_event[tn])) = scan_event[tn]
     /\ Len(published) <= Len(published')
     /\ SubSeq(published', 1, Len(published)) = published]_vars

Delivered(tn) == db[tn] # Absent /\ db[tn].status = "DELIVERED"

\* This step flushes a request whose row of tn has changed since it was loaded.
StaleFlush(tn) ==
  \E r \in Requests : /\ req[r].pc = "commit" /\ req'[r].pc = "refresh"
                      /\ req[r].tn = tn /\ req[r].row # db[tn]

\* "DELIVERED: set(),  # terminal" (shipment_status.py:39): a delivered shipment
\* takes no more scans and keeps its status and eta.  False when requests overlap:
\* two of them pass next_status with the status they loaded.
TerminalIsFinal ==
  [][\A tn \in TrackingNumbers :
       Delivered(tn) => db'[tn] = db[tn] /\ scan_event'[tn] = scan_event[tn]]_vars

\* How far DELIVERED is terminal under any overlap: what reopens a delivered
\* shipment is the flush of a request that decided on an older row, and nothing
\* else - no failure, no crash, no request that loaded the delivered row.
TerminalUnlessStale ==
  [][\A tn \in TrackingNumbers :
       Delivered(tn) => \/ db'[tn] = db[tn] /\ scan_event'[tn] = scan_event[tn]
                        \/ StaleFlush(tn)]_vars

\* The eta of a delivered shipment is the time of a DELIVERED scan of it.
EtaOfDelivery(tn) ==
  Delivered(tn) =>
    \E i \in DOMAIN scan_event[tn] :
      /\ scan_event[tn][i].type = "DELIVERED"
      /\ db[tn].eta = [at |-> scan_event[tn][i].at, plus |-> "0"]

\* A flush writes only the columns that differ from the loaded row, so two requests
\* can leave the status of one with the eta of the other.  Only a stale row does
\* that: otherwise a delivered shipment has the time of its delivery as its eta
\* (service.py:89-97), whatever came before.
EtaUnlessStale ==
  [][\A tn \in TrackingNumbers :
       EtaOfDelivery(tn) => EtaOfDelivery(tn)' \/ StaleFlush(tn)]_vars

-----------------------------------------------------------------------------
\* Requests on different shipments may overlap; on each, the service then keeps the
\* contract of EventStream.

\* No two requests work on the same shipment at a time.
Apart ==
  \A r, s \in Requests :
    req[r].pc \notin {"idle", "insert"} /\ req[s].pc \notin {"idle", "insert"}
      /\ req[r].tn = req[s].tn => r = s

\* A scan that is about to be committed is later than what its shipment has.
InOrder ==
  \A r \in Requests : req[r].pc = "commit" =>
    /\ db[req[r].tn].born < req[r].at
    /\ \A i \in DOMAIN scan_event[req[r].tn] : scan_event[req[r].tn][i].at < req[r].at

OrderedSpec == Init /\ [][Next /\ Apart' /\ InOrder']_vars

\* The status before the scans of the first i entries: of the i-th step itself.
StatusAt(tn, i) == IF i = 0 THEN "CREATED" ELSE EventToStatus[scan_event[tn][i].type]

History(tn) ==
  IF db[tn] = Absent THEN <<>>
  ELSE <<[type |-> "", at |-> db[tn].born, status |-> "CREATED", prev |-> ""]>>
         \o [i \in DOMAIN scan_event[tn] |->
               [type |-> scan_event[tn][i].type, at |-> scan_event[tn][i].at,
                status |-> StatusAt(tn, i), prev |-> StatusAt(tn, i - 1)]]

Pending(tn) ==
  {r \in Requests : req[r].pc \in {"refresh", "publish"} /\ req[r].tn = tn}

Announced(m) ==
  [tn |-> m.tn, type |-> m.type, at |-> m.at, status |-> m.status, prev |-> m.prev]

Stream == INSTANCE EventStream WITH
  log       <- [tn \in TrackingNumbers |-> History(tn)],
  sent      <- [tn \in TrackingNumbers |-> Len(History(tn)) - Cardinality(Pending(tn))],
  published <- [i \in DOMAIN published |-> Announced(published[i])]

\* Clients that scan each shipment one request after the other, with increasing
\* times, get the contract tracking-service relies on, however many shipments they
\* work on at once and whatever fails: a legal history, announced in order with the
\* status and previousStatus of the step, each step at most as often as Copies says.
ImplementsStream == Stream!StreamSpec
=============================================================================
