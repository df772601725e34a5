--------------------------- MODULE ShipmentsProofs ---------------------------
(***************************************************************************)
(* Theorems about Shipments, for any number of shipments, threads, event   *)
(* types and client times.                                                 *)
(***************************************************************************)
EXTENDS Shipments, TLAPS

-----------------------------------------------------------------------------
\* The transition table, read once.

\* Every scan event drives a shipment into a status other than CREATED.
LEMMA TargetFacts ==
  ASSUME NEW type \in EventTypes
  PROVE  /\ EventToStatus[type] \in Statuses
         /\ EventToStatus[type] # "CREATED"
         /\ EventToStatus[type] = "DELIVERED" => type = "DELIVERED"
BY DEF EventToStatus, EventTypes, Statuses

\* The only statuses from which next_status accepts DELIVERED.
LEMMA DeliverableFrom ==
  ASSUME NEW status \in Statuses, Legal(status, "DELIVERED")
  PROVE  status \in {"OUT_FOR_DELIVERY", "EXCEPTION"}
<1>1. EventToStatus["DELIVERED"] = "DELIVERED"
  BY DEF EventToStatus, EventTypes
<1> QED
  BY <1>1 DEF Legal, Allowed, Statuses

\* The eta of a row stays an eta (service.py:92-96).
LEMMA EtaType ==
  ASSUME NEW status \in Statuses, NEW at \in Nat, NEW eta \in Eta
  PROVE  EtaAfter(status, at, eta) \in Eta
BY DEF EtaAfter, Eta

\* next_status accepts known event types only (shipment_status.py:51-55).
LEMMA LegalType ==
  ASSUME NEW status, NEW type, Legal(status, type)
  PROVE  type \in EventTypes
BY DEF Legal

\* Repeating one payload 0, 1 or 2 times appends messages of its kind only.
LEMMA CopiesOf ==
  ASSUME NEW S, NEW s \in Seq(S), NEW m \in S, NEW n \in Nat,
         NEW t, t = s \o [i \in 1..n |-> m]
  PROVE  /\ t \in Seq(S)
         /\ \A i \in DOMAIN t : (i \in DOMAIN s /\ t[i] = s[i]) \/ t[i] = m
OBVIOUS

-----------------------------------------------------------------------------
\* Type correctness.

\* The assumption on the constants, for the provers.
LEMMA TimeTypes == MaxTime \in Nat /\ ClientTimes \subseteq Nat /\ Copies \subseteq Nat
<1>1. MaxTime \in Nat /\ ClientTimes \subseteq 0..MaxTime /\ Copies \subseteq Nat
  BY Zenon, ShipmentsAssumption DEF ShipmentsAssumption
<1>2. ClientTimes \subseteq Nat
  BY <1>1
<1> QED
  BY <1>1, <1>2

\* The tables are empty and nobody works at the start.
LEMMA InitType == Init => TypeOK
BY TimeTypes DEF Init, TypeOK

\* A thread that is past "idle" holds a request.
LEMMA Working ==
  ASSUME TypeOK, NEW r \in Requests, req[r].pc # "idle"
  PROVE  req[r] \in Active
BY DEF TypeOK, Idle

\* An idle thread holds none.
LEMMA IdleIsNotActive == Idle \notin Active
BY DEF Idle, Active

\* A shipment that is stored is a row.
LEMMA StoredRow ==
  ASSUME TypeOK, NEW tn \in TrackingNumbers, db[tn] # Absent
  PROVE  db[tn] \in Row
BY DEF TypeOK

\* The parts of a request have their types.
LEMMA ActiveParts ==
  ASSUME NEW q \in Active
  PROVE  /\ q.tn \in TrackingNumbers
         /\ q.type \in ScanTypes \cup {""}
         /\ q.at \in Nat
         /\ q.prev \in Statuses \cup {""}
         /\ q.row \in Row
BY DEF Active

\* What the steps of one request leave in req[r].

\* Accept, Commit and Refresh turn a request into a request.
LEMMA MoveType ==
  ASSUME NEW q \in Active, NEW at \in Nat, NEW row \in Row
  PROVE  /\ [q EXCEPT !.pc = "commit", !.at = at] \in Active
         /\ [q EXCEPT !.pc = "refresh"] \in Active
         /\ [q EXCEPT !.pc = "publish", !.row = row] \in Active
BY DEF Active

\* What _event_payload builds is a message (service.py:116-136).
LEMMA PayloadType ==
  ASSUME NEW q \in Active, q.type # "" => q.type \in EventTypes
  PROVE  Payload(q) \in Message
<1>1. RoutingKey(q) \in {"shipment.created", "shipment.status_changed", "shipment.scan_added"}
  BY DEF RoutingKey
<1>2. q.row.status \in Statuses /\ q.row.eta \in Eta
  BY ActiveParts DEF Row
<1> QED
  BY <1>1, <1>2, ActiveParts DEF Payload, Message

\* A flush leaves a row a row.
LEMMA UpdatedType ==
  ASSUME NEW q \in Active, q.type \in EventTypes, NEW stored \in Row
  PROVE  Updated(q, stored) \in Row
<1> DEFINE target == EventToStatus[q.type]
           eta    == EtaAfter(target, q.at, q.row.eta)
<1>1. target \in Statuses
  BY TargetFacts
<1>2. eta \in Eta
  BY <1>1, EtaType, ActiveParts DEF Row
<1>3. /\ Flushed(q.row.status, target, stored.status) \in Statuses
      /\ Flushed(q.row.eta, eta, stored.eta) \in Eta
  <2> HIDE DEF target, eta
  <2> QED BY <1>1, <1>2 DEF Flushed, Row
<1>4. Updated(q, stored) = [stored EXCEPT !.status = Flushed(q.row.status, target, stored.status),
                                          !.eta = Flushed(q.row.eta, eta, stored.eta)]
  BY DEF Updated
<1> HIDE DEF target, eta
<1> QED
  BY <1>3, <1>4 DEF Row

\* Appending at one key keeps a function to sequences one.
LEMMA AppendType ==
  ASSUME NEW S, NEW T, NEW f \in [S -> Seq(T)], NEW x \in S, NEW e \in T
  PROVE  [f EXCEPT ![x] = Append(@, e)] \in [S -> Seq(T)]
OBVIOUS

\* What the two writing steps write.

\* What Insert writes: the row of the request, and no scan.
LEMMA InsertWrites ==
  ASSUME TypeOK, NEW r \in Requests, Insert(r)
  PROVE  /\ req[r] \in Active
         /\ req[r].tn \in TrackingNumbers
         /\ db' = [db EXCEPT ![req[r].tn] = req[r].row]
         /\ req[r].row \in Row
         /\ UNCHANGED scan_event
BY Working, ActiveParts DEF Insert

\* What Commit writes: one scan, legal from the loaded status, and the flushed row.
LEMMA CommitWrites ==
  ASSUME TypeOK, RequestsSound, NEW r \in Requests, Commit(r)
  PROVE  LET q == req[r] IN
         /\ q \in Active
         /\ q.tn \in TrackingNumbers
         /\ q.type \in EventTypes
         /\ Legal(q.prev, q.type)
         /\ q.prev = q.row.status
         /\ q.row \in Row
         /\ Explained(q.tn, q.prev)
         /\ db[q.tn] \in Row
         /\ db' = [db EXCEPT ![q.tn] = Updated(q, db[q.tn])]
         /\ Updated(q, db[q.tn]) \in Row
         /\ [type |-> q.type, at |-> q.at] \in Scan
         /\ scan_event' = [scan_event EXCEPT ![q.tn] =
                             Append(scan_event[q.tn], [type |-> q.type, at |-> q.at])]
<1> DEFINE q == req[r]
<1>1. q \in Active
  BY Working DEF Commit
<1>2. RequestSound(r) /\ q.pc = "commit"
  BY DEF Commit, RequestsSound
<1>3. /\ Legal(q.prev, q.type) /\ q.prev = q.row.status
      /\ Explained(q.tn, q.prev) /\ db[q.tn] # Absent
  BY <1>2 DEF RequestSound
<1>4. q.type \in EventTypes
  BY <1>3, LegalType
<1>5. q.tn \in TrackingNumbers /\ q.row \in Row /\ q.at \in Nat
  BY <1>1, ActiveParts
<1>6. db[q.tn] \in Row
  BY <1>3, <1>5, StoredRow
<1>7. Updated(q, db[q.tn]) \in Row
  BY <1>1, <1>4, <1>6, UpdatedType
<1>8. [type |-> q.type, at |-> q.at] \in Scan
  BY <1>4, <1>5 DEF Scan
<1>9. /\ db' = [db EXCEPT ![q.tn] = Updated(q, db[q.tn])]
      /\ scan_event' = [scan_event EXCEPT ![q.tn] =
                          Append(scan_event[q.tn], [type |-> q.type, at |-> q.at])]
  BY DEF Commit
<1> QED
  BY <1>1, <1>3, <1>4, <1>5, <1>6, <1>7, <1>8, <1>9

\* Every step of a request keeps the types.
LEMMA StepType ==
  ASSUME TypeOK, RequestsSound, NEW r \in Requests, Step(r)
  PROVE  TypeOK'
<1>1. CASE \E tn \in TrackingNumbers : BeginCreate(r, tn)
  <2> PICK tn \in TrackingNumbers : BeginCreate(r, tn)
    BY <1>1
  <2>1. now + 1 \in Nat /\ now + 1 \in 0..MaxTime
    <3>1. now < MaxTime
      BY DEF BeginCreate
    <3> QED
      BY <3>1, TimeTypes DEF TypeOK
  <2> DEFINE row == [status |-> "CREATED", born |-> now + 1,
                     eta |-> [at |-> now + 1, plus |-> "eta_hours"]]
             q == [pc |-> "insert", tn |-> tn, type |-> "", at |-> now + 1,
                   prev |-> "", row |-> row]
  <2>2. row \in Row
    BY <2>1 DEF Row, Eta, Statuses
  <2>3. q \in Active
    <3> HIDE DEF row
    <3> QED BY <2>1, <2>2 DEF Active
  <2>4. req' = [req EXCEPT ![r] = q] /\ now' = now + 1
    BY DEF BeginCreate
  <2> HIDE DEF q
  <2> QED
    BY <2>1, <2>3, <2>4 DEF BeginCreate, TypeOK
<1>2. CASE Insert(r)
  <2>1. req[r] \in Active
    BY <1>2, Working DEF Insert
  <2>2. req' = [req EXCEPT ![r] = [req[r] EXCEPT !.pc = "refresh"]]
    BY <1>2 DEF Insert
  <2>3. req' \in [Requests -> Active \cup {Idle}]
    BY <2>1, <2>2, MoveType, ActiveParts DEF TypeOK
  <2>4. db' \in [TrackingNumbers -> Row \cup {Absent}]
    BY <1>2, <2>1, ActiveParts DEF Insert, TypeOK
  <2> QED
    BY <1>2, <2>3, <2>4 DEF Insert, TypeOK
<1>3. CASE InsertCollides(r)
  BY <1>3 DEF InsertCollides, TypeOK
<1>4. CASE \E tn \in TrackingNumbers, type \in ScanTypes : Load(r, tn, type)
  <2> PICK tn \in TrackingNumbers, type \in ScanTypes : Load(r, tn, type)
    BY <1>4
  <2>1. db[tn] \in Row
    BY StoredRow DEF Load
  <2> DEFINE q == [pc |-> "decide", tn |-> tn, type |-> type, at |-> 0,
                   prev |-> db[tn].status, row |-> db[tn]]
  <2>2. q \in Active
    BY <2>1 DEF Active, Row
  <2>3. req' = [req EXCEPT ![r] = q]
    BY DEF Load
  <2> HIDE DEF q
  <2> QED
    BY <2>2, <2>3 DEF Load, TypeOK
<1>5. CASE Accept(r)
  <2>1. req[r] \in Active
    BY <1>5, Working DEF Accept
  <2>2. PICK at \in ClientTimes \cup {now + 1} :
          req' = [req EXCEPT ![r].pc = "commit", ![r].at = at]
    BY <1>5 DEF Accept
  <2>3. at \in Nat /\ now' \in 0..MaxTime
    BY <1>5, TimeTypes DEF Accept, TypeOK
  <2>4. req' = [req EXCEPT ![r] = [req[r] EXCEPT !.pc = "commit", !.at = at]]
    BY <2>2
  <2>5. req' \in [Requests -> Active \cup {Idle}]
    BY <2>1, <2>3, <2>4, MoveType, ActiveParts DEF TypeOK
  <2> QED
    BY <1>5, <2>3, <2>5 DEF Accept, TypeOK
<1>6. CASE Reject(r)
  BY <1>6 DEF Reject, TypeOK
<1>7. CASE Commit(r)
  <2> DEFINE q == req[r]
             e == [type |-> q.type, at |-> q.at]
             n == Updated(q, db[q.tn])
  <2>1. /\ q \in Active /\ q.tn \in TrackingNumbers /\ e \in Scan /\ n \in Row
        /\ db' = [db EXCEPT ![q.tn] = n]
        /\ scan_event' = [scan_event EXCEPT ![q.tn] = Append(scan_event[q.tn], e)]
    BY <1>7, CommitWrites
  <2>2. req' = [req EXCEPT ![r] = [req[r] EXCEPT !.pc = "refresh"]]
    BY <1>7 DEF Commit
  <2>3. req' \in [Requests -> Active \cup {Idle}]
    BY <2>1, <2>2, MoveType, ActiveParts DEF TypeOK
  <2> HIDE DEF q, e, n
  <2>4. /\ db' \in [TrackingNumbers -> Row \cup {Absent}]
        /\ scan_event' \in [TrackingNumbers -> Seq(Scan)]
    BY <2>1, AppendType DEF TypeOK
  <2> QED
    BY <1>7, <2>3, <2>4 DEF Commit, TypeOK
<1>8. CASE Refresh(r)
  <2>1. req[r] \in Active
    BY <1>8, Working DEF Refresh
  <2>2. db[req[r].tn] \in Row
    BY <1>8, <2>1, StoredRow, ActiveParts DEF Refresh, RequestsSound, RequestSound
  <2>3. req' = [req EXCEPT ![r] = [req[r] EXCEPT !.pc = "publish", !.row = db[req[r].tn]]]
    BY <1>8 DEF Refresh
  <2>4. req' \in [Requests -> Active \cup {Idle}]
    BY <2>1, <2>2, <2>3, MoveType, ActiveParts DEF TypeOK
  <2> QED
    BY <1>8, <2>4 DEF Refresh, TypeOK
<1>9. CASE Publish(r)
  <2>1. req[r] \in Active
    BY <1>9, Working DEF Publish
  <2>2. Payload(req[r]) \in Message
    BY <1>9, <2>1, PayloadType, LegalType DEF Publish, RequestsSound, RequestSound
  <2>3. PICK copies \in Copies : published' = published \o [i \in 1..copies |-> Payload(req[r])]
    BY <1>9 DEF Publish
  <2>4. published' \in Seq(Message)
    BY <2>2, <2>3, CopiesOf, TimeTypes DEF TypeOK
  <2> QED
    BY <1>9, <2>4 DEF Publish, TypeOK
<1>10. CASE DbError(r)
  BY <1>10 DEF DbError, TypeOK
<1> QED
  BY <1>1, <1>2, <1>3, <1>4, <1>5, <1>6, <1>7, <1>8, <1>9, <1>10 DEF Step

-----------------------------------------------------------------------------
\* Nothing that is stored goes away.

\* No row can be mistaken for a missing one.
LEMMA AbsentIsNoRow == Absent \notin Row
BY DEF Absent, Row

Grows ==
  \A tn \in TrackingNumbers :
    /\ db[tn] # Absent => db'[tn] # Absent
    /\ Len(scan_event[tn]) <= Len(scan_event'[tn])
    /\ \A i \in 1..Len(scan_event[tn]) : scan_event'[tn][i] = scan_event[tn][i]

\* A step that leaves both tables alone lets them grow, trivially.
LEMMA Unwritten ==
  ASSUME TypeOK, UNCHANGED <<db, scan_event>>
  PROVE  Grows
BY DEF Grows, TypeOK

\* An insert takes nothing back.
LEMMA InsertGrows ==
  ASSUME TypeOK, NEW r \in Requests, Insert(r)
  PROVE  Grows
BY InsertWrites, AbsentIsNoRow DEF Grows, TypeOK

\* Neither does a commit.
LEMMA CommitGrows ==
  ASSUME TypeOK, RequestsSound, NEW r \in Requests, Commit(r)
  PROVE  Grows
<1> DEFINE q == req[r]
           e == [type |-> q.type, at |-> q.at]
           n == Updated(q, db[q.tn])
<1>1. /\ q.tn \in TrackingNumbers /\ e \in Scan /\ n \in Row
      /\ db' = [db EXCEPT ![q.tn] = n]
      /\ scan_event' = [scan_event EXCEPT ![q.tn] = Append(scan_event[q.tn], e)]
  BY CommitWrites
<1> HIDE DEF q, e, n
<1> QED
  BY <1>1, AbsentIsNoRow DEF Grows, TypeOK

\* What explains a status or announces a scan keeps doing so.

\* In tables that grow, a scan stays where it is.
LEMMA GrowsScans ==
  ASSUME TypeOK, TypeOK', Grows, NEW tn \in TrackingNumbers, NEW i \in DOMAIN scan_event[tn]
  PROVE  i \in DOMAIN scan_event'[tn] /\ scan_event'[tn][i] = scan_event[tn][i]
<1>1. scan_event[tn] \in Seq(Scan) /\ scan_event'[tn] \in Seq(Scan)
  BY DEF TypeOK
<1>2. /\ Len(scan_event[tn]) <= Len(scan_event'[tn])
      /\ \A k \in 1..Len(scan_event[tn]) : scan_event'[tn][k] = scan_event[tn][k]
  BY DEF Grows
<1> QED
  BY <1>1, <1>2

\* What explained a status goes on explaining it.
LEMMA GrowsExplained ==
  ASSUME TypeOK, TypeOK', Grows, NEW tn \in TrackingNumbers, NEW status,
         Explained(tn, status)
  PROVE  Explained(tn, status)'
BY GrowsScans DEF Explained, ScannedInto

\* A recorded scan stays recorded.
LEMMA GrowsRecorded ==
  ASSUME TypeOK, TypeOK', Grows, NEW tn \in TrackingNumbers, NEW type, NEW at,
         Recorded(tn, type, at)
  PROVE  Recorded(tn, type, at)'
BY GrowsScans DEF Recorded

-----------------------------------------------------------------------------
\* Requests keep working on something real.

\* A request that does not move stays sound while the tables grow under it.
LEMMA OthersSound ==
  ASSUME TypeOK, TypeOK', Grows, NEW s \in Requests, RequestSound(s), req'[s] = req[s]
  PROVE  RequestSound(s)'
<1> DEFINE q == req[s]
<1>1. CASE q.pc = "idle"
  BY <1>1 DEF RequestSound
<1>2. CASE q.pc # "idle"
  <2>1. q.tn \in TrackingNumbers
    BY <1>2, Working, ActiveParts
  <2>2. db[q.tn] # Absent => db'[q.tn] # Absent
    BY <2>1 DEF Grows
  <2>3. \A status : Explained(q.tn, status) => Explained(q.tn, status)'
    BY <2>1, GrowsExplained
  <2> QED
    BY <2>1, <2>2, GrowsRecorded, GrowsExplained DEF RequestSound
<1> QED
  BY <1>1, <1>2

\* The scan a commit appends, and what it explains.

\* After its commit a scan is recorded, last, and explains its status.
LEMMA CommitRecords ==
  ASSUME TypeOK, TypeOK', RequestsSound, NEW r \in Requests, Commit(r),
         NEW tn, NEW type, NEW at,
         tn = req[r].tn, type = req[r].type, at = req[r].at
  PROVE  LET k == Len(scan_event[tn]) + 1
         IN  /\ DOMAIN scan_event'[tn] = 1..k
             /\ scan_event'[tn][k] = [type |-> type, at |-> at]
             /\ Recorded(tn, type, at)'
             /\ ScannedInto(tn, EventToStatus[type])'
<1> DEFINE e == [type |-> type, at |-> at]
           k == Len(scan_event[tn]) + 1
<1>1. /\ tn \in TrackingNumbers /\ e \in Scan
      /\ scan_event' = [scan_event EXCEPT ![tn] = Append(scan_event[tn], e)]
  BY CommitWrites
<1>2. e.type = type
  OBVIOUS
<1>3. scan_event[tn] \in Seq(Scan)
  BY <1>1 DEF TypeOK
<1>4. scan_event'[tn] = Append(scan_event[tn], e)
  BY <1>1 DEF TypeOK
<1>5. /\ DOMAIN scan_event'[tn] = 1..k /\ scan_event'[tn][k] = e
      /\ k \in DOMAIN scan_event'[tn]
  <2> HIDE DEF e
  <2> QED BY <1>1, <1>3, <1>4
<1> QED
  BY <1>2, <1>5 DEF Recorded, ScannedInto

\* What a step leaves in req: the other entries, and the fields it carries over.

\* A step moves one request.
LEMMA OneRequest ==
  ASSUME TypeOK, NEW r \in Requests, Step(r), NEW s \in Requests, s # r
  PROVE  req'[s] = req[s]
<1>1. req = [x \in Requests |-> req[x]]
  BY DEF TypeOK
<1>2. CASE \E tn \in TrackingNumbers : BeginCreate(r, tn)
  BY <1>1, <1>2 DEF BeginCreate
<1>3. CASE \E tn \in TrackingNumbers, type \in ScanTypes : Load(r, tn, type)
  BY <1>1, <1>3 DEF Load
<1>4. CASE Insert(r) \/ InsertCollides(r) \/ Accept(r) \/ Reject(r)
  BY <1>1, <1>4 DEF Insert, InsertCollides, Accept, Reject
<1>5. CASE Commit(r) \/ Refresh(r) \/ Publish(r) \/ DbError(r)
  BY <1>1, <1>5 DEF Commit, Refresh, Publish, DbError
<1> QED
  BY <1>2, <1>3, <1>4, <1>5 DEF Step

\* What a moving request keeps.
LEMMA MoveFields ==
  ASSUME NEW q \in Active, NEW p,
         \/ p = [q EXCEPT !.pc = "refresh"]
         \/ \E at : p = [q EXCEPT !.pc = "commit", !.at = at]
         \/ \E row : p = [q EXCEPT !.pc = "publish", !.row = row]
  PROVE  /\ p.tn = q.tn /\ p.type = q.type /\ p.prev = q.prev
         /\ p.pc # "commit" => p.at = q.at
         /\ p.pc # "publish" => p.row = q.row
BY DEF Active

\* Every step leaves every request sound: the stepping one by its own guards, the
\* others because the tables only grow.
LEMMA StepSound ==
  ASSUME TypeOK, TypeOK', Grows, RequestsSound, StatusExplained,
         NEW r \in Requests, Step(r)
  PROVE  RequestsSound'
<1>1. \A s \in Requests : s # r => RequestSound(s)'
  BY OneRequest, OthersSound DEF RequestsSound
<1> DEFINE q == req[r]
<1>2. RequestSound(r)
  BY DEF RequestsSound
<1>3. ASSUME NEW tn \in TrackingNumbers, NEW status, Explained(tn, status)
      PROVE  Explained(tn, status)'
  BY <1>3, GrowsExplained
<1>4. CASE \E tn \in TrackingNumbers : BeginCreate(r, tn)
  <2> PICK tn \in TrackingNumbers : BeginCreate(r, tn)
    BY <1>4
  <2> PICK at : at = now + 1
    OBVIOUS
  <2> PICK row : row = [status |-> "CREATED", born |-> at,
                        eta |-> [at |-> at, plus |-> "eta_hours"]]
    OBVIOUS
  <2>1. row.status = "CREATED"
    OBVIOUS
  <2>2. req'[r] = [pc |-> "insert", tn |-> tn, type |-> "", at |-> at,
                   prev |-> "", row |-> row]
    BY Zenon DEF BeginCreate, TypeOK
  <2>3. /\ req'[r].pc = "insert" /\ req'[r].type = "" /\ req'[r].prev = ""
        /\ req'[r].row = row
    <3> PICK p : p = req'[r]
      OBVIOUS
    <3>1. p = [pc |-> "insert", tn |-> tn, type |-> "", at |-> at, prev |-> "", row |-> row]
      BY <2>2
    <3>2. p.pc = "insert" /\ p.type = "" /\ p.prev = "" /\ p.row = row
      BY ONLY <3>1
    <3> QED
      BY <3>2
  <2> QED
    BY <1>1, <2>1, <2>3 DEF RequestSound, RequestsSound
<1>5. CASE Insert(r)
  <2>1. q \in Active /\ req'[r] = [q EXCEPT !.pc = "refresh"]
    BY <1>5, InsertWrites DEF Insert, TypeOK
  <2>2. q.type = ""
    BY <1>2, <1>5 DEF Insert, RequestSound
  <2>3. req'[r].tn = q.tn /\ req'[r].type = ""
    BY <2>1, <2>2, MoveFields
  <2>4. req'[r].pc = "refresh"
    BY <2>1 DEF Active
  <2>5. /\ q.tn \in TrackingNumbers /\ q.row \in Row
        /\ db' = [db EXCEPT ![q.tn] = q.row]
    BY <1>5, InsertWrites
  <2>6. db'[q.tn] = q.row
    BY <2>5 DEF TypeOK
  <2>7. db'[q.tn] # Absent
    BY <2>5, <2>6, AbsentIsNoRow
  <2> QED
    BY <1>1, <2>3, <2>4, <2>7 DEF RequestSound, RequestsSound
<1>6. CASE InsertCollides(r) \/ Reject(r) \/ Publish(r) \/ DbError(r)
  <2>1. req'[r].pc = "idle"
    BY <1>6 DEF InsertCollides, Reject, Publish, DbError, TypeOK, Idle
  <2> QED
    BY <1>1, <2>1 DEF RequestSound, RequestsSound
<1>7. CASE \E tn \in TrackingNumbers, type \in ScanTypes : Load(r, tn, type)
  <2> PICK tn \in TrackingNumbers, type \in ScanTypes : Load(r, tn, type)
    BY <1>7
  <2>1. /\ req'[r].pc = "decide" /\ req'[r].tn = tn /\ req'[r].type = type
        /\ req'[r].prev = db[tn].status /\ req'[r].row.status = db[tn].status
    BY DEF Load, TypeOK
  <2>2. /\ \A status : status = db[tn].status => Explained(tn, status)'
        /\ db'[tn] # Absent
    <3>1. Explained(tn, db[tn].status) /\ UNCHANGED <<db, scan_event>>
      BY DEF Load, StatusExplained
    <3> QED
      BY <3>1 DEF Load, Explained, ScannedInto
  <2>3. type # ""
    BY ShipmentsAssumption DEF ShipmentsAssumption
  <2>4. Explained(req[r].tn, req[r].prev)'
    BY <2>1, <2>2 DEF Explained, ScannedInto, Load
  <2> QED
    BY <1>1, <2>1, <2>2, <2>3, <2>4 DEF RequestSound, RequestsSound
<1>8. CASE Accept(r)
  <2>1. q \in Active
    BY <1>8, Working DEF Accept
  <2>2. \E at : req'[r] = [q EXCEPT !.pc = "commit", !.at = at]
    BY <1>8 DEF Accept, TypeOK
  <2>3. /\ req'[r].pc = "commit" /\ req'[r].tn = q.tn /\ req'[r].type = q.type
        /\ req'[r].prev = q.prev /\ req'[r].row = q.row
    BY <2>1, <2>2, MoveFields DEF Active
  <2>4. /\ Legal(q.prev, q.type) /\ db[q.tn] # Absent /\ q.type # ""
        /\ q.prev = q.row.status /\ Explained(q.tn, q.prev)
    BY <1>2, <1>8 DEF Accept, RequestSound
  <2>5. db' = db /\ scan_event' = scan_event
    BY <1>8 DEF Accept
  <2>6. Explained(req[r].tn, req[r].prev)'
    BY <2>3, <2>4, <2>5 DEF Explained, ScannedInto
  <2> QED
    BY ZenonT(60), <1>1, <2>3, <2>4, <2>5, <2>6 DEF RequestSound, RequestsSound
<1>9. CASE Commit(r)
  <2>1. q \in Active /\ Legal(q.prev, q.type) /\ db[q.tn] # Absent /\ q.tn \in TrackingNumbers
    BY <1>9, CommitWrites, AbsentIsNoRow
  <2>2. req'[r] = [q EXCEPT !.pc = "refresh"]
    BY <1>9 DEF Commit, TypeOK
  <2>3. /\ req'[r].pc = "refresh" /\ req'[r].tn = q.tn /\ req'[r].type = q.type
        /\ req'[r].prev = q.prev /\ req'[r].at = q.at
    BY <2>1, <2>2, MoveFields DEF Active
  <2>4. db'[q.tn] # Absent
    BY <2>1 DEF Grows
  <2>5. Recorded(req[r].tn, req[r].type, req[r].at)'
    BY <1>9, <2>3, CommitRecords DEF Recorded
  <2> QED
    BY ZenonT(60), <1>1, <2>1, <2>3, <2>4, <2>5 DEF RequestSound, RequestsSound
<1>10. CASE Refresh(r)
  <2>1. q \in Active /\ q.tn \in TrackingNumbers
    BY <1>10, Working, ActiveParts DEF Refresh
  <2>2. req'[r] = [q EXCEPT !.pc = "publish", !.row = db[q.tn]]
    BY <1>10 DEF Refresh, TypeOK
  <2>3. /\ req'[r].pc = "publish" /\ req'[r].tn = q.tn /\ req'[r].type = q.type
        /\ req'[r].prev = q.prev /\ req'[r].at = q.at /\ req'[r].row = db[q.tn]
    BY <2>1, <2>2, MoveFields DEF Active
  <2>4. /\ db[q.tn] # Absent /\ Explained(q.tn, db[q.tn].status)
        /\ q.type # "" => Legal(q.prev, q.type) /\ Recorded(q.tn, q.type, q.at)
    BY <1>2, <1>10, <2>1 DEF Refresh, RequestSound, StatusExplained
  <2>5. db' = db /\ scan_event' = scan_event
    BY <1>10 DEF Refresh
  <2>6. /\ Explained(req[r].tn, req[r].row.status)'
        /\ req'[r].type # "" => Recorded(req[r].tn, req[r].type, req[r].at)'
    BY <2>3, <2>4, <2>5 DEF Explained, ScannedInto, Recorded
  <2> QED
    BY ZenonT(60), <1>1, <2>3, <2>4, <2>5, <2>6 DEF RequestSound, RequestsSound
<1> QED
  BY <1>4, <1>5, <1>6, <1>7, <1>8, <1>9, <1>10 DEF Step

-----------------------------------------------------------------------------
\* The status column and the scans explain each other.

\* Every step leaves the status explained; only Insert and Commit need a look.
LEMMA StepStatus ==
  ASSUME TypeOK, TypeOK', Grows, RequestsSound, StatusExplained,
         NEW r \in Requests, Step(r)
  PROVE  StatusExplained'
<1> DEFINE OK(tn) ==
             /\ db[tn] = Absent => scan_event[tn] = <<>>
             /\ db[tn] # Absent => /\ Explained(tn, db[tn].status)
                                   /\ db[tn].status = "CREATED" <=> scan_event[tn] = <<>>
<1> SUFFICES ASSUME NEW tn \in TrackingNumbers PROVE OK(tn)'
  BY DEF StatusExplained
<1> DEFINE q == req[r]
<1>1. OK(tn)
  BY DEF StatusExplained
<1>2. ASSUME db'[tn] = db[tn], scan_event'[tn] = scan_event[tn] PROVE OK(tn)'
  BY <1>1, <1>2 DEF Explained, ScannedInto
<1>3. CASE Insert(r)
  <2>1. /\ q.tn \in TrackingNumbers /\ q.row \in Row /\ db[q.tn] = Absent
        /\ q.row.status = "CREATED" /\ scan_event' = scan_event
        /\ db' = [db EXCEPT ![q.tn] = q.row]
    BY <1>3, InsertWrites DEF Insert, RequestSound, RequestsSound
  <2>2. CASE tn = q.tn
    <3>1. db'[tn] = q.row /\ scan_event'[tn] = <<>>
      BY <1>1, <2>1, <2>2 DEF TypeOK
    <3> QED
      BY <2>1, <3>1, AbsentIsNoRow DEF Explained
  <2>3. CASE tn # q.tn
    BY <1>2, <2>1, <2>3 DEF TypeOK
  <2> QED
    BY <2>2, <2>3
<1>4. CASE Commit(r)
  <2> PICK target : target = EventToStatus[q.type]
    OBVIOUS
  <2>1. /\ q.tn \in TrackingNumbers /\ q.row \in Row /\ db[q.tn] \in Row
        /\ q.type \in EventTypes /\ Explained(q.tn, q.row.status)
        /\ db' = [db EXCEPT ![q.tn] = Updated(q, db[q.tn])]
        /\ Updated(q, db[q.tn]) \in Row
        /\ scan_event' = [scan_event EXCEPT ![q.tn] =
                            Append(scan_event[q.tn], [type |-> q.type, at |-> q.at])]
    BY <1>4, CommitWrites
  <2>2. CASE tn # q.tn
    BY <1>2, <2>1, <2>2 DEF TypeOK
  <2>3. CASE tn = q.tn
    <3>1. target # "CREATED"
      BY <2>1, TargetFacts
    <3>2. ScannedInto(tn, target)' /\ scan_event'[tn] # <<>>
      <4> PICK type, at : type = q.type /\ at = q.at
        OBVIOUS
      <4>1. /\ ScannedInto(tn, EventToStatus[type])'
        BY <1>4, <2>3, CommitRecords
      <4> QED
        BY <4>1 DEF ScannedInto
    <3>3. db'[tn] = Updated(q, db[tn]) /\ db'[tn] # Absent
      BY <2>1, <2>3, AbsentIsNoRow DEF TypeOK
    <3>4. db'[tn].status = Flushed(q.row.status, target, db[tn].status)
      BY <2>1, <2>3, <3>3 DEF Updated, Row
    <3>5. CASE target # q.row.status
      <4>1. db'[tn].status = target
        BY <3>4, <3>5 DEF Flushed
      <4>2. Explained(tn, target)'
        BY <3>2 DEF Explained
      <4> QED
        BY <3>1, <3>2, <3>3, <4>1, <4>2 DEF Explained, ScannedInto
    <3>6. CASE target = q.row.status
      <4>1. db'[tn].status = db[tn].status
        BY <3>4, <3>6 DEF Flushed
      <4>2. scan_event[tn] # <<>>
        BY <2>1, <2>3, <3>1, <3>6 DEF Explained, ScannedInto, TypeOK
      <4>3. Explained(tn, db[tn].status) /\ db[tn].status # "CREATED"
        BY <1>1, <2>1, <2>3, <4>2, AbsentIsNoRow
      <4>4. \A status : Explained(tn, status) => Explained(tn, status)'
        BY GrowsExplained
      <4> QED
        BY <3>2, <3>3, <4>1, <4>3, <4>4 DEF Explained, ScannedInto
    <3> QED
      BY <3>5, <3>6
  <2> QED
    BY <2>2, <2>3
<1>5. CASE ~Insert(r) /\ ~Commit(r)
  <2>1. db' = db /\ scan_event' = scan_event
    BY <1>5 DEF Step, BeginCreate, InsertCollides, Load, Accept, Reject, Refresh,
                Publish, DbError
  <2> QED
    BY <1>2, <2>1
<1> QED
  BY <1>3, <1>4, <1>5

-----------------------------------------------------------------------------
\* What is announced is true.

\* Every step leaves the events truthful; only Publish adds one.
LEMMA StepTruthful ==
  ASSUME TypeOK, TypeOK', Grows, RequestsSound, EventsTruthful,
         NEW r \in Requests, Step(r)
  PROVE  EventsTruthful'
<1> DEFINE True(m) ==
             /\ db[m.tn] # Absent
             /\ Explained(m.tn, m.status)
             /\ m.type # "" => Legal(m.prev, m.type) /\ Recorded(m.tn, m.type, m.at)
<1>1. ASSUME NEW m \in Message, True(m) PROVE True(m)'
  <2>1. m.tn \in TrackingNumbers
    BY DEF Message
  <2>2. db'[m.tn] # Absent
    BY <1>1, <2>1 DEF Grows
  <2>3. Explained(m.tn, m.status)'
    BY <1>1, <2>1, GrowsExplained
  <2>4. m.type # "" => Recorded(m.tn, m.type, m.at)'
    BY <1>1, <2>1, GrowsRecorded
  <2> QED
    BY <1>1, <2>2, <2>3, <2>4
<1>2. \A i \in DOMAIN published : published[i] \in Message /\ True(published[i])
  <2>1. \A i \in DOMAIN published : published[i] \in Message
    BY DEF TypeOK
  <2>2. \A i \in DOMAIN published : True(published[i])
    BY DEF EventsTruthful
  <2> QED
    BY <2>1, <2>2
<1>3. SUFFICES \A i \in DOMAIN published' :
                 \E m \in Message : published'[i] = m /\ True(m)
  <2> SUFFICES ASSUME NEW i \in DOMAIN published'
               PROVE  \A m : m = published'[i] => True(m)'
    BY DEF EventsTruthful
  <2> QED
    BY <1>1, <1>3
<1>4. CASE Publish(r)
  <2> PICK m : m = Payload(req[r])
    OBVIOUS
  <2>1. req[r] \in Active /\ req[r].tn \in TrackingNumbers /\ RequestSound(r)
    BY <1>4, Working, ActiveParts DEF Publish, RequestsSound
  <2>2. m \in Message
    BY <1>4, <2>1, PayloadType, LegalType DEF Publish, RequestSound
  <2>3. /\ m.tn = req[r].tn /\ m.type = req[r].type /\ m.at = req[r].at
        /\ m.status = req[r].row.status /\ m.prev = req[r].prev
    BY DEF Payload
  <2>4. True(m)
    BY <1>4, <2>1, <2>3 DEF Publish, RequestSound
  <2>5. PICK copies \in Copies : published' = published \o [i \in 1..copies |-> m]
    BY <1>4 DEF Publish
  <2>6. \A i \in DOMAIN published' :
          (i \in DOMAIN published /\ published'[i] = published[i]) \/ published'[i] = m
    BY <2>2, <2>5, CopiesOf, TimeTypes DEF TypeOK
  <2> QED
    BY <1>2, <2>2, <2>4, <2>6
<1>5. CASE ~Publish(r)
  <2>1. published' = published
    BY <1>5 DEF Step, BeginCreate, Insert, InsertCollides, Load, Accept, Reject,
                Commit, Refresh, DbError
  <2> QED
    BY <1>2, <2>1
<1> QED
  BY <1>4, <1>5

-----------------------------------------------------------------------------
\* Deliveries are prepared: the loaded status a DELIVERED scan was checked
\* against is explained by a scan that was committed before it.

\* Every step leaves deliveries prepared: a DELIVERED scan is committed from a loaded
\* status that an earlier scan explains.
LEMMA StepPrepared ==
  ASSUME TypeOK, TypeOK', Grows, RequestsSound, DeliveryIsPrepared,
         NEW r \in Requests, Step(r)
  PROVE  DeliveryIsPrepared'
<1> DEFINE Prepares(tn, j) ==
             EventToStatus[scan_event[tn][j].type] \in {"OUT_FOR_DELIVERY", "EXCEPTION"}
<1> SUFFICES ASSUME NEW tn \in TrackingNumbers, NEW i \in DOMAIN scan_event'[tn],
                    scan_event'[tn][i].type = "DELIVERED"
             PROVE  \E j \in 1..(i - 1) : Prepares(tn, j)'
  BY DEF DeliveryIsPrepared
<1>1. i \in Nat /\ Len(scan_event[tn]) \in Nat
      /\ DOMAIN scan_event[tn] = 1..Len(scan_event[tn])
  BY DEF TypeOK
<1>2. ASSUME NEW j \in DOMAIN scan_event[tn], Prepares(tn, j) PROVE Prepares(tn, j)'
  BY <1>2, GrowsScans
<1>3. CASE i \in DOMAIN scan_event[tn]
  <2>1. scan_event[tn][i].type = "DELIVERED"
    BY <1>3, GrowsScans
  <2>2. PICK j \in 1..(i - 1) : Prepares(tn, j)
    BY <1>3, <2>1 DEF DeliveryIsPrepared
  <2>3. j \in DOMAIN scan_event[tn]
    BY <1>1, <1>3
  <2> QED
    BY <1>2, <2>2, <2>3
<1>4. CASE i \notin DOMAIN scan_event[tn]
  <2> DEFINE q == req[r]
  <2>1. scan_event' # scan_event
    BY <1>4
  <2>2. Commit(r)
    BY <2>1 DEF Step, BeginCreate, Insert, InsertCollides, Load, Accept, Reject,
                Refresh, Publish, DbError
  <2>3. /\ q \in Active /\ q.tn \in TrackingNumbers /\ Legal(q.prev, q.type)
        /\ Explained(q.tn, q.prev) /\ q.row \in Row /\ q.prev = q.row.status
        /\ scan_event' = [scan_event EXCEPT ![q.tn] =
                            Append(scan_event[q.tn], [type |-> q.type, at |-> q.at])]
    BY <2>2, CommitWrites
  <2>4. tn = q.tn
    BY <1>4, <2>3 DEF TypeOK
  <2>5. /\ DOMAIN scan_event'[tn] = 1..(Len(scan_event[tn]) + 1)
        /\ scan_event'[tn][Len(scan_event[tn]) + 1] = [type |-> q.type, at |-> q.at]
    BY <2>2, <2>4, CommitRecords
  <2>6. i = Len(scan_event[tn]) + 1
    BY <1>1, <1>4, <2>5
  <2>7. q.type = "DELIVERED"
    BY <2>5, <2>6
  <2>8. q.prev \in {"OUT_FOR_DELIVERY", "EXCEPTION"}
    BY SMTT(30), <2>3, <2>7, DeliverableFrom DEF Row
  <2>9. PICK j \in DOMAIN scan_event[tn] : Prepares(tn, j)
    BY <2>3, <2>4, <2>8 DEF Explained, ScannedInto
  <2> QED
    BY <1>1, <1>2, <2>6, <2>9
<1> QED
  BY <1>3, <1>4

-----------------------------------------------------------------------------
\* The inductive invariant and what follows from it.

IInv == /\ TypeOK
        /\ RequestsSound
        /\ StatusExplained
        /\ EventsTruthful
        /\ DeliveryIsPrepared

\* The invariant holds at the start,
LEMMA InitInv == Init => IInv
<1> SUFFICES ASSUME Init PROVE IInv
  OBVIOUS
<1>1. TypeOK
  BY InitType
<1>2. RequestsSound
  BY DEF Init, RequestsSound, RequestSound, Idle
<1>3. StatusExplained /\ DeliveryIsPrepared
  BY DEF Init, StatusExplained, DeliveryIsPrepared
<1>4. EventsTruthful
  <2>1. DOMAIN published = {}
    BY DEF Init
  <2> QED
    BY <2>1 DEF EventsTruthful
<1> QED
  BY <1>1, <1>2, <1>3, <1>4 DEF IInv

\* is kept by every step of a request,
LEMMA StepInv ==
  ASSUME IInv, NEW r \in Requests, Step(r)
  PROVE  IInv' /\ Grows
<1>1. TypeOK'
  BY StepType DEF IInv
<1>2. Grows
  <2>1. CASE ~Insert(r) /\ ~Commit(r)
    <3>1. UNCHANGED <<db, scan_event>>
      BY <2>1 DEF Step, BeginCreate, InsertCollides, Load, Accept, Reject, Refresh,
                  Publish, DbError
    <3> QED
      BY <3>1, Unwritten DEF IInv
  <2> QED
    BY <2>1, InsertGrows, CommitGrows DEF IInv
<1> QED
  BY <1>1, <1>2, StepSound, StepStatus, StepTruthful, StepPrepared DEF IInv

\* by a crash of all of them,
LEMMA CrashInv ==
  ASSUME IInv, Crash
  PROVE  IInv' /\ Grows
<1>1. /\ UNCHANGED <<db, scan_event, published, now>>
      /\ \A r \in Requests : req'[r] = Idle
      /\ req' \in [Requests -> {Idle}]
  BY DEF Crash
<1>2. TypeOK' /\ Grows
  BY <1>1, Unwritten DEF IInv, TypeOK
<1>3. RequestsSound'
  <2>1. \A r \in Requests : req'[r].pc = "idle"
    BY <1>1 DEF Idle
  <2> QED
    BY <2>1 DEF RequestsSound, RequestSound
<1>4. /\ StatusExplained' /\ EventsTruthful' /\ DeliveryIsPrepared'
  BY <1>1 DEF IInv, StatusExplained, EventsTruthful, DeliveryIsPrepared, Explained,
              ScannedInto, Recorded
<1> QED
  BY <1>2, <1>3, <1>4 DEF IInv

\* and by stuttering.
LEMMA NextInv ==
  ASSUME IInv, [Next]_vars
  PROVE  IInv' /\ Grows
<1>1. CASE UNCHANGED vars
  <2>1. UNCHANGED <<db, scan_event, published, now, req>>
    BY <1>1 DEF vars
  <2>2. Grows
    BY <2>1, Unwritten DEF IInv
  <2>3. TypeOK' /\ RequestsSound'
    BY <2>1 DEF IInv, TypeOK, RequestsSound, RequestSound, Explained, ScannedInto, Recorded
  <2>4. StatusExplained' /\ EventsTruthful' /\ DeliveryIsPrepared'
    BY <2>1 DEF IInv, StatusExplained, EventsTruthful, DeliveryIsPrepared, Explained,
                ScannedInto, Recorded
  <2> QED
    BY <2>2, <2>3, <2>4 DEF IInv
<1> QED
  BY <1>1, StepInv, CrashInv DEF Next

\* The inductive invariant of the write side holds in every state (service.py:22-113).
THEOREM Invariance == Spec => []IInv
<1>1. IInv /\ [Next]_vars => IInv'
  BY NextInv
<1> QED
  BY InitInv, <1>1, PTL DEF Spec

\* Types are kept by every interleaving, failure and crash.
THEOREM TypeCorrect == Spec => []TypeOK
<1>1. IInv => TypeOK
  BY DEF IInv
<1> QED
  BY Invariance, <1>1, PTL

\* A request's steps rest on a status the shipment has had and on rows that are
\* there (service.py:78-112), whatever other requests did in between.
THEOREM RequestsStaySound == Spec => []RequestsSound
<1>1. IInv => RequestsSound
  BY DEF IInv
<1> QED
  BY Invariance, <1>1, PTL

\* The status column is always the target of a committed scan, and CREATED
\* exactly without scans (service.py:89-97), for any number of threads.
THEOREM StatusStaysExplained == Spec => []StatusExplained
<1>1. IInv => StatusExplained
  BY DEF IInv
<1> QED
  BY Invariance, <1>1, PTL

\* No message announces what is not committed (service.py:97-112), however
\* many copies the broker gets and whichever requests fail or crash.
THEOREM EventsStayTruthful == Spec => []EventsTruthful
<1>1. IInv => EventsTruthful
  BY DEF IInv
<1> QED
  BY Invariance, <1>1, PTL

\* A DELIVERED scan always comes after one that put the shipment out for
\* delivery or in exception, also when requests race (shipment_status.py:34-40).
THEOREM DeliveryStaysPrepared == Spec => []DeliveryIsPrepared
<1>1. IInv => DeliveryIsPrepared
  BY DEF IInv
<1> QED
  BY Invariance, <1>1, PTL

-----------------------------------------------------------------------------
\* Action properties.

\* A sequence is the beginning of any longer one.
LEMMA Beginning ==
  ASSUME NEW S, NEW s \in Seq(S), NEW t \in Seq(S)
  PROVE  Len(s) <= Len(s \o t) /\ SubSeq(s \o t, 1, Len(s)) = s
<1> PICK u : u = SubSeq(s \o t, 1, Len(s))
  OBVIOUS
<1>1. s \o t \in Seq(S) /\ Len(s \o t) = Len(s) + Len(t) /\ Len(s) \in Nat /\ Len(t) \in Nat
  OBVIOUS
<1>2. \A i \in 1..Len(s) : (s \o t)[i] = s[i]
  OBVIOUS
<1>3. u \in Seq(S) /\ Len(u) = Len(s) /\ \A i \in 1..Len(s) : u[i] = (s \o t)[i]
  BY <1>1
<1>4. u = s
  BY <1>2, <1>3
<1> QED
  BY <1>1, <1>4

\* Messages are only appended: every step but Publish leaves them alone.
LEMMA PublishedGrows ==
  ASSUME IInv, [Next]_vars
  PROVE  Len(published) <= Len(published') /\ SubSeq(published', 1, Len(published)) = published
<1>1. published \in Seq(Message)
  BY DEF IInv, TypeOK
<1>2. CASE published' = published
  <2>1. SubSeq(published, 1, Len(published)) = published /\ Len(published) \in Nat
    BY <1>1
  <2> QED
    BY <1>2, <2>1
<1>3. CASE \E r \in Requests : Publish(r)
  <2> PICK r \in Requests : Publish(r)
    BY <1>3
  <2> PICK m : m = Payload(req[r])
    OBVIOUS
  <2>1. PICK copies \in Copies : published' = published \o [i \in 1..copies |-> m]
    BY DEF Publish
  <2>2. RequestSound(r) /\ copies \in Nat
    BY TimeTypes DEF IInv, RequestsSound
  <2>3. m \in Message
    BY <2>2, Working, PayloadType, LegalType DEF IInv, RequestSound, Publish
  <2>4. [i \in 1..copies |-> m] \in Seq(Message)
    BY <2>2, <2>3
  <2> PICK more : more = [i \in 1..copies |-> m]
    OBVIOUS
  <2>5. more \in Seq(Message) /\ published' = published \o more
    BY <2>1, <2>4
  <2> QED
    BY <1>1, <2>5, Beginning
<1>4. CASE ~(\E r \in Requests : Publish(r))
  BY <1>2, <1>4 DEF Next, Step, vars, Crash, BeginCreate, Insert, InsertCollides, Load,
                    Accept, Reject, Commit, Refresh, DbError
<1> QED
  BY <1>3, <1>4

\* Scans and messages are only appended and shipments only added (the code has no
\* DELETE behind these handlers), whatever fails in between.
THEOREM HistoryKept == Spec => HistoryOnlyGrows
<1> DEFINE Kept ==
             \A tn \in TrackingNumbers :
               /\ db[tn] # Absent => db'[tn] # Absent
               /\ Len(scan_event[tn]) <= Len(scan_event'[tn])
               /\ SubSeq(scan_event'[tn], 1, Len(scan_event[tn])) = scan_event[tn]
           Said ==
             /\ Len(published) <= Len(published')
             /\ SubSeq(published', 1, Len(published)) = published
<1>1. ASSUME IInv, [Next]_vars PROVE Kept
  <2> SUFFICES ASSUME NEW tn \in TrackingNumbers
               PROVE  /\ db[tn] # Absent => db'[tn] # Absent
                      /\ Len(scan_event[tn]) <= Len(scan_event'[tn])
                      /\ SubSeq(scan_event'[tn], 1, Len(scan_event[tn])) = scan_event[tn]
    OBVIOUS
  <2>1. TypeOK /\ TypeOK' /\ Grows
    BY <1>1, NextInv DEF IInv
  <2> DEFINE s == scan_event[tn]
             t == scan_event'[tn]
  <2>2. s \in Seq(Scan) /\ t \in Seq(Scan)
    BY <2>1 DEF TypeOK
  <2>3. Len(s) <= Len(t) /\ \A i \in 1..Len(s) : t[i] = s[i]
    BY <2>1 DEF Grows
  <2>4. SubSeq(t, 1, Len(s)) = s
    <3> HIDE DEF s, t
    <3> QED BY <2>2, <2>3
  <2> QED
    BY <2>1, <2>4 DEF Grows
<1>2. ASSUME IInv, [Next]_vars PROVE Said
  BY <1>2, PublishedGrows
<1>3. IInv /\ [Next]_vars => [Kept /\ Said]_vars
  BY <1>1, <1>2
<1> QED
  BY Invariance, <1>3, PTL DEF Spec, HistoryOnlyGrows

-----------------------------------------------------------------------------
\* What becomes of a delivered shipment when requests overlap.

\* A request that commits onto the row it loaded leaves the status and the eta of its
\* own scan, whatever columns the flush skips (service.py:89-97).
LEMMA CurrentUpdate ==
  ASSUME NEW q \in Active, q.type \in EventTypes
  PROVE  LET target == EventToStatus[q.type]
         IN  /\ Updated(q, q.row).status = target
             /\ Updated(q, q.row).eta = EtaAfter(target, q.at, q.row.eta)
             /\ Updated(q, q.row).born = q.row.born
<1> DEFINE target == EventToStatus[q.type]
           eta    == EtaAfter(target, q.at, q.row.eta)
<1>1. q.row \in Row
  BY ActiveParts
<1>2. /\ Flushed(q.row.status, target, q.row.status) = target
      /\ Flushed(q.row.eta, eta, q.row.eta) = eta
  <2> HIDE DEF target, eta
  <2> QED BY DEF Flushed
<1>3. Updated(q, q.row) = [q.row EXCEPT !.status = Flushed(q.row.status, target, q.row.status),
                                        !.eta = Flushed(q.row.eta, eta, q.row.eta)]
  BY DEF Updated
<1> HIDE DEF target, eta
<1>4. Updated(q, q.row) = [q.row EXCEPT !.status = target, !.eta = eta]
  BY <1>2, <1>3
<1>5. /\ Updated(q, q.row).status = target
      /\ Updated(q, q.row).eta = eta
      /\ Updated(q, q.row).born = q.row.born
  BY <1>1, <1>4 DEF Row
<1> QED
  BY <1>5 DEF target, eta


\* Only an insert or a commit writes a table.
LEMMA Unwriting ==
  ASSUME [Next]_vars, ~(\E r \in Requests : Insert(r) \/ Commit(r))
  PROVE  UNCHANGED <<db, scan_event>>
BY DEF Next, Step, vars, Crash, BeginCreate, InsertCollides, Load, Accept, Reject,
       Refresh, Publish, DbError

\* A commit moves its request on to "refresh".
LEMMA CommitMoves ==
  ASSUME TypeOK, NEW r \in Requests, Commit(r)
  PROVE  req'[r].pc = "refresh"
<1>1. req[r] \in Active
  BY Working DEF Commit
<1>2. req'[r] = [req[r] EXCEPT !.pc = "refresh"]
  BY DEF Commit, TypeOK
<1> QED
  BY <1>1, <1>2 DEF Active

\* A commit onto a row that is still the loaded one finds no delivered shipment, and
\* leaves one only with the eta of its own scan.
LEMMA FreshCommit ==
  ASSUME IInv, NEW r \in Requests, Commit(r), NEW tn, tn = req[r].tn, ~StaleFlush(tn)
  PROVE  ~Delivered(tn) /\ EtaOfDelivery(tn)'
<1> PICK q : q = req[r]
  OBVIOUS
<1>1. TypeOK /\ RequestsSound /\ TypeOK'
  BY NextInv DEF IInv, Next, Step
<1>2. /\ q \in Active /\ tn \in TrackingNumbers /\ q.type \in EventTypes
      /\ Legal(q.prev, q.type) /\ q.prev = q.row.status
      /\ db' = [db EXCEPT ![tn] = Updated(q, db[tn])]
      /\ scan_event' = [scan_event EXCEPT ![tn] =
                          Append(scan_event[tn], [type |-> q.type, at |-> q.at])]
  BY <1>1, CommitWrites
<1>3. q.row = db[tn]
  BY <1>1, CommitMoves DEF StaleFlush, Commit
<1>4. ~Delivered(tn)
  BY <1>2, <1>3 DEF Delivered, Legal, Allowed
<1>5. db'[tn] = Updated(q, q.row)
  BY <1>1, <1>2, <1>3 DEF TypeOK
<1> PICK k : k = Len(scan_event[tn]) + 1
  OBVIOUS
<1> PICK e : e = [type |-> q.type, at |-> q.at]
  OBVIOUS
<1>6. k \in DOMAIN scan_event'[tn] /\ scan_event'[tn][k] = e
  <2>1. e \in Scan /\ scan_event[tn] \in Seq(Scan)
    BY <1>1, <1>2, CommitWrites DEF TypeOK
  <2>2. scan_event'[tn] = Append(scan_event[tn], e)
    BY <1>1, <1>2 DEF TypeOK
  <2> QED
    BY <2>1, <2>2
<1>7. ASSUME db'[tn].status = "DELIVERED"
      PROVE  q.type = "DELIVERED" /\ db'[tn].eta = [at |-> q.at, plus |-> "0"]
  <2>1. EventToStatus[q.type] = "DELIVERED"
    BY <1>2, <1>5, <1>7, CurrentUpdate
  <2>2. db'[tn].eta = EtaAfter("DELIVERED", q.at, q.row.eta)
    BY <1>2, <1>5, <2>1, CurrentUpdate
  <2> QED
    BY <1>2, <2>1, <2>2, TargetFacts DEF EtaAfter
<1>8. e.type = q.type /\ e.at = q.at
  OBVIOUS
<1> QED
  BY <1>4, <1>6, <1>7, <1>8 DEF EtaOfDelivery, Delivered

\* An insert begins a shipment that is not delivered.
LEMMA InsertFresh ==
  ASSUME IInv, NEW r \in Requests, Insert(r), NEW tn, tn = req[r].tn
  PROVE  ~Delivered(tn) /\ ~Delivered(tn)'
<1>1. TypeOK /\ RequestSound(r)
  BY DEF IInv, RequestsSound
<1>2. tn \in TrackingNumbers /\ db' = [db EXCEPT ![tn] = req[r].row]
  BY <1>1, InsertWrites
<1>3. db[tn] = Absent /\ req[r].row.status = "CREATED"
  BY <1>1 DEF Insert, RequestSound
<1>4. db'[tn] = req[r].row
  BY <1>1, <1>2 DEF TypeOK
<1> QED
  BY <1>3, <1>4 DEF Delivered

\* A step leaves a shipment alone, or writes it in one of these two ways.
LEMMA Writers ==
  ASSUME IInv, [Next]_vars, NEW tn \in TrackingNumbers
  PROVE  \/ db'[tn] = db[tn] /\ scan_event'[tn] = scan_event[tn]
         \/ \E r \in Requests : (Insert(r) \/ Commit(r)) /\ tn = req[r].tn
<1>1. TypeOK /\ RequestsSound
  BY DEF IInv
<1>2. CASE ~(\E r \in Requests : Insert(r) \/ Commit(r))
  BY <1>2, Unwriting
<1>3. ASSUME NEW r \in Requests, Insert(r), tn # req[r].tn
      PROVE  db'[tn] = db[tn] /\ scan_event'[tn] = scan_event[tn]
  BY <1>1, <1>3, InsertWrites DEF TypeOK
<1>4. ASSUME NEW r \in Requests, Commit(r), tn # req[r].tn
      PROVE  db'[tn] = db[tn] /\ scan_event'[tn] = scan_event[tn]
  BY <1>1, <1>4, CommitWrites DEF TypeOK
<1> QED
  BY <1>2, <1>3, <1>4

\* For any number of threads, however their requests overlap and fail, a delivered
\* shipment changes only by the flush of a request that loaded an older row
\* (shipment_status.py:39, service.py:78-97).
THEOREM TerminalButForStale == Spec => TerminalUnlessStale
<1> DEFINE Final ==
             \A tn \in TrackingNumbers :
               Delivered(tn) => \/ db'[tn] = db[tn] /\ scan_event'[tn] = scan_event[tn]
                                \/ StaleFlush(tn)
<1>1. ASSUME IInv, [Next]_vars PROVE Final
  BY <1>1, Writers, FreshCommit, InsertFresh
<1>2. IInv /\ [Next]_vars => [Final]_vars
  BY <1>1
<1> QED
  BY Invariance, <1>2, PTL DEF Spec, TerminalUnlessStale

\* And only such a flush parts the eta of a delivered shipment from the time of its
\* delivery (service.py:89-97), whatever times the clients send.
THEOREM EtaButForStale == Spec => EtaUnlessStale
<1> DEFINE Fits ==
             \A tn \in TrackingNumbers :
               EtaOfDelivery(tn) => EtaOfDelivery(tn)' \/ StaleFlush(tn)
<1>1. ASSUME IInv, [Next]_vars PROVE Fits
  <2> SUFFICES ASSUME NEW tn \in TrackingNumbers, EtaOfDelivery(tn), ~StaleFlush(tn)
               PROVE  EtaOfDelivery(tn)'
    OBVIOUS
  <2>1. CASE db'[tn] = db[tn] /\ scan_event'[tn] = scan_event[tn]
    BY <2>1 DEF EtaOfDelivery, Delivered
  <2>2. CASE \E r \in Requests : Insert(r) /\ tn = req[r].tn
    BY <1>1, <2>2, InsertFresh DEF EtaOfDelivery
  <2>3. CASE \E r \in Requests : Commit(r) /\ tn = req[r].tn
    BY <1>1, <2>3, FreshCommit
  <2> QED
    BY <1>1, <2>1, <2>2, <2>3, Writers
<1>2. IInv /\ [Next]_vars => [Fits]_vars
  BY <1>1
<1> QED
  BY Invariance, <1>2, PTL DEF Spec, EtaUnlessStale
=============================================================================
