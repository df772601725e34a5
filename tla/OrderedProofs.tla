----------------------------- MODULE OrderedProofs -----------------------------
(***************************************************************************)
(* Shipments implements EventStream, the contract tracking-service relies  *)
(* on, when the requests on each shipment come one after the other with    *)
(* increasing times (OrderedSpec).  Any number of threads may serve them,  *)
(* requests on different shipments overlap, and all of them may fail.      *)
(***************************************************************************)
EXTENDS ShipmentsProofs, FiniteSetTheorems

-----------------------------------------------------------------------------
\* What each step leaves in req[r].

\* Two records of one request: the same shipment, event and loaded status.
SameRequest(p, q) == p.tn = q.tn /\ p.type = q.type /\ p.prev = q.prev

\* A creation starts with the clock's time in the request and in its row.
LEMMA AfterBegin ==
  ASSUME TypeOK, NEW r \in Requests, NEW tn \in TrackingNumbers, BeginCreate(r, tn)
  PROVE  /\ req'[r].pc = "insert" /\ req'[r].type = "" /\ req'[r].prev = ""
         /\ req'[r].at = now + 1 /\ req'[r].row.born = now + 1
         /\ now < MaxTime /\ now' = now + 1 /\ UNCHANGED <<db, scan_event, published>>
<1> PICK at : at = now + 1
  OBVIOUS
<1> PICK row : row = [status |-> "CREATED", born |-> at,
                      eta |-> [at |-> at, plus |-> "eta_hours"]]
  OBVIOUS
<1> PICK p : p = [pc |-> "insert", tn |-> tn, type |-> "", at |-> at, prev |-> "", row |-> row]
  OBVIOUS
<1>1. req' = [req EXCEPT ![r] = p]
  BY Zenon DEF BeginCreate
<1>2. req'[r] = p
  BY <1>1 DEF TypeOK
<1>3. row.born = at
  OBVIOUS
<1>4. p.pc = "insert" /\ p.type = "" /\ p.prev = "" /\ p.at = at /\ p.row = row
  OBVIOUS
<1> QED
  BY <1>2, <1>3, <1>4 DEF BeginCreate

\* Load copies the row and its status.
LEMMA AfterLoad ==
  ASSUME TypeOK, NEW r \in Requests, NEW tn \in TrackingNumbers, NEW type \in ScanTypes,
         Load(r, tn, type)
  PROVE  /\ req'[r].pc = "decide" /\ req'[r].tn = tn /\ req'[r].row = db[tn]
         /\ UNCHANGED <<db, scan_event, published, now>>
BY DEF Load, TypeOK

\* Accept sets the time of the event.
LEMMA AfterAccept ==
  ASSUME TypeOK, NEW r \in Requests, Accept(r)
  PROVE  /\ req[r] \in Active /\ req'[r].pc = "commit"
         /\ SameRequest(req'[r], req[r]) /\ req'[r].row = req[r].row
         /\ req'[r].at \in 0..MaxTime
         /\ now < MaxTime /\ now' = now + 1 /\ UNCHANGED <<db, scan_event, published>>
<1>1. req[r] \in Active
  BY Working DEF Accept
<1>2. PICK at \in ClientTimes \cup {now + 1} :
        req'[r] = [req[r] EXCEPT !.pc = "commit", !.at = at]
  BY DEF Accept, TypeOK
<1>3. SameRequest(req'[r], req[r]) /\ req'[r].row = req[r].row
  BY <1>1, <1>2 DEF SameRequest, Active
<1>4. req'[r].pc = "commit" /\ req'[r].at = at
  BY <1>1, <1>2 DEF Active
<1>5. at \in 0..MaxTime
  <2>1. ClientTimes \subseteq 0..MaxTime /\ MaxTime \in Nat
    BY Zenon, ShipmentsAssumption DEF ShipmentsAssumption
  <2>2. now \in Nat /\ now < MaxTime
    BY DEF Accept, TypeOK
  <2> QED
    BY <1>2, <2>1, <2>2
<1> QED
  BY <1>1, <1>2, <1>3, <1>4, <1>5 DEF Accept

\* The two writing steps go on to re-read the row.
LEMMA AfterWrite ==
  ASSUME TypeOK, NEW r \in Requests, Insert(r) \/ Commit(r)
  PROVE  /\ req[r] \in Active /\ req'[r].pc = "refresh"
         /\ SameRequest(req'[r], req[r]) /\ req'[r].at = req[r].at
         /\ UNCHANGED <<published, now>>
<1>1. req[r] \in Active
  BY Working DEF Insert, Commit
<1>2. req'[r] = [req[r] EXCEPT !.pc = "refresh"]
  BY DEF Insert, Commit, TypeOK
<1>3. req'[r].pc = "refresh"
  BY <1>1, <1>2 DEF Active
<1>4. SameRequest(req'[r], req[r]) /\ req'[r].at = req[r].at
  BY <1>1, <1>2, <1>3, MoveFields DEF SameRequest
<1> QED
  BY <1>1, <1>3, <1>4 DEF Insert, Commit

\* Refresh takes over the row of the table.
LEMMA AfterRefresh ==
  ASSUME TypeOK, NEW r \in Requests, Refresh(r)
  PROVE  /\ req[r] \in Active /\ req'[r].pc = "publish"
         /\ SameRequest(req'[r], req[r]) /\ req'[r].at = req[r].at
         /\ req'[r].row = db[req[r].tn]
         /\ UNCHANGED <<db, scan_event, published, now>>
<1>1. req[r] \in Active
  BY Working DEF Refresh
<1>2. req'[r] = [req[r] EXCEPT !.pc = "publish", !.row = db[req[r].tn]]
  BY DEF Refresh, TypeOK
<1>3. req'[r].pc = "publish" /\ req'[r].row = db[req[r].tn]
  BY <1>1, <1>2 DEF Active
<1>4. SameRequest(req'[r], req[r]) /\ req'[r].at = req[r].at
  BY <1>1, <1>2 DEF SameRequest, Active
<1> QED
  BY <1>1, <1>3, <1>4 DEF Refresh

\* The steps that end a request.
Ends(r) == InsertCollides(r) \/ Reject(r) \/ Publish(r) \/ DbError(r)

\* An ended request leaves its thread idle and the tables as they are.
LEMMA AfterEnd ==
  ASSUME TypeOK, NEW r \in Requests, Ends(r)
  PROVE  req'[r].pc = "idle" /\ UNCHANGED <<db, scan_event, now>>
BY DEF Ends, InsertCollides, Reject, Publish, DbError, TypeOK, Idle

\* The steps of a request, sorted by what they leave in req[r].
LEMMA StepKinds ==
  ASSUME NEW r \in Requests, Step(r)
  PROVE  \/ \E tn \in TrackingNumbers : BeginCreate(r, tn)
         \/ \E tn \in TrackingNumbers, type \in ScanTypes : Load(r, tn, type)
         \/ Accept(r)
         \/ Insert(r)
         \/ Commit(r)
         \/ Refresh(r)
         \/ Ends(r)
BY DEF Step, Ends

-----------------------------------------------------------------------------
\* Requests that do not share a shipment.

InWork == {"decide", "commit", "refresh", "publish"}

\* A step of one request leaves the shipment another works on alone.
LEMMA OthersApart ==
  ASSUME IInv, Apart, NEW r \in Requests, Step(r), NEW s \in Requests, s # r,
         NEW tn, tn = req[s].tn, req[s].pc \in InWork
  PROVE  req'[s] = req[s] /\ db'[tn] = db[tn] /\ scan_event'[tn] = scan_event[tn]
<1>1. TypeOK /\ RequestsSound /\ RequestSound(s)
  BY DEF IInv, RequestsSound
<1>2. req'[s] = req[s]
  BY <1>1, OneRequest
<1>3. tn \in TrackingNumbers /\ db[tn] # Absent
  BY <1>1, Working, ActiveParts DEF InWork, RequestSound
<1>4. CASE Insert(r)
  <2>1. req[r].tn # tn
    BY <1>3, <1>4 DEF Insert
  <2> QED
    BY <1>1, <1>2, <1>3, <1>4, <2>1, InsertWrites DEF TypeOK
<1>5. CASE Commit(r)
  <2>1. req[r].tn # tn
    BY <1>5 DEF Commit, Apart, InWork
  <2> QED
    BY <1>1, <1>2, <1>3, <1>5, <2>1, CommitWrites DEF TypeOK
<1>6. CASE ~(Insert(r) \/ Commit(r))
  <2>1. UNCHANGED <<db, scan_event>>
    BY <1>6 DEF Step, BeginCreate, InsertCollides, Load, Accept, Reject, Refresh, Publish, DbError
  <2> QED
    BY <1>2, <2>1
<1> QED
  BY <1>4, <1>5, <1>6

-----------------------------------------------------------------------------
\* The session's copy of the row.

\* What a request loaded is still the row in the table when it decides and commits.
RowIsCurrent ==
  \A r \in Requests :
    req[r].pc \in {"decide", "commit"} => req[r].row = db[req[r].tn]

\* A request commits onto the row it loaded.
LEMMA StepRow ==
  ASSUME Apart, IInv, RowIsCurrent, [Next]_vars
  PROVE  RowIsCurrent'
<1> SUFFICES ASSUME NEW r \in Requests, req'[r].pc \in {"decide", "commit"}
             PROVE  req'[r].row = db'[req'[r].tn]
  BY DEF RowIsCurrent
<1>0. TypeOK
  BY DEF IInv
<1>1. CASE UNCHANGED vars
  BY <1>1 DEF vars, RowIsCurrent
<1>2. CASE Crash
  BY <1>2 DEF Crash, Idle
<1>3. CASE Step(r)
  <2>1. CASE \E tn \in TrackingNumbers, type \in ScanTypes : Load(r, tn, type)
    BY <1>0, <2>1, AfterLoad
  <2>2. CASE Accept(r)
    <3>1. req'[r].row = req[r].row /\ req'[r].tn = req[r].tn /\ db' = db
      BY <1>0, <2>2, AfterAccept DEF SameRequest
    <3> QED
      BY <2>2, <3>1 DEF Accept, RowIsCurrent
  <2>3. CASE \E tn \in TrackingNumbers : BeginCreate(r, tn)
    BY <1>0, <2>3, AfterBegin
  <2>4. CASE Insert(r) \/ Commit(r) \/ Refresh(r) \/ Ends(r)
    BY <1>0, <2>4, AfterWrite, AfterRefresh, AfterEnd
  <2> QED
    BY <1>3, <2>1, <2>2, <2>3, <2>4, StepKinds
<1>4. ASSUME NEW s \in Requests, Step(s), s # r
      PROVE  req'[r].row = db'[req'[r].tn]
  <2>1. req'[r] = req[r]
    BY <1>0, <1>4, OneRequest
  <2>2. req[r].row = db[req[r].tn] /\ req[r].pc \in InWork
    BY <2>1 DEF RowIsCurrent, InWork
  <2> QED
    BY <1>4, <2>1, <2>2, OthersApart
<1> QED
  BY <1>1, <1>2, <1>3, <1>4 DEF Next

-----------------------------------------------------------------------------
\* The history of a shipment, as EventStream sees it.

HistoryEntry == [type : EventTypes \cup {""}, at : Nat,
                 status : Statuses, prev : Statuses \cup {""}]

CreationEntry(at) == [type |-> "", at |-> at, status |-> "CREATED", prev |-> ""]

ScanEntry(tn, i) ==
  [type |-> scan_event[tn][i].type, at |-> scan_event[tn][i].at,
   status |-> StatusAt(tn, i), prev |-> StatusAt(tn, i - 1)]

\* Sequences of one length with the same elements are the same.
LEMMA SameSequence ==
  ASSUME NEW S, NEW s \in Seq(S), NEW t \in Seq(S), Len(s) = Len(t),
         \A i \in 1..Len(s) : s[i] = t[i]
  PROVE  s = t
OBVIOUS

\* What Append appends.
LEMMA Appended ==
  ASSUME NEW S, NEW s \in Seq(S), NEW x \in S
  PROVE  LET n == Len(s)
         IN  /\ Append(s, x) \in Seq(S) /\ Len(Append(s, x)) = n + 1
             /\ \A i \in 1..n : Append(s, x)[i] = s[i]
             /\ Append(s, x)[n + 1] = x
OBVIOUS

\* A sequence behind a first element.
LEMMA Behind ==
  ASSUME NEW S, NEW e \in S, NEW n \in Nat, NEW f \in [1..n -> S],
         NEW s, s = <<e>> \o f
  PROVE  /\ s \in Seq(S) /\ Len(s) = n + 1 /\ s[1] = e
         /\ \A i \in 1..n : s[i + 1] = f[i]
<1>1. <<e>> \in Seq(S) /\ f \in Seq(S) /\ Len(f) = n /\ Len(<<e>>) = 1
  OBVIOUS
<1>2. <<e>>[1] = e
  OBVIOUS
<1> PICK u : u = <<e>>
  OBVIOUS
<1>3. s \in Seq(S) /\ Len(s) = n + 1
  BY <1>1
<1>4. s[1] = e /\ \A i \in 1..n : s[i + 1] = f[i]
  BY <1>1, <1>2
<1> QED
  BY <1>3, <1>4

\* The status before or after any scan is a status.
LEMMA StatusAtType ==
  ASSUME TypeOK, NEW tn \in TrackingNumbers, NEW i \in 0..Len(scan_event[tn])
  PROVE  StatusAt(tn, i) \in Statuses
<1>1. CASE i = 0
  BY <1>1 DEF StatusAt, Statuses
<1>2. CASE i # 0
  <2>1. i \in DOMAIN scan_event[tn] /\ scan_event[tn] \in Seq(Scan)
    BY <1>2 DEF TypeOK
  <2>2. scan_event[tn][i] \in Scan
    BY <2>1
  <2>3. scan_event[tn][i].type \in EventTypes
    BY <2>2 DEF Scan
  <2> QED
    BY <1>2, <2>3, TargetFacts DEF StatusAt
<1> QED
  BY <1>1, <1>2

\* A stored shipment's history is its creation and then its scans.
HistoryShape ==
  \A tn \in TrackingNumbers :
    db[tn] # Absent =>
      LET n == Len(scan_event[tn])
      IN  /\ n \in Nat
          /\ History(tn) \in Seq(HistoryEntry)
          /\ Len(History(tn)) = n + 1
          /\ History(tn)[1] = CreationEntry(db[tn].born)
          /\ \A i \in 1..n : History(tn)[i + 1] = ScanEntry(tn, i)
          /\ History(tn)[n + 1].status = StatusAt(tn, n)

\* Every history has that shape,
LEMMA HistoryFacts == TypeOK => HistoryShape
<1> SUFFICES ASSUME TypeOK, NEW tn \in TrackingNumbers, db[tn] # Absent
             PROVE  LET n == Len(scan_event[tn])
                    IN  /\ n \in Nat
                        /\ History(tn) \in Seq(HistoryEntry)
                        /\ Len(History(tn)) = n + 1
                        /\ History(tn)[1] = CreationEntry(db[tn].born)
                        /\ \A i \in 1..n : History(tn)[i + 1] = ScanEntry(tn, i)
                        /\ History(tn)[n + 1].status = StatusAt(tn, n)
  BY DEF HistoryShape
<1> DEFINE n == Len(scan_event[tn])
           e == CreationEntry(db[tn].born)
           f == [i \in 1..n |-> ScanEntry(tn, i)]
<1>1. scan_event[tn] \in Seq(Scan) /\ n \in Nat /\ DOMAIN scan_event[tn] = 1..n
  BY DEF TypeOK
<1>2. e \in HistoryEntry
  <2>1. db[tn].born \in Nat
    BY StoredRow DEF Row
  <2> QED
    BY <2>1 DEF CreationEntry, HistoryEntry, Statuses
<1>3. ASSUME NEW i \in 1..n PROVE ScanEntry(tn, i) \in HistoryEntry
  <2>0. scan_event[tn][i] \in Scan
    BY <1>1
  <2>1. scan_event[tn][i].type \in EventTypes /\ scan_event[tn][i].at \in Nat
    BY <2>0 DEF Scan
  <2>2. StatusAt(tn, i) \in Statuses /\ StatusAt(tn, i - 1) \in Statuses
    BY <1>1, StatusAtType
  <2> QED
    BY <2>1, <2>2 DEF ScanEntry, HistoryEntry
<1>4. History(tn) = <<e>> \o f
  BY <1>1 DEF History, CreationEntry, ScanEntry
<1>5. f \in [1..n -> HistoryEntry] /\ \A i \in 1..n : f[i] = ScanEntry(tn, i)
  BY <1>3
<1>6. /\ History(tn) \in Seq(HistoryEntry) /\ Len(History(tn)) = n + 1
      /\ History(tn)[1] = e
      /\ \A i \in 1..n : History(tn)[i + 1] = f[i]
  <2> HIDE DEF n, e, f
  <2> QED BY <1>1, <1>2, <1>4, <1>5, Behind
<1>7. History(tn)[n + 1].status = StatusAt(tn, n)
  <2>1. CASE n = 0
    <3>1. e.status = "CREATED"
      BY DEF CreationEntry
    <3>2. History(tn)[n + 1] = e
      BY <1>6, <2>1
    <3> QED
      BY <2>1, <3>1, <3>2 DEF StatusAt
  <2>2. CASE n # 0
    <3>1. n \in 1..n
      BY <1>1, <2>2
    <3>2. History(tn)[n + 1] = ScanEntry(tn, n)
      BY <1>5, <1>6, <3>1
    <3> QED
      BY <3>2 DEF ScanEntry
  <2> QED
    BY <2>1, <2>2
<1> QED
  BY <1>1, <1>5, <1>6, <1>7

\* before a step and after it.
LEMMA HistoryFactsNext == TypeOK' => HistoryShape'
BY HistoryFacts, PTL

\* Where the tables do not change, neither does the history.
LEMMA HistorySame ==
  ASSUME NEW tn, db'[tn] = db[tn], scan_event'[tn] = scan_event[tn]
  PROVE  /\ History(tn)' = History(tn)
         /\ \A i : StatusAt(tn, i)' = StatusAt(tn, i)
BY DEF History, StatusAt

\* An insert begins a history.
LEMMA InsertHistory ==
  ASSUME IInv, NEW r \in Requests, Insert(r), NEW tn, tn = req[r].tn
  PROVE  /\ db[tn] = Absent /\ scan_event[tn] = <<>> /\ History(tn) = <<>>
         /\ db'[tn] = req[r].row /\ db'[tn] # Absent /\ scan_event'[tn] = <<>>
         /\ History(tn)' = <<CreationEntry(req[r].row.born)>>
         /\ \A t \in TrackingNumbers :
              t # tn => db'[t] = db[t] /\ scan_event'[t] = scan_event[t]
<1> PICK q : q = req[r]
  OBVIOUS
<1>1. TypeOK /\ TypeOK'
  BY NextInv DEF IInv, Next, Step
<1>2. /\ tn \in TrackingNumbers /\ q.row \in Row /\ scan_event' = scan_event
      /\ db' = [db EXCEPT ![tn] = q.row]
  BY <1>1, InsertWrites
<1>3. db[tn] = Absent /\ scan_event[tn] = <<>> /\ History(tn) = <<>>
  BY <1>2 DEF Insert, IInv, StatusExplained, History
<1>4. db'[tn] = q.row /\ db'[tn] # Absent /\ scan_event'[tn] = <<>>
  BY <1>1, <1>2, <1>3, AbsentIsNoRow DEF TypeOK
<1> PICK c : c = CreationEntry(q.row.born)
  OBVIOUS
<1>5. /\ History(tn)' \in Seq(HistoryEntry)
      /\ Len(History(tn)') = 1 /\ History(tn)'[1] = c
  <2>1. LET n == Len(scan_event'[tn])
        IN  /\ History(tn)' \in Seq(HistoryEntry)
            /\ Len(History(tn)') = n + 1
            /\ History(tn)'[1] = CreationEntry(db'[tn].born)
    BY <1>1, <1>2, <1>4, HistoryFactsNext DEF HistoryShape
  <2>2. Len(scan_event'[tn]) = 0
    BY <1>4
  <2> QED
    BY <1>4, <2>1, <2>2
<1>6. History(tn)' = <<c>>
  <2> PICK h : h = History(tn)'
    OBVIOUS
  <2>1. h \in Seq(HistoryEntry) /\ Len(h) = 1 /\ h[1] = c
    BY <1>5
  <2>2. h = <<c>>
    BY <2>1
  <2> QED
    BY <2>2
<1> QED
  BY <1>1, <1>2, <1>3, <1>4, <1>6 DEF TypeOK

-----------------------------------------------------------------------------
\* What a history and the requests say of each other.

\* The status column is the status of the last scan.
ColumnIsLast ==
  \A tn \in TrackingNumbers :
    db[tn] # Absent => db[tn].status = StatusAt(tn, Len(scan_event[tn]))

\* Request q is about to announce the last step of a history, with the status of the row.
Announces(q, row, h) ==
  /\ h[Len(h)] = [type |-> q.type, at |-> q.at, status |-> row.status, prev |-> q.prev]
  /\ q.pc = "publish" => q.row.status = row.status

\* Committed and not yet announced: the last step of the shipment's history.
OwnLast ==
  \A r \in Requests, tn \in TrackingNumbers :
    req[r].pc \in {"refresh", "publish"} /\ req[r].tn = tn
      => Announces(req[r], db[tn], History(tn))

\* A creation carries one instant everywhere, and a scan none that is out of bounds.
Dated ==
  \A r \in Requests :
    /\ req[r].pc = "insert" => req[r].row.born = req[r].at /\ req[r].at \in 1..MaxTime
    /\ req[r].pc = "commit" => req[r].at \in 0..MaxTime

SInv == Apart /\ InOrder /\ RowIsCurrent /\ ColumnIsLast /\ OwnLast /\ Dated

\* A commit adds its scan to the history as the next step: from the status the
\* history ended with to the status of the scan.
LEMMA CommitHistory ==
  ASSUME IInv, RowIsCurrent, ColumnIsLast, NEW r \in Requests, Commit(r),
         NEW tn, tn = req[r].tn
  PROVE  LET q == req[r]
         IN  /\ q \in Active /\ q.type \in EventTypes /\ Legal(q.prev, q.type)
             /\ tn \in TrackingNumbers /\ db[tn] # Absent /\ db'[tn] # Absent
             /\ db[tn].status = q.prev
             /\ db'[tn].status = EventToStatus[q.type] /\ db'[tn].born = db[tn].born
             /\ scan_event'[tn] = Append(scan_event[tn], [type |-> q.type, at |-> q.at])
             /\ StatusAt(tn, Len(scan_event[tn]))' = EventToStatus[q.type]
             /\ History(tn)' = Append(History(tn),
                                      [type |-> q.type, at |-> q.at,
                                       status |-> EventToStatus[q.type], prev |-> q.prev])
             /\ \A t \in TrackingNumbers :
                  t # tn => db'[t] = db[t] /\ scan_event'[t] = scan_event[t]
<1> PICK q : q = req[r]
  OBVIOUS
<1> DEFINE e == [type |-> q.type, at |-> q.at]
           h == History(tn)
           g == History(tn)'
<1> PICK n : n = Len(scan_event[tn])
  OBVIOUS
<1> PICK target : target = EventToStatus[q.type]
  OBVIOUS
<1> PICK x : x = [type |-> q.type, at |-> q.at, status |-> target, prev |-> q.prev]
  OBVIOUS
<1>1. TypeOK /\ TypeOK' /\ RequestsSound
  BY NextInv DEF IInv, Next, Step
<1>2. /\ q \in Active /\ q.type \in EventTypes /\ Legal(q.prev, q.type)
      /\ tn \in TrackingNumbers /\ db[tn] \in Row /\ Updated(q, db[tn]) \in Row
      /\ q.prev = q.row.status /\ e \in Scan /\ q.at \in Nat
      /\ db' = [db EXCEPT ![tn] = Updated(q, db[tn])]
      /\ scan_event' = [scan_event EXCEPT ![tn] = Append(scan_event[tn], e)]
  BY <1>1, CommitWrites, ActiveParts
<1>3. q.row = db[tn]
  BY DEF RowIsCurrent, Commit
<1>4. /\ db[tn] # Absent /\ db'[tn] # Absent /\ db[tn].status = q.prev
      /\ db'[tn] = Updated(q, q.row)
  BY <1>1, <1>2, <1>3, AbsentIsNoRow DEF TypeOK
<1>5. db'[tn].status = target /\ db'[tn].born = db[tn].born
  BY <1>2, <1>3, <1>4, CurrentUpdate
<1>6. scan_event'[tn] = Append(scan_event[tn], e)
  BY <1>1, <1>2 DEF TypeOK
<1>7. /\ n \in Nat /\ Len(scan_event'[tn]) = n + 1
      /\ \A i \in 1..n : scan_event'[tn][i] = scan_event[tn][i]
      /\ scan_event'[tn][n + 1] = e
  <2>1. scan_event[tn] \in Seq(Scan) /\ e \in Scan
    BY <1>1, <1>2 DEF TypeOK
  <2> HIDE DEF e
  <2> QED BY <1>6, <2>1
<1>8. \A i \in 0..n : StatusAt(tn, i)' = StatusAt(tn, i)
  BY <1>7 DEF StatusAt
<1>9. StatusAt(tn, n + 1)' = target
  BY <1>7 DEF StatusAt
<1>10. StatusAt(tn, n) = q.prev
  BY <1>2, <1>4 DEF ColumnIsLast
<1>11. /\ h \in Seq(HistoryEntry) /\ Len(h) = n + 1
       /\ h[1] = CreationEntry(db[tn].born)
       /\ \A i \in 1..n : h[i + 1] = ScanEntry(tn, i)
  BY SMTT(30), <1>1, <1>2, <1>4, HistoryFacts DEF HistoryShape
<1>12. /\ g \in Seq(HistoryEntry) /\ Len(g) = n + 2
       /\ g[1] = CreationEntry(db'[tn].born)
       /\ \A i \in 1..(n + 1) : g[i + 1] = ScanEntry(tn, i)'
  BY <1>1, <1>2, <1>4, <1>7, HistoryFactsNext DEF HistoryShape
<1>13. \A i \in 1..n : ScanEntry(tn, i)' = ScanEntry(tn, i)
  <2> SUFFICES ASSUME NEW i \in 1..n PROVE ScanEntry(tn, i)' = ScanEntry(tn, i)
    OBVIOUS
  <2>1. i \in 0..n /\ i - 1 \in 0..n
    BY <1>7
  <2>2. StatusAt(tn, i)' = StatusAt(tn, i) /\ StatusAt(tn, i - 1)' = StatusAt(tn, i - 1)
    BY <1>8, <2>1
  <2> QED
    BY <1>7, <2>2 DEF ScanEntry
<1>14. ScanEntry(tn, n + 1)' = x
  <2>1. StatusAt(tn, (n + 1) - 1)' = q.prev
    BY <1>7, <1>8, <1>10
  <2> QED
    BY <1>7, <1>9, <2>1 DEF ScanEntry
<1>15. x \in HistoryEntry
  BY <1>2, TargetFacts DEF HistoryEntry, Active
<1>16. g = Append(h, x)
  <2> HIDE DEF h, g
  <2>1. /\ Append(h, x) \in Seq(HistoryEntry) /\ Len(Append(h, x)) = n + 2
        /\ \A i \in 1..(n + 1) : Append(h, x)[i] = h[i]
        /\ Append(h, x)[n + 2] = x
    BY <1>7, <1>11, <1>15, Appended
  <2>2. ASSUME NEW i \in 1..(n + 2) PROVE g[i] = Append(h, x)[i]
    <3>0. i = 1 \/ i \in 2..(n + 1) \/ i = n + 2
      BY <1>7, <2>2
    <3>1. CASE i = 1
      BY <1>5, <1>7, <1>11, <1>12, <2>1, <3>1
    <3>2. CASE i \in 2..(n + 1)
      <4>1. i - 1 \in 1..n /\ i - 1 \in 1..(n + 1) /\ i = (i - 1) + 1
        BY <1>7, <3>2
      <4>2. g[i] = h[i]
        BY <1>11, <1>12, <1>13, <4>1
      <4> QED
        BY <1>7, <2>1, <3>2, <4>2
    <3>3. CASE i = n + 2
      <4>1. n + 1 \in 1..(n + 1) /\ (n + 1) + 1 = i
        BY <1>7, <3>3
      <4>2. g[(n + 1) + 1] = ScanEntry(tn, n + 1)'
        BY <1>12, <4>1
      <4>3. g[i] = x
        BY <1>14, <4>1, <4>2
      <4> QED
        BY <2>1, <3>3, <4>3
    <3> QED
      BY <3>0, <3>1, <3>2, <3>3
  <2> QED
    BY <1>12, <2>1, <2>2, SameSequence
<1>17. \A t \in TrackingNumbers :
         t # tn => db'[t] = db[t] /\ scan_event'[t] = scan_event[t]
  BY <1>1, <1>2 DEF TypeOK
<1>18. StatusAt(tn, Len(scan_event[tn]))' = target
  BY <1>7, <1>9
<1> QED
  BY <1>2, <1>4, <1>5, <1>6, <1>16, <1>17, <1>18

\* A request committing onto the row it loaded makes its scan the last word.
LEMMA StepColumn ==
  ASSUME IInv, RowIsCurrent, ColumnIsLast, [Next]_vars
  PROVE  ColumnIsLast'
<1> SUFFICES ASSUME NEW tn \in TrackingNumbers, db'[tn] # Absent
             PROVE  db'[tn].status = StatusAt(tn, Len(scan_event[tn]))'
  BY DEF ColumnIsLast
<1>1. ASSUME db'[tn] = db[tn], scan_event'[tn] = scan_event[tn]
      PROVE  db'[tn].status = StatusAt(tn, Len(scan_event[tn]))'
  BY <1>1 DEF ColumnIsLast, StatusAt
<1>2. CASE \E r \in Requests : Insert(r)
  <2> PICK r \in Requests : Insert(r)
    BY <1>2
  <2>1. CASE tn = req[r].tn
    <3>1. db'[tn] = req[r].row /\ scan_event'[tn] = <<>>
      BY <2>1, InsertHistory
    <3>2. req[r].row.status = "CREATED"
      BY DEF Insert, IInv, RequestsSound, RequestSound
    <3> QED
      BY <3>1, <3>2 DEF StatusAt
  <2>2. CASE tn # req[r].tn
    BY <1>1, <2>2, InsertHistory
  <2> QED
    BY <2>1, <2>2
<1>3. CASE \E r \in Requests : Commit(r)
  <2> PICK r \in Requests : Commit(r)
    BY <1>3
  <2>1. CASE tn = req[r].tn
    <3>1. db'[tn].status = EventToStatus[req[r].type]
      BY <2>1, CommitHistory
    <3>2. StatusAt(tn, Len(scan_event[tn]))' = EventToStatus[req[r].type]
      BY <2>1, CommitHistory
    <3> QED
      BY <3>1, <3>2
  <2>2. CASE tn # req[r].tn
    BY <1>1, <2>2, CommitHistory
  <2> QED
    BY <2>1, <2>2
<1> QED
  BY <1>1, <1>2, <1>3, Unwriting

\* The last element of a sequence is the one appended, or the only one.
LEMMA LastOf ==
  ASSUME NEW S, NEW s \in Seq(S), NEW x \in S
  PROVE  /\ Append(s, x)[Len(Append(s, x))] = x
         /\ <<x>>[Len(<<x>>)] = x
OBVIOUS

\* A request announces the step it has committed.
LEMMA StepOwn ==
  ASSUME IInv, SInv, [Next]_vars
  PROVE  OwnLast'
<1> SUFFICES ASSUME NEW r \in Requests, NEW tn \in TrackingNumbers,
                    req'[r].pc \in {"refresh", "publish"}, req'[r].tn = tn
             PROVE  Announces(req'[r], db'[tn], History(tn)')
  BY DEF OwnLast
<1> PICK q : q = req[r]
  OBVIOUS
<1> PICK p : p = req'[r]
  OBVIOUS
<1>0. TypeOK /\ RequestSound(r) /\ RowIsCurrent /\ ColumnIsLast /\ OwnLast /\ Dated
  BY DEF IInv, SInv, RequestsSound
<1>1. CASE UNCHANGED vars
  <2>1. req' = req /\ db' = db /\ History(tn)' = History(tn)
    BY <1>1, HistorySame DEF vars
  <2> QED
    BY <1>0, <2>1 DEF OwnLast
<1>2. CASE Crash
  BY <1>2 DEF Crash, Idle
<1>3. CASE Step(r)
  <2>1. CASE Insert(r)
    <3>1. q.tn = tn /\ p.pc = "refresh" /\ p.type = q.type /\ p.prev = q.prev /\ p.at = q.at
      BY <1>0, <2>1, AfterWrite DEF SameRequest
    <3>2. q.type = "" /\ q.prev = "" /\ q.row.status = "CREATED" /\ q.row.born = q.at
      BY <1>0, <2>1 DEF Insert, RequestSound, Dated
    <3>3. db'[tn] = q.row /\ q.row \in Row
      BY <1>0, <2>1, <3>1, InsertHistory, InsertWrites
    <3>4. History(tn)' = <<CreationEntry(q.row.born)>>
      BY <2>1, <3>1, InsertHistory
    <3> PICK c : c = CreationEntry(q.row.born)
      OBVIOUS
    <3>5. c = [type |-> p.type, at |-> p.at, status |-> db'[tn].status, prev |-> p.prev]
      BY <3>1, <3>2, <3>3 DEF CreationEntry
    <3>6. History(tn)' = <<c>> /\ <<c>>[Len(<<c>>)] = c
      BY <3>4
    <3> QED
      BY <3>1, <3>5, <3>6 DEF Announces
  <2>2. CASE Commit(r)
    <3>1. q.tn = tn /\ p.pc = "refresh" /\ p.type = q.type /\ p.prev = q.prev /\ p.at = q.at
      BY <1>0, <2>2, AfterWrite DEF SameRequest
    <3>2. db'[tn].status = EventToStatus[q.type]
      BY <1>0, <2>2, <3>1, CommitHistory
    <3>3. History(tn)' = Append(History(tn),
                                [type |-> q.type, at |-> q.at,
                                 status |-> EventToStatus[q.type], prev |-> q.prev])
      BY <1>0, <2>2, <3>1, CommitHistory
    <3>4. q \in Active /\ q.type \in EventTypes /\ db[q.tn] \in Row
      BY <1>0, <2>2, CommitWrites DEF IInv
    <3> PICK h : h = History(tn)
      OBVIOUS
    <3> PICK c : c = [type |-> q.type, at |-> q.at,
                      status |-> EventToStatus[q.type], prev |-> q.prev]
      OBVIOUS
    <3>5. c \in HistoryEntry /\ h \in Seq(HistoryEntry)
      <4>1. c \in HistoryEntry
        BY <3>4, TargetFacts DEF HistoryEntry, Active
      <4> QED
        BY <1>0, <3>1, <3>4, <4>1, AbsentIsNoRow, HistoryFacts DEF HistoryShape
    <3>6. c = [type |-> p.type, at |-> p.at, status |-> db'[tn].status, prev |-> p.prev]
      BY <3>1, <3>2
    <3>7. History(tn)' = Append(h, c) /\ Append(h, c)[Len(Append(h, c))] = c
      BY <3>3, <3>5, LastOf
    <3> QED
      BY <3>1, <3>6, <3>7 DEF Announces
  <2>3. CASE Refresh(r)
    <3>1. /\ q.tn = tn /\ p.type = q.type /\ p.prev = q.prev /\ p.at = q.at
          /\ p.row = db[tn] /\ db' = db /\ scan_event' = scan_event
      BY <1>0, <2>3, AfterRefresh DEF SameRequest
    <3>2. History(tn)' = History(tn)
      BY <3>1, HistorySame
    <3>3. Announces(q, db[tn], History(tn))
      BY <1>0, <2>3, <3>1 DEF Refresh, OwnLast
    <3> QED
      BY <3>1, <3>2, <3>3 DEF Announces
  <2>4. CASE \/ \E t \in TrackingNumbers : BeginCreate(r, t)
             \/ \E t \in TrackingNumbers, type \in ScanTypes : Load(r, t, type)
             \/ Accept(r) \/ Ends(r)
    BY <1>0, <2>4, AfterBegin, AfterLoad, AfterAccept, AfterEnd
  <2> QED
    BY <1>3, <2>1, <2>2, <2>3, <2>4, StepKinds
<1>4. ASSUME NEW s \in Requests, Step(s), s # r
      PROVE  Announces(req'[r], db'[tn], History(tn)')
  <2>1. req'[r] = req[r]
    BY <1>0, <1>4, OneRequest
  <2>2. req[r].pc \in InWork /\ Apart
    BY <2>1 DEF InWork, SInv
  <2>3. db'[tn] = db[tn] /\ scan_event'[tn] = scan_event[tn]
    BY <1>4, <2>1, <2>2, OthersApart
  <2>4. History(tn)' = History(tn)
    BY <2>3, HistorySame
  <2> QED
    BY <1>0, <2>1, <2>3, <2>4 DEF OwnLast
<1> QED
  BY <1>1, <1>2, <1>3, <1>4 DEF Next

\* Every request keeps its instants within bounds.
LEMMA StepDated ==
  ASSUME IInv, Dated, [Next]_vars
  PROVE  Dated'
<1> DEFINE Holds(q) ==
             /\ q.pc = "insert" => q.row.born = q.at /\ q.at \in 1..MaxTime
             /\ q.pc = "commit" => q.at \in 0..MaxTime
<1> SUFFICES ASSUME NEW r \in Requests PROVE Holds(req'[r])
  BY DEF Dated
<1>0. TypeOK /\ Holds(req[r]) /\ now \in Nat /\ MaxTime \in Nat
  BY TimeTypes DEF IInv, Dated, TypeOK
<1>1. CASE UNCHANGED vars
  BY <1>0, <1>1 DEF vars
<1>2. CASE Crash
  BY <1>2 DEF Crash, Idle
<1>3. CASE Step(r)
  <2>1. CASE \E tn \in TrackingNumbers : BeginCreate(r, tn)
    <3>1. /\ req'[r].pc = "insert" /\ req'[r].at = now + 1 /\ req'[r].row.born = now + 1
          /\ now < MaxTime
      BY <1>0, <2>1, AfterBegin
    <3> QED
      BY <1>0, <3>1
  <2>2. CASE Accept(r)
    BY <1>0, <2>2, AfterAccept
  <2>3. CASE \/ \E tn \in TrackingNumbers, type \in ScanTypes : Load(r, tn, type)
             \/ Insert(r) \/ Commit(r) \/ Refresh(r) \/ Ends(r)
    <3>1. req'[r].pc \notin {"insert", "commit"}
      BY <1>0, <2>3, AfterLoad, AfterWrite, AfterRefresh, AfterEnd
    <3> QED
      BY <3>1
  <2> QED
    BY <1>3, <2>1, <2>2, <2>3, StepKinds
<1>4. ASSUME NEW s \in Requests, Step(s), s # r PROVE Holds(req'[r])
  <2>1. req'[r] = req[r]
    BY <1>0, <1>4, OneRequest
  <2> QED
    BY <1>0, <2>1
<1> QED
  BY <1>1, <1>2, <1>3, <1>4 DEF Next

\* What the order of the requests adds to the inductive invariant.
LEMMA InitOrdered == Init => SInv
<1> SUFFICES ASSUME Init PROVE SInv
  OBVIOUS
<1>1. \A r \in Requests : req[r].pc = "idle"
  BY DEF Init, Idle
<1>2. \A tn \in TrackingNumbers : db[tn] = Absent
  BY DEF Init
<1> QED
  BY <1>1, <1>2 DEF SInv, Apart, InOrder, RowIsCurrent, ColumnIsLast, OwnLast, Dated

\* A step of OrderedSpec.
OrderedStep == [Next /\ Apart' /\ InOrder']_vars

\* Every step keeps it.
LEMMA StepOrdered ==
  ASSUME IInv, SInv, OrderedStep
  PROVE  SInv' /\ [Next]_vars
<1>1. [Next]_vars
  BY DEF OrderedStep
<1>2. (Apart /\ InOrder)'
  <2>1. CASE UNCHANGED vars
    BY <2>1 DEF SInv, vars, Apart, InOrder
  <2> QED
    BY <2>1 DEF OrderedStep
<1>3. RowIsCurrent'
  BY <1>1, StepRow DEF SInv
<1>4. ColumnIsLast'
  BY <1>1, StepColumn DEF SInv
<1>5. OwnLast'
  BY <1>1, StepOwn
<1>6. Dated'
  BY <1>1, StepDated DEF SInv
<1> QED
  BY <1>1, <1>2, <1>3, <1>4, <1>5, <1>6 DEF SInv

-----------------------------------------------------------------------------
\* The steps of Shipments as steps of EventStream.

\* The refinement mapping.
Log  == [tn \in TrackingNumbers |-> History(tn)]
Sent == [tn \in TrackingNumbers |-> Len(History(tn)) - Cardinality(Pending(tn))]
Out  == [i \in DOMAIN published |-> Announced(published[i])]

\* Request r still has to announce the last step of tn's history.
Owes(r, tn) == req[r].pc \in {"refresh", "publish"} /\ req[r].tn = tn

Owing(tn) == \E r \in Requests : Owes(r, tn)

\* A shipment's requests owe one step or none.
OneOwes ==
  \A tn \in TrackingNumbers : Cardinality(Pending(tn)) = IF Owing(tn) THEN 1 ELSE 0

\* That is so when requests keep apart,
LEMMA PendingFacts == Apart => OneOwes
<1> SUFFICES ASSUME Apart, NEW tn \in TrackingNumbers
             PROVE  Cardinality(Pending(tn)) = IF Owing(tn) THEN 1 ELSE 0
  BY DEF OneOwes
<1>1. CASE Owing(tn)
  <2> PICK r \in Requests : Owes(r, tn)
    BY <1>1 DEF Owing
  <2>1. Pending(tn) = {r}
    BY DEF Apart, Owes, Pending
  <2>2. Cardinality({r}) = 1
    BY FS_Singleton
  <2> QED
    BY <1>1, <2>1, <2>2
<1>2. CASE ~Owing(tn)
  <2>1. Pending(tn) = {}
    BY <1>2 DEF Owing, Owes, Pending
  <2>2. Cardinality({}) = 0
    BY FS_EmptySet
  <2> QED
    BY <1>2, <2>1, <2>2
<1> QED
  BY <1>1, <1>2

\* before a step and after it.
LEMMA PendingFactsNext == Apart' => OneOwes'
BY PendingFacts, PTL

\* Who owes after a step of r: who did, except that r may have changed.
LEMMA OwingNext ==
  ASSUME TypeOK, NEW r \in Requests, Step(r), NEW tn
  PROVE  Owing(tn)' <=> Owes(r, tn)' \/ \E s \in Requests : s # r /\ Owes(s, tn)
<1>1. \A s \in Requests : s # r => req'[s] = req[s]
  BY OneRequest
<1> QED
  BY <1>1 DEF Owing, Owes

\* The mapping is unchanged, or changed as an action of EventStream changes it.
Stutters == Log' = Log /\ Sent' = Sent /\ Out' = Out

Creates(tn, at) ==
  /\ Log[tn] = <<>>
  /\ Log' = [Log EXCEPT ![tn] = <<CreationEntry(at)>>]
  /\ Sent' = Sent /\ Out' = Out

Scans(tn, type, at) ==
  LET current == Log[tn][Len(Log[tn])].status
  IN  /\ Log[tn] # <<>>
      /\ Legal(current, type)
      /\ \A i \in DOMAIN Log[tn] : Log[tn][i].at < at
      /\ Log' = [Log EXCEPT ![tn] =
                   Append(@, [type |-> type, at |-> at, status |-> EventToStatus[type],
                              prev |-> current])]
      /\ Sent' = Sent /\ Out' = Out

Publishes(tn, copies) ==
  LET e == Log[tn][Sent[tn] + 1]
  IN  /\ Sent[tn] < Len(Log[tn])
      /\ Sent' = [Sent EXCEPT ![tn] = @ + 1]
      /\ Out' = Out \o [i \in 1..copies |-> [tn |-> tn, type |-> e.type, at |-> e.at,
                                             status |-> e.status, prev |-> e.prev]]
      /\ Log' = Log

GivesUp(lost) ==
  /\ lost # {}
  /\ \A tn \in lost : Sent[tn] < Len(Log[tn])
  /\ Sent' = [tn \in TrackingNumbers |-> IF tn \in lost THEN Sent[tn] + 1 ELSE Sent[tn]]
  /\ Log' = Log /\ Out' = Out

\* Both modules speak of the same transition table.
LEMMA SameRules ==
  /\ Stream!EventToStatus = EventToStatus
  /\ \A current, type : Stream!Legal(current, type) <=> Legal(current, type)
BY DEF Stream!EventToStatus, EventToStatus, Stream!EventTypes, EventTypes,
       Stream!Legal, Legal, Stream!Allowed, Allowed

\* Such changes are steps of EventStream.
LEMMA StreamSteps ==
  /\ Stutters => UNCHANGED Stream!streamVars
  /\ \A tn \in TrackingNumbers, at \in 1..MaxTime : Creates(tn, at) => Stream!StreamNext
  /\ \A tn \in TrackingNumbers, type \in ScanTypes, at \in 1..MaxTime :
       Scans(tn, type, at) => Stream!StreamNext
  /\ \A tn \in TrackingNumbers, copies \in Copies :
       Publishes(tn, copies) => Stream!StreamNext
  /\ \A lost \in SUBSET TrackingNumbers : GivesUp(lost) => Stream!StreamNext
<1>1. Stutters => UNCHANGED Stream!streamVars
  BY DEF Stutters, Stream!streamVars, Log, Sent, Out
<1>2. ASSUME NEW tn \in TrackingNumbers, NEW at \in 1..MaxTime, Creates(tn, at)
      PROVE  Stream!StreamNext
  <2>1. Stream!StreamCreate(tn, at)
    BY <1>2 DEF Creates, CreationEntry, Stream!StreamCreate, Log, Sent, Out
  <2> QED
    BY <2>1 DEF Stream!StreamNext, Stream!Times
<1>3. ASSUME NEW tn \in TrackingNumbers, NEW type \in ScanTypes, NEW at \in 1..MaxTime,
             Scans(tn, type, at)
      PROVE  Stream!StreamNext
  <2>1. Stream!StreamScan(tn, type, at)
    BY <1>3, SameRules DEF Scans, Stream!StreamScan, Stream!Current, Stream!Later, Log, Sent, Out
  <2> QED
    BY <2>1 DEF Stream!StreamNext, Stream!Times
<1>4. ASSUME NEW tn \in TrackingNumbers, NEW copies \in Copies, Publishes(tn, copies)
      PROVE  Stream!StreamNext
  <2>1. Stream!StreamPublish(tn, copies)
    BY <1>4 DEF Publishes, Stream!StreamPublish, Stream!Announcement, Log, Sent, Out
  <2> QED
    BY <2>1 DEF Stream!StreamNext
<1>5. ASSUME NEW lost \in SUBSET TrackingNumbers, GivesUp(lost)
      PROVE  Stream!StreamNext
  <2>1. Stream!StreamGiveUp(lost)
    BY <1>5 DEF GivesUp, Stream!StreamGiveUp, Log, Sent, Out
  <2> QED
    BY <2>1 DEF Stream!StreamNext
<1> QED
  BY <1>1, <1>2, <1>3, <1>4, <1>5

\* What an owing shipment's history has.
LEMMA OwedStep ==
  ASSUME IInv, Apart, NEW tn \in TrackingNumbers, Owing(tn)
  PROVE  /\ db[tn] # Absent
         /\ Len(History(tn)) \in Nat /\ Len(History(tn)) > 0
         /\ Sent[tn] = Len(History(tn)) - 1
<1> PICK r \in Requests : Owes(r, tn)
  BY DEF Owing
<1>1. TypeOK /\ RequestSound(r)
  BY DEF IInv, RequestsSound
<1>2. db[tn] # Absent
  BY <1>1 DEF RequestSound, Owes
<1>3. Len(History(tn)) \in Nat /\ Len(History(tn)) > 0
  BY <1>1, <1>2, HistoryFacts DEF HistoryShape
<1>4. OneOwes
  BY PendingFacts
<1> QED
  BY <1>2, <1>3, <1>4 DEF OneOwes, Sent

\* Where tables and messages stay, EventStream gives up the announcements nobody owes
\* any more, or stutters.
LEMMA Quiet ==
  ASSUME IInv, Apart, Apart', UNCHANGED <<db, scan_event, published>>,
         \A tn \in TrackingNumbers : Owing(tn)' => Owing(tn)
  PROVE  Stutters \/ Stream!StreamNext
<1> PICK lost : lost = {tn \in TrackingNumbers : Owing(tn) /\ ~Owing(tn)'}
  OBVIOUS
<1>1. \A tn \in TrackingNumbers : History(tn)' = History(tn)
  BY HistorySame
<1>2. OneOwes /\ OneOwes'
  BY PendingFacts, PendingFactsNext
<1>3. Log' = Log /\ Out' = Out
  BY <1>1 DEF Log, Out
<1>4. \A tn \in TrackingNumbers :
        Cardinality(Pending(tn))' = Cardinality(Pending(tn)) - (IF tn \in lost THEN 1 ELSE 0)
  BY <1>2 DEF OneOwes
<1>5. \A tn \in lost : /\ Len(History(tn)) \in Nat
                       /\ Sent[tn] = Len(History(tn)) - 1 /\ Sent[tn] < Len(Log[tn])
  BY OwedStep DEF Log
<1>6. \A tn \in TrackingNumbers :
        Sent'[tn] = IF tn \in lost THEN Sent[tn] + 1 ELSE Sent[tn]
  <2> TAKE tn \in TrackingNumbers
  <2>1. Sent'[tn] = Len(History(tn)) - Cardinality(Pending(tn))'
    BY <1>1 DEF Sent
  <2>2. CASE tn \in lost
    <3>1. Cardinality(Pending(tn))' = 0
      BY <1>2, <2>2 DEF OneOwes
    <3> QED
      BY <1>5, <2>1, <2>2, <3>1
  <2>3. CASE tn \notin lost
    <3>1. Cardinality(Pending(tn))' = Cardinality(Pending(tn))
      BY <1>2, <2>3 DEF OneOwes
    <3> QED
      BY <2>1, <2>3, <3>1 DEF Sent
  <2> QED
    BY <2>2, <2>3
<1>7. Sent' = [tn \in TrackingNumbers |-> IF tn \in lost THEN Sent[tn] + 1 ELSE Sent[tn]]
  <2>1. Sent' = [tn \in TrackingNumbers |-> Sent'[tn]]
    BY DEF Sent
  <2> QED
    BY <1>6, <2>1
<1>8. CASE lost = {}
  <2>1. Sent' = Sent
    <3>1. Sent = [tn \in TrackingNumbers |-> Sent[tn]]
      BY DEF Sent
    <3> QED
      BY <1>7, <1>8, <3>1
  <2> QED
    BY <1>3, <2>1 DEF Stutters
<1>9. CASE lost # {}
  <2>1. GivesUp(lost) /\ lost \in SUBSET TrackingNumbers
    BY <1>3, <1>5, <1>7, <1>9 DEF GivesUp
  <2> QED
    BY <2>1, StreamSteps
<1> QED
  BY <1>8, <1>9

\* What is announced of a request is its step of the history, as often as it is
\* published.
LEMMA Repeated ==
  ASSUME TypeOK, NEW m \in Message, NEW copies \in Nat,
         published' = published \o [i \in 1..copies |-> m]
  PROVE  Out' = Out \o [i \in 1..copies |-> Announced(m)]
<1> DEFINE A == {Announced(x) : x \in Message}
<1> PICK c : c = [i \in 1..copies |-> m]
  OBVIOUS
<1> PICK d : d = [i \in 1..copies |-> Announced(m)]
  OBVIOUS
<1> PICK s, t : s = published /\ t = published'
  OBVIOUS
<1> PICK u, v : /\ u = [i \in DOMAIN s |-> Announced(s[i])]
                /\ v = [i \in DOMAIN t |-> Announced(t[i])]
  OBVIOUS
<1>1. s \in Seq(Message) /\ c \in Seq(Message) /\ Len(c) = copies /\ t = s \o c
  BY DEF TypeOK
<1>2. d \in Seq(A) /\ Len(d) = copies
  OBVIOUS
<1>3. u \in Seq(A) /\ Len(u) = Len(s)
  BY <1>1
<1>4. t \in Seq(Message) /\ Len(t) = Len(s) + copies
  BY <1>1
<1>5. v \in Seq(A) /\ Len(v) = Len(s) + copies
  <2> PICK n : n = Len(t)
    OBVIOUS
  <2>1. n \in Nat /\ DOMAIN t = 1..n /\ \A i \in 1..n : t[i] \in Message
    BY <1>4
  <2>2. v \in [1..n -> A]
    BY <2>1
  <2> HIDE DEF A
  <2>3. v \in Seq(A) /\ Len(v) = n
    BY ONLY <2>1, <2>2
  <2> QED
    BY <1>4, <2>3
<1>6. u \o d \in Seq(A) /\ Len(u \o d) = Len(s) + copies
  <2> HIDE DEF A
  <2> QED BY <1>1, <1>2, <1>3
<1>7. ASSUME NEW i \in 1..Len(v) PROVE v[i] = (u \o d)[i]
  <2>1. CASE i <= Len(s)
    <3>1. t[i] = s[i]
      BY <1>1, <1>5, <1>7, <2>1
    <3>2. (u \o d)[i] = u[i]
      BY <1>1, <1>2, <1>3, <1>5, <1>7, <2>1
    <3> QED
      BY <1>1, <1>4, <1>5, <1>7, <2>1, <3>1, <3>2
  <2>2. CASE ~(i <= Len(s))
    <3>1. Len(s) \in Nat /\ i - Len(s) \in 1..copies
      BY <1>1, <1>5, <1>7, <2>2
    <3>2. t[i] = c[i - Len(s)] /\ c[i - Len(s)] = m
      BY <1>1, <1>5, <1>7, <2>2, <3>1
    <3>3. (u \o d)[i] = d[i - Len(s)] /\ d[i - Len(s)] = Announced(m)
      BY <1>1, <1>2, <1>3, <1>5, <1>7, <2>2, <3>1
    <3> QED
      BY <1>4, <1>5, <1>7, <3>2, <3>3
  <2> QED
    BY <2>1, <2>2
<1>8. v = u \o d
  <2> HIDE DEF A
  <2> QED BY <1>5, <1>6, <1>7, SameSequence
<1> QED
  BY <1>8 DEF Out

\* publish_event announces the step as often as the broker takes it.
LEMMA PublishAnnounces ==
  ASSUME IInv, SInv, Apart', NEW r \in Requests, Publish(r)
  PROVE  Stream!StreamNext
<1> PICK q : q = req[r]
  OBVIOUS
<1> PICK tn, m : tn = q.tn /\ m = Payload(q)
  OBVIOUS
<1> PICK h : h = History(tn)
  OBVIOUS
<1>1. TypeOK /\ RequestSound(r) /\ q.pc = "publish" /\ OwnLast /\ Apart
  BY DEF IInv, SInv, RequestsSound, Publish
<1>2. m \in Message /\ tn \in TrackingNumbers
  BY <1>1, Working, ActiveParts, PayloadType, LegalType DEF RequestSound
<1>3. PICK copies \in Copies : published' = published \o [i \in 1..copies |-> m]
  BY DEF Publish
<1>4. copies \in Nat
  BY TimeTypes
<1>5. Out' = Out \o [i \in 1..copies |-> Announced(m)]
  BY <1>1, <1>2, <1>3, <1>4, Repeated
<1>6. req'[r].pc = "idle" /\ UNCHANGED <<db, scan_event>>
  BY <1>1, AfterEnd DEF Ends, Publish
<1>7. Owing(tn)
  BY <1>1 DEF Owing, Owes
<1>8. /\ Len(h) \in Nat /\ Len(h) > 0 /\ Sent[tn] = Len(h) - 1
  BY <1>1, <1>2, <1>7, OwedStep
<1>9. \A t \in TrackingNumbers : History(t)' = History(t)
  BY <1>6, HistorySame
<1>10. Log' = Log /\ Log[tn] = h
  BY <1>2, <1>9 DEF Log
<1>11. \A t \in TrackingNumbers : Owing(t)' <=> Owing(t) /\ t # tn
  <2> TAKE t \in TrackingNumbers
  <2>1. ~Owes(r, t)'
    BY <1>6 DEF Owes
  <2>2. Owing(t)' <=> \E s \in Requests : s # r /\ Owes(s, t)
    BY <1>1, <2>1, OwingNext DEF Step
  <2>3. \A s \in Requests : s # r => ~Owes(s, tn)
    BY <1>1 DEF Owes, Apart
  <2>4. t # tn => ~Owes(r, t)
    BY <1>1 DEF Owes
  <2> QED
    BY <2>2, <2>3, <2>4 DEF Owing
<1>12. OneOwes /\ OneOwes'
  BY <1>1, PendingFacts, PendingFactsNext
<1>13. Sent' = [Sent EXCEPT ![tn] = @ + 1]
  <2>1. \A t \in TrackingNumbers : t # tn => Sent'[t] = Sent[t]
    BY <1>9, <1>11, <1>12 DEF OneOwes, Sent
  <2>2. Sent'[tn] = Sent[tn] + 1
    <3>1. Cardinality(Pending(tn))' = 0
      BY <1>2, <1>11, <1>12 DEF OneOwes
    <3>2. Sent'[tn] = Len(h) - 0
      BY <1>2, <1>9, <3>1 DEF Sent
    <3> QED
      BY <1>8, <3>2
  <2>3. /\ Sent' = [t \in TrackingNumbers |-> Sent'[t]]
        /\ Sent = [t \in TrackingNumbers |-> Sent[t]]
    BY DEF Sent
  <2> QED
    BY <2>1, <2>2, <2>3
<1> PICK e : e = h[Len(h)]
  OBVIOUS
<1>14. Announces(q, db[tn], h)
  BY <1>1, <1>2 DEF OwnLast
<1>15. e.type = q.type /\ e.at = q.at /\ e.status = q.row.status /\ e.prev = q.prev
  BY <1>1, <1>14 DEF Announces
<1>16. Announced(m) = [tn |-> q.tn, type |-> q.type, at |-> q.at, status |-> q.row.status,
                       prev |-> q.prev]
  BY DEF Announced, Payload
<1>17. Announced(m) = [tn |-> tn, type |-> e.type, at |-> e.at, status |-> e.status,
                       prev |-> e.prev]
  BY <1>15, <1>16
<1>18. Sent[tn] < Len(h) /\ Sent[tn] + 1 = Len(h)
  BY <1>8
<1>19. Publishes(tn, copies)
  BY <1>5, <1>10, <1>13, <1>17, <1>18 DEF Publishes
<1> QED
  BY <1>2, <1>19, StreamSteps

\* A creation is committed: the history begins, and its first step is owed.
LEMMA InsertCreates ==
  ASSUME IInv, SInv, Apart', NEW r \in Requests, Insert(r)
  PROVE  Stream!StreamNext
<1> PICK tn : tn = req[r].tn
  OBVIOUS
<1> PICK at : at = req[r].row.born
  OBVIOUS
<1>1. TypeOK /\ Dated /\ Apart
  BY DEF IInv, SInv
<1>2. tn \in TrackingNumbers /\ published' = published /\ req'[r].pc = "refresh" /\ req'[r].tn = tn
  BY <1>1, AfterWrite, InsertWrites DEF SameRequest
<1>3. at \in 1..MaxTime
  BY <1>1 DEF Insert, Dated
<1>4. History(tn) = <<>>
  BY InsertHistory
<1>5. History(tn)' = <<CreationEntry(at)>>
  BY InsertHistory
<1>6. \A t \in TrackingNumbers : t # tn => db'[t] = db[t] /\ scan_event'[t] = scan_event[t]
  BY InsertHistory
<1>7. \A t \in TrackingNumbers : t # tn => History(t)' = History(t)
  BY <1>6, HistorySame
<1>8. OneOwes /\ OneOwes'
  BY <1>1, PendingFacts, PendingFactsNext
<1>80. \A t \in TrackingNumbers : Owing(t)' <=> Owing(t) \/ t = tn
  <2> TAKE t \in TrackingNumbers
  <2>1. Owes(r, t)' <=> t = tn
    BY <1>2 DEF Owes
  <2>2. ~Owes(r, t)
    BY DEF Owes, Insert
  <2> QED
    BY <1>1, <2>1, <2>2, OwingNext DEF Step, Owing
<1>9. ~Owing(tn)
  <2>1. db[tn] = Absent
    BY DEF Insert
  <2> QED
    BY <1>1, <1>2, <2>1, OwedStep
<1> PICK c : c = CreationEntry(at)
  OBVIOUS
<1>10. Sent' = Sent
  <2>1. Len(<<c>>) - 1 = 0 /\ Len(<<>>) - 0 = 0
    OBVIOUS
  <2>2. Len(History(tn))' - 1 = Len(History(tn)) - 0
    BY <1>4, <1>5, <2>1
  <2>3. \A t \in TrackingNumbers :
          Len(History(t))' - Cardinality(Pending(t))' = Len(History(t)) - Cardinality(Pending(t))
    BY <1>7, <1>8, <1>80, <1>9, <2>2 DEF OneOwes
  <2> QED
    BY <2>3 DEF Sent
<1>11. Log' = [Log EXCEPT ![tn] = <<c>>] /\ Log[tn] = <<>>
  BY <1>2, <1>4, <1>5, <1>7 DEF Log
<1>12. Out' = Out
  BY <1>2 DEF Out
<1>13. Creates(tn, at)
  BY <1>10, <1>11, <1>12 DEF Creates
<1> QED
  BY <1>2, <1>3, <1>13, StreamSteps

\* A scan is committed: the history goes on with a legal step that is later than all
\* before it and is owed.
LEMMA CommitScans ==
  ASSUME IInv, SInv, Apart', NEW r \in Requests, Commit(r)
  PROVE  Stream!StreamNext
<1> PICK q : q = req[r]
  OBVIOUS
<1> PICK tn : tn = q.tn
  OBVIOUS
<1> PICK h, g : h = History(tn) /\ g = History(tn)'
  OBVIOUS
<1> PICK x : x = [type |-> q.type, at |-> q.at, status |-> EventToStatus[q.type],
                  prev |-> q.prev]
  OBVIOUS
<1> PICK n : n = Len(scan_event[tn])
  OBVIOUS
<1>1. TypeOK /\ RequestsSound /\ RowIsCurrent /\ ColumnIsLast /\ Dated /\ Apart /\ InOrder
  BY DEF IInv, SInv
<1>2. published' = published /\ req'[r].pc = "refresh" /\ req'[r].tn = tn
  BY <1>1, AfterWrite DEF SameRequest
<1>3. /\ q \in Active /\ tn \in TrackingNumbers /\ q.type \in EventTypes
      /\ Legal(q.prev, q.type) /\ db[tn] \in Row
  BY <1>1, CommitWrites
<1>4. db[tn] # Absent /\ q.type \in ScanTypes
  <2>1. "" \notin EventTypes
    BY DEF EventTypes
  <2> QED
    BY <1>3, <2>1, AbsentIsNoRow, ActiveParts
<1>5. g = Append(h, x)
  BY <1>1, CommitHistory
<1>6. db[tn].status = q.prev
  BY <1>1, CommitHistory
<1>7. /\ h \in Seq(HistoryEntry) /\ Len(h) = n + 1 /\ n \in Nat
      /\ h[1] = CreationEntry(db[tn].born)
      /\ \A i \in 1..n : h[i + 1] = ScanEntry(tn, i)
      /\ h[n + 1].status = StatusAt(tn, n)
  BY <1>1, <1>3, <1>4, HistoryFacts DEF HistoryShape
<1>8. h[Len(h)].status = q.prev
  BY <1>1, <1>3, <1>4, <1>6, <1>7 DEF ColumnIsLast
<1>9. /\ q.at \in 0..MaxTime /\ q.at \in Nat /\ db[tn].born < q.at /\ db[tn].born \in Nat
      /\ \A i \in DOMAIN scan_event[tn] : scan_event[tn][i].at < q.at
  BY <1>1, <1>3, ActiveParts DEF Commit, Dated, InOrder, Row
<1>10. q.at \in 1..MaxTime
  BY <1>9, TimeTypes
<1>11. \A i \in DOMAIN h : h[i].at < q.at
  <2> SUFFICES ASSUME NEW i \in 1..(n + 1) PROVE h[i].at < q.at
    BY <1>7
  <2>1. CASE i = 1
    <3>0. CreationEntry(db[tn].born).at = db[tn].born
      BY DEF CreationEntry
    <3>1. h[i].at = db[tn].born
      BY <1>7, <2>1, <3>0
    <3> QED
      BY <1>9, <3>1
  <2>2. CASE i # 1
    <3> PICK k : k = i - 1
      OBVIOUS
    <3>1. k \in 1..n /\ k + 1 = i
      BY <1>7, <2>2
    <3>0. ScanEntry(tn, k).at = scan_event[tn][k].at
      BY DEF ScanEntry
    <3>2. h[i].at = scan_event[tn][k].at
      BY <1>7, <3>0, <3>1
    <3>3. k \in DOMAIN scan_event[tn]
      BY <1>1, <1>3, <3>1 DEF TypeOK
    <3> QED
      BY <1>9, <3>2, <3>3
  <2> QED
    BY <2>1, <2>2
<1>12. \A t \in TrackingNumbers : t # tn => db'[t] = db[t] /\ scan_event'[t] = scan_event[t]
  BY <1>1, CommitWrites DEF TypeOK
<1>13. \A t \in TrackingNumbers : t # tn => History(t)' = History(t)
  BY <1>12, HistorySame
<1>14. OneOwes /\ OneOwes'
  BY <1>1, PendingFacts, PendingFactsNext
<1>140. \A t \in TrackingNumbers : Owing(t)' <=> Owing(t) \/ t = tn
  <2> TAKE t \in TrackingNumbers
  <2>1. Owes(r, t)' <=> t = tn
    BY <1>2 DEF Owes
  <2>2. ~Owes(r, t)
    BY DEF Owes, Commit
  <2> QED
    BY <1>1, <2>1, <2>2, OwingNext DEF Step, Owing
<1>15. ~Owing(tn)
  BY <1>1 DEF Owing, Owes, Apart, Commit
<1>16. x \in HistoryEntry
  BY <1>3, TargetFacts DEF HistoryEntry, Active
<1>17. Len(g) = n + 2
  BY <1>5, <1>7, <1>16, Appended
<1>18. Sent' = Sent
  <2>1. Len(g) - 1 = Len(h) - 0
    BY <1>7, <1>17
  <2>2. \A t \in TrackingNumbers :
          Len(History(t))' - Cardinality(Pending(t))' = Len(History(t)) - Cardinality(Pending(t))
    BY <1>13, <1>14, <1>140, <1>15, <2>1 DEF OneOwes
  <2> QED
    BY <2>2 DEF Sent
<1>19. Log' = [Log EXCEPT ![tn] = Append(h, x)] /\ Log[tn] = h /\ h # <<>>
  <2>1. h # <<>>
    BY <1>7
  <2>2. Log' = [Log EXCEPT ![tn] = g] /\ Log[tn] = h
    BY <1>3, <1>13 DEF Log
  <2> QED
    BY <1>5, <2>1, <2>2
<1>20. Out' = Out
  BY <1>2 DEF Out
<1>21. Scans(tn, q.type, q.at)
  <2>1. x = [type |-> q.type, at |-> q.at, status |-> EventToStatus[q.type],
             prev |-> h[Len(h)].status]
    BY <1>8
  <2> QED
    BY <1>3, <1>8, <1>11, <1>18, <1>19, <1>20, <2>1 DEF Scans
<1> QED
  BY <1>3, <1>4, <1>10, <1>21, StreamSteps

\* Every step of the write side is a step of EventStream, or none.
LEMMA NextStreams ==
  ASSUME IInv, SInv, Apart', [Next]_vars
  PROVE  [Stream!StreamNext]_(Stream!streamVars)
<1>0. TypeOK /\ Apart
  BY DEF IInv, SInv
<1>1. SUFFICES Stutters \/ Stream!StreamNext
  BY StreamSteps
<1>2. CASE UNCHANGED vars
  <2>1. UNCHANGED <<db, scan_event, published>> /\ \A tn : Owing(tn)' => Owing(tn)
    BY <1>2 DEF vars, Owing, Owes
  <2> QED
    BY <1>0, <2>1, Quiet
<1>3. CASE Crash
  <2>1. UNCHANGED <<db, scan_event, published>> /\ \A tn : Owing(tn)' => Owing(tn)
    BY <1>3 DEF Crash, Owing, Owes, Idle
  <2> QED
    BY <1>0, <2>1, Quiet
<1>4. ASSUME NEW r \in Requests, Step(r)
      PROVE  Stutters \/ Stream!StreamNext
  <2>0. ASSUME UNCHANGED <<db, scan_event, published>>,
               \A tn \in TrackingNumbers : Owes(r, tn)' => Owes(r, tn)
        PROVE  Stutters \/ Stream!StreamNext
    <3>1. \A tn \in TrackingNumbers : Owing(tn)' => Owing(tn)
      BY <1>0, <1>4, <2>0, OwingNext DEF Owing
    <3> QED
      BY <1>0, <2>0, <3>1, Quiet
  <2>1. CASE \/ \E tn \in TrackingNumbers : BeginCreate(r, tn)
             \/ \E tn \in TrackingNumbers, type \in ScanTypes : Load(r, tn, type)
             \/ Accept(r)
    <3>1. /\ UNCHANGED <<db, scan_event, published>>
          /\ req'[r].pc \notin {"refresh", "publish"}
      BY <1>0, <2>1, AfterBegin, AfterLoad, AfterAccept
    <3> QED
      BY <2>0, <3>1 DEF Owes
  <2>2. CASE Refresh(r)
    <3>1. UNCHANGED <<db, scan_event, published>> /\ req'[r].tn = req[r].tn
      BY <1>0, <2>2, AfterRefresh DEF SameRequest
    <3>2. req[r].pc = "refresh"
      BY <2>2 DEF Refresh
    <3> QED
      BY <2>0, <3>1, <3>2 DEF Owes
  <2>3. CASE InsertCollides(r) \/ Reject(r) \/ DbError(r)
    <3>1. req'[r].pc = "idle" /\ UNCHANGED <<db, scan_event, published>>
      BY <1>0, <2>3, AfterEnd DEF Ends, InsertCollides, Reject, DbError
    <3> QED
      BY <2>0, <3>1 DEF Owes
  <2> QED
    BY <1>4, <2>1, <2>2, <2>3, StepKinds, InsertCreates, CommitScans, PublishAnnounces DEF Ends
<1> QED
  BY <1>2, <1>3, <1>4 DEF Next

\* As long as the requests on each shipment come one after the other and its scans in
\* the order of their times, the write side is an EventStream, for any number of
\* threads, shipments, chosen times, failures and crashes: each shipment has one legal
\* history at increasing times, announced in order with the status and previousStatus
\* of the step, each step as often as one publish may reach the broker and, when a
\* request fails after its commit, never (service.py:22-112).
THEOREM StreamRefinement == OrderedSpec => ImplementsStream
<1>1. Init => Stream!StreamInit
  <2> SUFFICES ASSUME Init
               PROVE  /\ \A tn \in TrackingNumbers : History(tn) = <<>>
                      /\ \A tn \in TrackingNumbers : Cardinality(Pending(tn)) = 0
                      /\ published = <<>>
    <3>1. Len(<<>>) - 0 = 0
      OBVIOUS
    <3> QED
      BY <3>1 DEF Stream!StreamInit
  <2>1. \A tn \in TrackingNumbers : History(tn) = <<>>
    BY DEF Init, History
  <2>2. \A tn \in TrackingNumbers : Pending(tn) = {}
    BY DEF Init, Pending, Idle
  <2> QED
    BY <2>1, <2>2, FS_EmptySet DEF Init
<1>2. Init => IInv /\ SInv
  BY InitInv, InitOrdered
<1>3. IInv /\ SInv /\ OrderedStep => (IInv /\ SInv)'
  BY StepOrdered, NextInv
<1>4. IInv /\ SInv /\ OrderedStep => [Stream!StreamNext]_(Stream!streamVars)
  <2> SUFFICES ASSUME IInv, SInv, OrderedStep
               PROVE  [Stream!StreamNext]_(Stream!streamVars)
    OBVIOUS
  <2>1. SInv' /\ [Next]_vars
    BY StepOrdered
  <2>2. Apart'
    BY <2>1 DEF SInv
  <2> QED
    BY <2>1, <2>2, NextStreams
<1>5. OrderedSpec <=> Init /\ [][Next /\ Apart' /\ InOrder']_vars
  BY DEF OrderedSpec
<1> QED
  BY <1>1, <1>2, <1>3, <1>4, <1>5, PTL
     DEF OrderedStep, ImplementsStream, Stream!StreamSpec
=============================================================================
