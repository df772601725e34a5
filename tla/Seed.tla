-------------------------------- MODULE Seed --------------------------------
(***************************************************************************)
(* The demo data loader of shipments-service (app/seed.py), started by     *)
(* hand or with the service, with or without --force, possibly while       *)
(* another loader runs and while visitors use the API.                     *)
(*                                                                         *)
(* A loader commits shipment by shipment and scan by scan; the steps of    *)
(* others come in between.  The use of the API is one step per request.    *)
(***************************************************************************)
EXTENDS ShipmentStatus, Naturals, Sequences, FiniteSets

CONSTANTS Loaders,     \* runs of the loader
          Visitor,     \* whoever submits scans over the API
          VisitTypes,  \* the event types of those scans
          MaxVisits,   \* bound on them
          MaxCrashes   \* bound on killed loaders

ASSUME SeedAssumption ==
  /\ Visitor \notin Loaders
  /\ VisitTypes \subseteq EventTypes
  /\ MaxVisits \in Nat
  /\ MaxCrashes \in Nat

VARIABLES table,     \* table[i]: the row of DEMO[i] and its scans, or Absent
          others,    \* there is a shipment that is not of DEMO
          loader,    \* loader[l]: what l is doing
          disturbed, \* history, since the last wipe: a loader was killed or a visitor came
          visits, crashes

vars == <<table, others, loader, disturbed, visits, crashes>>

\* The event types of the scans of PP-DEMO0001 to PP-DEMO0004.
DEMO == << <<"PICKED_UP", "ARRIVED_AT_FACILITY", "OUT_FOR_DELIVERY", "DELIVERED">>,
           <<"PICKED_UP", "IN_TRANSIT">>,
           <<"PICKED_UP", "OUT_FOR_DELIVERY", "DELIVERY_FAILED">>,
           <<>> >>

Absent == [status |-> "absent"]

\* `id` is the primary key, a fresh uuid: each loader inserts a shipment once at
\* most, so its name will do.
Row == [id : Loaders, status : Statuses,
        scans : Seq([type : EventTypes, by : Loaders \cup {Visitor}])]

Ended == {"loaded", "skipped", "failed", "killed"}

\* `existing` is the set of run(); `at` the shipment of DEMO in hand, `id` and
\* `status` the session's copy of it, `n` the scans of it that are done.
Loader == [pc : {"idle", "query", "delete", "insert", "refresh", "scan"} \cup Ended,
           force : BOOLEAN, existing : SUBSET DOMAIN DEMO,
           at : 1..(Len(DEMO) + 1), id : Loaders, status : Statuses, n : Nat]

TypeOK ==
  /\ table \in [DOMAIN DEMO -> Row \cup {Absent}]
  /\ others \in BOOLEAN
  /\ loader \in [Loaders -> Loader]
  /\ disturbed \in BOOLEAN
  /\ visits \in 0..MaxVisits
  /\ crashes \in 0..MaxCrashes

Init ==
  /\ table = [i \in DOMAIN DEMO |-> Absent]
  /\ others \in BOOLEAN
  /\ loader = [l \in Loaders |->
                 [pc |-> "idle", force |-> FALSE, existing |-> {}, at |-> 1,
                  id |-> l, status |-> "CREATED", n |-> 0]]
  /\ disturbed = FALSE
  /\ visits = 0
  /\ crashes = 0

-----------------------------------------------------------------------------
Present == {i \in DOMAIN DEMO : table[i] # Absent}

Start(l, force) ==
  /\ loader[l].pc = "idle"
  /\ loader' = [loader EXCEPT ![l].pc = "query", ![l].force = force]
  /\ UNCHANGED <<table, others, disturbed, visits, crashes>>

\* `if existing and not force`: the shipments there are, of DEMO or not.
Query(l) ==
  /\ loader[l].pc = "query"
  /\ loader' = [loader EXCEPT ![l].existing = Present,
                              ![l].pc = IF loader[l].force THEN "delete"
                                        ELSE IF Present # {} \/ others THEN "skipped"
                                        ELSE "insert"]
  /\ UNCHANGED <<table, others, disturbed, visits, crashes>>

\* A slip: `existing` is not emptied.
DeleteOnly(l) ==
  /\ loader[l].pc = "delete"
  /\ table' = [i \in DOMAIN DEMO |-> Absent]
  /\ others' = FALSE
  /\ loader' = [loader EXCEPT ![l].pc = "insert"]
  /\ disturbed' = FALSE
  /\ UNCHANGED <<visits, crashes>>

\* --force: every shipment goes, and the foreign key takes its scans along.
Delete(l) ==
  /\ loader[l].pc = "delete"
  /\ table' = [i \in DOMAIN DEMO |-> Absent]
  /\ others' = FALSE
  /\ loader' = [loader EXCEPT ![l].pc = "insert", ![l].existing = {}]
  /\ disturbed' = FALSE
  /\ UNCHANGED <<visits, crashes>>

\* The first shipment from i on that `existing` does not rule out.
Following(l, i) ==
  CHOOSE j \in i..(Len(DEMO) + 1) :
    /\ j \notin loader[l].existing
    /\ \A k \in i..(j - 1) : k \in loader[l].existing

\* The loop has come to shipment j, or to its end.
InHand(l, j) ==
  [loader[l] EXCEPT !.at = j, !.n = 0, !.status = "CREATED",
                    !.pc = IF j \in DOMAIN DEMO THEN "insert" ELSE "loaded"]

Inserted(l, j) ==
  /\ table' = [table EXCEPT ![j] = [id |-> l, status |-> "CREATED", scans |-> <<>>]]
  /\ loader' = [loader EXCEPT ![l] = [InHand(l, j) EXCEPT !.pc = "refresh"]]

\* Slips: a row that is there is taken for the loader's own, or waited for.
InsertReuses(l) ==
  LET j == Following(l, loader[l].at) IN
  /\ loader[l].pc = "insert"
  /\ IF j \in DOMAIN DEMO /\ table[j] # Absent
     THEN /\ loader' = [loader EXCEPT ![l] = [InHand(l, j) EXCEPT !.pc = "refresh",
                                                                  !.id = table[j].id]]
          /\ UNCHANGED table
     ELSE IF j \in DOMAIN DEMO THEN Inserted(l, j)
     ELSE loader' = [loader EXCEPT ![l] = InHand(l, j)] /\ UNCHANGED table
  /\ UNCHANGED <<others, disturbed, visits, crashes>>

InsertWaits(l) ==
  LET j == Following(l, loader[l].at) IN
  /\ loader[l].pc = "insert"
  /\ j \in DOMAIN DEMO => table[j] = Absent
  /\ IF j \in DOMAIN DEMO THEN Inserted(l, j)
     ELSE loader' = [loader EXCEPT ![l] = InHand(l, j)] /\ UNCHANGED table
  /\ UNCHANGED <<others, disturbed, visits, crashes>>

\* The next shipment is inserted; the unique tracking number refuses it when
\* another loader's is there, and the exception ends this run.
Insert(l) ==
  LET j == Following(l, loader[l].at) IN
  /\ loader[l].pc = "insert"
  /\ IF j \notin DOMAIN DEMO THEN loader' = [loader EXCEPT ![l] = InHand(l, j)] /\ UNCHANGED table
     ELSE IF table[j] = Absent THEN Inserted(l, j)
     ELSE loader' = [loader EXCEPT ![l].pc = "failed"] /\ UNCHANGED table
  /\ UNCHANGED <<others, disturbed, visits, crashes>>

\* The row this loader inserted is still there.
Mine(l) == table[loader[l].at] # Absent /\ table[loader[l].at].id = loader[l].id

\* db.refresh(shipment), in run() and at the end of add_scan.
Refresh(l) ==
  /\ loader[l].pc = "refresh"
  /\ loader' = IF Mine(l)
               THEN [loader EXCEPT ![l].pc = "scan", ![l].status = table[loader[l].at].status]
               ELSE [loader EXCEPT ![l].pc = "failed"]
  /\ UNCHANGED <<table, others, disturbed, visits, crashes>>

\* A slip: the event type is stored for the status.
StoredType(loaded, type, stored) == type

\* The status is written if it differs from the loaded one.
StoredStatus(loaded, type, stored) ==
  IF EventToStatus[type] # loaded THEN EventToStatus[type] ELSE stored

Recorded(i, type, loaded, by) ==
  table' = [table EXCEPT ![i].status = StoredStatus(loaded, type, @),
                         ![i].scans = Append(@, [type |-> type, by |-> by])]

\* add_scan up to its commit: refused by next_status, or by the foreign key when
\* the shipment has been wiped; each exception ends the run.
AddScan(l) ==
  LET i == loader[l].at
      k == loader[l].n + 1
  IN
  /\ loader[l].pc = "scan"
  /\ k \in DOMAIN DEMO[i]
  /\ IF Legal(loader[l].status, DEMO[i][k]) /\ Mine(l)
     THEN /\ Recorded(i, DEMO[i][k], loader[l].status, l)
          /\ loader' = [loader EXCEPT ![l].pc = "refresh", ![l].n = k]
     ELSE loader' = [loader EXCEPT ![l].pc = "failed"] /\ UNCHANGED table
  /\ UNCHANGED <<others, disturbed, visits, crashes>>

\* The scans are done: on with the loop.
NextShipment(l) ==
  /\ loader[l].pc = "scan"
  /\ loader[l].n = Len(DEMO[loader[l].at])
  /\ loader' = [loader EXCEPT ![l] = InHand(l, Following(l, loader[l].at + 1))]
  /\ UNCHANGED <<table, others, disturbed, visits, crashes>>

Killed(l) ==
  /\ loader[l].pc \notin {"idle"} \cup Ended
  /\ crashes < MaxCrashes
  /\ crashes' = crashes + 1
  /\ loader' = [loader EXCEPT ![l].pc = "killed"]
  /\ disturbed' = TRUE
  /\ UNCHANGED <<table, others, visits>>

\* POST /shipments/{id}/scans for a demo shipment; POST /shipments.
VisitorScans(i, type) ==
  /\ visits < MaxVisits
  /\ table[i] # Absent
  /\ Legal(table[i].status, type)
  /\ visits' = visits + 1
  /\ Recorded(i, type, table[i].status, Visitor)
  /\ disturbed' = TRUE
  /\ UNCHANGED <<others, loader, crashes>>

VisitorCreates ==
  /\ others' = TRUE
  /\ UNCHANGED <<table, loader, disturbed, visits, crashes>>

-----------------------------------------------------------------------------
Work(l) ==
  \/ Query(l) \/ Delete(l)
  \/ Insert(l) \/ Refresh(l)
  \/ AddScan(l) \/ NextShipment(l)

Next ==
  \/ \E l \in Loaders :
       \/ \E force \in BOOLEAN : Start(l, force)
       \/ Work(l)
       \/ Killed(l)
  \/ \E i \in DOMAIN DEMO, type \in VisitTypes : VisitorScans(i, type)
  \/ VisitorCreates

Spec == Init /\ [][Next]_vars

\* A process that is not killed runs to its end.
FairSpec == Spec /\ \A l \in Loaders : WF_vars(Work(l))

-----------------------------------------------------------------------------
Types(scans) == [k \in DOMAIN scans |-> scans[k].type]

\* "(Re)load the demo shipments" (README.md:94): once every loader has ended, and
\* not just found something to skip, all four shipments are there with all their
\* scans, although loaders race, wipe each other's rows and die of each other's.
\* Only a loader killed, or a visitor's scan, since the last wipe can spoil it; the
\* next --force repairs it (seed.py:64-98).
LoadersComplete ==
  /\ \A l \in Loaders : loader[l].pc \in Ended \cup {"idle"}
  /\ \E l \in Loaders : loader[l].pc \in {"loaded", "failed"}
  /\ ~disturbed
  => \A i \in DOMAIN DEMO : table[i] # Absent /\ Types(table[i].scans) = DEMO[i]

\* Which of a shipment's scans are a loader's, and the how-manieth of those k is.
Loaded(scans) == {k \in DOMAIN scans : scans[k].by # Visitor}

Rank(scans, k) == Cardinality(Loaded(scans) \cap (1..k))

\* They are those of the run that inserted the row, in the order of the plan.
Unmixed(row, plan) ==
  \A k \in Loaded(row.scans) :
    /\ row.scans[k].by = row.id
    /\ Rank(row.scans, k) \in DOMAIN plan
    /\ row.scans[k].type = plan[Rank(row.scans, k)]

\* No shipment's history is put together by two loaders: apart from visitors' scans,
\* its scans are those of the run that inserted it, in their order.
HistoriesUnmixed == \A i \in Present : Unmixed(table[i], DEMO[i])

\* A loader that is not killed ends, also when another is at the same rows.
EveryLoaderEnds ==
  \A l \in Loaders : loader[l].pc \notin {"idle"} \cup Ended ~> loader[l].pc \in Ended
=============================================================================
