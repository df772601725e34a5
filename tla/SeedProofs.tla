----------------------------- MODULE SeedProofs -----------------------------
(***************************************************************************)
(* Theorems about Seed, for any number of loaders, crashes and visits.     *)
(***************************************************************************)
EXTENDS Seed, FiniteSetTheorems, TLAPS

\* At work on a shipment that is inserted.
AtRow(q) == q.pc \in {"refresh", "scan"}

\* What is in the table where a loader is, is its own.
Own(q, rows) == rows[q.at] # Absent /\ rows[q.at].id = q.id

\* What a loader holds, at each place of its run.
Fits(l, q) ==
  /\ q.id = l
  /\ q.pc \in {"idle", "query", "delete"} => q.at = 1
  /\ q.pc \in {"insert", "refresh", "scan"} => q.existing = {} /\ q.at \in DOMAIN DEMO
  /\ AtRow(q) => q.n <= Len(DEMO[q.at])

\* The row in hand has as many of the loader's scans as the loader has counted.
Counts(q, rows) ==
  AtRow(q) /\ Own(q, rows) => Cardinality(Loaded(rows[q.at].scans)) = q.n

-----------------------------------------------------------------------------
\* The status after the first m scans of a plan.
StatusAfter(plan, m) == IF m = 0 THEN "CREATED" ELSE EventToStatus[plan[m]]

\* Between the wipe and the end a row holds the beginning of its plan, all of it
\* unless its loader, q, is at it.
Begins(row, plan) ==
  /\ Len(row.scans) <= Len(plan)
  /\ \A k \in 1..Len(row.scans) : row.scans[k].type = plan[k]
  /\ row.status = StatusAfter(plan, Len(row.scans))

GoesOn(i, row, q) ==
  Len(row.scans) = Len(DEMO[i]) \/ (AtRow(q) /\ q.at = i /\ q.n = Len(row.scans))

Whole ==
  \A i \in Present :
    Begins(table[i], DEMO[i]) /\ GoesOn(i, table[i], loader[table[i].id])

\* A loader that is at a row of its own knows its length and its status.
Knows(q, rows) ==
  AtRow(q) /\ Own(q, rows) =>
    /\ q.n = Len(rows[q.at].scans)
    /\ q.pc = "scan" => q.status = rows[q.at].status

\* A loader has shipment i before it, and will not be refused one up to j.
Covers(q, rows, j, i) ==
  \/ AtRow(q) /\ Own(q, rows) /\ j <= q.at /\ q.at < i
  \/ q.pc = "insert" /\ j < q.at /\ q.at <= i

\* Some loader has come past its query.
Past(q) == q.pc \in {"insert", "refresh", "scan", "loaded", "failed"}

Begun == \E l \in Loaders : Past(loader[l])

Cover(j, i) == \E l \in Loaders : Covers(loader[l], table, j, i)

\* A shipment that is missing is before a loader; one behind a shipment that is
\* there is before a loader whom that one does not stop.
Covered ==
  \A i \in DOMAIN DEMO \ Present :
    /\ Begun => Cover(0, i)
    /\ \A j \in Present : j < i => Cover(j, i)

Undisturbed ==
  /\ Whole
  /\ \A l \in Loaders : Knows(loader[l], table)
  /\ Covered

IInv ==
  /\ TypeOK
  /\ \A l \in Loaders : Fits(l, loader[l]) /\ Counts(loader[l], table)
  /\ HistoriesUnmixed
  /\ disturbed = TRUE \/ Undisturbed

-----------------------------------------------------------------------------
Scan == [type : EventTypes, by : Loaders \cup {Visitor}]

Places == {"idle", "query", "delete", "insert", "refresh", "scan"} \cup Ended

\* The constants, for the provers.
LEMMA Constants ==
  /\ Visitor \notin Loaders /\ VisitTypes \subseteq EventTypes
  /\ MaxVisits \in Nat /\ MaxCrashes \in Nat
BY SeedAssumption DEF SeedAssumption

\* The demo data: four shipments, whose scans the rules accept one after the other.
LEMMA DemoFacts ==
  /\ DOMAIN DEMO = 1..4 /\ Len(DEMO) = 4
  /\ \A i \in 1..4 : /\ DEMO[i] \in Seq(EventTypes) /\ Len(DEMO[i]) \in Nat
                     /\ DOMAIN DEMO[i] = 1..Len(DEMO[i])
BY DEF DEMO, EventTypes

LEMMA DemoLegal ==
  ASSUME NEW i \in 1..4, NEW m \in Nat, m < Len(DEMO[i])
  PROVE  Legal(StatusAfter(DEMO[i], m), DEMO[i][m + 1])
<1>1. CASE i = 1
  <2>1. DEMO[i] = <<"PICKED_UP", "ARRIVED_AT_FACILITY", "OUT_FOR_DELIVERY", "DELIVERED">>
    BY <1>1 DEF DEMO
  <2>2. m \in 0..3
    BY <2>1
  <2> QED
    BY <2>1, <2>2 DEF StatusAfter, Legal, Allowed, EventToStatus, EventTypes
<1>2. CASE i = 2
  <2>1. DEMO[i] = <<"PICKED_UP", "IN_TRANSIT">>
    BY <1>2 DEF DEMO
  <2>2. m \in 0..1
    BY <2>1
  <2> QED
    BY <2>1, <2>2 DEF StatusAfter, Legal, Allowed, EventToStatus, EventTypes
<1>3. CASE i = 3
  <2>1. DEMO[i] = <<"PICKED_UP", "OUT_FOR_DELIVERY", "DELIVERY_FAILED">>
    BY <1>3 DEF DEMO
  <2>2. m \in 0..2
    BY <2>1
  <2> QED
    BY <2>1, <2>2 DEF StatusAfter, Legal, Allowed, EventToStatus, EventTypes
<1>4. CASE i = 4
  BY <1>4 DEF DEMO
<1> QED
  BY <1>1, <1>2, <1>3, <1>4

\* A loader, with the numbers in its type.
LEMMA LoaderType ==
  Loader = [pc : Places, force : BOOLEAN, existing : SUBSET (1..4), at : 1..5,
            id : Loaders, status : Statuses, n : Nat]
BY DemoFacts DEF Loader, Places

\* What changes with each of its fields.
LEMMA SetPc ==
  ASSUME NEW q \in Loader, NEW pc \in Places
  PROVE  LET new == [q EXCEPT !.pc = pc] IN
         /\ new \in Loader /\ new.pc = pc /\ new.existing = q.existing
         /\ new.at = q.at /\ new.id = q.id /\ new.status = q.status /\ new.n = q.n
BY LoaderType

LEMMA SetForce ==
  ASSUME NEW q \in Loader, NEW force \in BOOLEAN
  PROVE  LET new == [q EXCEPT !.force = force] IN
         /\ new \in Loader /\ new.pc = q.pc /\ new.existing = q.existing
         /\ new.at = q.at /\ new.id = q.id /\ new.status = q.status /\ new.n = q.n
BY LoaderType

LEMMA SetExisting ==
  ASSUME NEW q \in Loader, NEW existing \in SUBSET (1..4)
  PROVE  LET new == [q EXCEPT !.existing = existing] IN
         /\ new \in Loader /\ new.pc = q.pc /\ new.existing = existing
         /\ new.at = q.at /\ new.id = q.id /\ new.status = q.status /\ new.n = q.n
BY LoaderType

LEMMA SetAt ==
  ASSUME NEW q \in Loader, NEW at \in 1..5
  PROVE  LET new == [q EXCEPT !.at = at] IN
         /\ new \in Loader /\ new.pc = q.pc /\ new.existing = q.existing
         /\ new.at = at /\ new.id = q.id /\ new.status = q.status /\ new.n = q.n
BY LoaderType

LEMMA SetStatus ==
  ASSUME NEW q \in Loader, NEW status \in Statuses
  PROVE  LET new == [q EXCEPT !.status = status] IN
         /\ new \in Loader /\ new.pc = q.pc /\ new.existing = q.existing
         /\ new.at = q.at /\ new.id = q.id /\ new.status = status /\ new.n = q.n
BY LoaderType

LEMMA SetN ==
  ASSUME NEW q \in Loader, NEW n \in Nat
  PROVE  LET new == [q EXCEPT !.n = n] IN
         /\ new \in Loader /\ new.pc = q.pc /\ new.existing = q.existing
         /\ new.at = q.at /\ new.id = q.id /\ new.status = q.status /\ new.n = n
BY LoaderType

\* Nothing to skip: the loop takes the shipments one by one.
LEMMA FollowingIs ==
  ASSUME NEW l \in Loaders, loader[l].existing = {}, NEW i \in 1..5
  PROVE  Following(l, i) = i
<1>1. i \in i..(Len(DEMO) + 1) /\ i \notin loader[l].existing
      /\ \A k \in i..(i - 1) : k \in loader[l].existing
  BY DemoFacts
<1>2. ASSUME NEW j \in i..(Len(DEMO) + 1), \A k \in i..(j - 1) : k \in loader[l].existing
      PROVE  j = i
  <2>1. i \notin i..(j - 1)
    BY <1>2
  <2> QED
    BY <2>1, DemoFacts
<1> QED
  BY <1>1, <1>2 DEF Following

\* Rows.
LEMMA RowFacts ==
  ASSUME NEW row \in Row
  PROVE  /\ row # Absent /\ row.id \in Loaders /\ row.status \in Statuses
         /\ row.scans \in Seq(Scan) /\ Len(row.scans) \in Nat
<1>1. row.status # "absent"
  BY DEF Row, Statuses
<1>2. Absent.status = "absent"
  BY DEF Absent
<1>3. row.id \in Loaders /\ row.status \in Statuses /\ row.scans \in Seq(Scan)
  BY DEF Row, Scan
<1> QED
  BY <1>1, <1>2, <1>3

LEMMA PresentFacts ==
  ASSUME TypeOK, NEW i \in DOMAIN DEMO
  PROVE  /\ i \in Present <=> table[i] # Absent
         /\ i \in Present => table[i] \in Row
BY DEF TypeOK, Present

\* A scan more.
Extended(row, status, scan) ==
  [row EXCEPT !.status = status, !.scans = Append(@, scan)]

LEMMA ExtendedFacts ==
  ASSUME NEW row \in Row, NEW status \in Statuses, NEW scan \in Scan
  PROVE  LET new == Extended(row, status, scan) IN
         /\ new \in Row /\ new.id = row.id /\ new.status = status
         /\ new.scans = Append(row.scans, scan)
<1> DEFINE a == [row EXCEPT !.status = status]
           scans == Append(row.scans, scan)
           b == [a EXCEPT !.scans = scans]
<1>1. Extended(row, status, scan) = b
  BY DEF Extended
<1>2. scans \in Seq(Scan)
  BY RowFacts
<1>3. a \in Row /\ a.id = row.id /\ a.status = status
  BY DEF Row
<1> HIDE DEF a, scans
<1>4. b \in Row /\ b.id = row.id /\ b.status = status /\ b.scans = scans
  BY <1>2, <1>3 DEF Row, Scan
<1> QED
  BY <1>1, <1>4 DEF scans

\* What a scan more does to the loaders' scans and their ranks.
LEMMA LoadedMore ==
  ASSUME NEW scans \in Seq(Scan), NEW scan \in Scan
  PROVE  LET longer == Append(scans, scan) IN
         /\ Cardinality(Loaded(scans)) \in Nat
         /\ scan.by = Visitor => Loaded(longer) = Loaded(scans)
         /\ scan.by # Visitor =>
              /\ Loaded(longer) = Loaded(scans) \cup {Len(scans) + 1}
              /\ Cardinality(Loaded(longer)) = Cardinality(Loaded(scans)) + 1
              /\ Rank(longer, Len(scans) + 1) = Cardinality(Loaded(scans)) + 1
         /\ longer[Len(scans) + 1] = scan
         /\ \A k \in Loaded(scans) : longer[k] = scans[k] /\ Rank(longer, k) = Rank(scans, k)
<1> DEFINE longer == Append(scans, scan)
           L == Len(scans)
<1>1. L \in Nat /\ DOMAIN scans = 1..L
  OBVIOUS
<1>2. /\ longer \in Seq(Scan) /\ DOMAIN longer = 1..(L + 1)
      /\ longer[L + 1] = scan /\ \A k \in 1..L : longer[k] = scans[k]
  OBVIOUS
<1> HIDE DEF longer, L
<1>3. Loaded(scans) \subseteq 1..L /\ L + 1 \notin Loaded(scans)
  BY <1>1 DEF Loaded
<1>4. IsFiniteSet(Loaded(scans)) /\ Cardinality(Loaded(scans)) \in Nat
  <2>1. IsFiniteSet(1..L)
    BY <1>1, FS_Interval
  <2>2. IsFiniteSet(Loaded(scans))
    BY <1>3, <2>1, FS_Subset
  <2> QED
    BY <2>2, FS_CardinalityType
<1>5. scan.by = Visitor => Loaded(longer) = Loaded(scans)
  BY <1>1, <1>2 DEF Loaded
<1>6. scan.by # Visitor => Loaded(longer) = Loaded(scans) \cup {L + 1}
  BY <1>1, <1>2 DEF Loaded
<1>7. Cardinality(Loaded(scans) \cup {L + 1}) = Cardinality(Loaded(scans)) + 1
  BY <1>3, <1>4, FS_AddElement
<1>8. scan.by # Visitor => Rank(longer, L + 1) = Cardinality(Loaded(scans)) + 1
  <2>1. (Loaded(scans) \cup {L + 1}) \cap (1..(L + 1)) = Loaded(scans) \cup {L + 1}
    BY <1>1, <1>3
  <2> QED
    BY <1>6, <1>7, <2>1 DEF Rank
<1>9. ASSUME NEW k \in Loaded(scans)
      PROVE  longer[k] = scans[k] /\ Rank(longer, k) = Rank(scans, k)
  <2>1. k \in 1..L /\ L + 1 \notin 1..k
    BY <1>1, <1>3
  <2>2. (Loaded(scans) \cup {L + 1}) \cap (1..k) = Loaded(scans) \cap (1..k)
    BY <2>1
  <2>3. Loaded(longer) \in {Loaded(scans), Loaded(scans) \cup {L + 1}}
    BY <1>5, <1>6
  <2>4. Loaded(longer) \cap (1..k) = Loaded(scans) \cap (1..k)
    BY <2>2, <2>3
  <2> QED
    BY <1>2, <2>1, <2>4 DEF Rank
<1> QED
  BY <1>2, <1>4, <1>5, <1>6, <1>7, <1>8, <1>9 DEF longer, L

\* A visitor's scan, or the one that comes next, of the row's loader.
Continues(scan, row, plan) ==
  \/ scan.by = Visitor
  \/ /\ scan.by = row.id
     /\ Cardinality(Loaded(row.scans)) + 1 \in DOMAIN plan
     /\ scan.type = plan[Cardinality(Loaded(row.scans)) + 1]

\* A row that is extended by such a scan.
LEMMA UnmixedMore ==
  ASSUME NEW row \in Row, NEW plan \in Seq(EventTypes), Unmixed(row, plan),
         NEW scan \in Scan, NEW new \in Row,
         new.id = row.id, new.scans = Append(row.scans, scan),
         Continues(scan, row, plan)
  PROVE  /\ Unmixed(new, plan)
         /\ scan.by = Visitor => Cardinality(Loaded(new.scans)) = Cardinality(Loaded(row.scans))
         /\ scan.by # Visitor =>
              Cardinality(Loaded(new.scans)) = Cardinality(Loaded(row.scans)) + 1
<1>1. row.scans \in Seq(Scan) /\ row.id # Visitor
  BY RowFacts, Constants
<1>2. /\ scan.by = Visitor => Loaded(new.scans) = Loaded(row.scans)
      /\ scan.by # Visitor =>
           /\ Loaded(new.scans) = Loaded(row.scans) \cup {Len(row.scans) + 1}
           /\ Cardinality(Loaded(new.scans)) = Cardinality(Loaded(row.scans)) + 1
           /\ Rank(new.scans, Len(row.scans) + 1) = Cardinality(Loaded(row.scans)) + 1
      /\ new.scans[Len(row.scans) + 1] = scan
      /\ \A k \in Loaded(row.scans) : /\ new.scans[k] = row.scans[k]
                                      /\ Rank(new.scans, k) = Rank(row.scans, k)
  <2> DEFINE scans == row.scans
             longer == Append(scans, scan)
  <2>1. scans \in Seq(Scan)
    BY <1>1
  <2> HIDE DEF scans
  <2>2. /\ scan.by = Visitor => Loaded(longer) = Loaded(scans)
        /\ scan.by # Visitor =>
             /\ Loaded(longer) = Loaded(scans) \cup {Len(scans) + 1}
             /\ Cardinality(Loaded(longer)) = Cardinality(Loaded(scans)) + 1
             /\ Rank(longer, Len(scans) + 1) = Cardinality(Loaded(scans)) + 1
        /\ longer[Len(scans) + 1] = scan
        /\ \A k \in Loaded(scans) : longer[k] = scans[k] /\ Rank(longer, k) = Rank(scans, k)
    BY <2>1, LoadedMore
  <2>3. new.scans = longer
    BY DEF scans
  <2> HIDE DEF longer
  <2> QED
    BY <2>2, <2>3 DEF scans
<1>3. ASSUME NEW k \in Loaded(new.scans)
      PROVE  /\ new.scans[k].by = new.id
             /\ Rank(new.scans, k) \in DOMAIN plan
             /\ new.scans[k].type = plan[Rank(new.scans, k)]
  <2>1. CASE k \in Loaded(row.scans)
    BY <1>2, <2>1 DEF Unmixed
  <2>2. CASE k \notin Loaded(row.scans)
    <3>1. scan.by # Visitor /\ k = Len(row.scans) + 1
      BY <1>2, <2>2
    <3> QED
      BY <1>2, <3>1 DEF Continues
  <2> QED
    BY <2>1, <2>2
<1> QED
  BY <1>2, <1>3 DEF Unmixed

-----------------------------------------------------------------------------
\* A step of loader l that leaves the table alone.

\* Where nothing has disturbed the table, what l knew and covered stays so.
Onward(l, new) ==
  /\ Knows(new, table)
  /\ AtRow(loader[l]) /\ Own(loader[l], table) /\ loader[l].n < Len(DEMO[loader[l].at])
       => AtRow(new) /\ new.at = loader[l].at /\ new.n = loader[l].n
  /\ \A i \in DOMAIN DEMO \ Present :
       /\ Past(new) => Begun \/ Covers(new, table, 0, i)
       /\ \A j \in {0} \cup Present :
            j < i /\ Covers(loader[l], table, j, i)
              => \/ Covers(new, table, j, i)
                 \/ \E z \in Loaders \ {l} : Covers(loader[z], table, j, i)

LEMMA LoaderStep ==
  ASSUME IInv, NEW l \in Loaders, NEW new \in Loader, Fits(l, new), Counts(new, table),
         loader' = [loader EXCEPT ![l] = new], table' = table, others' = others,
         visits' = visits, crashes' \in 0..MaxCrashes,
         disturbed' = TRUE \/ (disturbed' = disturbed /\ (Undisturbed => Onward(l, new)))
  PROVE  IInv'
<1>1. loader \in [Loaders -> Loader]
  BY DEF IInv, TypeOK
<1>2. \A z \in Loaders : loader'[z] = IF z = l THEN new ELSE loader[z]
  BY <1>1
<1>3. TypeOK'
  BY <1>1 DEF IInv, TypeOK
<1>4. \A z \in Loaders : Fits(z, loader'[z]) /\ Counts(loader'[z], table')
  BY <1>2 DEF IInv
<1>5. Present' = Present
  BY DEF Present
<1>6. HistoriesUnmixed'
  BY <1>5 DEF IInv, HistoriesUnmixed
<1>7. CASE disturbed' = TRUE
  BY <1>3, <1>4, <1>6, <1>7 DEF IInv
<1>8. CASE disturbed' # TRUE
  <2>1. Undisturbed /\ Onward(l, new)
    BY <1>8 DEF IInv
  <2>2. Whole'
    <3>1. ASSUME NEW i \in Present
          PROVE  /\ Begins(table'[i], DEMO[i])
                 /\ GoesOn(i, table'[i], loader'[table'[i].id])
      <4>1. Begins(table[i], DEMO[i]) /\ GoesOn(i, table[i], loader[table[i].id])
        BY <2>1 DEF Undisturbed, Whole
      <4>2. table[i] \in Row
        BY PresentFacts DEF IInv, Present
      <4>3. table[i].id \in Loaders /\ table[i] # Absent
        BY <4>2, RowFacts
      <4>4. CASE table[i].id # l
        BY <1>2, <4>1, <4>3, <4>4
      <4>5. CASE table[i].id = l /\ Len(table[i].scans) = Len(DEMO[i])
        BY <1>2, <4>1, <4>5 DEF GoesOn
      <4>6. CASE table[i].id = l /\ Len(table[i].scans) # Len(DEMO[i])
        <5>1. AtRow(loader[l]) /\ loader[l].at = i /\ loader[l].n = Len(table[i].scans)
          BY <4>1, <4>6 DEF GoesOn
        <5>2. loader[l].id = l
          BY DEF IInv, Fits
        <5>3. Own(loader[l], table)
          BY <4>3, <4>6, <5>1, <5>2 DEF Own
        <5>4. Len(table[i].scans) < Len(DEMO[i])
          <6>1. Len(table[i].scans) \in Nat /\ Len(DEMO[i]) \in Nat
            BY <4>2, RowFacts, DemoFacts DEF Present
          <6>2. Len(table[i].scans) <= Len(DEMO[i])
            BY <4>1 DEF Begins
          <6> QED
            BY <4>6, <6>1, <6>2
        <5>5. AtRow(new) /\ new.at = i /\ new.n = Len(table[i].scans)
          BY <2>1, <5>1, <5>3, <5>4 DEF Onward
        <5> QED
          BY <1>2, <4>1, <4>6, <5>5 DEF GoesOn
      <4> QED
        BY <4>4, <4>5, <4>6
    <3> QED
      BY <1>5, <3>1 DEF Whole
  <2>3. \A z \in Loaders : Knows(loader'[z], table')
    BY <1>2, <2>1 DEF Onward, Undisturbed
  <2>4. Covered'
    <3>1. ASSUME NEW i \in DOMAIN DEMO \ Present, NEW j \in {0} \cup Present, j < i, Cover(j, i)
          PROVE  Cover(j, i)'
      <4>1. PICK y \in Loaders : Covers(loader[y], table, j, i)
        BY <3>1 DEF Cover
      <4>2. CASE y # l
        <5>1. Covers(loader'[y], table', j, i)
          BY <1>2, <4>1, <4>2
        <5> QED
          BY <5>1 DEF Cover
      <4>3. CASE y = l
        <5>1. \/ Covers(new, table, j, i)
              \/ \E z \in Loaders \ {l} : Covers(loader[z], table, j, i)
          BY <2>1, <3>1, <4>1, <4>3 DEF Onward
        <5>2. CASE Covers(new, table, j, i)
          <6>1. Covers(loader'[l], table', j, i)
            BY <1>2, <5>2
          <6> QED
            BY <6>1 DEF Cover
        <5>3. ASSUME NEW z \in Loaders \ {l}, Covers(loader[z], table, j, i)
              PROVE  Cover(j, i)'
          <6>1. Covers(loader'[z], table', j, i)
            BY <1>2, <5>3
          <6> QED
            BY <6>1 DEF Cover
        <5> QED
          BY <5>1, <5>2, <5>3
      <4> QED
        BY <4>2, <4>3
    <3>2. ASSUME NEW i \in DOMAIN DEMO \ Present, Begun' PROVE Cover(0, i)'
      <4>1. 0 < i
        BY DemoFacts
      <4>2. CASE Begun
        BY <2>1, <3>1, <4>1, <4>2 DEF Undisturbed, Covered
      <4>3. CASE ~Begun
        <5>1. Past(new)
          BY <1>2, <3>2, <4>3 DEF Begun
        <5>2. Covers(new, table, 0, i)
          BY <2>1, <4>3, <5>1 DEF Onward
        <5>3. Covers(loader'[l], table', 0, i)
          BY <1>2, <5>2
        <5> QED
          BY <5>3 DEF Cover
      <4> QED
        BY <4>2, <4>3
    <3>3. ASSUME NEW i \in DOMAIN DEMO \ Present, NEW j \in Present, j < i PROVE Cover(j, i)'
      BY <2>1, <3>1, <3>3 DEF Undisturbed, Covered
    <3> QED
      BY <1>5, <3>2, <3>3 DEF Covered
  <2> QED
    BY <1>3, <1>4, <1>6, <2>2, <2>3, <2>4 DEF IInv, Undisturbed
<1> QED
  BY <1>7, <1>8

LEMMA LoaderFacts ==
  ASSUME IInv, NEW l \in Loaders
  PROVE  /\ loader \in [Loaders -> Loader] /\ loader[l] \in Loader
         /\ loader[l].pc \in Places /\ loader[l].existing \in SUBSET (1..4)
         /\ loader[l].at \in 1..5 /\ loader[l].n \in Nat /\ loader[l].id = l
         /\ loader[l].status \in Statuses /\ Fits(l, loader[l]) /\ Counts(loader[l], table)
         /\ crashes \in 0..MaxCrashes
<1>1. loader \in [Loaders -> Loader] /\ crashes \in 0..MaxCrashes
  BY DEF IInv, TypeOK
<1>2. loader[l] \in Loader
  BY <1>1
<1>3. Fits(l, loader[l]) /\ Counts(loader[l], table)
  BY DEF IInv
<1> QED
  BY <1>1, <1>2, <1>3, LoaderType DEF Fits

\* The steps before the loop, which cover nothing yet; the step into it covers all.
LEMMA StartInv ==
  ASSUME IInv, NEW l \in Loaders, NEW force \in BOOLEAN, Start(l, force)
  PROVE  IInv'
<1> DEFINE q == loader[l]
           a == [q EXCEPT !.pc = "query"]
           new == [a EXCEPT !.force = force]
<1>1. q \in Loader /\ q.pc = "idle" /\ Fits(l, q)
  BY LoaderFacts DEF Start
<1>2. loader' = [loader EXCEPT ![l] = new]
  BY DEF Start
<1>3. table' = table /\ others' = others /\ visits' = visits /\ crashes' = crashes
  BY DEF Start
<1>4. disturbed' = disturbed
  BY DEF Start
<1> HIDE DEF q
<1>5. "query" \in Places
  BY DEF Places
<1>6. a \in Loader /\ a.pc = "query" /\ a.at = q.at /\ a.id = q.id
  BY <1>1, <1>5, SetPc
<1> HIDE DEF a
<1>7. new \in Loader /\ new.pc = "query" /\ new.at = q.at /\ new.id = q.id
  BY <1>6, SetForce
<1> HIDE DEF new
<1>8. Fits(l, new) /\ Counts(new, table)
  BY <1>1, <1>7 DEF Fits, Counts, AtRow
<1>9. Onward(l, new)
  BY <1>1, <1>7 DEF Onward, Knows, AtRow, Covers, Past, q
<1>10. crashes' \in 0..MaxCrashes
  BY <1>3, LoaderFacts
<1> QED
  BY <1>2, <1>3, <1>4, <1>7, <1>8, <1>9, <1>10, LoaderStep

LEMMA QueryInv ==
  ASSUME IInv, NEW l \in Loaders, Query(l)
  PROVE  IInv'
<1> DEFINE q == loader[l]
           pc == IF q.force THEN "delete"
                 ELSE IF Present # {} \/ others THEN "skipped" ELSE "insert"
           a == [q EXCEPT !.existing = Present]
           new == [a EXCEPT !.pc = pc]
<1>1. q \in Loader /\ q.pc = "query" /\ q.at = 1 /\ q.id = l
  BY LoaderFacts DEF Query, Fits
<1>2. loader' = [loader EXCEPT ![l] = new]
  BY DEF Query
<1>3. table' = table /\ others' = others /\ visits' = visits /\ crashes' = crashes
  BY DEF Query
<1>4. disturbed' = disturbed
  BY DEF Query
<1>5. pc \in Places /\ pc \in {"delete", "skipped", "insert"} /\ (pc = "insert" => Present = {})
  BY DEF Places, Ended
<1>6. Present \in SUBSET (1..4)
  BY DemoFacts DEF Present
<1> HIDE DEF q, pc
<1>7. a \in Loader /\ a.existing = Present /\ a.at = q.at /\ a.id = q.id
  BY <1>1, <1>6, SetExisting
<1> HIDE DEF a
<1>8. new \in Loader /\ new.pc = pc /\ new.existing = Present /\ new.at = 1 /\ new.id = l
  BY <1>1, <1>5, <1>7, SetPc
<1> HIDE DEF new
<1>9. Fits(l, new) /\ Counts(new, table)
  BY <1>5, <1>8, DemoFacts DEF Fits, Counts, AtRow
<1>10. Onward(l, new)
  <2>1. Knows(new, table)
    BY <1>5, <1>8 DEF Knows, AtRow
  <2>2. ~AtRow(q) /\ \A i, j : ~Covers(q, table, j, i)
    BY <1>1 DEF AtRow, Covers
  <2>3. ASSUME NEW i \in DOMAIN DEMO \ Present, Past(new) PROVE Covers(new, table, 0, i)
    BY <1>5, <1>8, <2>3, DemoFacts DEF Past, Covers
  <2> QED
    BY <2>1, <2>2, <2>3 DEF Onward, q
<1>11. crashes' \in 0..MaxCrashes
  BY <1>3, LoaderFacts
<1> QED
  BY <1>2, <1>3, <1>4, <1>8, <1>9, <1>10, <1>11, LoaderStep

\* A run that ends: it was refused, or killed.
Stops(l, pc) == loader' = [loader EXCEPT ![l].pc = pc]

LEMMA StopFacts ==
  ASSUME IInv, NEW l \in Loaders, NEW pc \in {"failed", "killed"}, Stops(l, pc)
  PROVE  \E new \in Loader :
           /\ loader' = [loader EXCEPT ![l] = new]
           /\ new.pc = pc /\ ~AtRow(new) /\ Fits(l, new)
           /\ Counts(new, table) /\ Knows(new, table)
<1> DEFINE new == [loader[l] EXCEPT !.pc = pc]
<1>1. loader[l] \in Loader /\ loader[l].id = l
  BY LoaderFacts
<1>2. loader' = [loader EXCEPT ![l] = new]
  BY DEF Stops
<1>3. pc \in Places
  BY DEF Places, Ended
<1>4. new \in Loader /\ new.pc = pc /\ new.id = l
  BY <1>1, <1>3, SetPc
<1> HIDE DEF new
<1>5. ~AtRow(new) /\ Fits(l, new) /\ Counts(new, table) /\ Knows(new, table)
  BY <1>4 DEF AtRow, Fits, Counts, Knows
<1> QED
  BY <1>2, <1>4, <1>5

\* A refusal at a row that is there already, or is its own no longer.
LEMMA FailStep ==
  ASSUME IInv, NEW l \in Loaders, Stops(l, "failed"), table' = table, others' = others,
         visits' = visits, crashes' = crashes, disturbed' = disturbed,
         \/ Undisturbed => AtRow(loader[l]) /\ ~Own(loader[l], table)
         \/ loader[l].pc = "insert" /\ loader[l].at \in Present
  PROVE  IInv'
<1>1. PICK new \in Loader :
        /\ loader' = [loader EXCEPT ![l] = new]
        /\ new.pc = "failed" /\ ~AtRow(new) /\ Fits(l, new)
        /\ Counts(new, table) /\ Knows(new, table)
  BY StopFacts
<1>2. ASSUME Undisturbed PROVE Onward(l, new)
  <2>1. Begun
    BY <1>2 DEF Begun, Past, AtRow
  <2>2. CASE AtRow(loader[l]) /\ ~Own(loader[l], table)
    <3>1. \A i, j : ~Covers(loader[l], table, j, i)
      BY <2>2 DEF Covers, AtRow
    <3> QED
      BY <1>1, <2>1, <2>2, <3>1 DEF Onward
  <2>3. CASE loader[l].pc = "insert" /\ loader[l].at \in Present
    <3>1. ASSUME NEW i \in DOMAIN DEMO \ Present, NEW j \in {0} \cup Present,
                 j < i, Covers(loader[l], table, j, i)
          PROVE  \E z \in Loaders \ {l} : Covers(loader[z], table, j, i)
      <4>1. i \in 1..4 /\ j \in 0..4 /\ loader[l].at \in 1..4
        BY <2>3, DemoFacts DEF Present
      <4>2. j < loader[l].at /\ loader[l].at < i
        <5>1. loader[l].at # i
          BY <2>3
        <5>2. j < loader[l].at /\ loader[l].at <= i
          BY <2>3, <3>1 DEF Covers, AtRow
        <5> QED
          BY <4>1, <5>1, <5>2
      <4>3. PICK z \in Loaders : Covers(loader[z], table, loader[l].at, i)
        BY <1>2, <2>3, <4>2 DEF Undisturbed, Covered, Cover
      <4>4. z # l
        BY <2>3, <4>1, <4>3 DEF Covers, AtRow
      <4>5. loader[z].at \in 1..5
        BY LoaderFacts
      <4>6. Covers(loader[z], table, j, i)
        BY <4>1, <4>2, <4>3, <4>5 DEF Covers
      <4> QED
        BY <4>4, <4>6
    <3>2. ~AtRow(loader[l])
      BY <2>3 DEF AtRow
    <3> QED
      BY <1>1, <2>1, <3>1, <3>2 DEF Onward
  <2> QED
    BY <1>2, <2>2, <2>3
<1>3. crashes' \in 0..MaxCrashes
  BY LoaderFacts
<1> QED
  BY <1>1, <1>2, <1>3, LoaderStep

LEMMA KilledInv ==
  ASSUME IInv, NEW l \in Loaders, Killed(l)
  PROVE  IInv'
<1>1. PICK new \in Loader :
        /\ loader' = [loader EXCEPT ![l] = new]
        /\ new.pc = "killed" /\ ~AtRow(new) /\ Fits(l, new)
        /\ Counts(new, table) /\ Knows(new, table)
  BY StopFacts DEF Killed, Stops
<1>2. /\ table' = table /\ others' = others /\ visits' = visits
      /\ crashes' = crashes + 1 /\ crashes < MaxCrashes
  BY DEF Killed
<1>3. disturbed' = TRUE
  BY DEF Killed
<1>4. crashes' \in 0..MaxCrashes
  BY <1>2, LoaderFacts, Constants
<1> QED
  BY <1>1, <1>2, <1>3, <1>4, LoaderStep

\* db.refresh, on a row that is still the loader's own.
LEMMA RefreshInv ==
  ASSUME IInv, NEW l \in Loaders, Refresh(l)
  PROVE  IInv'
<1>1. /\ table' = table /\ others' = others /\ visits' = visits
      /\ crashes' = crashes
  BY DEF Refresh
<1>2. disturbed' = disturbed
  BY DEF Refresh
<1>3. loader[l].pc = "refresh" /\ AtRow(loader[l])
  BY DEF Refresh, AtRow
<1>4. CASE ~Own(loader[l], table)
  <2>1. Stops(l, "failed")
    BY <1>4 DEF Refresh, Mine, Own, Stops
  <2> QED
    BY <1>1, <1>2, <1>3, <1>4, <2>1, FailStep
<1>5. CASE Own(loader[l], table)
  <2> DEFINE q == loader[l]
             row == table[q.at]
             a == [q EXCEPT !.pc = "scan"]
             new == [a EXCEPT !.status = row.status]
  <2>1. loader' = [loader EXCEPT ![l] = new]
    BY <1>5 DEF Refresh, Mine, Own
  <2>2. q \in Loader /\ q.id = l /\ Fits(l, q) /\ Counts(q, table)
    BY LoaderFacts
  <2>3. q.at \in DOMAIN DEMO
    BY <1>3, <2>2 DEF Fits
  <2>4. row \in Row /\ row.status \in Statuses
    <3>1. row \in Row
      BY <1>5, <2>3, PresentFacts DEF IInv, Own
    <3> QED
      BY <3>1, RowFacts
  <2>5. Own(q, table)
    BY <1>5
  <2>6. AtRow(q) /\ q = loader[l]
    BY <1>3
  <2>7. Undisturbed => Knows(q, table)
    BY DEF Undisturbed
  <2>8. row = table[q.at] /\ "scan" \in Places
    BY DEF Places
  <2> HIDE DEF q, row
  <2>9. /\ a \in Loader /\ a.pc = "scan" /\ a.existing = q.existing /\ a.at = q.at
        /\ a.id = q.id /\ a.n = q.n
    BY <2>2, <2>8, SetPc
  <2> HIDE DEF a
  <2>10. /\ new \in Loader /\ new.pc = "scan" /\ new.existing = q.existing /\ new.at = q.at
         /\ new.id = q.id /\ new.n = q.n /\ new.status = row.status
    BY <2>4, <2>9, SetStatus
  <2> HIDE DEF new
  <2>11. AtRow(new) /\ Own(new, table)
    BY <2>5, <2>10 DEF AtRow, Own
  <2>12. Fits(l, new) /\ Counts(new, table)
    BY <2>2, <2>5, <2>6, <2>10, <2>11 DEF Fits, Counts, AtRow
  <2>13. ASSUME Undisturbed PROVE Onward(l, new)
    <3>1. Knows(new, table)
      BY <2>5, <2>6, <2>7, <2>8, <2>10, <2>13 DEF Knows
    <3>2. \A i, j : Covers(q, table, j, i) => Covers(new, table, j, i)
      BY <2>6, <2>10, <2>11 DEF Covers, AtRow
    <3>3. Begun
      BY <1>3 DEF Begun, Past
    <3> QED
      BY <2>6, <2>10, <2>11, <3>1, <3>2, <3>3 DEF Onward
  <2>14. crashes' \in 0..MaxCrashes
    BY <1>1, LoaderFacts
  <2> QED
    BY <1>1, <1>2, <2>1, <2>10, <2>12, <2>13, <2>14, LoaderStep
<1> QED
  BY <1>4, <1>5

\* The loop comes to the next shipment.
LEMMA InHandFacts ==
  ASSUME IInv, NEW l \in Loaders, NEW j \in 1..5
  PROVE  LET new == InHand(l, j) IN
         /\ new \in Loader /\ new.pc = IF j \in DOMAIN DEMO THEN "insert" ELSE "loaded"
         /\ new.existing = loader[l].existing /\ new.at = j /\ new.id = l /\ new.n = 0
<1> DEFINE q == loader[l]
           pc == IF j \in DOMAIN DEMO THEN "insert" ELSE "loaded"
           a == [q EXCEPT !.at = j]
           b == [a EXCEPT !.n = 0]
           c == [b EXCEPT !.status = "CREATED"]
           d == [c EXCEPT !.pc = pc]
<1>1. InHand(l, j) = d
  BY DEF InHand
<1>2. q \in Loader /\ q.id = l
  BY LoaderFacts
<1>3. pc \in Places /\ "CREATED" \in Statuses /\ 0 \in Nat
  BY DEF Places, Ended, Statuses
<1>4. pc = IF j \in DOMAIN DEMO THEN "insert" ELSE "loaded"
  OBVIOUS
<1>5. q = loader[l]
  OBVIOUS
<1> HIDE DEF q, pc
<1>6. a \in Loader /\ a.existing = q.existing /\ a.at = j /\ a.id = l
  BY <1>2, SetAt
<1> HIDE DEF a
<1>7. b \in Loader /\ b.existing = q.existing /\ b.at = j /\ b.id = l /\ b.n = 0
  BY <1>3, <1>6, SetN
<1> HIDE DEF b
<1>8. c \in Loader /\ c.existing = q.existing /\ c.at = j /\ c.id = l /\ c.n = 0
  BY <1>3, <1>7, SetStatus
<1> HIDE DEF c
<1>9. d \in Loader /\ d.existing = q.existing /\ d.at = j /\ d.id = l /\ d.n = 0 /\ d.pc = pc
  BY <1>3, <1>8, SetPc
<1> QED
  BY <1>1, <1>4, <1>5, <1>9

\* The row is complete, or somebody has wiped it.
LEMMA NextShipmentInv ==
  ASSUME IInv, NEW l \in Loaders, NextShipment(l)
  PROVE  IInv'
<1>1. /\ table' = table /\ others' = others /\ visits' = visits
      /\ crashes' = crashes
  BY DEF NextShipment
<1>2. disturbed' = disturbed
  BY DEF NextShipment
<1>3. /\ loader[l].pc = "scan" /\ AtRow(loader[l])
      /\ loader[l].n = Len(DEMO[loader[l].at])
  BY DEF NextShipment, AtRow
<1>4. loader[l].existing = {} /\ loader[l].at \in 1..4
  BY <1>3, LoaderFacts, DemoFacts DEF Fits
<1> DEFINE at == loader[l].at
           j == at + 1
           new == InHand(l, j)
<1>5. j \in 1..5 /\ j = at + 1 /\ at \in 1..4
  BY <1>4
<1>6. loader' = [loader EXCEPT ![l] = new]
  BY <1>4, <1>5, FollowingIs DEF NextShipment
<1> HIDE DEF j
<1>7. /\ new \in Loader /\ new.pc = IF j \in DOMAIN DEMO THEN "insert" ELSE "loaded"
      /\ new.existing = {} /\ new.at = j /\ new.id = l /\ new.n = 0
  BY <1>4, <1>5, InHandFacts
<1> HIDE DEF new
<1>8. ~AtRow(new)
  BY <1>7 DEF AtRow
<1>9. Fits(l, new) /\ Counts(new, table) /\ Knows(new, table)
  BY <1>7, <1>8 DEF Fits, Counts, Knows
<1>10. Onward(l, new)
  <2>1. ~(loader[l].n < Len(DEMO[loader[l].at]))
    BY <1>3, <1>4, DemoFacts
  <2>2. Begun
    BY <1>3 DEF Begun, Past
  <2>3. ASSUME NEW i \in 1..4, NEW k \in 0..4, Covers(loader[l], table, k, i)
        PROVE  Covers(new, table, k, i)
    <3>1. k <= at /\ at < i
      BY <1>3, <2>3 DEF Covers
    <3>2. j \in 1..4 /\ k < j /\ j <= i
      BY <1>5, <3>1
    <3>3. new.pc = "insert"
      BY <1>7, <3>2, DemoFacts
    <3> QED
      BY <1>7, <3>2, <3>3 DEF Covers
  <2>4. Present \subseteq 1..4
    BY DemoFacts DEF Present
  <2> QED
    BY <1>9, <2>1, <2>2, <2>3, <2>4, DemoFacts DEF Onward
<1>11. crashes' \in 0..MaxCrashes
  BY <1>1, LoaderFacts
<1> QED
  BY <1>1, <1>2, <1>6, <1>7, <1>9, <1>10, <1>11, LoaderStep

-----------------------------------------------------------------------------
\* A loader writes the row at a, which was missing or its own, and is to refresh it.

\* Where it stood before.
MayWrite(l, a) ==
  /\ loader[l].at = a
  /\ \/ loader[l].pc = "insert" /\ table[a] = Absent
     \/ AtRow(loader[l]) /\ Own(loader[l], table)

\* What it writes, and where it stands then.
Writes(l, a, row, new) ==
  /\ table' = [table EXCEPT ![a] = row] /\ loader' = [loader EXCEPT ![l] = new]
  /\ others' = others /\ visits' = visits /\ crashes' = crashes
  /\ row.id = l
  /\ new.pc = "refresh" /\ new.at = a /\ new.id = l /\ new.existing = {}

LEMMA WriteStep ==
  ASSUME IInv, NEW l \in Loaders, NEW a \in 1..4, NEW row \in Row, NEW new \in Loader,
         MayWrite(l, a), Writes(l, a, row, new), disturbed' = disturbed,
         new.n <= Len(DEMO[a]), Cardinality(Loaded(row.scans)) = new.n,
         Unmixed(row, DEMO[a]),
         Undisturbed => Begins(row, DEMO[a]) /\ new.n = Len(row.scans)
  PROVE  IInv'
<1>1. /\ row.id = l /\ new.pc = "refresh" /\ new.at = a /\ new.id = l /\ new.existing = {}
      /\ AtRow(new) /\ row # Absent
  BY RowFacts DEF Writes, AtRow
<1>2. \A z \in Loaders : loader'[z] = IF z = l THEN new ELSE loader[z]
  BY LoaderFacts DEF Writes
<1>3. \A i \in 1..4 : table'[i] = IF i = a THEN row ELSE table[i]
  BY DemoFacts DEF IInv, TypeOK, Writes
<1>4. TypeOK'
  <2>1. disturbed' \in BOOLEAN /\ others' \in BOOLEAN
    BY DEF IInv, TypeOK, Writes
  <2>2. visits' \in 0..MaxVisits /\ crashes' \in 0..MaxCrashes
    BY DEF IInv, TypeOK, Writes
  <2>3. table' \in [DOMAIN DEMO -> Row \cup {Absent}] /\ loader' \in [Loaders -> Loader]
    BY DEF IInv, TypeOK, Writes
  <2> QED
    BY <2>1, <2>2, <2>3 DEF TypeOK
<1>5. Present' = Present \cup {a}
  BY <1>1, <1>3, DemoFacts DEF Present
<1>6. ASSUME NEW z \in Loaders \ {l}, AtRow(loader[z])
      PROVE  /\ Own(loader[z], table') <=> Own(loader[z], table)
             /\ Own(loader[z], table) => table'[loader[z].at] = table[loader[z].at]
  <2>1. loader[z].id = z /\ loader[z].at \in 1..4
    BY <1>6, LoaderFacts, DemoFacts DEF Fits, AtRow
  <2>2. loader[z].at = a => ~Own(loader[z], table) /\ ~Own(loader[z], table')
    <3>1. table[a] = Absent \/ table[a].id = l
      BY LoaderFacts DEF MayWrite, Own
    <3> QED
      BY <1>1, <1>3, <2>1, <3>1 DEF Own
  <2> QED
    BY <1>3, <2>1, <2>2 DEF Own
<1>7. Own(new, table') /\ table'[new.at] = row
  BY <1>1, <1>3 DEF Own
<1>8. \A z \in Loaders : Fits(z, loader'[z]) /\ Counts(loader'[z], table')
  <2>1. Fits(l, new) /\ Counts(new, table')
    BY <1>1, <1>7, DemoFacts DEF Fits, Counts
  <2>2. ASSUME NEW z \in Loaders \ {l} PROVE Fits(z, loader[z]) /\ Counts(loader[z], table')
    BY <1>6, LoaderFacts DEF Counts
  <2> QED
    BY <1>2, <2>1, <2>2
<1>9. HistoriesUnmixed'
  <2>1. ASSUME NEW i \in Present' PROVE Unmixed(table'[i], DEMO[i])
    BY <1>3, <1>5, DemoFacts DEF IInv, HistoriesUnmixed, Present
  <2> QED
    BY <2>1 DEF HistoriesUnmixed
<1>10. ASSUME Undisturbed PROVE Undisturbed'
  <2>1. Whole'
    <3>1. ASSUME NEW i \in Present'
          PROVE  Begins(table'[i], DEMO[i]) /\ GoesOn(i, table'[i], loader'[table'[i].id])
      <4>1. CASE i = a
        BY <1>1, <1>2, <1>3, <1>10, <4>1 DEF GoesOn
      <4>2. CASE i # a
        <5>1. i \in Present /\ table'[i] = table[i]
          BY <1>3, <1>5, <4>2, DemoFacts DEF Present
        <5>2. Begins(table[i], DEMO[i]) /\ GoesOn(i, table[i], loader[table[i].id])
          BY <1>10, <5>1 DEF Undisturbed, Whole
        <5>3. table[i].id \in Loaders
          BY <5>1, PresentFacts, RowFacts DEF IInv, Present
        <5>4. table[i].id = l => Len(table[i].scans) = Len(DEMO[i])
          BY <4>2, <5>2 DEF GoesOn, MayWrite
        <5> QED
          BY <1>2, <5>1, <5>2, <5>3, <5>4 DEF GoesOn
      <4> QED
        BY <4>1, <4>2
    <3> QED
      BY <3>1 DEF Whole
  <2>2. \A z \in Loaders : Knows(loader'[z], table')
    <3>1. Knows(new, table')
      BY <1>1, <1>7, <1>10 DEF Knows
    <3>2. ASSUME NEW z \in Loaders \ {l} PROVE Knows(loader[z], table')
      BY <1>6, <1>10 DEF Knows, Undisturbed
    <3> QED
      BY <1>2, <3>1, <3>2
  <2>3. Covered'
    <3>1. ASSUME NEW i \in 1..4, i \notin Present, i # a, NEW j \in 0..4, Cover(j, i)
          PROVE  Cover(j, i)'
      <4>1. PICK z \in Loaders : Covers(loader[z], table, j, i)
        BY <3>1 DEF Cover
      <4>2. Covers(loader'[z], table', j, i)
        <5>1. CASE z = l
          <6>1. j <= a /\ a < i
            BY <3>1, <4>1, <5>1 DEF MayWrite, Covers, AtRow
          <6> QED
            BY <1>1, <1>2, <1>7, <5>1, <6>1 DEF Covers
        <5>2. CASE z # l
          BY <1>2, <1>6, <4>1, <5>2 DEF Covers
        <5> QED
          BY <5>1, <5>2
      <4> QED
        BY <4>2 DEF Cover
    <3>2. Begun
      BY DEF Begun, Past, MayWrite, AtRow
    <3>3. ASSUME NEW i \in DOMAIN DEMO \ Present'
          PROVE  Cover(0, i)' /\ \A j \in Present' : j < i => Cover(j, i)'
      <4>1. i \in 1..4 /\ i \notin Present /\ i # a
        BY <1>5, <3>3, DemoFacts
      <4>2. Cover(0, i) /\ \A j \in Present : j < i => Cover(j, i)
        BY <1>10, <3>2, <4>1, DemoFacts DEF Undisturbed, Covered
      <4>3. Cover(0, i)'
        BY <3>1, <4>1, <4>2
      <4>4. ASSUME NEW j \in Present', j < i PROVE Cover(j, i)'
        <5>1. CASE j = a
          <6>1. Covers(loader'[l], table', j, i)
            BY <1>1, <1>2, <1>7, <4>4, <5>1 DEF Covers
          <6> QED
            BY <6>1 DEF Cover
        <5>2. CASE j # a
          <6>1. j \in Present /\ j \in 0..4
            BY <1>5, <5>2, DemoFacts DEF Present
          <6> QED
            BY <3>1, <4>1, <4>2, <4>4, <6>1
        <5> QED
          BY <5>1, <5>2
      <4> QED
        BY <4>3, <4>4
    <3> QED
      BY <3>3 DEF Covered
  <2> QED
    BY <2>1, <2>2, <2>3 DEF Undisturbed
<1> QED
  BY <1>4, <1>8, <1>9, <1>10 DEF IInv

LEMMA InsertInv ==
  ASSUME IInv, NEW l \in Loaders, Insert(l)
  PROVE  IInv'
<1> DEFINE j == loader[l].at
           row == [id |-> l, status |-> "CREATED", scans |-> <<>>]
           q == InHand(l, j)
           new == [q EXCEPT !.pc = "refresh"]
<1>1. loader[l].pc = "insert" /\ loader[l].existing = {} /\ j \in 1..4
  BY LoaderFacts, DemoFacts DEF Insert, Fits
<1>2. Following(l, j) = j /\ j \in DOMAIN DEMO
  BY <1>1, FollowingIs, DemoFacts
<1>3. disturbed' = disturbed
  BY DEF Insert
<1>4. others' = others /\ visits' = visits /\ crashes' = crashes
  BY DEF Insert
<1>5. CASE table[j] # Absent
  <2>1. Stops(l, "failed") /\ table' = table
    BY <1>2, <1>5 DEF Insert, Stops
  <2>2. loader[l].at \in Present
    BY <1>2, <1>5 DEF Present
  <2> QED
    BY <1>1, <1>3, <1>4, <2>1, <2>2, FailStep
<1>6. CASE table[j] = Absent
  <2>1. Inserted(l, j)
    BY <1>2, <1>6 DEF Insert
  <2>2. table' = [table EXCEPT ![j] = row] /\ loader' = [loader EXCEPT ![l] = new]
    BY <2>1 DEF Inserted
  <2>3. MayWrite(l, j)
    BY <1>1, <1>6 DEF MayWrite
  <2>4. row.scans = <<>> /\ row.id = l /\ row.status = "CREATED"
    OBVIOUS
  <2>5. row \in Row
    <3>1. <<>> \in Seq(Scan) /\ "CREATED" \in Statuses
      BY DEF Statuses
    <3> QED
      BY <3>1 DEF Row, Scan
  <2> HIDE DEF row, j
  <2>6. /\ q \in Loader /\ q.existing = {} /\ q.at = j /\ q.id = l /\ q.n = 0
    BY <1>1, InHandFacts
  <2>7. "refresh" \in Places
    BY DEF Places
  <2> HIDE DEF q
  <2>8. /\ new \in Loader /\ new.pc = "refresh" /\ new.existing = {} /\ new.at = j
        /\ new.id = l /\ new.n = 0
    BY <2>6, <2>7, SetPc
  <2> HIDE DEF new
  <2>9. Writes(l, j, row, new)
    BY <1>4, <2>2, <2>4, <2>8 DEF Writes
  <2>10. Loaded(row.scans) = {} /\ Len(row.scans) = 0
    BY <2>4 DEF Loaded
  <2>11. Cardinality(Loaded(row.scans)) = new.n
    BY <2>8, <2>10, FS_EmptySet
  <2>12. Unmixed(row, DEMO[j])
    BY <2>10 DEF Unmixed
  <2>13. new.n <= Len(DEMO[j])
    BY <1>1, <2>8, DemoFacts
  <2>14. Begins(row, DEMO[j]) /\ new.n = Len(row.scans)
    BY <2>4, <2>8, <2>10, <2>13 DEF Begins, StatusAfter
  <2> QED
    BY <1>1, <1>3, <2>3, <2>5, <2>8, <2>9, <2>11, <2>12, <2>13, <2>14, WriteStep
<1> QED
  BY <1>5, <1>6

\* While nothing disturbs the table, the rules accept the next scan of a row that is
\* the loader's own.
LEMMA NextIsLegal ==
  ASSUME IInv, Undisturbed, NEW l \in Loaders, loader[l].pc = "scan",
         Own(loader[l], table), loader[l].n + 1 \in DOMAIN DEMO[loader[l].at]
  PROVE  LET i == loader[l].at
             n == loader[l].n
         IN  /\ Legal(loader[l].status, DEMO[i][n + 1])
             /\ Begins(table[i], DEMO[i])
             /\ Len(table[i].scans) = n
             /\ loader[l].status = table[i].status
<1> DEFINE i == loader[l].at
           n == loader[l].n
<1>1. i \in 1..4 /\ n \in Nat /\ AtRow(loader[l])
  BY LoaderFacts, DemoFacts DEF Fits, AtRow
<1>2. i \in Present
  BY <1>1, DemoFacts DEF Own, Present
<1>3. Begins(table[i], DEMO[i])
  BY <1>2 DEF Undisturbed, Whole
<1>4. Len(table[i].scans) = n /\ loader[l].status = table[i].status
  BY <1>1 DEF Undisturbed, Knows
<1>5. loader[l].status = StatusAfter(DEMO[i], n)
  BY <1>3, <1>4 DEF Begins
<1>6. n < Len(DEMO[i])
  BY SMTT(30), <1>1, DemoFacts
<1>7. Legal(loader[l].status, DEMO[i][n + 1])
  BY <1>1, <1>5, <1>6, DemoLegal
<1> QED
  BY <1>3, <1>4, <1>7

LEMMA StoredStatusType ==
  ASSUME NEW loaded, NEW type \in EventTypes, NEW stored \in Statuses
  PROVE  /\ StoredStatus(loaded, type, stored) \in Statuses
         /\ loaded = stored => StoredStatus(loaded, type, stored) = EventToStatus[type]
BY DEF StoredStatus, EventToStatus, EventTypes, Statuses

LEMMA AddScanInv ==
  ASSUME IInv, NEW l \in Loaders, AddScan(l)
  PROVE  IInv'
<1> DEFINE q == loader[l]
           i == q.at
           k == q.n + 1
           type == DEMO[i][k]
           scan == [type |-> type, by |-> l]
           status == StoredStatus(q.status, type, table[i].status)
           row == Extended(table[i], status, scan)
           a == [q EXCEPT !.pc = "refresh"]
           new == [a EXCEPT !.n = k]
<1>1. /\ q.pc = "scan" /\ AtRow(q) /\ k \in DOMAIN DEMO[i]
  BY DEF AddScan, AtRow
<1>2. /\ q \in Loader /\ q.id = l /\ q.n \in Nat /\ q.existing = {} /\ i \in 1..4
      /\ Counts(q, table)
  BY <1>1, LoaderFacts, DemoFacts DEF Fits
<1>3. disturbed' = disturbed
  BY DEF AddScan
<1>4. others' = others /\ visits' = visits /\ crashes' = crashes
  BY DEF AddScan
<1>5. k <= Len(DEMO[i]) /\ k = q.n + 1 /\ k \in Nat /\ type \in EventTypes
  <2>1. k \in 1..Len(DEMO[i]) /\ DEMO[i] \in Seq(EventTypes) /\ Len(DEMO[i]) \in Nat
    BY <1>1, <1>2, DemoFacts
  <2>2. DEMO[i][k] \in EventTypes
    BY <2>1
  <2>3. k = q.n + 1
    OBVIOUS
  <2> HIDE DEF k
  <2> QED
    BY <1>2, <2>1, <2>2, <2>3
<1>6. CASE ~(Legal(q.status, type) /\ Mine(l))
  <2>1. Stops(l, "failed") /\ table' = table
    BY <1>6 DEF AddScan, Stops
  <2>2. Undisturbed => ~Own(q, table)
    BY <1>1, <1>6, NextIsLegal DEF Mine, Own
  <2> QED
    BY <1>1, <1>3, <1>4, <2>1, <2>2, FailStep
<1>7. CASE Legal(q.status, type) /\ Mine(l)
  <2>1. Own(q, table)
    BY <1>7 DEF Mine, Own
  <2>2. table' = [table EXCEPT ![i] = row]
    BY <1>7 DEF AddScan, Recorded, Extended
  <2>3. loader' = [loader EXCEPT ![l] = new]
    BY <1>7 DEF AddScan
  <2>4. MayWrite(l, i)
    BY <1>1, <2>1 DEF MayWrite
  <2>5. table[i] \in Row /\ table[i].id = l
    BY <1>2, <2>1, PresentFacts, DemoFacts DEF IInv, Own
  <2>6. scan \in Scan /\ scan.by = l /\ scan.type = type
    BY <1>5 DEF Scan
  <2>7. Undisturbed => /\ Begins(table[i], DEMO[i]) /\ Len(table[i].scans) = q.n
                       /\ q.status = table[i].status
    BY <1>1, <2>1, NextIsLegal
  <2>8. /\ status \in Statuses
        /\ q.status = table[i].status => status = EventToStatus[type]
    BY <1>5, <2>5, RowFacts, StoredStatusType
  <2>9. type = DEMO[i][k] /\ i = q.at /\ q = loader[l]
    OBVIOUS
  <2> HIDE DEF scan, status, type, i, k, q
  <2>10. row \in Row /\ row.id = l /\ row.status = status /\ row.scans = Append(table[i].scans, scan)
    BY <2>5, <2>6, <2>8, ExtendedFacts
  <2> HIDE DEF row
  <2>11. "refresh" \in Places
    BY DEF Places
  <2>12. a \in Loader /\ a.pc = "refresh" /\ a.existing = {} /\ a.at = i /\ a.id = l
    BY <1>2, <2>9, <2>11, SetPc
  <2> HIDE DEF a
  <2>13. /\ new \in Loader /\ new.pc = "refresh" /\ new.existing = {} /\ new.at = i
         /\ new.id = l /\ new.n = k
    BY <1>5, <2>12, SetN
  <2> HIDE DEF new
  <2>14. Writes(l, i, row, new)
    BY <1>4, <2>2, <2>3, <2>10, <2>13 DEF Writes
  <2>15. Cardinality(Loaded(table[i].scans)) = q.n
    BY <1>1, <1>2, <2>1, <2>9 DEF Counts
  <2>16. Unmixed(table[i], DEMO[i])
    BY <1>2, <2>1, <2>9, DemoFacts DEF IInv, HistoriesUnmixed, Present, Own
  <2>17. DEMO[i] \in Seq(EventTypes) /\ DOMAIN DEMO[i] = 1..Len(DEMO[i])
    BY <1>2, DemoFacts
  <2>18. Unmixed(row, DEMO[i]) /\ Cardinality(Loaded(row.scans)) = k
    <3>1. scan.by # Visitor /\ scan.by = table[i].id
      BY <2>5, <2>6, Constants
    <3>2. Cardinality(Loaded(table[i].scans)) + 1 = k /\ k \in DOMAIN DEMO[i]
      BY <1>1, <1>5, <2>15
    <3>3. /\ Cardinality(Loaded(table[i].scans)) + 1 \in DOMAIN DEMO[i]
          /\ scan.type = DEMO[i][Cardinality(Loaded(table[i].scans)) + 1]
      BY <2>6, <2>9, <3>2
    <3>a. Continues(scan, table[i], DEMO[i])
      BY <3>1, <3>3 DEF Continues
    <3>4. row.id = table[i].id
      BY <2>5, <2>10
    <3>5. /\ Unmixed(row, DEMO[i])
          /\ Cardinality(Loaded(row.scans)) = Cardinality(Loaded(table[i].scans)) + 1
      BY <2>5, <2>6, <2>10, <2>16, <2>17, <3>1, <3>a, <3>4, UnmixedMore
    <3> QED
      BY <3>2, <3>5
  <2>19. ASSUME Undisturbed PROVE Begins(row, DEMO[i]) /\ k = Len(row.scans)
    <3>1. /\ Begins(table[i], DEMO[i]) /\ Len(table[i].scans) = q.n
          /\ status = EventToStatus[type]
      BY <2>7, <2>8, <2>19
    <3>2. table[i].scans \in Seq(Scan)
      BY <2>5, RowFacts
    <3>3. /\ Len(row.scans) = k /\ row.scans[k] = scan
          /\ \A m \in 1..q.n : row.scans[m] = table[i].scans[m]
      BY <1>2, <1>5, <2>6, <2>10, <3>1, <3>2
    <3>4. ASSUME NEW m \in 1..k PROVE row.scans[m].type = DEMO[i][m]
      <4>1. CASE m = k
        BY <2>6, <2>9, <3>3, <4>1
      <4>2. CASE m # k
        <5>1. m \in 1..q.n
          BY <1>2, <1>5, <4>2
        <5> QED
          BY <3>1, <3>3, <5>1 DEF Begins
      <4> QED
        BY <4>1, <4>2
    <3>5. row.status = StatusAfter(DEMO[i], k)
      BY <1>2, <1>5, <2>9, <2>10, <3>1 DEF StatusAfter
    <3> QED
      BY <1>5, <3>3, <3>4, <3>5 DEF Begins
  <2> QED
    BY <1>2, <1>3, <1>5, <2>4, <2>10, <2>13, <2>14, <2>18, <2>19, WriteStep
<1> QED
  BY <1>6, <1>7

-----------------------------------------------------------------------------
\* --force wipes the table, and has everything before it.
LEMMA DeleteInv ==
  ASSUME IInv, NEW l \in Loaders, Delete(l)
  PROVE  IInv'
<1> DEFINE q == loader[l]
           a == [q EXCEPT !.pc = "insert"]
           new == [a EXCEPT !.existing = {}]
<1>1. loader' = [loader EXCEPT ![l] = new]
  BY DEF Delete
<1>2. q \in Loader /\ q.id = l /\ q.at = 1
  BY LoaderFacts DEF Delete, Fits
<1>3. /\ visits' = visits /\ crashes' = crashes
      /\ table' = [i \in DOMAIN DEMO |-> Absent]
  BY DEF Delete
<1>4. others' = FALSE /\ disturbed' = FALSE
  BY DEF Delete
<1> HIDE DEF q
<1>5. "insert" \in Places /\ {} \in SUBSET (1..4)
  BY DEF Places
<1>6. a \in Loader /\ a.pc = "insert" /\ a.at = 1 /\ a.id = l
  BY <1>2, <1>5, SetPc
<1> HIDE DEF a
<1>7. new \in Loader /\ new.pc = "insert" /\ new.existing = {} /\ new.at = 1 /\ new.id = l
  BY <1>5, <1>6, SetExisting
<1> HIDE DEF new
<1>8. \A z \in Loaders : loader'[z] = IF z = l THEN new ELSE loader[z]
  BY <1>1, LoaderFacts
<1>9. Present' = {} /\ \A i \in 1..4 : table'[i] = Absent
  BY <1>3, DemoFacts DEF Present
<1>10. TypeOK'
  <2>1. others' \in BOOLEAN /\ disturbed' \in BOOLEAN
    BY <1>4
  <2>2. loader' \in [Loaders -> Loader] /\ visits' \in 0..MaxVisits /\ crashes' \in 0..MaxCrashes
    BY <1>1, <1>3, <1>7 DEF IInv, TypeOK
  <2> QED
    BY <1>3, <2>1, <2>2 DEF TypeOK
<1>11. \A z \in Loaders : AtRow(loader'[z]) => ~Own(loader'[z], table')
  <2>1. \A z \in Loaders : AtRow(loader[z]) => loader[z].at \in 1..4
    BY LoaderFacts, DemoFacts DEF Fits, AtRow
  <2>2. ~AtRow(new)
    BY <1>7 DEF AtRow
  <2> QED
    BY <1>8, <1>9, <2>1, <2>2 DEF Own
<1>12. \A z \in Loaders : /\ Fits(z, loader'[z]) /\ Counts(loader'[z], table')
                          /\ Knows(loader'[z], table')
  <2>1. Fits(l, new)
    BY <1>7, DemoFacts DEF Fits, AtRow
  <2>2. \A z \in Loaders : Fits(z, loader'[z])
    BY <1>8, <2>1 DEF IInv
  <2> QED
    BY <1>11, <2>2 DEF Counts, Knows
<1>13. HistoriesUnmixed' /\ Whole'
  BY <1>9 DEF HistoriesUnmixed, Whole
<1>14. Covered'
  <2>1. ASSUME NEW i \in 1..4 PROVE Cover(0, i)'
    <3>1. Covers(loader'[l], table', 0, i)
      BY <1>7, <1>8 DEF Covers
    <3> QED
      BY <3>1 DEF Cover
  <2> QED
    BY <1>9, <2>1, DemoFacts DEF Covered
<1> QED
  BY <1>10, <1>12, <1>13, <1>14 DEF IInv, Undisturbed

\* A visitor's scan is no loader's.
LEMMA VisitorScansInv ==
  ASSUME IInv, NEW i \in DOMAIN DEMO, NEW type \in VisitTypes, VisitorScans(i, type)
  PROVE  IInv'
<1> DEFINE scan == [type |-> type, by |-> Visitor]
           status == StoredStatus(table[i].status, type, table[i].status)
           row == Extended(table[i], status, scan)
<1>1. i \in 1..4 /\ table[i] \in Row /\ i \in Present
  BY DemoFacts, PresentFacts DEF IInv, VisitorScans
<1>2. table' = [table EXCEPT ![i] = row]
  BY DEF VisitorScans, Recorded, Extended
<1>3. loader' = loader /\ crashes' = crashes /\ visits' = visits + 1 /\ visits < MaxVisits
  BY DEF VisitorScans
<1>4. others' = others
  BY DEF VisitorScans
<1>5. disturbed' = TRUE
  BY DEF VisitorScans
<1>6. scan \in Scan /\ scan.by = Visitor
  BY Constants DEF Scan
<1>7. status \in Statuses
  BY <1>1, RowFacts, StoredStatusType, Constants
<1> HIDE DEF scan, status
<1>8. row \in Row /\ row.id = table[i].id /\ row.scans = Append(table[i].scans, scan)
  BY <1>1, <1>6, <1>7, ExtendedFacts
<1> HIDE DEF row
<1>9. /\ Unmixed(row, DEMO[i])
      /\ Cardinality(Loaded(row.scans)) = Cardinality(Loaded(table[i].scans))
  <2>1. Unmixed(table[i], DEMO[i]) /\ DEMO[i] \in Seq(EventTypes)
    BY <1>1, DemoFacts DEF IInv, HistoriesUnmixed
  <2> QED
    BY <1>1, <1>6, <1>8, <2>1, UnmixedMore DEF Continues
<1>10. \A j \in 1..4 : table'[j] = IF j = i THEN row ELSE table[j]
  BY <1>1, <1>2, DemoFacts DEF IInv, TypeOK
<1>11. TypeOK'
  <2>1. others' \in BOOLEAN /\ disturbed' \in BOOLEAN
    BY <1>4, <1>5 DEF IInv, TypeOK
  <2>2. visits' \in 0..MaxVisits
    BY <1>3, Constants DEF IInv, TypeOK
  <2>3. table' \in [DOMAIN DEMO -> Row \cup {Absent}]
    BY <1>2, <1>8 DEF IInv, TypeOK
  <2> QED
    BY <1>3, <2>1, <2>2, <2>3 DEF IInv, TypeOK
<1>12. row # Absent /\ table[i] # Absent
  BY <1>1, <1>8, RowFacts
<1>13. ASSUME NEW z \in Loaders PROVE Fits(z, loader'[z]) /\ Counts(loader'[z], table')
  <2>1. Fits(z, loader[z]) /\ Counts(loader[z], table)
    BY LoaderFacts
  <2>2. AtRow(loader[z]) => loader[z].at \in 1..4
    BY <2>1, DemoFacts DEF Fits, AtRow
  <2>3. Counts(loader[z], table')
    BY <1>8, <1>9, <1>10, <1>12, <2>1, <2>2 DEF Counts, Own
  <2> QED
    BY <1>3, <2>1, <2>3
<1>14. HistoriesUnmixed'
  <2>1. Present' = Present
    BY <1>10, <1>12, DemoFacts DEF Present
  <2>2. ASSUME NEW j \in Present PROVE Unmixed(table'[j], DEMO[j])
    <3>1. j \in 1..4 /\ Unmixed(table[j], DEMO[j])
      BY DemoFacts DEF IInv, HistoriesUnmixed, Present
    <3> QED
      BY <1>9, <1>10, <3>1
  <2> QED
    BY <2>1, <2>2 DEF HistoriesUnmixed
<1> QED
  BY <1>5, <1>11, <1>13, <1>14 DEF IInv

\* The rest leaves the demo alone.
LEMMA ElsewhereStep ==
  ASSUME IInv, table' = table, loader' = loader, disturbed' = disturbed, visits' = visits,
         crashes' = crashes, others' \in BOOLEAN
  PROVE  IInv'
<1>1. TypeOK'
  BY DEF IInv, TypeOK
<1>2. Present' = Present
  BY DEF Present
<1>3. HistoriesUnmixed'
  BY <1>2 DEF IInv, HistoriesUnmixed
<1>4. \A l \in Loaders : Fits(l, loader'[l]) /\ Counts(loader'[l], table')
  BY DEF IInv
<1>5. Undisturbed => Undisturbed'
  BY <1>2 DEF Undisturbed, Whole, Covered, Begun, Cover
<1> QED
  BY <1>1, <1>3, <1>4, <1>5 DEF IInv

-----------------------------------------------------------------------------
\* No run has started.
LEMMA InitInv == Init => IInv
<1> SUFFICES ASSUME Init PROVE IInv
  OBVIOUS
<1>1. /\ table = [i \in DOMAIN DEMO |-> Absent] /\ visits = 0 /\ crashes = 0
  BY DEF Init
<1>2. others \in BOOLEAN /\ disturbed = FALSE
  BY DEF Init
<1>3. Present = {}
  BY <1>1 DEF Present
<1>4. ASSUME NEW l \in Loaders
      PROVE  loader[l] \in Loader /\ loader[l].pc = "idle" /\ loader[l].id = l /\ loader[l].at = 1
  <2> DEFINE q == [pc |-> "idle", force |-> FALSE, existing |-> {}, at |-> 1,
                   id |-> l, status |-> "CREATED", n |-> 0]
  <2>1. loader[l] = q
    BY DEF Init
  <2>2. q.pc = "idle" /\ q.id = l /\ q.at = 1
    OBVIOUS
  <2>3. "idle" \in Places /\ "CREATED" \in Statuses
    BY DEF Places, Statuses
  <2>4. q \in Loader
    BY <2>3, LoaderType
  <2> QED
    BY <2>1, <2>2, <2>4
<1>5. TypeOK
  <2>1. loader \in [Loaders -> Loader]
    BY <1>4 DEF Init
  <2>2. disturbed \in BOOLEAN
    BY <1>2
  <2> QED
    BY <1>1, <1>2, <2>1, <2>2, Constants DEF TypeOK
<1>6. \A l \in Loaders : ~AtRow(loader[l]) /\ ~Past(loader[l])
  BY <1>4 DEF AtRow, Past
<1>7. \A l \in Loaders : /\ Fits(l, loader[l]) /\ Counts(loader[l], table)
                         /\ Knows(loader[l], table)
  BY <1>4, <1>6 DEF Fits, Counts, Knows
<1>8. HistoriesUnmixed /\ Whole
  BY <1>3 DEF HistoriesUnmixed, Whole
<1>9. Covered
  BY <1>3, <1>6 DEF Covered, Begun
<1> QED
  BY <1>5, <1>7, <1>8, <1>9 DEF IInv, Undisturbed

LEMMA NextInv == IInv /\ [Next]_vars => IInv'
<1> SUFFICES ASSUME IInv, [Next]_vars PROVE IInv'
  OBVIOUS
<1>1. ASSUME NEW l \in Loaders, Work(l) PROVE IInv'
  BY <1>1, QueryInv, DeleteInv, InsertInv, RefreshInv, AddScanInv, NextShipmentInv DEF Work
<1>2. ASSUME NEW l \in Loaders, NEW force \in BOOLEAN, Start(l, force) PROVE IInv'
  BY <1>2, StartInv
<1>3. ASSUME NEW l \in Loaders, Killed(l) PROVE IInv'
  BY <1>3, KilledInv
<1>4. ASSUME NEW i \in DOMAIN DEMO, NEW type \in VisitTypes, VisitorScans(i, type) PROVE IInv'
  BY <1>4, VisitorScansInv
<1>5. CASE VisitorCreates
  <2>1. others' \in BOOLEAN
    BY <1>5 DEF VisitorCreates
  <2>2. disturbed' = disturbed
    BY <1>5 DEF VisitorCreates
  <2>3. table' = table /\ loader' = loader /\ visits' = visits /\ crashes' = crashes
    BY <1>5 DEF VisitorCreates
  <2> QED
    BY <2>1, <2>2, <2>3, ElsewhereStep
<1>6. CASE UNCHANGED vars
  <2>1. others' \in BOOLEAN
    BY <1>6 DEF vars, IInv, TypeOK
  <2>2. disturbed' = disturbed
    BY <1>6 DEF vars
  <2>3. table' = table /\ loader' = loader /\ visits' = visits /\ crashes' = crashes
    BY <1>6 DEF vars
  <2> QED
    BY <2>1, <2>2, <2>3, ElsewhereStep
<1> QED
  BY <1>1, <1>2, <1>3, <1>4, <1>5, <1>6 DEF Next

-----------------------------------------------------------------------------
\* The invariant holds in every reachable state.
THEOREM Invariance == Spec => []IInv
<1> QED
  BY InitInv, NextInv, PTL DEF Spec

\* Every variable of the loaders and their table keeps to its type.
THEOREM TypeCorrect == Spec => []TypeOK
<1>1. IInv => TypeOK
  BY DEF IInv
<1> QED
  BY <1>1, Invariance, PTL

\* However many loaders race, wipe each other's rows, are killed or meet visitors, no
\* shipment's history is put together by two of them.
THEOREM HistoriesStayUnmixed == Spec => []HistoriesUnmixed
<1>1. IInv => HistoriesUnmixed
  BY DEF IInv
<1> QED
  BY <1>1, Invariance, PTL

\* Once every loader has ended, and one has not just found something to skip, the demo
\* is complete, unless a loader was killed or a visitor came since the last wipe.
THEOREM LoadersCompleteTogether == Spec => []LoadersComplete
<1>1. IInv => LoadersComplete
  <2> SUFFICES ASSUME IInv, \A l \in Loaders : loader[l].pc \in Ended \cup {"idle"},
                      \E l \in Loaders : loader[l].pc \in {"loaded", "failed"}, ~disturbed,
                      NEW i \in DOMAIN DEMO
               PROVE  table[i] # Absent /\ Types(table[i].scans) = DEMO[i]
    BY DEF LoadersComplete
  <2>1. Undisturbed
    BY DEF IInv
  <2>2. \A l \in Loaders : ~AtRow(loader[l]) /\ loader[l].pc # "insert"
    BY DEF Ended, AtRow
  <2>3. \A j, k : ~Cover(j, k)
    BY <2>2 DEF Cover, Covers
  <2>4. Begun
    BY DEF Begun, Past
  <2>5. i \in Present
    BY <2>1, <2>3, <2>4 DEF Undisturbed, Covered
  <2>6. table[i] \in Row /\ table[i] # Absent
    BY <2>5, PresentFacts DEF IInv
  <2>7. Begins(table[i], DEMO[i]) /\ GoesOn(i, table[i], loader[table[i].id])
    BY <2>1, <2>5 DEF Undisturbed, Whole
  <2>8. Len(table[i].scans) = Len(DEMO[i])
    BY <2>2, <2>6, <2>7, RowFacts DEF GoesOn
  <2>9. Types(table[i].scans) = DEMO[i]
    <3> DEFINE scans == table[i].scans
               plan == DEMO[i]
    <3>1. scans \in Seq(Scan) /\ plan \in Seq(EventTypes) /\ Len(scans) = Len(plan)
      BY <2>6, <2>8, RowFacts, DemoFacts
    <3>2. \A k \in 1..Len(scans) : scans[k].type = plan[k]
      BY <2>7 DEF Begins
    <3> HIDE DEF scans, plan
    <3>3. DOMAIN scans = 1..Len(plan) /\ DOMAIN plan = 1..Len(plan)
          /\ plan = [k \in 1..Len(plan) |-> plan[k]]
      BY <3>1
    <3>4. Types(scans) = plan
      BY <3>1, <3>2, <3>3 DEF Types
    <3> QED
      BY <3>4 DEF scans, plan
  <2> QED
    BY <2>6, <2>9
<1> QED
  BY <1>1, Invariance, PTL
=============================================================================
