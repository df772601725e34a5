-------------------------- MODULE ProjectionProofs --------------------------
(***************************************************************************)
(* Theorems about the reducer of tracking-service, for timelines of any    *)
(* length: what inserting one event does to a sorted timeline.             *)
(***************************************************************************)
EXTENDS Projection, FiniteSetTheorems, TLAPS

\* The timeline is in the order of its timestamps.
InOrder(events) ==
  \A i, j \in DOMAIN events : i < j => events[i].at <= events[j].at

\* No two entries have the time and the type of one event.
NoRepeat(events) ==
  \A i, j \in DOMAIN events :
    events[i].at = events[j].at /\ events[i].type = events[j].type => i = j

-----------------------------------------------------------------------------
\* Natural numbers.

\* A downward closed set of positions is an interval.
LEMMA InitialSegment ==
  ASSUME NEW n \in Nat, NEW S \in SUBSET (1..n),
         \A i \in S : \A j \in 1..i : j \in S
  PROVE  /\ Cardinality(S) \in 0..n
         /\ S = 1..Cardinality(S)
<1>1. IsFiniteSet(1..n) /\ Cardinality(1..n) = n
  BY FS_Interval
<1>2. IsFiniteSet(S) /\ Cardinality(S) <= n
  BY <1>1, FS_Subset
<1>3. Cardinality(S) \in Nat
  BY <1>2, FS_CardinalityType
<1>4. S \subseteq 1..Cardinality(S)
  <2> SUFFICES ASSUME NEW i \in S PROVE i <= Cardinality(S)
    BY <1>3
  <2>1. 1..i \in SUBSET S
    OBVIOUS
  <2>2. Cardinality(1..i) <= Cardinality(S)
    BY <2>1, <1>2, FS_Subset
  <2>3. Cardinality(1..i) = i
    BY FS_Interval
  <2> QED
    BY <2>2, <2>3
<1>5. /\ IsFiniteSet(1..Cardinality(S))
      /\ Cardinality(1..Cardinality(S)) = Cardinality(S)
  BY <1>3, FS_Interval
<1>6. S = 1..Cardinality(S)
  BY <1>4, <1>5, FS_Subset
<1> QED
  BY <1>2, <1>3, <1>6

\* A set of natural numbers that is not empty has a smallest element.
LEMMA Smallest ==
  ASSUME NEW S \in SUBSET Nat, S # {}
  PROVE  \E n \in S : \A m \in S : n <= m
<1> PICK s \in S : TRUE
  OBVIOUS
<1> DEFINE below == {k \in 1..s : \A m \in S : k <= m}
<1>1. \A i \in below : \A j \in 1..i : j \in below
  OBVIOUS
<1>2. Cardinality(below) \in 0..s /\ below = 1..Cardinality(below)
  BY <1>1, InitialSegment
<1> DEFINE c == Cardinality(below)
<1> HIDE DEF c
<1>3. c \in 0..s /\ below = 1..c
  BY <1>2 DEF c
<1>4. \A m \in S : c <= m
  <2>1. CASE c = 0
    BY <2>1
  <2>2. CASE c # 0
    BY <2>2, <1>3
  <2> QED
    BY <2>1, <2>2
<1>5. c \in S
  <2>1. CASE c = s
    BY <2>1
  <2>2. CASE c # s
    <3>1. c + 1 \in 1..s /\ c + 1 \notin below
      <4> HIDE DEF below
      <4> QED BY <2>2, <1>3
    <3>2. PICK m \in S : ~(c + 1 <= m)
      BY <3>1
    <3> QED
      BY <3>2, <1>3, <1>4
  <2> QED
    BY <2>1, <2>2
<1> QED
  BY <1>4, <1>5

-----------------------------------------------------------------------------
\* Inserting an event.

\* In a sorted timeline the events that are not later than ev are the first ones.
LEMMA NotLaterFacts ==
  ASSUME NEW T, \A e \in T : e.at \in Nat,
         NEW events \in Seq(T), InOrder(events), NEW ev \in T
  PROVE  /\ NotLater(events, ev) \in 0..Len(events)
         /\ \A i \in DOMAIN events : i <= NotLater(events, ev) <=> events[i].at <= ev.at
<1> DEFINE S == {i \in 1..Len(events) : events[i].at <= ev.at}
<1>1. \A i \in 1..Len(events) : events[i].at \in Nat
  OBVIOUS
<1>2. \A i \in S : \A j \in 1..i : j \in S
  BY <1>1 DEF InOrder
<1>3. Cardinality(S) \in 0..Len(events) /\ S = 1..Cardinality(S)
  <2>1. S \in SUBSET (1..Len(events)) /\ Len(events) \in Nat
    OBVIOUS
  <2> HIDE DEF S
  <2> QED BY <1>2, <2>1, InitialSegment
<1> DEFINE c == Cardinality(S)
<1> HIDE DEF c
<1>4. c \in 0..Len(events) /\ S = 1..c
  BY <1>3 DEF c
<1>5. \A i \in DOMAIN events : i <= c <=> events[i].at <= ev.at
  BY <1>4
<1> QED
  BY <1>4, <1>5 DEF NotLater

\* Inserted, position by position.
LEMMA InsertedFacts ==
  ASSUME NEW T, \A e \in T : e.at \in Nat,
         NEW events \in Seq(T), InOrder(events), NEW ev \in T
  PROVE  LET n == NotLater(events, ev)
             new == Inserted(events, ev)
         IN /\ n \in 0..Len(events)
            /\ new \in Seq(T)
            /\ Len(new) = Len(events) + 1
            /\ \A i \in 1..n : new[i] = events[i]
            /\ new[n + 1] = ev
            /\ \A i \in (n + 1)..Len(events) : new[i + 1] = events[i]
<1> DEFINE n == NotLater(events, ev)
           front == SubSeq(events, 1, n)
           back == SubSeq(events, n + 1, Len(events))
<1>1. n \in 0..Len(events)
  BY NotLaterFacts
<1> HIDE DEF n
<1>2. /\ front \in Seq(T) /\ Len(front) = n
      /\ \A i \in 1..n : front[i] = events[i]
  BY <1>1
<1>3. /\ back \in Seq(T) /\ Len(back) = Len(events) - n
      /\ \A i \in 1..(Len(events) - n) : back[i] = events[n + i]
  BY <1>1
<1> HIDE DEF front, back
<1> DEFINE new == front \o <<ev>> \o back
<1>4. /\ new \in Seq(T)
      /\ Len(new) = Len(events) + 1
      /\ \A i \in 1..n : new[i] = events[i]
      /\ new[n + 1] = ev
  BY <1>1, <1>2, <1>3
<1>5. \A i \in (n + 1)..Len(events) : new[i + 1] = events[i]
  <2> SUFFICES ASSUME NEW i \in (n + 1)..Len(events) PROVE new[i + 1] = events[i]
    OBVIOUS
  <2>1. new[i + 1] = back[i - n]
    BY <1>1, <1>2, <1>3
  <2>2. i - n \in 1..(Len(events) - n) /\ n + (i - n) = i
    BY <1>1
  <2> HIDE DEF new
  <2> QED
    BY <2>1, <2>2, <1>3
<1>6. Inserted(events, ev) = new
  BY DEF Inserted, n, front, back
<1> QED
  BY <1>1, <1>4, <1>5, <1>6 DEF n

\* A sorted timeline stays sorted.
LEMMA InsertedInOrder ==
  ASSUME NEW T, \A e \in T : e.at \in Nat,
         NEW events \in Seq(T), InOrder(events), NEW ev \in T
  PROVE  InOrder(Inserted(events, ev))
<1> DEFINE n == NotLater(events, ev)
           new == Inserted(events, ev)
<1>1. /\ n \in 0..Len(events)
      /\ \A i \in DOMAIN events : i <= n <=> events[i].at <= ev.at
  BY NotLaterFacts
<1>2. /\ new \in Seq(T)
      /\ Len(new) = Len(events) + 1
      /\ \A i \in 1..n : new[i] = events[i]
      /\ new[n + 1] = ev
      /\ \A i \in (n + 1)..Len(events) : new[i + 1] = events[i]
  BY InsertedFacts
<1> HIDE DEF n, new
<1>3. \A i \in (n + 2)..(Len(events) + 1) : i - 1 \in (n + 1)..Len(events) /\ new[i] = events[i - 1]
  BY <1>1, <1>2
<1>4. \A i \in 1..Len(events) : events[i].at \in Nat
  OBVIOUS
<1> SUFFICES ASSUME NEW i \in 1..(Len(events) + 1), NEW j \in 1..(Len(events) + 1), i < j
             PROVE  new[i].at <= new[j].at
  BY <1>2 DEF InOrder, new
<1>0. \A k, l \in 1..Len(events) : k < l => events[k].at <= events[l].at
  BY DEF InOrder
<1>5. CASE j <= n
  <2>1. i \in 1..n /\ j \in 1..n /\ i \in 1..Len(events) /\ j \in 1..Len(events)
    BY <1>1, <1>5
  <2> QED
    BY <2>1, <1>0, <1>2
<1>6. CASE j = n + 1
  BY <1>1, <1>2, <1>6
<1>7. CASE j > n + 1 /\ i <= n
  <2>1. /\ i \in 1..n /\ i \in 1..Len(events)
        /\ j - 1 \in 1..Len(events) /\ i < j - 1 /\ new[j] = events[j - 1]
    BY <1>1, <1>3, <1>7
  <2> QED
    BY <2>1, <1>0, <1>2
<1>8. CASE j > n + 1 /\ i = n + 1
  <2>1. ~(events[j - 1].at <= ev.at)
    BY <1>1, <1>3, <1>8
  <2> QED
    BY <2>1, <1>1, <1>2, <1>3, <1>4, <1>8
<1>9. CASE j > n + 1 /\ i > n + 1
  <2>1. /\ i - 1 \in 1..Len(events) /\ new[i] = events[i - 1]
        /\ j - 1 \in 1..Len(events) /\ new[j] = events[j - 1] /\ i - 1 < j - 1
    BY <1>1, <1>3, <1>9
  <2> QED
    BY <2>1, <1>0
<1> QED
  BY <1>1, <1>5, <1>6, <1>7, <1>8, <1>9

\* The new timeline holds what the old one held and ev; what was before the
\* last entry still is; the last entry is ev exactly if nothing is later.
LEMMA InsertedPlaces ==
  ASSUME NEW T, \A e \in T : e.at \in Nat,
         NEW events \in Seq(T), InOrder(events), NEW ev \in T
  PROVE  LET new == Inserted(events, ev)
         IN /\ \A i \in DOMAIN new : new[i] = ev \/ \E k \in DOMAIN events : new[i] = events[k]
            /\ \E i \in DOMAIN new : new[i] = ev
            /\ \A k \in DOMAIN events :
                 \E i \in DOMAIN new : i >= k /\ i <= k + 1 /\ new[i] = events[k]
            /\ new[Len(new)] = IF IsNewest(events, ev) THEN ev ELSE events[Len(events)]
<1> DEFINE n == NotLater(events, ev)
           new == Inserted(events, ev)
<1>1. /\ n \in 0..Len(events)
      /\ \A i \in DOMAIN events : i <= n <=> events[i].at <= ev.at
  BY NotLaterFacts
<1>2. /\ new \in Seq(T)
      /\ Len(new) = Len(events) + 1
      /\ \A i \in 1..n : new[i] = events[i]
      /\ new[n + 1] = ev
      /\ \A i \in (n + 1)..Len(events) : new[i + 1] = events[i]
  BY InsertedFacts
<1> HIDE DEF n, new
<1>3. \A i \in (n + 2)..(Len(events) + 1) : i - 1 \in (n + 1)..Len(events) /\ new[i] = events[i - 1]
  BY <1>1, <1>2
<1>4. ASSUME NEW i \in DOMAIN new
      PROVE  new[i] = ev \/ \E k \in DOMAIN events : new[i] = events[k]
  <2>1. i \in 1..n \/ i = n + 1 \/ i \in (n + 2)..(Len(events) + 1)
    BY <1>1, <1>2
  <2>2. CASE i \in 1..n
    BY <2>2, <1>1, <1>2
  <2>3. CASE i \in (n + 2)..(Len(events) + 1)
    <3>1. i - 1 \in DOMAIN events /\ new[i] = events[i - 1]
      BY <2>3, <1>1, <1>3
    <3> QED
      BY <3>1
  <2> QED
    BY <2>1, <2>2, <2>3, <1>2
<1>5. \E i \in DOMAIN new : new[i] = ev
  BY <1>1, <1>2
<1>6. ASSUME NEW k \in DOMAIN events
      PROVE  \E i \in DOMAIN new : i >= k /\ i <= k + 1 /\ new[i] = events[k]
  <2>1. CASE k <= n
    <3>1. k \in DOMAIN new /\ new[k] = events[k]
      BY <1>1, <1>2, <2>1
    <3> QED BY <3>1
  <2>2. CASE k > n
    <3>1. k + 1 \in DOMAIN new /\ new[k + 1] = events[k]
      BY SMTT(30), <1>1, <1>2, <2>2
    <3> QED BY <3>1
  <2> QED
    BY <2>1, <2>2, <1>1
<1>7. new[Len(new)] = IF IsNewest(events, ev) THEN ev ELSE events[Len(events)]
  <2>1. CASE IsNewest(events, ev)
    <3>1. n = Len(events)
      BY <2>1, <1>1 DEF IsNewest
    <3> QED
      BY <3>1, <2>1, <1>2
  <2>2. CASE ~IsNewest(events, ev)
    <3>1. PICK i \in DOMAIN events : ~(events[i].at <= ev.at)
      BY <2>2 DEF IsNewest
    <3>2. n < i /\ i <= Len(events)
      BY <3>1, <1>1
    <3>3. Len(events) \in (n + 1)..Len(events)
      BY <3>2, <1>1
    <3>4. new[Len(events) + 1] = events[Len(events)]
      BY <3>3, <1>2
    <3> QED
      BY <3>4, <2>2, <1>2
  <2> QED
    BY <2>1, <2>2
<1> QED
  BY <1>4, <1>5, <1>6, <1>7 DEF new

\* A timeline without repetitions to which ev is new has none after it is inserted.
LEMMA InsertedOnce ==
  ASSUME NEW T, \A e \in T : e.at \in Nat,
         NEW events \in Seq(T), InOrder(events), NEW ev \in T,
         NoRepeat(events), ~Applied(events, ev)
  PROVE  NoRepeat(Inserted(events, ev))
<1> DEFINE n == NotLater(events, ev)
           new == Inserted(events, ev)
<1>1. n \in 0..Len(events)
  BY NotLaterFacts
<1>2. /\ new \in Seq(T)
      /\ Len(new) = Len(events) + 1
      /\ \A i \in 1..n : new[i] = events[i]
      /\ new[n + 1] = ev
      /\ \A i \in (n + 1)..Len(events) : new[i + 1] = events[i]
  BY InsertedFacts
<1> HIDE DEF n, new
<1> DEFINE old(i) == IF i <= n THEN i ELSE i - 1
<1>3. ASSUME NEW i \in DOMAIN new, i # n + 1
      PROVE  old(i) \in DOMAIN events /\ new[i] = events[old(i)]
  <2>1. CASE i <= n
    BY <2>1, <1>1, <1>2
  <2>2. CASE ~(i <= n)
    <3>1. i - 1 \in (n + 1)..Len(events)
      BY <2>2, <1>1, <1>2, <1>3
    <3>2. new[(i - 1) + 1] = events[i - 1] /\ (i - 1) + 1 = i
      BY <3>1, <1>1, <1>2
    <3> QED
      BY <3>1, <3>2, <2>2, <1>1
  <2> QED
    BY <2>1, <2>2
<1>4. ASSUME NEW k \in DOMAIN events
      PROVE  ~(events[k].at = ev.at /\ events[k].type = ev.type)
  BY DEF Applied
<1> SUFFICES ASSUME NEW i \in DOMAIN new, NEW j \in DOMAIN new,
                    new[i].at = new[j].at, new[i].type = new[j].type
             PROVE  i = j
  BY DEF new, NoRepeat
<1>5. CASE i = n + 1 /\ j # n + 1
  BY <1>2, <1>3, <1>4, <1>5
<1>7. CASE i # n + 1 /\ j = n + 1
  BY <1>2, <1>3, <1>4, <1>7
<1>6. CASE i # n + 1 /\ j # n + 1
  <2>1. old(i) = old(j)
    BY <1>3, <1>6 DEF NoRepeat
  <2> QED
    BY <2>1, <1>1, <1>2, <1>6
<1> QED
  BY <1>5, <1>6, <1>7
=============================================================================
