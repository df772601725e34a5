---------------------------- MODULE OpsPageProofs ----------------------------
(***************************************************************************)
(* Theorems about OpsPage, for any number of list requests and submits in  *)
(* flight, of writes and of failures.                                      *)
(***************************************************************************)
EXTENDS OpsPage, TLAPS

\* A list request never knows of a write that is not made, and is served with what
\* it knew of or more; a submit carries a version that is there.
ListsInOrder ==
  \A s \in Lists :
    lists[s] # Free =>
      /\ lists[s].known <= db
      /\ lists[s].pc = "read" => lists[s].known <= lists[s].version /\ lists[s].version <= db

PostsInOrder ==
  \A p \in Posts : posts[p] # Free => posts[p].version <= db

IInv == TypeOK /\ ListsInOrder /\ PostsInOrder

-----------------------------------------------------------------------------
\* The constants, for the provers.
LEMMA Bounds == MaxWrites \in Nat \ {0} /\ MaxFailures \in Nat
BY OpsPageAssumption DEF OpsPageAssumption

\* The counters.
LEMMA Numbers ==
  ASSUME TypeOK
  PROVE  /\ db \in 1..MaxWrites /\ db \in Nat /\ shown \in 0..db
         /\ failures \in 0..MaxFailures
<1>1. db \in 1..MaxWrites /\ shown \in 0..db /\ failures \in 0..MaxFailures
  BY DEF TypeOK
<1> QED
  BY <1>1, Bounds

\* What is free has no field but pc.
LEMMA FreeFacts ==
  /\ Free.pc = "free"
  /\ \A l \in List : l # Free
  /\ \A q \in Post : q # Free
<1>1. \A l \in List : l.pc # "free"
  BY DEF List
<1>2. \A q \in Post : q.pc # "free"
  BY DEF Post
<1>3. Free.pc = "free"
  BY DEF Free
<1> QED
  BY <1>1, <1>2, <1>3

LEMMA InFlight ==
  ASSUME TypeOK
  PROVE  /\ \A s \in Lists : lists[s].pc # "free" => lists[s] \in List /\ lists[s] # Free
         /\ \A p \in Posts : posts[p].pc # "free" => posts[p] \in Post /\ posts[p] # Free
         /\ \A s \in Lists : lists[s] # Free => lists[s] \in List
         /\ \A p \in Posts : posts[p] # Free => posts[p] \in Post
<1>1. \A s \in Lists : lists[s] \in {Free} \cup List
  BY DEF TypeOK
<1>2. \A p \in Posts : posts[p] \in {Free} \cup Post
  BY DEF TypeOK
<1> QED
  BY <1>1, <1>2, FreeFacts

\* A request that is sent knows of no write that is not made.
LEMMA Asked ==
  ASSUME IInv, NEW s \in Lists, NEW known \in 0..db, Ask(s, known)
  PROVE  lists' \in [Lists -> {Free} \cup List]
         /\ (db' = db => ListsInOrder')
<1> DEFINE new == [pc |-> "asked", version |-> 0, known |-> known]
<1>1. new \in List /\ new.pc = "asked" /\ new.known = known
  BY Numbers DEF IInv, List
<1>2. lists' = [lists EXCEPT ![s] = new]
  BY DEF Ask
<1> HIDE DEF new
<1>3. lists' \in [Lists -> {Free} \cup List]
  BY <1>1, <1>2 DEF IInv, TypeOK
<1>4. ASSUME db' = db PROVE ListsInOrder'
  <2> SUFFICES ASSUME NEW z \in Lists, lists'[z] # Free
               PROVE  /\ lists'[z].known <= db
                      /\ lists'[z].pc = "read" => /\ lists'[z].known <= lists'[z].version
                                                  /\ lists'[z].version <= db
    BY <1>4 DEF ListsInOrder
  <2>1. CASE z = s
    <3>1. lists'[z] = new
      BY <2>1, <1>2 DEF IInv, TypeOK
    <3> QED
      BY <3>1, <1>1
  <2>2. CASE z # s
    <3>1. lists'[z] = lists[z]
      BY <2>2, <1>2 DEF IInv, TypeOK
    <3> QED
      BY <3>1 DEF IInv, ListsInOrder
  <2> QED
    BY <2>1, <2>2
<1> QED
  BY <1>3, <1>4

\* A request that comes back leaves the others as they are.
LEMMA Answered ==
  ASSUME IInv, NEW s \in Lists, lists' = [lists EXCEPT ![s] = Free]
  PROVE  /\ lists' \in [Lists -> {Free} \cup List]
         /\ db' = db => ListsInOrder'
<1>1. \A z \in Lists : lists'[z] = IF z = s THEN Free ELSE lists[z]
  BY DEF IInv, TypeOK
<1> QED
  BY <1>1 DEF IInv, TypeOK, ListsInOrder

\* A submit that is answered or fails leaves the others as they are.
LEMMA PostFreed ==
  ASSUME IInv, NEW p \in Posts, posts' = [posts EXCEPT ![p] = Free]
  PROVE  /\ posts' \in [Posts -> {Free} \cup Post]
         /\ db' = db => PostsInOrder'
<1>1. \A z \in Posts : posts'[z] = IF z = p THEN Free ELSE posts[z]
  BY DEF IInv, TypeOK
<1> QED
  BY <1>1 DEF IInv, TypeOK, PostsInOrder

\* A submit that gets a version which is made by then leaves the others as they are.
LEMMA PostMoved ==
  ASSUME IInv, NEW p \in Posts, NEW q \in Post, q.version <= db',
         posts' = [posts EXCEPT ![p] = q], db' \in Nat, db <= db'
  PROVE  /\ posts' \in [Posts -> {Free} \cup Post]
         /\ PostsInOrder'
<1>1. posts' \in [Posts -> {Free} \cup Post]
  BY DEF IInv, TypeOK
<1>2. ASSUME NEW z \in Posts, posts'[z] # Free PROVE posts'[z].version <= db'
  <2>1. CASE z = p
    BY <2>1 DEF IInv, TypeOK
  <2>2. CASE z # p
    <3>1. posts'[z] = posts[z]
      BY <2>2 DEF IInv, TypeOK
    <3>2. posts[z].version <= db /\ posts[z].version \in Nat
      BY <3>1, <1>2, InFlight DEF IInv, PostsInOrder, Post
    <3>3. db \in Nat
      BY Numbers DEF IInv
    <3> QED
      BY <3>1, <3>2, <3>3
  <2> QED
    BY <2>1, <2>2
<1> QED
  BY <1>1, <1>2 DEF PostsInOrder

\* More writes take nothing away from what was known.
LEMMA Written ==
  ASSUME IInv, db' \in Nat, db <= db'
  PROVE  /\ lists' = lists => ListsInOrder'
         /\ posts' = posts => PostsInOrder'
<1>1. db \in Nat
  BY Numbers DEF IInv
<1>2. ASSUME lists' = lists PROVE ListsInOrder'
  <2> SUFFICES ASSUME NEW z \in Lists, lists[z] # Free
               PROVE  /\ lists[z].known <= db'
                      /\ lists[z].pc = "read" => /\ lists[z].known <= lists[z].version
                                                 /\ lists[z].version <= db'
    BY <1>2 DEF ListsInOrder
  <2>1. lists[z].known \in Nat /\ lists[z].version \in Nat
    BY InFlight DEF IInv, List
  <2> QED
    BY <1>1, <2>1 DEF IInv, ListsInOrder
<1>3. ASSUME posts' = posts PROVE PostsInOrder'
  <2> SUFFICES ASSUME NEW z \in Posts, posts[z] # Free PROVE posts[z].version <= db'
    BY <1>3 DEF PostsInOrder
  <2>1. posts[z].version \in Nat
    BY InFlight DEF IInv, Post
  <2> QED
    BY <1>1, <2>1 DEF IInv, PostsInOrder
<1> QED
  BY <1>2, <1>3

-----------------------------------------------------------------------------
\* Nothing is known and nothing is in flight at the start.
LEMMA InitInv == Init => IInv
<1> SUFFICES ASSUME Init PROVE IInv
  OBVIOUS
<1>a. db = 1 /\ shown = 0 /\ failures = 0
  BY DEF Init
<1>1. form = FALSE /\ scanFor = FALSE /\ error = ""
  BY DEF Init
<1>2. lists = [s \in Lists |-> Free] /\ posts = [p \in Posts |-> Free]
  BY DEF Init
<1>3. db \in 1..MaxWrites /\ shown \in 0..db /\ failures \in 0..MaxFailures
  BY <1>a, Bounds
<1>4. ListsInOrder /\ PostsInOrder
  BY <1>2 DEF ListsInOrder, PostsInOrder
<1> QED
  BY <1>1, <1>2, <1>3, <1>4 DEF IInv, TypeOK

LEMMA NextInv == IInv /\ [Next]_vars => IInv'
<1> SUFFICES ASSUME IInv, [Next]_vars PROVE IInv'
  OBVIOUS
<1> USE DEF IInv
<1>0. db \in 1..MaxWrites /\ db \in Nat /\ shown \in 0..db /\ failures \in 0..MaxFailures
  BY Numbers
<1>1. ASSUME NEW s \in Lists, Poll(s) PROVE IInv'
  <2>1. Ask(s, shown) /\ UNCHANGED <<db, shown, posts, form, scanFor, error, failures>>
    BY <1>1 DEF Poll
  <2>2. lists' \in [Lists -> {Free} \cup List] /\ ListsInOrder'
    BY <2>1, <1>0, Asked
  <2> QED
    BY <2>1, <2>2 DEF TypeOK, PostsInOrder
<1>2. ASSUME NEW s \in Lists, ListAnswered(s) PROVE IInv'
  <2>1. /\ lists[s].pc = "read" /\ shown' = lists[s].version
        /\ lists' = [lists EXCEPT ![s] = Free]
        /\ UNCHANGED <<db, posts, form, scanFor, error, failures>>
    BY <1>2 DEF ListAnswered
  <2>2. lists' \in [Lists -> {Free} \cup List] /\ ListsInOrder'
    BY <2>1, Answered
  <2>3. lists[s] \in List /\ lists[s].version <= db
    BY <2>1, InFlight DEF ListsInOrder
  <2>4. shown' \in 0..db
    BY <2>1, <2>3, <1>0 DEF List
  <2> QED
    BY <2>1, <2>2, <2>4 DEF TypeOK, PostsInOrder
<1>3. ASSUME NEW s \in Lists, ListFailed(s) PROVE IInv'
  <2>1. /\ error' = "load" /\ lists' = [lists EXCEPT ![s] = Free]
        /\ UNCHANGED <<db, shown, posts, form, scanFor, failures>>
    BY <1>3 DEF ListFailed
  <2>2. lists' \in [Lists -> {Free} \cup List] /\ ListsInOrder'
    BY <2>1, Answered
  <2> QED
    BY <2>1, <2>2 DEF TypeOK, PostsInOrder
<1>4. ASSUME NEW s \in Lists, NEW l \in List, lists' = [lists EXCEPT ![s] = l],
             l.known <= db, l.pc = "read" => l.known <= l.version /\ l.version <= db,
             failures' \in 0..MaxFailures,
             UNCHANGED <<db, shown, posts, form, scanFor, error>>
      PROVE  IInv'
  <2>1. lists' \in [Lists -> {Free} \cup List]
    BY <1>4 DEF TypeOK
  <2>2. \A z \in Lists : lists'[z] = IF z = s THEN l ELSE lists[z]
    BY <1>4 DEF TypeOK
  <2>3. ListsInOrder'
    BY <1>4, <2>2 DEF ListsInOrder
  <2> QED
    BY <1>4, <2>1, <2>3 DEF TypeOK, PostsInOrder
<1>5. ASSUME NEW s \in Lists, ServeList(s) PROVE IInv'
  <2> DEFINE l == [lists[s] EXCEPT !.pc = "read", !.version = db]
  <2>1. /\ lists[s].pc = "asked" /\ lists' = [lists EXCEPT ![s] = l]
        /\ UNCHANGED <<db, shown, posts, form, scanFor, error, failures>>
    BY <1>5 DEF ServeList
  <2>2. lists[s] \in List /\ lists[s].known <= db
    BY <2>1, InFlight DEF ListsInOrder
  <2>3. l \in List /\ l.known = lists[s].known /\ l.version = db
    BY <2>2, <1>0 DEF List
  <2> HIDE DEF l
  <2>4. failures' \in 0..MaxFailures
    BY <2>1, <1>0
  <2>5. l.pc = "read" => l.known <= l.version /\ l.version <= db
    BY <2>2, <2>3, <1>0
  <2> QED
    BY <2>1, <2>2, <2>3, <2>4, <2>5, <1>4
<1>6. ASSUME NEW s \in Lists, FailList(s) PROVE IInv'
  <2> DEFINE l == [lists[s] EXCEPT !.pc = "failed"]
  <2>1. /\ lists[s].pc = "asked" /\ lists' = [lists EXCEPT ![s] = l]
        /\ failures' = failures + 1 /\ failures < MaxFailures
        /\ UNCHANGED <<db, shown, posts, form, scanFor, error>>
    BY <1>6 DEF FailList
  <2>2. lists[s] \in List /\ lists[s].known <= db
    BY <2>1, InFlight DEF ListsInOrder
  <2>3. l \in List /\ l.known = lists[s].known /\ l.pc = "failed"
    BY <2>2 DEF List
  <2>4. failures' \in 0..MaxFailures
    BY <2>1, <1>0, Bounds
  <2> HIDE DEF l
  <2> QED
    BY <2>1, <2>2, <2>3, <2>4, <1>4
<1>7. ASSUME TypeForm \/ OpenScan \/ CancelScan PROVE IInv'
  BY <1>7 DEF TypeForm, OpenScan, CancelScan, TypeOK, ListsInOrder, PostsInOrder
<1>8. ASSUME NEW p \in Posts, NEW kind \in Kinds, Submit(p, kind) PROVE IInv'
  <2> DEFINE q == [pc |-> "sent", kind |-> kind, version |-> 0]
  <2>1. /\ posts' = [posts EXCEPT ![p] = q] /\ error' = ""
        /\ UNCHANGED <<db, shown, lists, form, scanFor, failures>>
    BY <1>8 DEF Submit
  <2>2. q \in Post /\ q.version = 0
    BY DEF Post
  <2> HIDE DEF q
  <2>3. posts' \in [Posts -> {Free} \cup Post] /\ PostsInOrder'
    <3>0. db' = db
      BY <2>1
    <3>1. db' \in Nat /\ db <= db' /\ q.version <= db'
      BY <3>0, <2>2, <1>0
    <3> QED
      BY <2>1, <2>2, <3>1, PostMoved
  <2> QED
    BY <2>1, <2>3 DEF TypeOK, ListsInOrder
<1>9. ASSUME NEW p \in Posts, NEW s \in Lists, PostAnswered(p, s) PROVE IInv'
  <2>1. /\ posts[p].pc = "recorded" /\ Ask(s, Newer(shown, posts[p].version))
        /\ posts' = [posts EXCEPT ![p] = Free]
        /\ UNCHANGED <<db, shown, error, failures>>
    BY <1>9 DEF PostAnswered
  <2>2. form' \in BOOLEAN
    BY <1>9 DEF PostAnswered, TypeOK
  <2>3. scanFor' \in BOOLEAN
    BY <1>9 DEF PostAnswered, TypeOK
  <2>4. posts[p] \in Post /\ posts[p].version <= db
    BY <2>1, InFlight DEF PostsInOrder
  <2>5. Newer(shown, posts[p].version) \in 0..db
    BY <2>4, <1>0 DEF Newer, Post
  <2>6. lists' \in [Lists -> {Free} \cup List] /\ ListsInOrder'
    BY <2>1, <2>5, Asked
  <2>7. posts' \in [Posts -> {Free} \cup Post] /\ PostsInOrder'
    BY <2>1, PostFreed
  <2> QED
    BY <2>1, <2>2, <2>3, <2>6, <2>7 DEF TypeOK
<1>10. ASSUME NEW p \in Posts, PostFailed(p) PROVE IInv'
  <2>1. /\ posts[p].pc = "failed" /\ error' = posts[p].kind
        /\ posts' = [posts EXCEPT ![p] = Free]
        /\ UNCHANGED <<db, shown, lists, form, scanFor, failures>>
    BY <1>10 DEF PostFailed
  <2>2. posts[p].kind \in Kinds
    BY <2>1, InFlight DEF Post
  <2>3. posts' \in [Posts -> {Free} \cup Post] /\ PostsInOrder'
    BY <2>1, PostFreed
  <2> QED
    BY <2>1, <2>2, <2>3 DEF TypeOK, ListsInOrder
<1>11. ASSUME NEW p \in Posts, Record(p) PROVE IInv'
  <2>1. /\ posts[p].pc = "sent" /\ db < MaxWrites /\ db' = db + 1
        /\ UNCHANGED <<shown, lists, form, scanFor, error>>
    BY <1>11 DEF Record
  <2>2. PICK q \in {[posts[p] EXCEPT !.pc = "recorded", !.version = db'],
                    [posts[p] EXCEPT !.pc = "failed"]} : posts' = [posts EXCEPT ![p] = q]
    BY <1>11 DEF Record
  <2>3. failures' \in 0..MaxFailures
    BY <1>11, <1>0, Bounds DEF Record
  <2>4. posts[p] \in Post /\ posts[p].version <= db
    BY <2>1, InFlight DEF PostsInOrder
  <2>5. db' \in 1..MaxWrites /\ db' \in Nat /\ db <= db' /\ shown' \in 0..db'
    BY <2>1, <1>0, Bounds
  <2>6. q \in Post /\ q.version <= db'
    <3>1. posts[p].version \in Nat
      BY <2>4 DEF Post
    <3>2. CASE q = [posts[p] EXCEPT !.pc = "recorded", !.version = db']
      <4>1. q.version = db' /\ q \in Post
        BY <3>2, <2>4, <2>5 DEF Post
      <4> QED
        BY <4>1, <2>5
    <3>3. CASE q = [posts[p] EXCEPT !.pc = "failed"]
      <4>1. q.version = posts[p].version /\ q \in Post
        BY <3>3, <2>4 DEF Post
      <4> QED
        BY <4>1, <3>1, <2>4, <2>5, <1>0
    <3> QED
      BY <3>2, <3>3
  <2>7. posts' \in [Posts -> {Free} \cup Post] /\ PostsInOrder'
    BY <2>2, <2>5, <2>6, PostMoved
  <2>8. ListsInOrder'
    BY <2>1, <2>5, Written
  <2> QED
    BY <2>1, <2>3, <2>5, <2>7, <2>8 DEF TypeOK
<1>12. ASSUME NEW p \in Posts, Refuse(p) PROVE IInv'
  <2> DEFINE q == [posts[p] EXCEPT !.pc = "failed"]
  <2>1. /\ posts[p].pc = "sent" /\ posts' = [posts EXCEPT ![p] = q]
        /\ UNCHANGED <<db, shown, lists, form, scanFor, error, failures>>
    BY <1>12 DEF Refuse
  <2>2. posts[p] \in Post /\ posts[p].version <= db
    BY <2>1, InFlight DEF PostsInOrder
  <2>3. q \in Post /\ q.version = posts[p].version
    BY <2>2 DEF Post
  <2> HIDE DEF q
  <2>4. posts' \in [Posts -> {Free} \cup Post] /\ PostsInOrder'
    <3>1. db' \in Nat /\ db <= db' /\ q.version <= db'
      BY <2>1, <2>2, <2>3, <1>0
    <3> QED
      BY <2>1, <2>3, <3>1, PostMoved
  <2> QED
    BY <2>1, <2>4 DEF TypeOK, ListsInOrder
<1>13. ASSUME OthersWrite PROVE IInv'
  <2>1. db < MaxWrites /\ db' = db + 1 /\ UNCHANGED <<shown, lists, posts, form, scanFor, error, failures>>
    BY <1>13 DEF OthersWrite
  <2>2. db' \in 1..MaxWrites /\ db' \in Nat /\ db <= db' /\ shown' \in 0..db'
    BY <2>1, <1>0, Bounds
  <2>3. ListsInOrder' /\ PostsInOrder'
    BY <2>1, <2>2, Written
  <2> QED
    BY <2>1, <2>2, <2>3 DEF TypeOK
<1>14. CASE UNCHANGED vars
  BY <1>14 DEF vars, TypeOK, ListsInOrder, PostsInOrder
<1> QED
  BY <1>1, <1>2, <1>3, <1>5, <1>6, <1>7, <1>8, <1>9, <1>10, <1>11, <1>12, <1>13, <1>14
     DEF Next

-----------------------------------------------------------------------------
\* The strengthened invariant, for the results below.
THEOREM Invariance == Spec => []IInv
BY InitInv, NextInv, PTL DEF Spec

\* The page never shows more than is recorded (OpsPage.tsx:16-28).
THEOREM TypeCorrect == Spec => []TypeOK
<1>1. IInv => TypeOK
  BY DEF IInv
<1> QED
  BY <1>1, Invariance, PTL

\* An answer is never older than what the page knew when it asked
\* (OpsPage.tsx:18, 34-36, 46-49), whatever overtakes what.
THEOREM AnswersAreUpToDate == Spec => AnswersKeepUp
<1> DEFINE Kept == \A s \in Lists : ListAnswered(s) => shown' >= lists[s].known
<1>1. IInv /\ [Next]_vars => [Kept]_vars
  <2> SUFFICES ASSUME IInv, NEW s \in Lists, ListAnswered(s)
               PROVE  shown' >= lists[s].known
    OBVIOUS
  <2>1. lists[s].pc = "read" /\ shown' = lists[s].version
    BY DEF ListAnswered
  <2>2. lists[s] \in List /\ lists[s] # Free
    BY <2>1, InFlight DEF IInv
  <2>3. lists[s].known <= lists[s].version
    BY <2>1, <2>2 DEF IInv, ListsInOrder
  <2> QED
    BY <2>1, <2>2, <2>3 DEF List
<1> QED
  BY <1>1, Invariance, PTL DEF Spec, AnswersKeepUp
=============================================================================
