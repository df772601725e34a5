---------------------------- MODULE ServingProofs ----------------------------
(***************************************************************************)
(* Theorems about Serving, for any requests, threads, pool and errors.     *)
(***************************************************************************)
EXTENDS Serving, FiniteSetTheorems, TLAPS

\* What holds of request r in state q, given who holds a connection, who is on a
\* thread, whose write is committed and whose is announced.
Sound(r, q, holding, working, written, told) ==
  /\ r \in holding => q.pc \in {"commit", "lock", "publish", "serialize", "close"}
  /\ r \in working =>
       q.pc \in {"query", "commit", "refresh", "lock", "publish", "database", "broker"}
  /\ q.pc \in {"query", "commit", "refresh"} => q.kind # "readyz"
  /\ q.pc \in {"idle", "thread", "query", "commit", "database", "broker"} => r \notin written
  /\ q.pc \in {"refresh", "lock", "publish"} => r \in written /\ r \notin told
  /\ q.result = 201 => r \in told
  /\ q.result \in {404, 409, 422} => r \notin written /\ q.pc \in {"close", "count", "done"}
  /\ q.pc \notin {"count", "done"} => q.answer = NoAnswer /\ q.code = 500
  /\ q.pc = "count" => IF q.result = Raised THEN q.answer = NoAnswer /\ q.code = 500
                       ELSE q.answer = q.result /\ q.code = q.result
  /\ q.pc = "done" => q.answer = IF q.result = Raised THEN 500 ELSE q.result

RequestsSound ==
  \A r \in Requests : Sound(r, req[r], conn, running, committed, announced)

\* Who holds the lock of broker.py is in the middle of publish_event.
LockPlaced ==
  /\ lock # NoOne => req[lock].pc = "publish"
  /\ \A r \in Requests : req[r].pc = "publish" => lock = r

IInv == TypeOK /\ RequestsSound /\ LockPlaced /\ CountedAsAnswered

-----------------------------------------------------------------------------
\* The constants, for the provers.
LEMMA Constants ==
  /\ IsFiniteSet(Requests) /\ NoOne \notin Requests
  /\ \A r \in Requests : KindsOf[r] \subseteq Kinds
  /\ Threads \in Nat \ {0} /\ PoolSize \in Nat \ {0} /\ MaxDbErrors \in Nat
BY ServingAssumption DEF ServingAssumption

\* One more in a set that has room, one less in any.
LEMMA Room ==
  ASSUME NEW S, S \subseteq Requests, NEW r \in Requests, NEW n \in Nat
  PROVE  /\ S \cup {r} \subseteq Requests /\ S \ {r} \subseteq Requests
         /\ Cardinality(S) < n => Cardinality(S \cup {r}) <= n
         /\ Cardinality(S) <= n => Cardinality(S \ {r}) <= n
<1>1. IsFiniteSet(S)
  BY Constants, FS_Subset
<1>2. Cardinality(S) \in Nat
  BY <1>1, FS_CardinalityType
<1>3. Cardinality(S \cup {r}) = IF r \in S THEN Cardinality(S) ELSE Cardinality(S) + 1
  BY <1>1, FS_AddElement
<1>4. Cardinality(S \ {r}) = IF r \in S THEN Cardinality(S) - 1 ELSE Cardinality(S)
  BY <1>1, FS_RemoveElement
<1> QED
  BY <1>2, <1>3, <1>4

Places == {"idle", "thread", "query", "commit", "refresh", "lock", "publish",
           "database", "broker", "serialize", "close", "count", "done"}

Results == Codes \cup {Raised}

\* Goto keeps all of a request but its place.
LEMMA GotoFacts ==
  ASSUME req \in [Requests -> Request], NEW r \in Requests, NEW pc \in Places, Goto(r, pc)
  PROVE  \E new \in Request :
           /\ req' = [req EXCEPT ![r] = new]
           /\ new.pc = pc /\ new.result = req[r].result
           /\ new.kind = req[r].kind /\ new.code = req[r].code /\ new.answer = req[r].answer
<1> DEFINE q == req[r]
           new == [q EXCEPT !.pc = pc]
<1>1. q \in Request
  OBVIOUS
<1>2. req' = [req EXCEPT ![r] = new]
  BY DEF Goto
<1> HIDE DEF q
<1>3. /\ new \in Request /\ new.pc = pc /\ new.result = q.result
      /\ new.kind = q.kind /\ new.code = q.code /\ new.answer = q.answer
  BY <1>1 DEF Request, Places
<1> HIDE DEF new
<1> QED
  BY <1>2, <1>3 DEF q

\* Leave keeps all but the place and the result.
Leaves(r, pc, result) == req' = [req EXCEPT ![r].pc = pc, ![r].result = result]

LEMMA LeaveFacts ==
  ASSUME req \in [Requests -> Request], NEW r \in Requests, NEW pc \in Places,
         NEW result \in Results, Leaves(r, pc, result)
  PROVE  \E new \in Request :
           /\ req' = [req EXCEPT ![r] = new]
           /\ new.pc = pc /\ new.result = result
           /\ new.kind = req[r].kind /\ new.code = req[r].code /\ new.answer = req[r].answer
<1> DEFINE q == req[r]
           moved == [q EXCEPT !.pc = pc]
           new == [moved EXCEPT !.result = result]
<1>1. q \in Request
  OBVIOUS
<1>2. req' = [req EXCEPT ![r] = new]
  BY DEF Leaves
<1> HIDE DEF q
<1>3. /\ moved \in Request /\ moved.pc = pc
      /\ moved.kind = q.kind /\ moved.code = q.code /\ moved.answer = q.answer
  BY <1>1 DEF Request, Places
<1> HIDE DEF moved
<1>4. /\ new \in Request /\ new.pc = pc /\ new.result = result
      /\ new.kind = q.kind /\ new.code = q.code /\ new.answer = q.answer
  BY <1>3 DEF Request, Results
<1> HIDE DEF new
<1> QED
  BY <1>2, <1>4 DEF q

\* A set that only r's membership changes in.
OnlyOf(r, old, new) == new \in {old, old \cup {r}, old \ {r}}

\* The requests besides r are as sound as before.
LEMMA SoundStep ==
  ASSUME IInv, NEW r \in Requests, NEW new \in Request, req' = [req EXCEPT ![r] = new],
         OnlyOf(r, conn, conn'), OnlyOf(r, running, running'),
         OnlyOf(r, committed, committed'), OnlyOf(r, announced, announced'),
         Sound(r, new, conn', running', committed', announced')
  PROVE  req' \in [Requests -> Request] /\ RequestsSound'
<1>1. req \in [Requests -> Request]
  BY DEF IInv, TypeOK
<1>2. \A q \in Requests : req'[q] = IF q = r THEN new ELSE req[q]
  BY <1>1
<1>3. ASSUME NEW q \in Requests, q # r
      PROVE  Sound(q, req'[q], conn', running', committed', announced')
  <2>1. /\ q \in conn' <=> q \in conn
        /\ q \in running' <=> q \in running
        /\ q \in committed' <=> q \in committed
        /\ q \in announced' <=> q \in announced
    BY <1>3 DEF OnlyOf
  <2>2. Sound(q, req[q], conn, running, committed, announced) /\ req'[q] = req[q]
    BY <1>2, <1>3 DEF IInv, RequestsSound
  <2> QED
    BY <2>1, <2>2 DEF Sound
<1>4. Sound(r, req'[r], conn', running', committed', announced')
  BY <1>2
<1>5. req' \in [Requests -> Request]
  BY <1>1
<1> QED
  BY <1>3, <1>4, <1>5 DEF RequestsSound

Counted(c, request) == {r \in Requests : request[r].pc = "done" /\ request[r].answer = c}

\* Until a request is done the count does not change.
LEMMA CountStep ==
  ASSUME IInv, NEW r \in Requests, NEW new \in Request, req' = [req EXCEPT ![r] = new],
         req[r].pc # "done", new.pc # "done", counts' = counts
  PROVE  CountedAsAnswered'
<1>1. \A q \in Requests : req'[q] = IF q = r THEN new ELSE req[q]
  BY DEF IInv, TypeOK
<1>2. ASSUME NEW c PROVE Counted(c, req') = Counted(c, req)
  BY <1>1 DEF Counted
<1>3. \A c \in Codes : counts[c] = Cardinality(Counted(c, req))
  BY DEF IInv, CountedAsAnswered, Counted
<1>4. \A c \in Codes : counts'[c] = Cardinality(Counted(c, req'))
  BY <1>2, <1>3
<1> QED
  BY <1>4 DEF CountedAsAnswered, Counted

\* The lock, as long as r does not take or leave it.
LEMMA LockStep ==
  ASSUME IInv, NEW r \in Requests, NEW new \in Request, req' = [req EXCEPT ![r] = new],
         req[r].pc # "publish", new.pc # "publish", lock' = lock
  PROVE  LockPlaced'
<1>1. \A q \in Requests : req'[q] = IF q = r THEN new ELSE req[q]
  BY DEF IInv, TypeOK
<1>2. lock \in Requests \cup {NoOne}
  BY DEF IInv, TypeOK
<1> QED
  BY <1>1, <1>2 DEF IInv, LockPlaced

\* What r's step does to what the requests share.
Shares(r) ==
  /\ conn' = conn \/ conn' = conn \ {r} \/ (FreeConnection /\ conn' = conn \cup {r})
  /\ \/ running' = running \/ running' = running \ {r}
     \/ FreeThread /\ running' = running \cup {r}
  /\ committed' = committed \/ committed' = committed \cup {r}
  /\ announced' = announced /\ counts' = counts /\ lock' = lock
  /\ dbErrors' \in 0..MaxDbErrors
  /\ up' \in BOOLEAN /\ outlasted' \subseteq Requests

\* Threads and connections are given out as long as there are some.
LEMMA PoolStep ==
  ASSUME IInv, NEW r \in Requests, Shares(r)
  PROVE  /\ conn' \subseteq Requests /\ Cardinality(conn') <= PoolSize
         /\ running' \subseteq Requests /\ Cardinality(running') <= Threads
<1>1. /\ conn \subseteq Requests /\ Cardinality(conn) <= PoolSize
      /\ running \subseteq Requests /\ Cardinality(running) <= Threads
  BY DEF IInv, TypeOK
<1>2. PoolSize \in Nat /\ Threads \in Nat
  BY Constants
<1>3. conn' \subseteq Requests /\ Cardinality(conn') <= PoolSize
  <2>1. CASE conn' = conn
    BY <2>1, <1>1
  <2>2. CASE conn' = conn \ {r}
    BY <2>2, <1>1, <1>2, Room
  <2>3. CASE FreeConnection /\ conn' = conn \cup {r}
    BY <2>3, <1>1, <1>2, Room DEF FreeConnection
  <2> QED
    BY <2>1, <2>2, <2>3 DEF Shares
<1>4. running' \subseteq Requests /\ Cardinality(running') <= Threads
  <2>1. CASE running' = running
    BY <2>1, <1>1
  <2>2. CASE running' = running \ {r}
    BY <2>2, <1>1, <1>2, Room
  <2>3. CASE FreeThread /\ running' = running \cup {r}
    BY <2>3, <1>1, <1>2, Room DEF FreeThread
  <2> QED
    BY <2>1, <2>2, <2>3 DEF Shares
<1> QED
  BY <1>3, <1>4

\* A step of one request that neither ends it nor touches the lock.
LEMMA Moved ==
  ASSUME IInv, NEW r \in Requests, NEW new \in Request, req' = [req EXCEPT ![r] = new],
         req[r].pc # "done", req[r].pc # "publish", new.pc # "done", new.pc # "publish",
         Sound(r, new, conn', running', committed', announced'), Shares(r)
  PROVE  IInv'
<1>1. /\ OnlyOf(r, conn, conn') /\ OnlyOf(r, running, running')
      /\ OnlyOf(r, committed, committed') /\ OnlyOf(r, announced, announced')
  BY DEF OnlyOf, Shares
<1>2. req' \in [Requests -> Request] /\ RequestsSound'
  BY <1>1, SoundStep
<1>3. /\ conn' \subseteq Requests /\ Cardinality(conn') <= PoolSize
      /\ running' \subseteq Requests /\ Cardinality(running') <= Threads
  BY PoolStep
<1>4. committed' \subseteq Requests /\ announced' \subseteq committed'
  BY DEF IInv, TypeOK, Shares
<1>5. counts' \in [Codes -> Nat] /\ lock' \in Requests \cup {NoOne}
  BY DEF IInv, TypeOK, Shares
<1>7. CountedAsAnswered'
  BY CountStep DEF Shares
<1>8. LockPlaced'
  BY LockStep DEF Shares
<1>9. TypeOK'
  BY <1>2, <1>3, <1>4, <1>5 DEF TypeOK, Shares
<1> QED
  BY <1>2, <1>7, <1>8, <1>9 DEF IInv

-----------------------------------------------------------------------------
\* Nothing is held, written or counted at the start.
LEMMA InitInv == Init => IInv
<1> SUFFICES ASSUME Init PROVE IInv
  OBVIOUS
<1> DEFINE q == [pc |-> "idle", kind |-> "read", result |-> Raised,
                 code |-> StatusHolder, answer |-> NoAnswer]
<1>1. req = [r \in Requests |-> q] /\ running = {} /\ conn = {} /\ lock = NoOne
  BY DEF Init
<1>2. committed = {} /\ announced = {} /\ counts = [c \in Codes |-> 0] /\ dbErrors = 0
      /\ outlasted = {}
  BY DEF Init
<1>3. up \in BOOLEAN
  BY DEF Init
<1>4. q \in Request
  BY DEF Request, Kinds, Codes, StatusHolder
<1>5. /\ q.pc = "idle" /\ q.kind = "read" /\ q.result = Raised /\ q.code = 500
      /\ q.answer = NoAnswer
  BY DEF StatusHolder
<1> HIDE DEF q
<1>6. \A r \in Requests : Sound(r, q, {}, {}, {}, {})
  BY <1>5 DEF Sound, Raised
<1>7. RequestsSound
  BY <1>1, <1>2, <1>6 DEF RequestsSound
<1>8. \A c : Counted(c, req) = {}
  BY <1>1, <1>5 DEF Counted
<1>9. CountedAsAnswered
  <2>1. \A c \in Codes : Cardinality(Counted(c, req)) = 0 /\ counts[c] = 0
    BY <1>2, <1>8, FS_EmptySet
  <2> QED
    BY <2>1 DEF CountedAsAnswered, Counted
<1>10. Cardinality({}) <= Threads /\ Cardinality({}) <= PoolSize
  BY FS_EmptySet, Constants
<1>11. 0 \in 0..MaxDbErrors
  BY Constants
<1>12. TypeOK
  BY <1>1, <1>2, <1>3, <1>4, <1>10, <1>11 DEF TypeOK
<1>13. LockPlaced
  BY <1>1, <1>5 DEF LockPlaced
<1> QED
  BY <1>7, <1>9, <1>12, <1>13 DEF IInv

\* A request comes, and one that does not validate is turned away.
LEMMA ArriveInv ==
  ASSUME IInv, NEW r \in Requests, NEW kind \in KindsOf[r], Arrive(r, kind)
  PROVE  IInv'
<1> DEFINE q == req[r]
           moved == [q EXCEPT !.pc = "thread"]
           new == [moved EXCEPT !.kind = kind]
<1>1. q \in Request /\ q.pc = "idle" /\ kind \in Kinds
  BY Constants DEF Arrive, IInv, TypeOK
<1>2. req' = [req EXCEPT ![r] = new]
  BY DEF Arrive
<1>3. Sound(r, q, conn, running, committed, announced)
  BY DEF IInv, RequestsSound
<1>4. /\ running' = running /\ conn' = conn /\ lock' = lock
      /\ committed' = committed /\ announced' = announced /\ counts' = counts
      /\ dbErrors' \in 0..MaxDbErrors
  BY DEF Arrive, IInv, TypeOK
<1>b. up' \in BOOLEAN /\ outlasted' \subseteq Requests
  BY DEF Arrive, IInv, TypeOK
<1> HIDE DEF q
<1>5. /\ moved \in Request /\ moved.pc = "thread" /\ moved.result = q.result
      /\ moved.code = q.code /\ moved.answer = q.answer
  BY <1>1 DEF Request
<1> HIDE DEF moved
<1>6. /\ new \in Request /\ new.pc = "thread" /\ new.result = q.result
      /\ new.code = q.code /\ new.answer = q.answer
  BY <1>1, <1>5 DEF Request
<1> HIDE DEF new
<1>7. Sound(r, new, conn', running', committed', announced')
  BY <1>1, <1>3, <1>4, <1>6 DEF Sound
<1>8. req[r].pc # "done" /\ req[r].pc # "publish" /\ new.pc # "done" /\ new.pc # "publish"
  BY <1>1, <1>6 DEF q
<1>9. Shares(r)
  BY <1>b, <1>4 DEF Shares
<1> QED
  BY <1>2, <1>6, <1>7, <1>8, <1>9, Moved

\* A request that gets a place and a result, and keeps the rest.
Becomes(new, q, pc, result) ==
  /\ new.pc = pc /\ new.result = result
  /\ new.kind = q.kind /\ new.code = q.code /\ new.answer = q.answer

LEMMA Going ==
  ASSUME IInv, NEW r \in Requests, NEW pc \in Places, NEW result \in Results,
         (Goto(r, pc) /\ result = req[r].result) \/ Leaves(r, pc, result),
         req[r].pc # "done", req[r].pc # "publish", pc # "done", pc # "publish", Shares(r),
         \A new \in Request : Becomes(new, req[r], pc, result) =>
           Sound(r, new, conn', running', committed', announced')
  PROVE  IInv'
<1>1. req \in [Requests -> Request]
  BY DEF IInv, TypeOK
<1>2. PICK new \in Request :
        req' = [req EXCEPT ![r] = new] /\ Becomes(new, req[r], pc, result)
  <2>1. CASE Goto(r, pc) /\ result = req[r].result
    BY <1>1, <2>1, GotoFacts DEF Becomes
  <2>2. CASE Leaves(r, pc, result)
    BY <1>1, <2>2, LeaveFacts DEF Becomes
  <2> QED
    BY <2>1, <2>2
<1>3. Sound(r, new, conn', running', committed', announced') /\ new.pc # "done" /\ new.pc # "publish"
  BY <1>2 DEF Becomes
<1> QED
  BY <1>2, <1>3, Moved

\* A request that does not validate is turned away.
LEMMA InvalidInv ==
  ASSUME IInv, NEW r \in Requests, Invalid(r)
  PROVE  IInv'
<1>0. req[r] \in Request
  BY DEF IInv, TypeOK
<1>1. req[r].pc = "thread" /\ Sound(r, req[r], conn, running, committed, announced)
  BY DEF Invalid, IInv, RequestsSound
<1>2. Leaves(r, "close", 422)
  BY DEF Invalid, Leave, Leaves
<1>3. /\ conn' = conn
      /\ running' = running
      /\ committed' = committed /\ announced' = announced
      /\ counts' = counts /\ lock' = lock /\ dbErrors' \in 0..MaxDbErrors
  BY DEF Invalid, Leave, IInv, TypeOK
<1>4. up' \in BOOLEAN /\ outlasted' \subseteq Requests
  BY DEF Invalid, IInv, TypeOK
<1>5. Shares(r)
  BY <1>3, <1>4 DEF Shares
<1>6. "close" \in Places /\ 422 \in Results
  BY <1>0 DEF Places, Results, Codes, Request
<1>7. \A new \in Request : Becomes(new, req[r], "close", 422) =>
        Sound(r, new, conn', running', committed', announced')
  BY <1>1, <1>3 DEF Sound, Becomes, Raised
<1> QED
  BY <1>1, <1>2, <1>5, <1>6, <1>7, Going

\* The commit gives the connection back.
LEMMA CommitInv ==
  ASSUME IInv, NEW r \in Requests, Commit(r)
  PROVE  IInv'
<1>0. req[r] \in Request
  BY DEF IInv, TypeOK
<1>1. req[r].pc = "commit" /\ Sound(r, req[r], conn, running, committed, announced)
  BY DEF Commit, IInv, RequestsSound
<1>2. Goto(r, "refresh")
  BY DEF Commit
<1>3. /\ conn' = conn \ {r}
      /\ running' = running
      /\ committed' = committed \cup {r} /\ announced' = announced
      /\ counts' = counts /\ lock' = lock /\ dbErrors' \in 0..MaxDbErrors
  BY DEF Commit, Leave, IInv, TypeOK
<1>4. up' \in BOOLEAN /\ outlasted' \subseteq Requests
  BY DEF Commit, IInv, TypeOK
<1>5. Shares(r)
  BY <1>3, <1>4 DEF Shares
<1>6. "refresh" \in Places /\ req[r].result \in Results
  BY <1>0 DEF Places, Results, Codes, Request
<1>7. \A new \in Request : Becomes(new, req[r], "refresh", req[r].result) =>
        Sound(r, new, conn', running', committed', announced')
  BY <1>1, <1>3 DEF Sound, Becomes, Raised, IInv, TypeOK
<1> QED
  BY <1>1, <1>2, <1>5, <1>6, <1>7, Going

\* The refresh takes one again.
LEMMA RefreshInv ==
  ASSUME IInv, NEW r \in Requests, Refresh(r)
  PROVE  IInv'
<1>0. req[r] \in Request
  BY DEF IInv, TypeOK
<1>1. req[r].pc = "refresh" /\ Sound(r, req[r], conn, running, committed, announced)
  BY DEF Refresh, IInv, RequestsSound
<1>2. Goto(r, "lock")
  BY DEF Refresh
<1>3. /\ FreeConnection /\ conn' = conn \cup {r}
      /\ running' = running
      /\ committed' = committed /\ announced' = announced
      /\ counts' = counts /\ lock' = lock /\ dbErrors' \in 0..MaxDbErrors
  BY DEF Refresh, Leave, IInv, TypeOK
<1>4. up' \in BOOLEAN /\ outlasted' \subseteq Requests
  BY DEF Refresh, IInv, TypeOK
<1>5. Shares(r)
  BY <1>3, <1>4 DEF Shares
<1>6. "lock" \in Places /\ req[r].result \in Results
  BY <1>0 DEF Places, Results, Codes, Request
<1>7. \A new \in Request : Becomes(new, req[r], "lock", req[r].result) =>
        Sound(r, new, conn', running', committed', announced')
  BY <1>1, <1>3 DEF Sound, Becomes, Raised
<1> QED
  BY <1>1, <1>2, <1>5, <1>6, <1>7, Going

\* readyz has seen the database ...
LEMMA DatabaseAnswersInv ==
  ASSUME IInv, NEW r \in Requests, DatabaseAnswers(r)
  PROVE  IInv'
<1>0. req[r] \in Request
  BY DEF IInv, TypeOK
<1>1. req[r].pc = "database" /\ Sound(r, req[r], conn, running, committed, announced)
  BY DEF DatabaseAnswers, IInv, RequestsSound
<1>2. Leaves(r, "broker", 200)
  BY DEF DatabaseAnswers, Leave, Leaves
<1>3. /\ conn' = conn
      /\ running' = running
      /\ committed' = committed /\ announced' = announced
      /\ counts' = counts /\ lock' = lock /\ dbErrors' \in 0..MaxDbErrors
  BY DEF DatabaseAnswers, Leave, IInv, TypeOK
<1>4. up' \in BOOLEAN /\ outlasted' \subseteq Requests
  BY DEF DatabaseAnswers, IInv, TypeOK
<1>5. Shares(r)
  BY <1>3, <1>4 DEF Shares
<1>6. "broker" \in Places /\ 200 \in Results
  BY <1>0 DEF Places, Results, Codes, Request
<1>7. \A new \in Request : Becomes(new, req[r], "broker", 200) =>
        Sound(r, new, conn', running', committed', announced')
  BY <1>1, <1>3 DEF Sound, Becomes, Raised
<1> QED
  BY <1>1, <1>2, <1>5, <1>6, <1>7, Going

\* The response model is filled in.
LEMMA SerializeInv ==
  ASSUME IInv, NEW r \in Requests, Serialize(r)
  PROVE  IInv'
<1>0. req[r] \in Request
  BY DEF IInv, TypeOK
<1>1. req[r].pc = "serialize" /\ Sound(r, req[r], conn, running, committed, announced)
  BY DEF Serialize, IInv, RequestsSound
<1>2. Goto(r, "close")
  BY DEF Serialize
<1>3. /\ conn' = conn
      /\ running' = running
      /\ committed' = committed /\ announced' = announced
      /\ counts' = counts /\ lock' = lock /\ dbErrors' \in 0..MaxDbErrors
  BY DEF Serialize, Leave, IInv, TypeOK
<1>4. up' \in BOOLEAN /\ outlasted' \subseteq Requests
  BY DEF Serialize, IInv, TypeOK
<1>5. Shares(r)
  BY <1>3, <1>4 DEF Shares
<1>6. "close" \in Places /\ req[r].result \in Results
  BY <1>0 DEF Places, Results, Codes, Request
<1>7. \A new \in Request : Becomes(new, req[r], "close", req[r].result) =>
        Sound(r, new, conn', running', committed', announced')
  BY <1>1, <1>3 DEF Sound, Becomes, Raised
<1> QED
  BY <1>1, <1>2, <1>5, <1>6, <1>7, Going

\* The endpoint starts on a thread; /healthz is over at once.
LEMMA RunInv ==
  ASSUME IInv, NEW r \in Requests, Run(r)
  PROVE  IInv'
<1>0. req[r] \in Request
  BY DEF IInv, TypeOK
<1>1. req[r].pc = "thread" /\ Sound(r, req[r], conn, running, committed, announced)
  BY DEF Run, IInv, RequestsSound
<1>2. /\ conn' = conn
      /\ committed' = committed /\ announced' = announced
      /\ counts' = counts /\ lock' = lock /\ dbErrors' \in 0..MaxDbErrors
  BY DEF Run, IInv, TypeOK
<1>3. up' \in BOOLEAN /\ outlasted' \subseteq Requests
  BY DEF Run, IInv, TypeOK
<1>4. CASE req[r].kind = "healthz"
  <2>1. Leaves(r, "serialize", 200) /\ running' = running \ {r}
    BY <1>4 DEF Run, Leave, Leaves
  <2>2. Shares(r)
    BY <1>2, <1>3, <2>1 DEF Shares
  <2>3. "serialize" \in Places /\ 200 \in Results
    BY DEF Places, Results, Codes
  <2>4. \A new \in Request : Becomes(new, req[r], "serialize", 200) =>
          Sound(r, new, conn', running', committed', announced')
    BY <1>1, <1>2, <2>1 DEF Sound, Becomes, Raised
  <2> QED
    BY <1>1, <2>1, <2>2, <2>3, <2>4, Going
<1>5. CASE req[r].kind # "healthz"
  <2> DEFINE pc == FirstStep[req[r].kind]
  <2>1. Goto(r, pc) /\ FreeThread /\ running' = running \cup {r}
    BY <1>5 DEF Run
  <2>2. Shares(r)
    BY <1>2, <1>3, <2>1 DEF Shares
  <2>3. req[r].kind \in {"read", "create", "scan", "readyz"}
    BY <1>0, <1>5 DEF Request, Kinds
  <2>4. /\ pc \in {"query", "commit", "database"}
        /\ req[r].kind = "readyz" => pc = "database"
    BY <2>3 DEF FirstStep
  <2>5. pc \in Places /\ pc # "done" /\ pc # "publish" /\ req[r].result \in Results
    BY <1>0, <2>4 DEF Places, Results, Request
  <2> HIDE DEF pc
  <2>6. \A new \in Request : Becomes(new, req[r], pc, req[r].result) =>
          Sound(r, new, conn', running', committed', announced')
    BY <1>1, <1>2, <2>1, <2>4 DEF Sound, Becomes
  <2> QED
    BY <1>1, <2>1, <2>2, <2>5, <2>6, Going
<1> QED
  BY <1>4, <1>5

\* The query takes a connection; what it finds decides how the endpoint goes on.
LEMMA QueryInv ==
  ASSUME IInv, NEW r \in Requests, Query(r)
  PROVE  IInv'
<1>0. req[r] \in Request
  BY DEF IInv, TypeOK
<1>1. req[r].pc = "query" /\ Sound(r, req[r], conn, running, committed, announced)
  BY DEF Query, IInv, RequestsSound
<1>2. /\ FreeConnection /\ conn' = conn \cup {r}
      /\ committed' = committed /\ announced' = announced
      /\ counts' = counts /\ lock' = lock /\ dbErrors' \in 0..MaxDbErrors
  BY DEF Query, IInv, TypeOK
<1>3. up' \in BOOLEAN /\ outlasted' \subseteq Requests
  BY DEF Query, IInv, TypeOK
<1>4. ASSUME NEW pc, NEW result, <<pc, result>> \in {<<"serialize", 200>>, <<"close", 404>>, <<"close", 409>>},
             Leave(r, pc, result)
      PROVE  IInv'
  <2>1. Leaves(r, pc, result) /\ running' = running \ {r}
    BY <1>4 DEF Leave, Leaves
  <2>2. Shares(r)
    BY <1>2, <1>3, <2>1 DEF Shares
  <2>3. pc \in Places /\ pc # "done" /\ pc # "publish" /\ result \in Results
    BY <1>4 DEF Places, Results, Codes
  <2>4. \A new \in Request : Becomes(new, req[r], pc, result) =>
          Sound(r, new, conn', running', committed', announced')
    BY <1>1, <1>2, <1>4, <2>1 DEF Sound, Becomes, Raised
  <2> QED
    BY <1>1, <2>1, <2>2, <2>3, <2>4, Going
<1>5. ASSUME req[r].kind = "scan", Goto(r, "commit"), running' = running
      PROVE  IInv'
  <2>1. Shares(r)
    BY <1>2, <1>3, <1>5 DEF Shares
  <2>2. "commit" \in Places /\ req[r].result \in Results
    BY <1>0 DEF Places, Results, Request
  <2>3. \A new \in Request : Becomes(new, req[r], "commit", req[r].result) =>
          Sound(r, new, conn', running', committed', announced')
    BY <1>1, <1>2, <1>5 DEF Sound, Becomes
  <2> QED
    BY <1>1, <1>5, <2>1, <2>2, <2>3, Going
<1>6. \/ Leave(r, "serialize", 200) \/ Leave(r, "close", 404) \/ Leave(r, "close", 409)
      \/ req[r].kind = "scan" /\ Goto(r, "commit") /\ running' = running
  BY DEF Query
<1> QED
  BY <1>4, <1>5, <1>6

\* ... and says what it has seen of the broker.
LEMMA BrokerAnswersInv ==
  ASSUME IInv, NEW r \in Requests, NEW alive \in BOOLEAN, BrokerAnswers(r, alive)
  PROVE  IInv'
<1> DEFINE result == IF alive THEN req[r].result ELSE 503
<1>0. req[r] \in Request
  BY DEF IInv, TypeOK
<1>1. req[r].pc = "broker" /\ Sound(r, req[r], conn, running, committed, announced)
  BY DEF BrokerAnswers, IInv, RequestsSound
<1>2. Leaves(r, "serialize", result)
  BY DEF BrokerAnswers, Leave, Leaves
<1>3. /\ conn' = conn
      /\ running' = running \ {r}
      /\ committed' = committed /\ announced' = announced
      /\ counts' = counts /\ lock' = lock /\ dbErrors' \in 0..MaxDbErrors
  BY DEF BrokerAnswers, Leave, IInv, TypeOK
<1>4. up' \in BOOLEAN /\ outlasted' \subseteq Requests
  BY DEF BrokerAnswers, IInv, TypeOK
<1>5. Shares(r)
  BY <1>3, <1>4 DEF Shares
<1>6. "serialize" \in Places /\ result \in Results /\ result \in {req[r].result, 503}
  BY <1>0 DEF Places, Results, Codes, Request
<1> HIDE DEF result
<1>7. \A new \in Request : Becomes(new, req[r], "serialize", result) =>
        Sound(r, new, conn', running', committed', announced')
  BY <1>1, <1>3, <1>6 DEF Sound, Becomes, Raised
<1> QED
  BY <1>1, <1>2, <1>5, <1>6, <1>7, Going

\* A statement that fails, or does not get a connection, ends the endpoint, except
\* that readyz goes on to the broker.
LEMMA NoDatabaseInv ==
  ASSUME IInv, NEW r \in Requests, NoDatabase(r),
         \/ req[r].pc \in ConnectionPlaces
         \/ req[r].pc = "serialize" /\ req[r].kind = "read",
         outlasted' = outlasted \ {r},
         UNCHANGED <<conn, lock, up, committed, announced, counts>>,
         dbErrors' \in 0..MaxDbErrors
  PROVE  IInv'
<1>1. Sound(r, req[r], conn, running, committed, announced)
  BY DEF IInv, RequestsSound
<1>2. /\ conn' = conn
      /\ committed' = committed /\ announced' = announced
      /\ counts' = counts /\ lock' = lock /\ dbErrors' \in 0..MaxDbErrors
  OBVIOUS
<1>3. up' \in BOOLEAN /\ outlasted' \subseteq Requests
  BY DEF IInv, TypeOK
<1>4. /\ req[r].pc \in {"query", "commit", "refresh", "database", "serialize"}
      /\ req[r].kind = "readyz" => req[r].pc # "serialize"
  BY DEF ConnectionPlaces
<1>5. CASE req[r].kind = "readyz"
  <2>1. Leaves(r, "broker", 503) /\ running' = running
    BY <1>5 DEF NoDatabase, Leaves
  <2>2. Shares(r)
    BY <1>2, <1>3, <2>1 DEF Shares
  <2>3. "broker" \in Places /\ 503 \in Results
    BY DEF Places, Results, Codes
  <2>4. \A new \in Request : Becomes(new, req[r], "broker", 503) =>
          Sound(r, new, conn', running', committed', announced')
    BY <1>1, <1>2, <1>5, <1>4, <2>1 DEF Sound, Becomes, Raised
  <2>5. req[r].pc # "done" /\ req[r].pc # "publish"
    BY <1>4
  <2> QED
    BY <2>1, <2>2, <2>3, <2>4, <2>5, Going
<1>6. CASE req[r].kind # "readyz"
  <2>1. Leaves(r, "close", Raised) /\ running' = running \ {r}
    BY <1>6 DEF NoDatabase, Raise, Leave, Leaves
  <2>2. Shares(r)
    BY <1>2, <1>3, <2>1 DEF Shares
  <2>3. "close" \in Places /\ Raised \in Results
    BY DEF Places, Results
  <2>4. \A new \in Request : Becomes(new, req[r], "close", Raised) =>
          Sound(r, new, conn', running', committed', announced')
    BY <1>1, <1>2, <1>4, <1>6, <2>1 DEF Sound, Becomes, Raised
  <2>5. req[r].pc # "done" /\ req[r].pc # "publish"
    BY <1>4
  <2> QED
    BY <2>1, <2>2, <2>3, <2>4, <2>5, Going
<1> QED
  BY <1>5, <1>6

LEMMA DbFailsInv ==
  ASSUME IInv, NEW r \in Requests, DbFails(r)
  PROVE  IInv'
<1>1. dbErrors \in 0..MaxDbErrors /\ MaxDbErrors \in Nat
  BY Constants DEF IInv, TypeOK
<1>2. dbErrors' \in 0..MaxDbErrors
  BY <1>1 DEF DbFails
<1>3. /\ NoDatabase(r) /\ outlasted' = outlasted \ {r}
      /\ UNCHANGED <<conn, lock, up, committed, announced, counts>>
      /\ \/ req[r].pc \in ConnectionPlaces
         \/ req[r].pc = "serialize" /\ req[r].kind = "read"
  BY DEF DbFails
<1> QED
  BY <1>2, <1>3, NoDatabaseInv

LEMMA TimesOutInv ==
  ASSUME IInv, NEW r \in Requests, TimesOut(r)
  PROVE  IInv'
<1>1. dbErrors' \in 0..MaxDbErrors
  BY DEF IInv, TypeOK, TimesOut
<1>2. /\ NoDatabase(r) /\ outlasted' = outlasted \ {r}
      /\ req[r].pc \in ConnectionPlaces
      /\ UNCHANGED <<conn, lock, up, committed, announced, counts>>
  BY DEF TimesOut, Stalled, Queues, NeedsConnection
<1> QED
  BY <1>1, <1>2, NoDatabaseInv

\* `with _lock` is entered by one ...
LEMMA LockInv ==
  ASSUME IInv, NEW r \in Requests, Lock(r)
  PROVE  IInv'
<1>0. req[r] \in Request /\ req \in [Requests -> Request]
  BY DEF IInv, TypeOK
<1>1. req[r].pc = "lock" /\ Sound(r, req[r], conn, running, committed, announced)
  BY DEF Lock, IInv, RequestsSound
<1>2. "publish" \in Places
  BY DEF Places
<1>3. PICK new \in Request :
        /\ req' = [req EXCEPT ![r] = new]
        /\ new.pc = "publish" /\ new.result = req[r].result
        /\ new.kind = req[r].kind /\ new.code = req[r].code /\ new.answer = req[r].answer
  BY <1>0, <1>2, GotoFacts DEF Lock
<1>4. /\ conn' = conn /\ running' = running /\ committed' = committed
      /\ announced' = announced /\ counts' = counts /\ lock' = r /\ dbErrors' = dbErrors
  BY DEF Lock
<1>5. Sound(r, new, conn', running', committed', announced')
  BY <1>1, <1>3, <1>4 DEF Sound
<1>6. /\ OnlyOf(r, conn, conn') /\ OnlyOf(r, running, running')
      /\ OnlyOf(r, committed, committed') /\ OnlyOf(r, announced, announced')
  BY <1>4 DEF OnlyOf
<1>7. req' \in [Requests -> Request] /\ RequestsSound'
  BY <1>3, <1>5, <1>6, SoundStep
<1>8. CountedAsAnswered'
  <2>1. req[r].pc # "done" /\ new.pc # "done"
    BY <1>1, <1>3
  <2> QED
    BY <2>1, <1>3, <1>4, CountStep
<1>9. LockPlaced'
  <2>1. \A q \in Requests : req'[q] = IF q = r THEN new ELSE req[q]
    BY <1>0, <1>3
  <2>2. \A q \in Requests : req[q].pc # "publish"
    BY Constants DEF Lock, IInv, LockPlaced
  <2> QED
    BY <2>1, <2>2, <1>3, <1>4 DEF LockPlaced
<1>10. up' \in BOOLEAN /\ outlasted' \subseteq Requests
  BY DEF Lock, IInv, TypeOK
<1>11. TypeOK'
  BY <1>4, <1>7, <1>10 DEF IInv, TypeOK
<1> QED
  BY <1>7, <1>8, <1>9, <1>11 DEF IInv

\* ... and left when the attempts of publish_event are over.
LEMMA PublishInv ==
  ASSUME IInv, NEW r \in Requests, Publish(r)
  PROVE  IInv'
<1>0. req[r] \in Request /\ req \in [Requests -> Request]
  BY DEF IInv, TypeOK
<1>1. req[r].pc = "publish" /\ Sound(r, req[r], conn, running, committed, announced)
  BY DEF Publish, IInv, RequestsSound
<1>2. "serialize" \in Places /\ 201 \in Results /\ Leaves(r, "serialize", 201)
  BY DEF Places, Results, Codes, Publish, Leave, Leaves
<1>3. PICK new \in Request :
        /\ req' = [req EXCEPT ![r] = new]
        /\ new.pc = "serialize" /\ new.result = 201
        /\ new.kind = req[r].kind /\ new.code = req[r].code /\ new.answer = req[r].answer
  BY <1>0, <1>2, LeaveFacts
<1>4. /\ conn' = conn /\ running' = running \ {r} /\ committed' = committed
      /\ announced' = announced \cup {r} /\ counts' = counts /\ lock' = NoOne
      /\ dbErrors' = dbErrors
  BY DEF Publish, Leave
<1>5. Sound(r, new, conn', running', committed', announced')
  BY <1>1, <1>3, <1>4 DEF Sound
<1>6. /\ OnlyOf(r, conn, conn') /\ OnlyOf(r, running, running')
      /\ OnlyOf(r, committed, committed') /\ OnlyOf(r, announced, announced')
  BY <1>4 DEF OnlyOf
<1>7. req' \in [Requests -> Request] /\ RequestsSound'
  BY <1>3, <1>5, <1>6, SoundStep
<1>8. CountedAsAnswered'
  <2>1. req[r].pc # "done" /\ new.pc # "done"
    BY <1>1, <1>3
  <2> QED
    BY <2>1, <1>3, <1>4, CountStep
<1>9. up' \in BOOLEAN /\ outlasted' \subseteq Requests
  BY DEF Publish, IInv, TypeOK
<1>10. running' \subseteq Requests /\ Cardinality(running') <= Threads
  BY <1>4, Room, Constants DEF IInv, TypeOK
<1>11. announced' \subseteq committed'
  BY <1>1, <1>4 DEF Sound, IInv, TypeOK
<1>12. TypeOK'
  BY <1>4, <1>7, <1>9, <1>10, <1>11 DEF IInv, TypeOK
<1>13. LockPlaced'
  <2>1. \A q \in Requests : req'[q] = IF q = r THEN new ELSE req[q]
    BY <1>0, <1>3
  <2>2. \A q \in Requests : req[q].pc = "publish" => q = r
    BY <1>1 DEF IInv, LockPlaced
  <2>3. \A q \in Requests : req'[q].pc # "publish"
    BY <1>3, <2>1, <2>2
  <2> QED
    BY <1>4, <2>3 DEF LockPlaced
<1> QED
  BY <1>7, <1>8, <1>12, <1>13 DEF IInv

\* The session is closed and the response sent, if there is one.
LEMMA CloseInv ==
  ASSUME IInv, NEW r \in Requests, Close(r)
  PROVE  IInv'
<1>0. req[r] \in Request
  BY DEF IInv, TypeOK
<1>1. req[r].pc = "close" /\ Sound(r, req[r], conn, running, committed, announced)
  BY DEF Close, IInv, RequestsSound
<1>2. /\ conn' = conn \ {r}
      /\ running' = running
      /\ committed' = committed /\ announced' = announced
      /\ counts' = counts /\ lock' = lock /\ dbErrors' \in 0..MaxDbErrors
  BY DEF Close, IInv, TypeOK
<1>3. up' \in BOOLEAN /\ outlasted' \subseteq Requests
  BY DEF Close, IInv, TypeOK
<1>4. Shares(r)
  BY <1>2, <1>3 DEF Shares
<1>5. CASE req[r].result = Raised
  <2>1. Goto(r, "count") /\ "count" \in Places /\ req[r].result \in Results
    BY <1>5 DEF Close, Answered, Goto, Places, Results
  <2>2. \A new \in Request : Becomes(new, req[r], "count", req[r].result) =>
          Sound(r, new, conn', running', committed', announced')
    BY <1>1, <1>2, <1>5 DEF Sound, Becomes, Raised
  <2> QED
    BY <1>1, <1>4, <2>1, <2>2, Going
<1>6. CASE req[r].result # Raised
  <2> DEFINE q     == req[r]
             moved == [q EXCEPT !.pc = "count"]
             coded == [moved EXCEPT !.code = q.result]
             new   == [coded EXCEPT !.answer = q.result]
  <2>1. req' = [req EXCEPT ![r] = new]
    BY <1>6 DEF Close, Answered
  <2>2. q \in Request /\ q.result \in Codes
    BY <1>0, <1>6 DEF Request
  <2>3. Sound(r, q, conn, running, committed, announced) /\ q.pc = "close"
    BY <1>1
  <2>4. q.result # Raised
    BY <1>6
  <2> HIDE DEF q
  <2>5. /\ moved \in Request /\ moved.pc = "count" /\ moved.result = q.result
        /\ moved.kind = q.kind
    BY <2>2 DEF Request
  <2> HIDE DEF moved
  <2>6. /\ coded \in Request /\ coded.pc = "count" /\ coded.result = q.result
        /\ coded.kind = q.kind /\ coded.code = q.result
    BY <2>2, <2>5 DEF Request
  <2> HIDE DEF coded
  <2>7. /\ new \in Request /\ new.pc = "count" /\ new.result = q.result
        /\ new.kind = q.kind /\ new.code = q.result /\ new.answer = q.result
    BY <2>2, <2>6 DEF Request
  <2> HIDE DEF new
  <2>8. Sound(r, new, conn', running', committed', announced')
    BY <1>2, <2>3, <2>4, <2>7 DEF Sound
  <2>9. req[r].pc # "done" /\ req[r].pc # "publish" /\ new.pc # "done" /\ new.pc # "publish"
    BY <1>1, <2>7
  <2> QED
    BY <1>4, <2>1, <2>7, <2>8, <2>9, Moved
<1> QED
  BY <1>5, <1>6

\* The request is counted under the status that its client gets.
LEMMA CountInv ==
  ASSUME IInv, NEW r \in Requests, Count(r)
  PROVE  IInv'
<1> DEFINE q      == req[r]
           answer == IF q.result = Raised THEN 500 ELSE q.answer
           moved  == [q EXCEPT !.pc = "done"]
           new    == [moved EXCEPT !.answer = answer]
<1>0. q \in Request /\ req \in [Requests -> Request]
  BY DEF IInv, TypeOK
<1>1. q.pc = "count" /\ Sound(r, q, conn, running, committed, announced)
  BY DEF Count, IInv, RequestsSound
<1>2. req' = [req EXCEPT ![r] = new]
  BY ZenonT(60) DEF Count
<1>3. counts' = [counts EXCEPT ![q.code] = @ + 1]
  BY DEF Count
<1>4. /\ conn' = conn /\ running' = running /\ committed' = committed
      /\ announced' = announced /\ lock' = lock /\ dbErrors' = dbErrors
  BY DEF Count
<1>5. \A z \in Requests : req'[z] = IF z = r THEN new ELSE req[z]
  BY <1>0, <1>2
<1>a. req[r].pc = "count"
  BY <1>1
<1> HIDE DEF q
<1>6. q.code \in Codes /\ answer \in Codes /\ answer = q.code
  BY <1>0, <1>1 DEF Request, Sound, Codes, Raised
<1> HIDE DEF answer
<1>7. /\ moved \in Request /\ moved.pc = "done" /\ moved.kind = q.kind
      /\ moved.result = q.result /\ moved.code = q.code
  BY <1>0 DEF Request
<1> HIDE DEF moved
<1>8. /\ new \in Request /\ new.pc = "done" /\ new.kind = q.kind
      /\ new.result = q.result /\ new.code = q.code /\ new.answer = answer
  BY <1>6, <1>7 DEF Request
<1> HIDE DEF new
<1>9. Sound(r, new, conn', running', committed', announced')
  <2>1. answer = IF q.result = Raised THEN 500 ELSE q.result
    BY <1>1 DEF answer, Sound
  <2> QED
    BY <1>1, <1>4, <1>8, <2>1 DEF Sound
<1>10. req' \in [Requests -> Request] /\ RequestsSound'
  <2>1. /\ OnlyOf(r, conn, conn') /\ OnlyOf(r, running, running')
        /\ OnlyOf(r, committed, committed') /\ OnlyOf(r, announced, announced')
    BY <1>4 DEF OnlyOf
  <2> QED
    BY <1>2, <1>8, <1>9, <2>1, SoundStep
<1>11. counts \in [Codes -> Nat]
  BY DEF IInv, TypeOK
<1>12. counts' \in [Codes -> Nat]
  BY <1>3, <1>6, <1>11
<1>13. ASSUME NEW c \in Codes PROVE counts'[c] = Cardinality(Counted(c, req'))
  <2>1. counts[c] = Cardinality(Counted(c, req))
    BY DEF IInv, CountedAsAnswered, Counted
  <2>2. CASE c = q.code
    <3>1. Counted(c, req') = Counted(c, req) \cup {r} /\ r \notin Counted(c, req)
      BY <1>5, <1>6, <1>8, <1>a, <2>2 DEF Counted
    <3>2. IsFiniteSet(Counted(c, req))
      BY Constants, FS_Subset DEF Counted
    <3>3. Cardinality(Counted(c, req')) = Cardinality(Counted(c, req)) + 1
      BY <3>1, <3>2, FS_AddElement
    <3>4. counts'[c] = counts[c] + 1
      BY <1>3, <1>6, <1>11, <2>2
    <3> QED
      BY <2>1, <3>3, <3>4
  <2>3. CASE c # q.code
    <3>1. Counted(c, req') = Counted(c, req)
      BY <1>5, <1>6, <1>8, <1>a, <2>3 DEF Counted
    <3>2. counts'[c] = counts[c]
      BY <1>3, <1>6, <1>11, <2>3
    <3> QED
      BY <2>1, <3>1, <3>2
  <2> QED
    BY <2>2, <2>3
<1>14. CountedAsAnswered'
  BY <1>13 DEF CountedAsAnswered, Counted
<1>15. LockPlaced'
  BY <1>1, <1>2, <1>4, <1>8, <1>a, LockStep
<1>16. up' \in BOOLEAN /\ outlasted' \subseteq Requests
  BY DEF Count, IInv, TypeOK
<1>17. TypeOK'
  BY <1>4, <1>10, <1>12, <1>16 DEF IInv, TypeOK
<1> QED
  BY <1>10, <1>14, <1>15, <1>17 DEF IInv

-----------------------------------------------------------------------------
LEMMA NextInv == IInv /\ [Next]_vars => IInv'
<1> SUFFICES ASSUME IInv, [Next]_vars PROVE IInv'
  OBVIOUS
<1>1. ASSUME NEW r \in Requests, Work(r) PROVE IInv'
  BY <1>1, RunInv, QueryInv, CommitInv, RefreshInv, LockInv, PublishInv, DatabaseAnswersInv,
     BrokerAnswersInv, SerializeInv, CloseInv, CountInv, TimesOutInv DEF Work
<1>2. CASE BrokerStopsOrStarts
  <2>1. /\ req' = req /\ running' = running /\ conn' = conn /\ lock' = lock
        /\ committed' = committed /\ announced' = announced /\ counts' = counts
        /\ dbErrors' = dbErrors
    BY <1>2 DEF BrokerStopsOrStarts
  <2>2. up' \in BOOLEAN /\ outlasted' \subseteq Requests
    BY <1>2 DEF BrokerStopsOrStarts, IInv, TypeOK
  <2>3. TypeOK'
    BY <2>1, <2>2 DEF IInv, TypeOK
  <2>4. RequestsSound' /\ LockPlaced' /\ CountedAsAnswered'
    BY <2>1 DEF IInv, RequestsSound, LockPlaced, CountedAsAnswered
  <2> QED
    BY <2>3, <2>4 DEF IInv
<1>3. CASE UNCHANGED vars
  <2>1. /\ req' = req /\ running' = running /\ conn' = conn /\ lock' = lock
        /\ committed' = committed /\ announced' = announced /\ counts' = counts
        /\ dbErrors' = dbErrors
    BY <1>3 DEF vars
  <2>2. up' \in BOOLEAN /\ outlasted' \subseteq Requests
    BY <1>3 DEF vars, IInv, TypeOK
  <2>3. TypeOK'
    BY <2>1, <2>2 DEF IInv, TypeOK
  <2>4. RequestsSound' /\ LockPlaced' /\ CountedAsAnswered'
    BY <2>1 DEF IInv, RequestsSound, LockPlaced, CountedAsAnswered
  <2> QED
    BY <2>3, <2>4 DEF IInv
<1> QED
  BY <1>1, <1>2, <1>3, ArriveInv, InvalidInv, DbFailsInv DEF Next

-----------------------------------------------------------------------------
\* The strengthened invariant, for the results below.
THEOREM Invariance == Spec => []IInv
BY InitInv, NextInv, PTL DEF Spec

\* No more threads and connections are in use than there are, and nothing is announced
\* that is not committed (db.py:16-34; service.py:41-47, 97-112).
THEOREM TypeCorrect == Spec => []TypeOK
<1>1. IInv => TypeOK
  BY DEF IInv
<1> QED
  BY <1>1, Invariance, PTL

\* An answer says what became of the write, whatever failed or timed out on the way
\* (service.py:41-49, 97-113; db.py:29-34).
THEOREM AnswersStayTruthful == Spec => []AnswersTruthful
<1>1. IInv => AnswersTruthful
  <2> SUFFICES ASSUME IInv, NEW r \in Requests
               PROVE  /\ req[r].answer = 201 => r \in announced
                      /\ req[r].answer \in {404, 409, 422} => r \notin committed
    BY DEF AnswersTruthful
  <2>1. req[r] \in Request /\ Sound(r, req[r], conn, running, committed, announced)
    BY DEF IInv, TypeOK, RequestsSound
  <2> QED
    BY <2>1 DEF Sound, NoAnswer
<1> QED
  BY <1>1, Invariance, PTL

\* Every request is counted once, under the status that its client gets
\* (metrics.py:40-53).
THEOREM EveryRequestCounted == Spec => []CountedAsAnswered
<1>1. IInv => CountedAsAnswered
  BY DEF IInv
<1> QED
  BY <1>1, Invariance, PTL

\* A wait outlasts a publish only once one is over.
OutlastedNeedsPublish == outlasted # {} => announced # {}

LEMMA OutlastedInv == Spec => []OutlastedNeedsPublish
<1>1. Init => OutlastedNeedsPublish
  BY DEF Init, OutlastedNeedsPublish
<1>2. OutlastedNeedsPublish /\ [Next]_vars => OutlastedNeedsPublish'
  <2> SUFFICES ASSUME OutlastedNeedsPublish, [Next]_vars PROVE OutlastedNeedsPublish'
    OBVIOUS
  <2> USE DEF OutlastedNeedsPublish
  <2>1. ASSUME NEW r \in Requests, Work(r) PROVE OutlastedNeedsPublish'
    <3>1. CASE Publish(r)
      BY <3>1 DEF Publish
    <3>2. CASE Run(r) \/ Query(r) \/ Commit(r) \/ Refresh(r) \/ Lock(r)
      BY <3>2 DEF Run, Query, Commit, Refresh, Lock
    <3>3. CASE DatabaseAnswers(r) \/ (\E alive \in BOOLEAN : BrokerAnswers(r, alive))
      BY <3>3 DEF DatabaseAnswers, BrokerAnswers
    <3>4. CASE Serialize(r) \/ Close(r) \/ Count(r) \/ TimesOut(r)
      BY <3>4 DEF Serialize, Close, Count, TimesOut
    <3> QED
      BY <2>1, <3>1, <3>2, <3>3, <3>4 DEF Work
  <2>2. ASSUME NEW r \in Requests, Invalid(r) \/ DbFails(r) \/ \E kind \in KindsOf[r] : Arrive(r, kind)
        PROVE  OutlastedNeedsPublish'
    BY <2>2 DEF Invalid, DbFails, Arrive
  <2>3. CASE BrokerStopsOrStarts \/ UNCHANGED vars
    BY <2>3 DEF BrokerStopsOrStarts, vars
  <2> QED
    BY <2>1, <2>2, <2>3 DEF Next
<1> QED
  BY <1>1, <1>2, PTL DEF Spec

\* A checkout of the pool times out only in a crowd of as many requests as threads and
\* connections together, or behind a second publish that finds no broker (db.py:16-34;
\* broker.py:50-68).
THEOREM StarvationNeedsACrowd == Spec => StarvesOnlyInACrowd
<1> DEFINE InProgress == {q \in Requests : ~(req[q].pc \in {"idle", "done"})}
           Behind == ~up /\ announced # {} /\ \E q \in Requests \ announced : req[q].pc = "publish"
<1>1. ASSUME IInv, NEW r \in Requests, TimesOut(r), lock = NoOne
      PROVE  Cardinality(InProgress) >= Threads + PoolSize
  <2>1. NeedsConnection(r) /\ ~FreeConnection /\ \A q \in Requests : Waits(q)
    BY <1>1 DEF TimesOut, Stalled, Queues
  <2>2. \A q \in Requests : /\ req[q] \in Request
                            /\ Sound(q, req[q], conn, running, committed, announced)
    BY <1>1 DEF IInv, TypeOK, RequestsSound
  <2>3. conn \subseteq Requests /\ running \subseteq Requests
    BY <1>1 DEF IInv, TypeOK
  <2>4. ASSUME NEW q \in Requests PROVE req[q].pc \notin {"publish", "close"}
    <3>1. req[q].pc # "publish"
      BY <1>1, Constants DEF IInv, LockPlaced
    <3> QED
      BY <2>1, <3>1 DEF Waits, Queues, NeedsConnection, ConnectionPlaces
  <2>5. lock = NoOne
    BY <1>1
  <2>6. ASSUME NEW q \in conn PROVE req[q].pc = "serialize" /\ ~FreeThread
    <3>1. q \in Requests /\ req[q].pc \in {"commit", "lock", "publish", "serialize", "close"}
      BY <2>2, <2>3 DEF Sound
    <3>2. req[q].pc # "lock" /\ req[q].pc # "commit"
      BY <2>1, <2>5, <3>1 DEF Waits, Queues, NeedsConnection
    <3>3. req[q].pc = "serialize"
      BY <2>4, <3>1, <3>2
    <3> QED
      BY <2>1, <3>1, <3>3 DEF Waits, Queues, NeedsConnection, ConnectionPlaces
  <2>7. IsFiniteSet(conn) /\ IsFiniteSet(running)
    BY <2>3, Constants, FS_Subset
  <2>8. Cardinality(conn) \in Nat /\ Cardinality(running) \in Nat
    BY <2>7, FS_CardinalityType
  <2>9. Cardinality(conn) >= PoolSize
    BY <2>1, <2>8, Constants DEF FreeConnection
  <2>10. conn # {}
    BY <2>8, <2>9, FS_EmptySet, Constants
  <2>11. Cardinality(running) >= Threads
    BY <2>6, <2>8, <2>10, Constants DEF FreeThread
  <2>12. conn \cap running = {}
    BY <2>2, <2>3, <2>6 DEF Sound
  <2>13. /\ IsFiniteSet(conn \cup running)
         /\ Cardinality(conn \cup running) = Cardinality(conn) + Cardinality(running)
    BY <2>7, <2>8, <2>12, FS_Union, FS_EmptySet
  <2>14. conn \cup running \subseteq InProgress
    BY <2>2, <2>3 DEF Sound
  <2>15. IsFiniteSet(InProgress)
    BY Constants, FS_Subset
  <2>16. Cardinality(conn \cup running) <= Cardinality(InProgress)
    BY <2>14, <2>15, FS_Subset
  <2>17. Cardinality(InProgress) \in Nat
    BY <2>15, FS_CardinalityType
  <2> QED
    BY <2>8, <2>9, <2>11, <2>13, <2>16, <2>17, Constants
<1>2. ASSUME IInv, OutlastedNeedsPublish, NEW r \in Requests, TimesOut(r), lock # NoOne
      PROVE  Behind
  <2>1. /\ lock \in Requests /\ req[lock].pc = "publish"
        /\ Sound(lock, req[lock], conn, running, committed, announced)
    BY <1>2 DEF IInv, TypeOK, LockPlaced, RequestsSound
  <2>2. ~up
    BY <1>2, <2>1 DEF TimesOut, Stalled, Waits, Queues, NeedsConnection, ConnectionPlaces
  <2>3. announced # {}
    BY <1>2 DEF TimesOut, Stalled, OutlastedNeedsPublish
  <2>4. lock \notin announced
    BY <2>1 DEF Sound
  <2> QED
    BY <2>1, <2>2, <2>3, <2>4
<1>3. IInv /\ OutlastedNeedsPublish /\ [Next]_vars =>
        [\A r \in Requests : TimesOut(r) =>
           \/ ~up /\ announced # {} /\ \E q \in Requests \ announced : req[q].pc = "publish"
           \/ Cardinality({q \in Requests : ~(req[q].pc \in {"idle", "done"})})
                >= Threads + PoolSize]_vars
  BY <1>1, <1>2
<1> QED
  BY <1>3, Invariance, OutlastedInv, PTL DEF Spec, StarvesOnlyInACrowd
=============================================================================
