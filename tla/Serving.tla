------------------------------- MODULE Serving -------------------------------
(***************************************************************************)
(* The requests that shipments-service serves at the same time, and what   *)
(* they share: the worker threads that run its endpoints (all of them are  *)
(* `def`), the connection pool of app/db.py, and the lock of               *)
(* publish_event.  The tables are module Shipments', the channel           *)
(* BrokerChannel's; here a request is what it waits for and what it holds. *)
(*                                                                         *)
(* A session takes a connection from the pool for its first statement,     *)
(* gives it back with the commit, takes one again for the refresh, and     *)
(* keeps that one until get_session closes it.                             *)
(***************************************************************************)
EXTENDS Naturals, FiniteSets

CONSTANTS Requests,    \* the requests that come
          KindsOf,     \* KindsOf[r]: what r may be
          NoOne,       \* nobody holds the lock
          Threads,     \* the worker threads
          PoolSize,    \* the connections of the pool, overflow included
          MaxDbErrors  \* bound on failing statements

\* list, detail, scans and internal_track are reads alike.
Kinds == {"read", "create", "scan", "readyz", "healthz"}

ASSUME ServingAssumption ==
  /\ IsFiniteSet(Requests)
  /\ KindsOf \in [Requests -> SUBSET Kinds]
  /\ NoOne \notin Requests
  /\ Threads \in Nat \ {0}
  /\ PoolSize \in Nat \ {0}
  /\ MaxDbErrors \in Nat

VARIABLES req,       \* req[r]: the request and how far it is
          running,   \* the requests whose endpoint occupies a thread
          conn,      \* the requests that hold a connection
          lock,      \* _lock of broker.py
          up,        \* the broker can be reached
          committed, \* the requests whose write is committed
          announced, \* those whose publish_event is over, counted ok or error
          counts,    \* http_requests_total by status
          outlasted, \* the requests whose wait for a connection has outlasted a publish
          dbErrors

vars == <<req, running, conn, lock, up, committed, announced, counts, outlasted, dbErrors>>

Codes == {200, 201, 404, 409, 422, 500, 503}

Raised == 0 \* an exception is on its way instead of a response
NoAnswer == 1

\* What MetricsMiddleware counts a request as before it has seen a response.
StatusHolderOk == 200 \* a slip
StatusHolder == 500

Request == [pc : {"idle", "thread", "query", "commit", "refresh", "lock", "publish",
                  "database", "broker", "serialize", "close", "count", "done"},
            kind : Kinds, result : Codes \cup {Raised}, code : Codes,
            answer : Codes \cup {NoAnswer}]

\* Where a request asks the database something.
ConnectionPlaces == {"query", "commit", "refresh", "database"}

TypeOK ==
  /\ req \in [Requests -> Request]
  /\ running \subseteq Requests /\ Cardinality(running) <= Threads
  /\ conn \subseteq Requests /\ Cardinality(conn) <= PoolSize
  /\ lock \in Requests \cup {NoOne}
  /\ up \in BOOLEAN
  /\ committed \subseteq Requests
  /\ announced \subseteq committed
  /\ counts \in [Codes -> Nat]
  /\ outlasted \subseteq Requests
  /\ dbErrors \in 0..MaxDbErrors

Init ==
  /\ req = [r \in Requests |->
              [pc |-> "idle", kind |-> "read", result |-> Raised,
               code |-> StatusHolder, answer |-> NoAnswer]]
  /\ running = {} /\ conn = {} /\ lock = NoOne
  /\ up \in BOOLEAN
  /\ committed = {} /\ announced = {}
  /\ counts = [c \in Codes |-> 0]
  /\ outlasted = {} /\ dbErrors = 0

-----------------------------------------------------------------------------
FreeThread == Cardinality(running) < Threads
FreeConnection == Cardinality(conn) < PoolSize

NeedsConnection(r) == r \notin conn /\ req[r].pc \in ConnectionPlaces

\* r waits for the pool.
Queues(r) == NeedsConnection(r) /\ ~FreeConnection

Goto(r, pc) == req' = [req EXCEPT ![r].pc = pc]

\* The endpoint is over, with a result or an exception: its thread is free.
Leave(r, pc, result) ==
  /\ req' = [req EXCEPT ![r].pc = pc, ![r].result = result]
  /\ running' = running \ {r}

Raise(r) == Leave(r, "close", Raised)

Arrive(r, kind) ==
  /\ req[r].pc = "idle"
  /\ req' = [req EXCEPT ![r].pc = "thread", ![r].kind = kind]
  /\ UNCHANGED <<running, conn, lock, up, committed, announced, counts, outlasted, dbErrors>>

\* The body does not validate: the endpoint is not called.
Invalid(r) ==
  /\ req[r].pc = "thread"
  /\ req[r].kind \in {"create", "scan"}
  /\ FreeThread
  /\ req' = [req EXCEPT ![r].pc = "close", ![r].result = 422]
  /\ UNCHANGED <<running, conn, lock, up, committed, announced, counts, outlasted, dbErrors>>

\* A slip: a shipment is announced first and committed never.
FirstStepAnnounced == [read |-> "query", scan |-> "query", create |-> "lock",
                       readyz |-> "database"]

\* autoflush=False: create_shipment touches the database with its commit only.
FirstStep == [read |-> "query", scan |-> "query", create |-> "commit",
              readyz |-> "database"]

Run(r) ==
  /\ req[r].pc = "thread"
  /\ FreeThread
  /\ IF req[r].kind = "healthz"
     THEN Leave(r, "serialize", 200)
     ELSE Goto(r, FirstStep[req[r].kind]) /\ running' = running \cup {r}
  /\ UNCHANGED <<conn, lock, up, committed, announced, counts, outlasted, dbErrors>>

\* The shipment is looked up, and a scan judged by next_status.
Query(r) ==
  /\ req[r].pc = "query"
  /\ FreeConnection
  /\ conn' = conn \cup {r}
  /\ \/ req[r].kind = "read" /\ Leave(r, "serialize", 200)
     \/ Leave(r, "close", 404)
     \/ req[r].kind = "scan" /\ Leave(r, "close", 409)
     \/ req[r].kind = "scan" /\ Goto(r, "commit") /\ UNCHANGED running
  /\ outlasted' = outlasted \ {r}
  /\ UNCHANGED <<lock, up, committed, announced, counts, dbErrors>>

Commit(r) ==
  /\ req[r].pc = "commit"
  /\ r \in conn \/ FreeConnection
  /\ conn' = conn \ {r}
  /\ committed' = committed \cup {r}
  /\ Goto(r, "refresh")
  /\ outlasted' = outlasted \ {r}
  /\ UNCHANGED <<running, lock, up, announced, counts, dbErrors>>

Refresh(r) ==
  /\ req[r].pc = "refresh"
  /\ FreeConnection
  /\ conn' = conn \cup {r}
  /\ Goto(r, "lock")
  /\ outlasted' = outlasted \ {r}
  /\ UNCHANGED <<running, lock, up, committed, announced, counts, dbErrors>>

Lock(r) ==
  /\ req[r].pc = "lock"
  /\ lock = NoOne
  /\ lock' = r
  /\ Goto(r, "publish")
  /\ UNCHANGED <<running, conn, up, committed, announced, counts, outlasted, dbErrors>>

\* A slip: the lock is released after a success only.
PublishKeepsLock(r) ==
  /\ req[r].pc = "publish"
  /\ lock' = IF up THEN NoOne ELSE lock
  /\ announced' = announced \cup {r}
  /\ Leave(r, "serialize", 201)
  /\ UNCHANGED <<conn, up, committed, counts, outlasted, dbErrors>>

\* Both attempts of publish_event.  While the broker cannot be reached they last, but
\* pika ends each on its own, and a single publish takes no longer than the pool's
\* 30 s: a wait for the pool is over first only if it has outlasted a publish before.
Publish(r) ==
  /\ req[r].pc = "publish"
  /\ lock' = NoOne
  /\ announced' = announced \cup {r}
  /\ Leave(r, "serialize", 201)
  /\ outlasted' = IF up THEN outlasted
                  ELSE outlasted \cup {q \in Requests : Queues(q)}
  /\ UNCHANGED <<conn, up, committed, counts, dbErrors>>

\* readyz; its connection is back in the pool before it looks at the broker.
DatabaseAnswers(r) ==
  /\ req[r].pc = "database"
  /\ FreeConnection
  /\ req' = [req EXCEPT ![r].pc = "broker", ![r].result = 200]
  /\ outlasted' = outlasted \ {r}
  /\ UNCHANGED <<running, conn, lock, up, committed, announced, counts, dbErrors>>

\* check_broker says one or the other: a cached channel can pass for a broker that is
\* away, and a connection that has just gone for a broker that is not (BrokerChannel).
BrokerAnswers(r, alive) ==
  /\ req[r].pc = "broker"
  /\ Leave(r, "serialize", IF alive THEN req[r].result ELSE 503)
  /\ UNCHANGED <<conn, lock, up, committed, announced, counts, outlasted, dbErrors>>

\* The response model is filled in, on a thread again.
Serialize(r) ==
  /\ req[r].pc = "serialize"
  /\ FreeThread
  /\ Goto(r, "close")
  /\ UNCHANGED <<running, conn, lock, up, committed, announced, counts, outlasted, dbErrors>>

Answered(r) ==
  req' = IF req[r].result = Raised
         THEN [req EXCEPT ![r].pc = "count"]
         ELSE [req EXCEPT ![r].pc = "count", ![r].code = req[r].result,
                          ![r].answer = req[r].result]

\* A slip: a session that ends in an exception is not closed.
CloseIfWell(r) ==
  /\ req[r].pc = "close"
  /\ conn' = IF req[r].result \in {404, 409, Raised} THEN conn ELSE conn \ {r}
  /\ Answered(r)
  /\ UNCHANGED <<running, lock, up, committed, announced, counts, outlasted, dbErrors>>

\* The session is closed, then the response, if there is one, is sent.
Close(r) ==
  /\ req[r].pc = "close"
  /\ conn' = conn \ {r}
  /\ Answered(r)
  /\ UNCHANGED <<running, lock, up, committed, announced, counts, outlasted, dbErrors>>

\* The `finally` of MetricsMiddleware; an exception goes on to Starlette's outermost
\* middleware, which answers 500.
Count(r) ==
  /\ req[r].pc = "count"
  /\ counts' = [counts EXCEPT ![req[r].code] = @ + 1]
  /\ req' = [req EXCEPT ![r].pc = "done",
                        ![r].answer = IF req[r].result = Raised THEN 500 ELSE @]
  /\ UNCHANGED <<running, conn, lock, up, committed, announced, outlasted, dbErrors>>

-----------------------------------------------------------------------------
(***************************************************************************)
(* What goes wrong.                                                        *)
(***************************************************************************)
\* No connection, or an error on it: readyz says so, the others raise.
NoDatabase(r) ==
  IF req[r].kind = "readyz"
  THEN /\ req' = [req EXCEPT ![r].pc = "broker", ![r].result = 503]
       /\ UNCHANGED running
  ELSE Raise(r)

\* A read may still load a shipment's scans while its response is filled in.
DbFails(r) ==
  /\ dbErrors < MaxDbErrors
  /\ \/ req[r].pc \in ConnectionPlaces /\ (r \in conn \/ FreeConnection)
     \/ req[r].pc = "serialize" /\ req[r].kind = "read" /\ FreeThread
  /\ dbErrors' = dbErrors + 1
  /\ outlasted' = outlasted \ {r}
  /\ NoDatabase(r)
  /\ UNCHANGED <<conn, lock, up, committed, announced, counts>>

\* r can do nothing until another gives something back, or a long wait is over.
Waits(r) ==
  \/ req[r].pc \in {"idle", "done"}
  \/ req[r].pc \in {"thread", "serialize"} /\ ~FreeThread
  \/ Queues(r)
  \/ req[r].pc = "lock" /\ lock # NoOne
  \/ req[r].pc = "publish" /\ ~up

\* The pool's 30 s pass only while nobody can move, and not during the first publish
\* that r waits for.
Stalled(r) ==
  /\ Queues(r)
  /\ \A q \in Requests : Waits(q)
  /\ lock # NoOne => r \in outlasted

\* A slip: without its refreshed row a write is answered all the same.
TimesOutQuietly(r) ==
  /\ Stalled(r)
  /\ IF req[r].pc = "refresh" THEN Leave(r, "serialize", 201) ELSE NoDatabase(r)
  /\ outlasted' = outlasted \ {r}
  /\ UNCHANGED <<conn, lock, up, committed, announced, counts, dbErrors>>

TimesOut(r) ==
  /\ Stalled(r)
  /\ NoDatabase(r)
  /\ outlasted' = outlasted \ {r}
  /\ UNCHANGED <<conn, lock, up, committed, announced, counts, dbErrors>>

BrokerStopsOrStarts ==
  /\ up' = ~up
  /\ UNCHANGED <<req, running, conn, lock, committed, announced, counts, outlasted, dbErrors>>

-----------------------------------------------------------------------------
Work(r) ==
  \/ Run(r) \/ Query(r) \/ Commit(r) \/ Refresh(r) \/ Lock(r) \/ Publish(r)
  \/ DatabaseAnswers(r)
  \/ \E alive \in BOOLEAN : BrokerAnswers(r, alive)
  \/ Serialize(r) \/ Close(r) \/ Count(r)
  \/ TimesOut(r)

Next ==
  \/ \E r \in Requests :
       \/ \E kind \in KindsOf[r] : Arrive(r, kind)
       \/ Invalid(r) \/ Work(r) \/ DbFails(r)
  \/ BrokerStopsOrStarts

Spec == Init /\ [][Next]_vars

\* A thread runs on, a connection attempt ends, a checkout times out.
FairSpec == Spec /\ \A r \in Requests : WF_vars(Work(r))

-----------------------------------------------------------------------------
\* An answer says what became of the write, whatever timed out or failed on the way:
\* 201 only after the commit and after publish_event had its two attempts, 4xx only
\* if nothing was written.  500 leaves it open: the refresh after the commit can
\* fail (service.py:41-49, 97-113; db.py:29-34).
AnswersTruthful ==
  \A r \in Requests :
    /\ req[r].answer = 201 => r \in announced
    /\ req[r].answer \in {404, 409, 422} => r \notin committed

\* http_requests_total counts every request once, under the status its client gets,
\* also when no response of the application was ever started (metrics.py:40-53).
CountedAsAnswered ==
  \A c \in Codes :
    counts[c] = Cardinality({r \in Requests : req[r].pc = "done" /\ req[r].answer = c})

\* A checkout of the pool times out in two situations only.  Either as many requests
\* as there are threads and connections together are in progress: the endpoints on
\* all threads wait for connections, which answers waiting for a thread still hold,
\* and with one request less somebody could move.  Or the broker is away and a write
\* is publishing that is not the first: a single publish that finds no broker never
\* costs another request its connection (db.py:16-34; broker.py:50-68).
StarvesOnlyInACrowd ==
  [][\A r \in Requests : TimesOut(r) =>
       \/ ~up /\ announced # {} /\ \E q \in Requests \ announced : req[q].pc = "publish"
       \/ Cardinality({q \in Requests : ~(req[q].pc \in {"idle", "done"})})
            >= Threads + PoolSize]_vars

\* Every request is answered: threads, connections and lock are never waited for in
\* a circle that no timeout breaks (db.py:29-34; broker.py:50-68).
EveryRequestAnswered ==
  \A r \in Requests : req[r].pc = "thread" ~> req[r].pc = "done"
=============================================================================
