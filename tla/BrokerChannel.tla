---------------------------- MODULE BrokerChannel ----------------------------
(***************************************************************************)
(* The publisher of shipments-service (app/broker.py): one connection and  *)
(* one channel for the process, kept in globals, opened when first needed  *)
(* and dropped after a failure; publish_event under a lock, and            *)
(* check_broker (GET /readyz) beside it without the lock.                  *)
(*                                                                         *)
(* Every statement that reads or writes a global is a step of its own, and *)
(* a call to pika between reading and storing one lets other threads run.  *)
(* Connections and channels are numbered in the order they are opened.     *)
(***************************************************************************)
EXTENDS Integers, Sequences, FiniteSets

CONSTANTS Callers,    \* threads in publish_event, one call each
          Probes,     \* threads that serve /readyz
          MaxProbes,  \* bound on the probes they serve
          MaxFaults   \* bound on what happens to the broker and the network

ASSUME BrokerAssumption ==
  /\ Callers \cap Probes = {}
  /\ MaxProbes \in Nat
  /\ MaxFaults \in Nat

VARIABLES lock,       \* _lock: the caller that holds it, if any
          connection, \* _connection
          channel,    \* _channel
          opened,     \* how many connections and channels have been opened
          carrier,    \* carrier[c]: the connection c belongs to, or is
          lost,       \* those that no longer reach the broker
          noticed,    \* those of them the client knows about (is_open is false)
          up,         \* the broker accepts connections
          declared,   \* the exchange exists; it is durable
          exchange,   \* the messages it took: whose they are
          thread,     \* thread[t]: where t is, and what it holds in locals
          trouble,    \* history: something disturbed the holder of the lock
          crossed,    \* history: a probe has crossed the way of another thread
          faults, probed

sharedVars == <<lock, connection, channel>>
brokerVars == <<opened, carrier, lost, noticed, up, declared, exchange>>
historyVars == <<trouble, crossed, faults, probed>>
vars == <<sharedVars, brokerVars, thread, historyVars>>

Threads == Callers \cup Probes

None == 0

\* `local` is a connection or channel between its making and its storing, `result`
\* what the call counted or the probe answered.
Thread == [pc : {"idle", "lock", "check", "is_open", "connect", "store_connection",
                 "open_channel", "store_channel", "declare", "return", "publish",
                 "except", "done"},
           attempt : 0..2, local : Nat, result : {"", "ok", "error", "yes", "no"}]

TypeOK ==
  /\ lock \in SUBSET Callers
  /\ opened \in Nat
  /\ {connection, channel} \subseteq 0..opened
  /\ carrier \in [1..opened -> 1..opened]
  /\ lost \subseteq 1..opened
  /\ noticed \subseteq lost
  /\ up \in BOOLEAN /\ declared \in BOOLEAN
  /\ exchange \in Seq(Callers)
  /\ thread \in [Threads -> Thread]
  /\ trouble \in BOOLEAN /\ crossed \in BOOLEAN
  /\ faults \in 0..MaxFaults
  /\ probed \in 0..MaxProbes

\* tracking-service may have declared the exchange before.
Init ==
  /\ lock = {}
  /\ connection = None
  /\ channel = None
  /\ opened = 0 /\ carrier = <<>>
  /\ lost = {}
  /\ noticed = {}
  /\ up = TRUE
  /\ declared \in BOOLEAN
  /\ exchange = <<>>
  /\ thread = [t \in Threads |->
                 [pc |-> "idle", attempt |-> 0, local |-> None, result |-> ""]]
  /\ trouble = FALSE /\ crossed = FALSE
  /\ faults = 0
  /\ probed = 0

-----------------------------------------------------------------------------
At(t, pc) == thread[t].pc = pc

Goto(t, pc) == thread' = [thread EXCEPT ![t].pc = pc]

\* The same, and the local is not used again.
Leave(t, pc) == thread' = [thread EXCEPT ![t].pc = pc, ![t].local = None]

\* An exception: publish_event catches it, check_broker answers that it is not ready.
Raise(t) ==
  IF t \in Callers THEN Leave(t, "except")
  ELSE thread' = [thread EXCEPT ![t].pc = "done", ![t].result = "no"]

\* A store to a global by a thread without the lock disturbs the one with it.
Disturbed(t) == trouble' = (trouble \/ (t \in Probes /\ lock # {}))

\* A connection and the channels on it.
Family(c) == {k \in 1..opened : carrier[k] = carrier[c]}

\* pika reads what came in for a connection when it is called on it, and so learns
\* which channels of it, or that all of it, are closed.
Notice(c) == noticed' = noticed \cup (IF c = None THEN {} ELSE lost \cap Family(c))

\* A call to pika on connection or channel c that waits for the broker's answer: it
\* goes on, or raises on None and on what is gone.
Rpc(t, c, goesOn) ==
  /\ IF c # None /\ c \notin lost THEN goesOn ELSE Raise(t)
  /\ Notice(c)

\* What t is about to call pika on, and the connection that is done on.
Handle(t) ==
  IF At(t, "open_channel") THEN connection
  ELSE IF At(t, "declare") THEN channel
  ELSE IF At(t, "publish") THEN thread[t].local
  ELSE None

Uses(t) == IF Handle(t) = None THEN None ELSE carrier[Handle(t)]

-----------------------------------------------------------------------------
\* publish_event is called ...
Call(t) ==
  /\ t \in Callers
  /\ At(t, "idle")
  /\ Goto(t, "lock")
  /\ UNCHANGED <<sharedVars, brokerVars, historyVars>>

\* ... and enters `with _lock`.
Acquire(t) ==
  /\ At(t, "lock")
  /\ lock = {}
  /\ lock' = {t}
  /\ thread' = [thread EXCEPT ![t].pc = "check", ![t].attempt = 1]
  /\ UNCHANGED <<connection, channel, brokerVars, historyVars>>

\* check_broker is called, for the first time or again.
Probe(t) ==
  /\ t \in Probes
  /\ thread[t].pc \in {"idle", "done"}
  /\ probed < MaxProbes
  /\ probed' = probed + 1
  /\ thread' = [thread EXCEPT ![t] = [pc |-> "check", attempt |-> 0, local |-> None,
                                      result |-> ""]]
  /\ UNCHANGED <<sharedVars, brokerVars, trouble, crossed, faults>>

-----------------------------------------------------------------------------
\* _ensure_channel: `_channel is not None`, ...
Check(t) ==
  /\ At(t, "check")
  /\ Goto(t, IF channel = None THEN "connect" ELSE "is_open")
  /\ UNCHANGED <<sharedVars, brokerVars, historyVars>>

\* ... `_channel.is_open`, which asks nobody, ...
IsOpen(t) ==
  /\ At(t, "is_open")
  /\ IF channel = None THEN Raise(t)
     ELSE Goto(t, IF channel \in noticed THEN "connect" ELSE "return")
  /\ UNCHANGED <<sharedVars, brokerVars, historyVars>>

\* What is opened next, and on which connection.
Opens(t, pc, c) ==
  /\ opened' = opened + 1
  /\ carrier' = Append(carrier, c)
  /\ thread' = [thread EXCEPT ![t].pc = pc, ![t].local = opened + 1]

\* ... BlockingConnection(...), ...
Connect(t) ==
  /\ At(t, "connect")
  /\ IF up THEN Opens(t, "store_connection", opened + 1)
     ELSE Raise(t) /\ UNCHANGED <<opened, carrier>>
  /\ UNCHANGED <<sharedVars, lost, noticed, up, declared, exchange, historyVars>>

\* ... `_connection = ` it, ...
StoreConnection(t) ==
  /\ At(t, "store_connection")
  /\ connection' = thread[t].local
  /\ Leave(t, "open_channel")
  /\ Disturbed(t)
  /\ UNCHANGED <<lock, channel, brokerVars, crossed, faults, probed>>

\* ... `_connection.channel()`, ...
OpenChannel(t) ==
  /\ At(t, "open_channel")
  /\ IF connection # None /\ connection \notin lost
     THEN Opens(t, "store_channel", connection)
     ELSE Raise(t) /\ UNCHANGED <<opened, carrier>>
  /\ Notice(connection)
  /\ UNCHANGED <<sharedVars, lost, up, declared, exchange, historyVars>>

\* A slip: _channel is assigned as a local.
StoreChannelLocally(t) ==
  /\ At(t, "store_channel")
  /\ Goto(t, "declare")
  /\ UNCHANGED <<sharedVars, brokerVars, historyVars>>

\* ... `_channel = ` it, ...
StoreChannel(t) ==
  /\ At(t, "store_channel")
  /\ channel' = thread[t].local
  /\ Leave(t, "declare")
  /\ Disturbed(t)
  /\ UNCHANGED <<lock, connection, brokerVars, crossed, faults, probed>>

\* ... `_channel.exchange_declare(...)` ...
Declare(t) ==
  /\ At(t, "declare")
  /\ Rpc(t, channel, Goto(t, "return"))
  /\ declared' = (declared \/ (channel # None /\ channel \notin lost))
  /\ UNCHANGED <<sharedVars, opened, carrier, lost, up, exchange, historyVars>>

\* ... and `return _channel`: to publish_event, or to check_broker, which answers True.
Return(t) ==
  /\ At(t, "return")
  /\ thread' = IF t \in Callers
               THEN [thread EXCEPT ![t].pc = "publish", ![t].local = channel]
               ELSE [thread EXCEPT ![t].pc = "done", ![t].result = "yes"]
  /\ UNCHANGED <<sharedVars, brokerVars, historyVars>>

-----------------------------------------------------------------------------
\* basic_publish on the channel _ensure_channel returned.

End(t, result) ==
  /\ thread' = [thread EXCEPT ![t] = [@ EXCEPT !.pc = "done", !.attempt = 0,
                                              !.local = None, !.result = result]]
  /\ lock' = {}
  /\ trouble' = FALSE

OpenAt(t) == At(t, "publish") /\ thread[t].local # None /\ thread[t].local \notin lost

Publish(t) ==
  /\ OpenAt(t)
  /\ declared
  /\ exchange' = Append(exchange, t)
  /\ End(t, "ok")
  /\ UNCHANGED <<connection, channel, opened, carrier, lost, noticed, up, declared,
                 crossed, faults, probed>>

\* A probe has stored the channel and not yet declared the exchange on it: the broker
\* answers 404 by closing the channel.  basic_publish seldom waits long enough to see
\* that, and the event counts as published.
PublishRefused(t) ==
  /\ OpenAt(t)
  /\ ~declared
  /\ lost' = lost \cup {thread[t].local}
  /\ \/ End(t, "ok") /\ UNCHANGED noticed
     \/ /\ Raise(t)
        /\ noticed' = noticed \cup {thread[t].local}
        /\ UNCHANGED <<lock, trouble>>
  /\ crossed' = TRUE
  /\ UNCHANGED <<connection, channel, opened, carrier, up, declared, exchange, faults, probed>>

\* There are no publisher confirms: bytes written to a dead socket, or on a channel
\* that the broker has closed, may look sent.
PublishVanishes(t) ==
  /\ At(t, "publish")
  /\ thread[t].local \in lost \ noticed
  /\ End(t, "ok")
  /\ UNCHANGED <<connection, channel, brokerVars, crossed, faults, probed>>

PublishRaises(t) ==
  /\ At(t, "publish")
  /\ thread[t].local = None \/ thread[t].local \in lost
  /\ Raise(t)
  /\ Notice(thread[t].local)
  /\ UNCHANGED <<sharedVars, opened, carrier, lost, up, declared, exchange, historyVars>>

\* Slips: no second attempt; attempts without an end.
RecoverNever(t) ==
  /\ At(t, "except")
  /\ connection' = None
  /\ channel' = None
  /\ End(t, "error")
  /\ UNCHANGED <<brokerVars, crossed, faults, probed>>

RecoverAlways(t) ==
  /\ At(t, "except")
  /\ connection' = None
  /\ channel' = None
  /\ thread' = [thread EXCEPT ![t].pc = "check"]
  /\ UNCHANGED <<lock, brokerVars, historyVars>>

RecoverCounting(t) ==
  /\ At(t, "except")
  /\ connection' = None
  /\ channel' = None
  /\ IF thread[t].attempt <= 2
     THEN /\ thread' = [thread EXCEPT ![t].pc = "check", ![t].attempt = @ + 1]
          /\ UNCHANGED <<lock, trouble>>
     ELSE End(t, "error")
  /\ UNCHANGED <<brokerVars, crossed, faults, probed>>

\* A slip: the lock is given back before the second attempt.
RecoverUnlocked(t) ==
  /\ At(t, "except")
  /\ connection' = None
  /\ channel' = None
  /\ IF thread[t].attempt = 1
     THEN /\ thread' = [thread EXCEPT ![t].pc = "check", ![t].attempt = 2]
          /\ lock' = {}
          /\ UNCHANGED trouble
     ELSE End(t, "error")
  /\ UNCHANGED <<brokerVars, crossed, faults, probed>>

\* The except clause: both globals are dropped, `for attempt in (1, 2)` goes on.
Recover(t) ==
  /\ At(t, "except")
  /\ connection' = None
  /\ channel' = None
  /\ IF thread[t].attempt = 1
     THEN /\ thread' = [thread EXCEPT ![t].pc = "check", ![t].attempt = 2]
          /\ UNCHANGED <<lock, trouble>>
     ELSE End(t, "error")
  /\ UNCHANGED <<brokerVars, crossed, faults, probed>>

\* close: the process ends between requests and, if it ever goes on, goes on as a
\* new one, which has no connection either.
Close ==
  /\ \A t \in Threads : thread[t].pc \in {"idle", "done"}
  /\ connection' = None
  /\ channel' = None
  /\ UNCHANGED <<lock, brokerVars, thread, historyVars>>

-----------------------------------------------------------------------------
\* The broker and the network.

Fault ==
  /\ faults < MaxFaults
  /\ faults' = faults + 1
  /\ trouble' = (lock # {})

BrokerStops ==
  /\ up
  /\ Fault
  /\ up' = FALSE
  /\ lost' = 1..opened
  /\ UNCHANGED <<sharedVars, opened, carrier, noticed, declared, exchange, thread, crossed, probed>>

BrokerStarts ==
  /\ ~up
  /\ up' = TRUE
  /\ trouble' = (lock # {})
  /\ UNCHANGED <<sharedVars, opened, carrier, lost, noticed, declared, exchange, thread,
                 crossed, faults, probed>>

\* One connection in use ends, idle for longer than its heartbeat or cut by the network.
ConnectionDrops(c) ==
  /\ c \notin lost
  /\ Family(c) \cap ({connection, channel} \cup {thread[t].local : t \in Threads}) # {}
  /\ Fault
  /\ lost' = lost \cup Family(c)
  /\ UNCHANGED <<sharedVars, opened, carrier, noticed, up, declared, exchange, thread,
                 crossed, probed>>

\* It ends under a publish: the message is taken, and basic_publish raises.
PublishTorn(t) ==
  /\ OpenAt(t)
  /\ declared
  /\ Fault
  /\ exchange' = Append(exchange, t)
  /\ lost' = lost \cup Family(thread[t].local)
  /\ noticed' = noticed \cup Family(thread[t].local)
  /\ Raise(t)
  /\ UNCHANGED <<sharedVars, opened, carrier, up, declared, crossed, probed>>

\* Two threads are inside pika on one connection, which is not made for it: the call
\* of t raises, with its message taken or not, and the connection may go with it.
Clash(t) ==
  /\ Uses(t) # None
  /\ \E u \in Threads \ {t} : Uses(u) = Uses(t)
  /\ Raise(t)
  /\ \/ UNCHANGED exchange
     \/ OpenAt(t) /\ declared /\ exchange' = Append(exchange, t)
  /\ lost' \in {lost, lost \cup Family(Handle(t))}
  /\ Fault
  /\ crossed' = TRUE
  /\ UNCHANGED <<sharedVars, opened, carrier, noticed, up, declared, probed>>

-----------------------------------------------------------------------------
\* What a thread does once it is called.
Work(t) ==
  \/ Acquire(t)
  \/ Check(t) \/ IsOpen(t)
  \/ Connect(t) \/ StoreConnection(t)
  \/ OpenChannel(t) \/ StoreChannel(t)
  \/ Declare(t) \/ Return(t)
  \/ Publish(t) \/ PublishRefused(t) \/ PublishVanishes(t) \/ PublishRaises(t)
  \/ Recover(t)

Next ==
  \/ \E t \in Threads : Call(t) \/ Probe(t) \/ Work(t) \/ PublishTorn(t) \/ Clash(t)
  \/ Close
  \/ BrokerStops \/ BrokerStarts
  \/ \E c \in 1..opened : ConnectionDrops(c)

Spec == Init /\ [][Next]_vars

\* No thread is starved and every call to pika returns or raises: connecting has a
\* timeout, and heartbeats notice a silent broker.
Fairness == \A t \in Threads : WF_vars(Work(t))

FairSpec == Spec /\ Fairness

-----------------------------------------------------------------------------
Ended == {t \in Callers : At(t, "done")}

\* The messages before the first one of a call that goes on.
Settled ==
  [i \in {i \in DOMAIN exchange : \A j \in 1..i : At(exchange[j], "done")} |-> exchange[i]]

Contract == INSTANCE PublishContract WITH
  Calls <- Callers,
  taken <- Settled,
  ended <- Ended

\* However connections come and go under it and probes interfere, a call of
\* publish_event leaves at most two copies, and no other message between them
\* (`with _lock` around both attempts, broker.py:50-51).
ImplementsContract == Contract!ContractSpec

\* With a broker that never fails each event is taken exactly once and each probe
\* finds the broker, although connections are opened side by side, replaced and
\* dropped under each other (broker.py:30-40 beside 71-76): except where a probe
\* crosses another thread, inside pika on one connection, or with a channel it has
\* stored before the exchange exists.  Callers alone never cross each other
\* (`with _lock`, broker.py:50).
HealthyDelivers ==
  /\ crossed => probed > 0
  /\ faults = 0 /\ ~crossed =>
       /\ \A t \in Ended :
            /\ thread[t].result = "ok"
            /\ Cardinality({i \in DOMAIN exchange : exchange[i] = t}) = 1
       /\ \A t \in Probes : At(t, "done") => thread[t].result = "yes"

\* "Publishing failures are logged, counted ..., and retried once"
\* (docs/architecture.md:39-40): with a broker that never fails, a call that counted
\* its event as published has published it.
CountedIsPublished ==
  faults = 0 =>
    \A t \in Ended : thread[t].result = "ok" => \E i \in DOMAIN exchange : exchange[i] = t

\* "a reconnect-on-failure publish" (broker.py:4): a call that finds the channel
\* dead fails only if the broker is down, or if something went wrong once more
\* while the call held the lock: another fault, a store of check_broker, or its use
\* of pika at the same instant.
RetryReconnects ==
  [][\A t \in Callers :
       thread[t].result # "error" /\ thread'[t].result = "error"
         => trouble \/ ~up]_vars

\* Publishing ends, and lets the others publish, although the broker may stay away
\* for ever and probes interfere ("they do not fail the API call",
\* docs/architecture.md:40); so does every probe.
EveryoneEnds ==
  \A t \in Threads : thread[t].pc \notin {"idle", "done"} ~> At(t, "done")
=============================================================================
