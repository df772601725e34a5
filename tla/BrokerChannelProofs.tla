------------------------- MODULE BrokerChannelProofs -------------------------
(***************************************************************************)
(* Theorems about BrokerChannel, for any number of callers, probes and     *)
(* faults.                                                                 *)
(***************************************************************************)
EXTENDS BrokerChannel, FiniteSetTheorems, TLAPS

\* The types that the steps are about, and those of what is only remembered.
Basics ==
  /\ lock \in SUBSET Callers
  /\ opened \in Nat
  /\ {connection, channel} \subseteq 0..opened
  /\ lost \subseteq 1..opened
  /\ noticed \subseteq lost
  /\ up \in BOOLEAN
  /\ exchange \in Seq(Callers)
  /\ thread \in [Threads -> Thread]
  /\ trouble \in BOOLEAN
  /\ faults \in 0..MaxFaults
  /\ probed \in 0..MaxProbes

Remembered ==
  /\ opened \in Nat
  /\ carrier \in [1..opened -> 1..opened]
  /\ declared \in BOOLEAN /\ crossed \in BOOLEAN

\* Between `with _lock` and the end of the call.
Working(q) == q.pc \notin {"idle", "lock", "done"}

\* No local is ahead of the connections that were opened.
LocalsKnown == \A t \in Threads : thread[t].local <= opened

\* The calls at work are the holder of the lock, and probes never enter the retry loop.
LockHeld ==
  /\ lock = {} \/ \E t \in Callers : lock = {t}
  /\ \A t \in Callers : /\ Working(thread[t]) <=> lock = {t}
                        /\ Working(thread[t]) => thread[t].attempt \in {1, 2}
  /\ \A t \in Probes : thread[t].pc \notin {"lock", "publish", "except"}

-----------------------------------------------------------------------------
\* A connection, or channel, that pika can use; gone is `lost`.
Usable(c, gone) == c # None /\ c \notin gone

\* A second attempt starts from scratch, so that what it uses is what it has opened.
Fresh(q, cn, ch, gone, dec) ==
  /\ q.pc \notin {"is_open", "except"}
  /\ q.pc = "check" => ch = None
  /\ q.pc \in {"store_connection", "store_channel", "publish"} => Usable(q.local, gone)
  /\ q.pc = "open_channel" => Usable(cn, gone)
  /\ q.pc \in {"declare", "return"} => Usable(ch, gone)
  /\ q.pc \in {"return", "publish"} => dec

SecondAttempts ==
  trouble \/ ~up \/
    \A t \in Callers : Working(thread[t]) /\ thread[t].attempt = 2 =>
      Fresh(thread[t], connection, channel, lost, declared)

-----------------------------------------------------------------------------
\* Without a fault nothing is ever None where it is used.
Undisturbed(q, cn, ch, answer) ==
  /\ q.pc # "except"
  /\ q.pc \in {"is_open", "declare", "return"} => ch # None
  /\ q.pc = "open_channel" => cn # None
  /\ q.pc \in {"store_connection", "store_channel", "publish"} => q.local # None
  /\ q.pc = "done" => q.result = answer

\* Where messages of t are in a sequence.
Of(t, messages) == {i \in DOMAIN messages : messages[i] = t}

Healthy ==
  faults = 0 /\ ~crossed =>
    /\ up = TRUE /\ lost = {}
    /\ \A t \in Callers :
         /\ Undisturbed(thread[t], connection, channel, "ok")
         /\ IF thread[t].pc = "done" THEN \E i \in DOMAIN exchange : Of(t, exchange) = {i}
            ELSE Of(t, exchange) = {}
    /\ \A t \in Probes : Undisturbed(thread[t], connection, channel, "yes")

-----------------------------------------------------------------------------
\* How many messages a call may have left so far.
Left(q) == IF q.pc = "except" THEN q.attempt ELSE q.attempt - 1

\* The first n messages are of calls that are over, the rest of the one at work.
Split(n, messages, state) ==
  /\ \A i \in 1..n : state[messages[i]].pc = "done"
  /\ \A i \in (n + 1)..Len(messages) :
       /\ Working(state[messages[i]])
       /\ Len(messages) - n <= Left(state[messages[i]])

Orderly == \E n \in 0..Len(exchange) : Split(n, exchange, thread)

IInv == Basics /\ LocalsKnown /\ LockHeld /\ SecondAttempts /\ Healthy /\ Orderly

-----------------------------------------------------------------------------
\* No probe crosses another thread, and the exchange stays where it is.
Steady == crossed' = crossed /\ (declared => declared')

\* The constants, for the provers.
LEMMA Constants == Callers \cap Probes = {} /\ MaxProbes \in Nat /\ MaxFaults \in Nat
BY BrokerAssumption DEF BrokerAssumption

Places == {"idle", "lock", "check", "is_open", "connect", "store_connection",
           "open_channel", "store_channel", "declare", "return", "publish",
           "except", "done"}

Results == {"", "ok", "error", "yes", "no"}

\* A thread that goes on to pc with these in its locals.
Becomes(new, q, pc, local, result) ==
  /\ new.pc = pc /\ new.attempt = q.attempt /\ new.local = local /\ new.result = result

\* The forms this takes in the actions.
Holds(t, pc, local) == thread' = [thread EXCEPT ![t].pc = pc, ![t].local = local]

Answers(t, pc, result) == thread' = [thread EXCEPT ![t].pc = pc, ![t].result = result]

Tries(t, pc, attempt) == thread' = [thread EXCEPT ![t].pc = pc, ![t].attempt = attempt]

Moves(t, pc, local, result) ==
  \/ Goto(t, pc) /\ local = thread[t].local /\ result = thread[t].result
  \/ Holds(t, pc, local) /\ result = thread[t].result
  \/ Answers(t, pc, result) /\ local = thread[t].local

LEMMA MovesFacts ==
  ASSUME thread \in [Threads -> Thread], NEW t \in Threads, NEW pc \in Places,
         NEW local \in Nat, NEW result \in Results, Moves(t, pc, local, result)
  PROVE  \E new \in Thread :
           thread' = [thread EXCEPT ![t] = new] /\ Becomes(new, thread[t], pc, local, result)
<1> DEFINE q == thread[t]
           moved == [q EXCEPT !.pc = pc]
           holding == [moved EXCEPT !.local = local]
           answering == [moved EXCEPT !.result = result]
<1>1. q \in Thread
  OBVIOUS
<1>2. Goto(t, pc) => thread' = [thread EXCEPT ![t] = moved]
  BY DEF Goto
<1>3. Holds(t, pc, local) => thread' = [thread EXCEPT ![t] = holding]
  BY DEF Holds
<1>4. Answers(t, pc, result) => thread' = [thread EXCEPT ![t] = answering]
  BY DEF Answers
<1>5. \/ Goto(t, pc) /\ local = q.local /\ result = q.result
      \/ Holds(t, pc, local) /\ result = q.result
      \/ Answers(t, pc, result) /\ local = q.local
  BY DEF Moves
<1> HIDE DEF q
<1>6. /\ moved \in Thread /\ moved.pc = pc /\ moved.attempt = q.attempt
      /\ moved.local = q.local /\ moved.result = q.result
  BY <1>1 DEF Thread, Places
<1> HIDE DEF moved
<1>7. /\ holding \in Thread /\ holding.pc = pc /\ holding.attempt = q.attempt
      /\ holding.local = local /\ holding.result = q.result
  BY <1>6 DEF Thread
<1>8. /\ answering \in Thread /\ answering.pc = pc /\ answering.attempt = q.attempt
      /\ answering.local = q.local /\ answering.result = result
  BY <1>6 DEF Thread, Results
<1> HIDE DEF holding, answering
<1>9. \/ thread' = [thread EXCEPT ![t] = moved] /\ Becomes(moved, q, pc, local, result)
      \/ thread' = [thread EXCEPT ![t] = holding] /\ Becomes(holding, q, pc, local, result)
      \/ thread' = [thread EXCEPT ![t] = answering] /\ Becomes(answering, q, pc, local, result)
  BY <1>2, <1>3, <1>4, <1>5, <1>6, <1>7, <1>8 DEF Becomes
<1> QED
  BY <1>6, <1>7, <1>8, <1>9 DEF q

\* What a thread has.
LEMMA ThreadFacts ==
  ASSUME Basics, NEW t \in Threads
  PROVE  /\ thread \in [Threads -> Thread] /\ thread[t] \in Thread
         /\ thread[t].pc \in Places /\ thread[t].attempt \in 0..2
         /\ thread[t].local \in Nat /\ thread[t].result \in Results
BY DEF Basics, Thread, Places, Results

LEMMA LeftType ==
  ASSUME NEW q \in Thread
  PROVE  Left(q) \in Int
<1>1. q.attempt \in 0..2
  BY DEF Thread
<1> QED
  BY <1>1 DEF Left

-----------------------------------------------------------------------------
\* The parts of the invariant over a step of one thread t, to new.

LEMMA LocalsStep ==
  ASSUME IInv, NEW t \in Threads, NEW new \in Thread, thread' = [thread EXCEPT ![t] = new],
         opened' \in Nat, opened <= opened', new.local <= opened'
  PROVE  thread' \in [Threads -> Thread] /\ LocalsKnown'
<1>1. thread \in [Threads -> Thread] /\ opened \in Nat
  BY DEF IInv, Basics
<1>2. \A z \in Threads : thread'[z] = IF z = t THEN new ELSE thread[z]
  BY <1>1
<1>3. \A z \in Threads : thread[z].local \in Nat /\ thread[z].local <= opened
  BY ThreadFacts DEF IInv, LocalsKnown
<1>4. \A z \in Threads : thread'[z].local <= opened'
  BY <1>1, <1>2, <1>3
<1> QED
  BY <1>1, <1>4 DEF LocalsKnown

\* A call that is at work stays at work, a probe stays out of the loop.
LEMMA LockStep ==
  ASSUME IInv, NEW t \in Threads, NEW new \in Thread, thread' = [thread EXCEPT ![t] = new],
         lock' = lock,
         t \in Callers => (Working(new) <=> Working(thread[t])),
         t \in Callers => new.attempt = thread[t].attempt,
         t \in Probes => new.pc \notin {"lock", "publish", "except"}
  PROVE  LockHeld'
<1>1. \A z \in Threads : thread'[z] = IF z = t THEN new ELSE thread[z]
  BY DEF IInv, Basics
<1>2. /\ lock = {} \/ \E z \in Callers : lock = {z}
      /\ \A z \in Callers : /\ Working(thread[z]) <=> lock = {z}
                            /\ Working(thread[z]) => thread[z].attempt \in {1, 2}
      /\ \A z \in Probes : thread[z].pc \notin {"lock", "publish", "except"}
  BY DEF IInv, LockHeld
<1>3. ASSUME NEW z \in Callers
      PROVE  /\ Working(thread'[z]) <=> lock' = {z}
             /\ Working(thread'[z]) => thread'[z].attempt \in {1, 2}
  <2>1. z \in Threads
    BY DEF Threads
  <2>2. CASE z = t
    BY <1>1, <1>2, <2>1, <2>2
  <2>3. CASE z # t
    BY <1>1, <1>2, <2>1, <2>3
  <2> QED
    BY <2>2, <2>3
<1>4. \A z \in Probes : thread'[z].pc \notin {"lock", "publish", "except"}
  BY <1>1, <1>2 DEF Threads
<1>5. lock' = {} \/ \E z \in Callers : lock' = {z}
  BY <1>2
<1> QED
  BY <1>3, <1>4, <1>5 DEF LockHeld

\* The call at work may leave as many messages as before.
LEMMA OrderlyStep ==
  ASSUME IInv, NEW t \in Threads, NEW new \in Thread, thread' = [thread EXCEPT ![t] = new],
         exchange' = exchange,
         t \in Callers => \/ thread[t].pc # "done" /\ ~Working(thread[t])
                          \/ Working(thread[t]) /\ Working(new) /\ Left(thread[t]) <= Left(new)
  PROVE  Orderly'
<1>1. \A z \in Threads : thread'[z] = IF z = t THEN new ELSE thread[z]
  BY DEF IInv, Basics
<1>2. PICK n \in 0..Len(exchange) : Split(n, exchange, thread)
  BY DEF IInv, Orderly
<1>3. exchange \in Seq(Callers)
  BY DEF IInv, Basics
<1>4. ASSUME NEW i \in 1..n PROVE thread'[exchange[i]].pc = "done"
  <2>1. exchange[i] \in Callers /\ thread[exchange[i]].pc = "done"
    BY <1>2, <1>3 DEF Split
  <2>2. exchange[i] # t
    BY <2>1 DEF Working
  <2> QED
    BY <1>1, <2>1, <2>2 DEF Threads
<1>5. ASSUME NEW i \in (n + 1)..Len(exchange)
      PROVE  /\ Working(thread'[exchange[i]])
             /\ Len(exchange) - n <= Left(thread'[exchange[i]])
  <2>1. /\ exchange[i] \in Callers /\ Working(thread[exchange[i]])
        /\ Len(exchange) - n <= Left(thread[exchange[i]])
    BY <1>2, <1>3 DEF Split
  <2>2. exchange[i] \in Threads
    BY <2>1 DEF Threads
  <2>3. CASE exchange[i] = t
    <3>1. thread'[exchange[i]] = new
      BY <1>1, <2>2, <2>3
    <3>2. Working(new) /\ Left(thread[t]) <= Left(new)
      BY <2>1, <2>3
    <3>3. Left(thread[t]) \in Int /\ Left(new) \in Int /\ Len(exchange) - n \in Int
      BY <1>3, ThreadFacts, LeftType DEF IInv
    <3> QED
      BY <2>1, <2>3, <3>1, <3>2, <3>3
  <2>4. CASE exchange[i] # t
    BY <1>1, <2>1, <2>2, <2>4
  <2> QED
    BY <2>3, <2>4
<1>6. Split(n, exchange', thread')
  BY <1>4, <1>5 DEF Split
<1> QED
  BY <1>6 DEF Orderly

\* Only probes disturb a second attempt, and that is trouble.
LEMMA AttemptsStep ==
  ASSUME IInv, NEW t \in Threads, NEW new \in Thread, thread' = [thread EXCEPT ![t] = new],
         lost' = lost, up' = up, Steady,
         \/ trouble' = TRUE
         \/ /\ trouble' = trouble
            /\ \/ (t \in Callers /\ Working(thread[t])) \/ lock = {}
               \/ connection' = connection /\ channel' = channel
            /\ t \in Callers =>
                 \/ ~Working(new) \/ new.attempt # 2
                 \/ Fresh(new, connection', channel', lost, declared')
                 \/ /\ Working(thread[t]) /\ new.attempt = thread[t].attempt
                    /\ up /\ Fresh(thread[t], connection, channel, lost, declared)
                         => Fresh(new, connection', channel', lost, declared')
  PROVE  SecondAttempts'
<1>1. CASE trouble' = TRUE
  BY <1>1 DEF SecondAttempts
<1>2. CASE trouble' = trouble /\ (trouble \/ ~up)
  BY <1>2 DEF SecondAttempts
<1>3. ASSUME trouble' = trouble, up, ~trouble,
             \/ (t \in Callers /\ Working(thread[t])) \/ lock = {}
             \/ connection' = connection /\ channel' = channel,
             t \in Callers =>
                 \/ ~Working(new) \/ new.attempt # 2
                 \/ Fresh(new, connection', channel', lost, declared')
                 \/ /\ Working(thread[t]) /\ new.attempt = thread[t].attempt
                    /\ up /\ Fresh(thread[t], connection, channel, lost, declared)
                         => Fresh(new, connection', channel', lost, declared')
      PROVE  SecondAttempts'
  <2>1. \A z \in Threads : thread'[z] = IF z = t THEN new ELSE thread[z]
    BY DEF IInv, Basics
  <2>2. \A z \in Callers : Working(thread[z]) /\ thread[z].attempt = 2 =>
                             Fresh(thread[z], connection, channel, lost, declared)
    BY <1>3 DEF IInv, SecondAttempts
  <2>3. \A z \in Callers : Working(thread[z]) => lock = {z}
    BY DEF IInv, LockHeld
  <2>4. ASSUME NEW z \in Callers, Working(thread'[z]), thread'[z].attempt = 2
        PROVE  Fresh(thread'[z], connection', channel', lost', declared')
    <3>1. z \in Threads
      BY DEF Threads
    <3>2. CASE z = t
      <4>1. thread'[z] = new /\ Working(new) /\ new.attempt = 2
        BY <2>1, <2>4, <3>1, <3>2
      <4>2. Working(thread[t]) /\ thread[t].attempt = 2
              => Fresh(thread[t], connection, channel, lost, declared)
        BY <2>2, <3>2
      <4>3. Fresh(new, connection', channel', lost, declared')
        BY <1>3, <3>2, <4>1, <4>2
      <4> QED
        BY <4>1, <4>3
    <3>3. CASE z # t
      <4>1. thread'[z] = thread[z] /\ Working(thread[z]) /\ thread[z].attempt = 2
        BY <2>1, <2>4, <3>1, <3>3
      <4>2. lock = {z}
        BY <2>3, <4>1
      <4>3. ~(t \in Callers /\ Working(thread[t])) /\ lock # {}
        BY <2>3, <3>3, <4>2
      <4>4. connection' = connection /\ channel' = channel
        BY <1>3, <4>3
      <4> QED
        BY <2>2, <4>1, <4>4 DEF Steady, Fresh
    <3> QED
      BY <3>2, <3>3
  <2> QED
    BY <2>4 DEF SecondAttempts
<1> QED
  BY <1>1, <1>2, <1>3

Answer(t) == IF t \in Callers THEN "ok" ELSE "yes"

\* Without a fault nobody loses what is there.
LEMMA HealthyStep ==
  ASSUME IInv, NEW t \in Threads, NEW new \in Thread, thread' = [thread EXCEPT ![t] = new],
         exchange' = exchange, lost' = lost, up' = up, faults' = faults /\ Steady,
         t \in Callers => (thread[t].pc = "done" <=> new.pc = "done"),
         up /\ lost = {} /\ Undisturbed(thread[t], connection, channel, Answer(t))
           => /\ Undisturbed(new, connection', channel', Answer(t))
              /\ connection # None => connection' # None
              /\ channel # None => channel' # None
  PROVE  Healthy'
<1> SUFFICES ASSUME faults = 0, ~crossed
             PROVE  /\ up' = TRUE /\ lost' = {}
                    /\ \A z \in Callers :
                         /\ Undisturbed(thread'[z], connection', channel', "ok")
                         /\ IF thread'[z].pc = "done"
                            THEN \E i \in DOMAIN exchange' : Of(z, exchange') = {i}
                            ELSE Of(z, exchange') = {}
                    /\ \A z \in Probes : Undisturbed(thread'[z], connection', channel', "yes")
  BY DEF Healthy, Steady
<1>1. \A z \in Threads : thread'[z] = IF z = t THEN new ELSE thread[z]
  BY DEF IInv, Basics
<1>2. up = TRUE /\ lost = {}
  BY DEF IInv, Healthy
<1>3. /\ \A z \in Callers : Undisturbed(thread[z], connection, channel, "ok")
      /\ \A z \in Probes : Undisturbed(thread[z], connection, channel, "yes")
  BY DEF IInv, Healthy
<1>a. Undisturbed(thread[t], connection, channel, Answer(t))
  BY <1>3 DEF Answer, Threads
<1>4. /\ Undisturbed(new, connection', channel', Answer(t))
      /\ connection # None => connection' # None
      /\ channel # None => channel' # None
  BY <1>2, <1>a
<1>5. ASSUME NEW q, NEW answer, Undisturbed(q, connection, channel, answer)
      PROVE  Undisturbed(q, connection', channel', answer)
  BY <1>4, <1>5 DEF Undisturbed
<1>6. ASSUME NEW z \in Callers
      PROVE  /\ Undisturbed(thread'[z], connection', channel', "ok")
             /\ IF thread'[z].pc = "done"
                THEN \E i \in DOMAIN exchange' : Of(z, exchange') = {i}
                ELSE Of(z, exchange') = {}
  <2>1. z \in Threads
    BY DEF Threads
  <2>2. Undisturbed(thread'[z], connection', channel', "ok")
    BY <1>1, <1>3, <1>4, <1>5, <2>1 DEF Answer
  <2>3. thread'[z].pc = "done" <=> thread[z].pc = "done"
    BY <1>1, <2>1
  <2>4. IF thread[z].pc = "done" THEN \E i \in DOMAIN exchange : Of(z, exchange) = {i}
        ELSE Of(z, exchange) = {}
    BY DEF IInv, Healthy
  <2> QED
    BY <2>2, <2>3, <2>4
<1>7. ASSUME NEW z \in Probes PROVE Undisturbed(thread'[z], connection', channel', "yes")
  <2>1. z \in Threads /\ z \notin Callers
    BY Constants DEF Threads
  <2> QED
    BY <1>1, <1>3, <1>4, <1>5, <2>1 DEF Answer
<1> QED
  BY <1>2, <1>6, <1>7

-----------------------------------------------------------------------------
\* The steps of a thread inside _ensure_channel, and of a publish that raises.

\* What such a step does to what is shared.
Quiet(t, pc, local) ==
  /\ lock' = lock /\ exchange' = exchange /\ lost' = lost
  /\ faults' = faults /\ Steady /\ probed' = probed
  /\ opened' \in Nat /\ opened <= opened' /\ local <= opened'
  /\ connection' \in 0..opened' /\ channel' \in 0..opened'
  /\ noticed' \subseteq lost
  /\ thread[t].pc \notin {"idle", "lock", "done", "except"}
  /\ pc \notin {"idle", "lock"}
  /\ t \in Callers => pc # "done"
  /\ t \in Probes => pc \notin {"publish", "except"}

\* It keeps a second attempt fresh, unless it is trouble.
StaysFresh(t, pc, local, result) ==
  \/ trouble' = TRUE
  \/ /\ trouble' = trouble
     /\ t \in Probes => lock = {} \/ (connection' = connection /\ channel' = channel)
     /\ t \in Callers =>
          \A new \in Thread :
            Becomes(new, thread[t], pc, local, result) /\ up
            /\ Fresh(thread[t], connection, channel, lost, declared)
              => Fresh(new, connection', channel', lost, declared')

\* Without a fault it fails nowhere.
StaysWell(t, pc, local, result) ==
  \A new \in Thread :
    /\ Becomes(new, thread[t], pc, local, result) /\ up /\ lost = {}
    /\ Undisturbed(thread[t], connection, channel, Answer(t))
    => /\ Undisturbed(new, connection', channel', Answer(t))
       /\ connection # None => connection' # None
       /\ channel # None => channel' # None

LEMMA QuietStep ==
  ASSUME IInv, NEW t \in Threads, NEW pc \in Places, NEW local \in Nat, NEW result \in Results,
         Moves(t, pc, local, result), Quiet(t, pc, local), up' = up, trouble' \in BOOLEAN,
         StaysFresh(t, pc, local, result), StaysWell(t, pc, local, result)
  PROVE  IInv'
<1>1. PICK new \in Thread :
        thread' = [thread EXCEPT ![t] = new] /\ Becomes(new, thread[t], pc, local, result)
  BY MovesFacts DEF IInv, Basics
<1>2. /\ lock' = lock /\ exchange' = exchange /\ lost' = lost
      /\ faults' = faults /\ Steady /\ probed' = probed
      /\ opened' \in Nat /\ opened <= opened' /\ local <= opened'
  BY DEF Quiet
<1>3. /\ connection' \in 0..opened' /\ channel' \in 0..opened'
      /\ noticed' \subseteq lost
  BY DEF Quiet
<1>4. /\ thread[t].pc \notin {"idle", "lock", "done", "except"}
      /\ pc \notin {"idle", "lock"}
      /\ t \in Callers => pc # "done"
      /\ t \in Probes => pc \notin {"publish", "except"}
  BY DEF Quiet
<1>5. /\ Working(thread[t])
      /\ t \in Callers => Working(new)
      /\ new.attempt = thread[t].attempt /\ new.local <= opened'
  BY <1>1, <1>2, <1>4 DEF Working, Becomes
<1>6. thread' \in [Threads -> Thread] /\ LocalsKnown'
  BY <1>1, <1>2, <1>5, LocalsStep
<1>7. LockHeld'
  <2>1. t \in Probes => new.pc \notin {"lock", "publish", "except"}
    BY <1>1, <1>4 DEF Becomes
  <2>2. t \in Callers => (Working(new) <=> Working(thread[t]))
    BY <1>5
  <2>3. t \in Callers => new.attempt = thread[t].attempt
    BY <1>5
  <2> QED
    BY <1>1, <1>2, <2>1, <2>2, <2>3, LockStep
<1>8. Orderly'
  <2>1. Left(thread[t]) <= Left(new)
    <3>1. thread[t].attempt \in 0..2
      BY ThreadFacts DEF IInv
    <3>2. Left(thread[t]) = thread[t].attempt - 1
      BY <1>4 DEF Left
    <3>3. Left(new) \in {thread[t].attempt, thread[t].attempt - 1}
      BY <1>5 DEF Left
    <3> QED
      BY <3>1, <3>2, <3>3
  <2>2. t \in Callers => \/ thread[t].pc # "done" /\ ~Working(thread[t])
                         \/ Working(thread[t]) /\ Working(new) /\ Left(thread[t]) <= Left(new)
    BY <1>5, <2>1
  <2> QED
    BY <1>1, <1>2, <2>2, OrderlyStep
<1>9. SecondAttempts'
  <2>1. \/ trouble' = TRUE
        \/ /\ trouble' = trouble
           /\ \/ (t \in Callers /\ Working(thread[t])) \/ lock = {}
              \/ connection' = connection /\ channel' = channel
           /\ t \in Callers =>
                \/ ~Working(new) \/ new.attempt # 2
                \/ Fresh(new, connection', channel', lost, declared')
                \/ /\ Working(thread[t]) /\ new.attempt = thread[t].attempt
                   /\ up /\ Fresh(thread[t], connection, channel, lost, declared)
                        => Fresh(new, connection', channel', lost, declared')
    BY <1>1, <1>5 DEF StaysFresh, Threads
  <2> QED
    BY <1>1, <1>2, <2>1, AttemptsStep
<1>10. Healthy'
  <2>1. up /\ lost = {} /\ Undisturbed(thread[t], connection, channel, Answer(t))
          => /\ Undisturbed(new, connection', channel', Answer(t))
             /\ connection # None => connection' # None
             /\ channel # None => channel' # None
    BY <1>1 DEF StaysWell
  <2>2. t \in Callers => (thread[t].pc = "done" <=> new.pc = "done")
    BY <1>5 DEF Working
  <2> QED
    BY <1>1, <1>2, <1>3, <2>1, <2>2, HealthyStep
<1>11. up' \in BOOLEAN
  BY DEF IInv, Basics
<1>12. lost \subseteq 1..opened'
  <2>1. lost \subseteq 1..opened /\ opened \in Nat
    BY DEF IInv, Basics
  <2> QED
    BY <1>2, <2>1
<1>13. /\ lock' \in SUBSET Callers /\ exchange' \in Seq(Callers)
       /\ faults' \in 0..MaxFaults /\ probed' \in 0..MaxProbes
  BY <1>2 DEF IInv, Basics
<1>14. Basics'
  BY <1>2, <1>3, <1>6, <1>11, <1>12, <1>13 DEF Basics
<1> QED
  BY <1>6, <1>7, <1>8, <1>9, <1>10, <1>14 DEF IInv

\* The places of these steps.
Inside == {"check", "is_open", "connect", "store_connection", "open_channel",
           "store_channel", "declare", "return", "publish"}

\* What is shared, while no global is assigned.
LEMMA Calm ==
  ASSUME IInv, NEW t \in Threads, NEW pc, NEW local,
         lock' = lock, exchange' = exchange, lost' = lost, faults' = faults /\ Steady, probed' = probed,
         opened' = opened, connection' = connection, channel' = channel,
         noticed' \subseteq lost, local <= opened,
         thread[t].pc \in Inside, pc \notin {"idle", "lock"},
         t \in Callers => pc # "done", t \in Probes => pc \notin {"publish", "except"}
  PROVE  Quiet(t, pc, local)
<1>1. opened \in Nat /\ connection \in 0..opened /\ channel \in 0..opened
  BY DEF IInv, Basics
<1>2. thread[t].pc \notin {"idle", "lock", "done", "except"}
  BY DEF Inside
<1> QED
  BY <1>1, <1>2 DEF Quiet

\* The locals and globals of a thread, and what the client knows to be gone.
LEMMA Known ==
  ASSUME IInv, NEW t \in Threads
  PROVE  /\ opened \in Nat /\ thread[t].local \in 0..opened
         /\ connection \in 0..opened /\ channel \in 0..opened
         /\ lost \subseteq 1..opened /\ noticed \subseteq lost
         /\ thread[t].result \in Results /\ thread[t].local \in Nat
<1>1. /\ opened \in Nat /\ connection \in 0..opened /\ channel \in 0..opened
      /\ lost \subseteq 1..opened /\ noticed \subseteq lost
  BY DEF IInv, Basics
<1>2. /\ thread[t].local \in Nat /\ thread[t].local <= opened
      /\ thread[t].result \in Results
  BY ThreadFacts DEF IInv, LocalsKnown
<1> QED
  BY <1>1, <1>2

\* An exception takes a call to its except clause and ends a probe.
LEMMA RaiseStep ==
  ASSUME IInv, NEW t \in Threads, Raise(t), thread[t].pc \in Inside,
         lock' = lock, exchange' = exchange, lost' = lost, faults' = faults /\ Steady, probed' = probed,
         opened' = opened, connection' = connection, channel' = channel,
         noticed' \subseteq lost, up' = up, trouble' = trouble,
         t \in Callers => ~(up /\ Fresh(thread[t], connection, channel, lost, declared)),
         ~(up /\ lost = {} /\ Undisturbed(thread[t], connection, channel, Answer(t)))
  PROVE  IInv'
<1>1. trouble' \in BOOLEAN
  BY DEF IInv, Basics
<1>2. CASE t \in Callers
  <2>1. Holds(t, "except", None) /\ t \notin Probes
    BY <1>2, Constants DEF Raise, Leave, Holds
  <2>2. "except" \in Places /\ None \in Nat /\ thread[t].result \in Results
    BY Known DEF Places, None
  <2>3. Moves(t, "except", None, thread[t].result)
    BY <2>1 DEF Moves
  <2>4. Quiet(t, "except", None)
    BY <2>1, Known, Calm DEF None
  <2>5. StaysFresh(t, "except", None, thread[t].result)
    BY <2>1 DEF StaysFresh
  <2>6. StaysWell(t, "except", None, thread[t].result)
    BY DEF StaysWell
  <2> QED
    BY <1>1, <2>2, <2>3, <2>4, <2>5, <2>6, QuietStep
<1>3. CASE t \notin Callers
  <2>1. Answers(t, "done", "no")
    BY <1>3 DEF Raise, Answers
  <2>2. "done" \in Places /\ "no" \in Results /\ thread[t].local \in Nat
    BY Known DEF Places, Results
  <2>3. Moves(t, "done", thread[t].local, "no")
    BY <2>1 DEF Moves
  <2>4. Quiet(t, "done", thread[t].local)
    BY <1>3, Known, Calm
  <2>5. StaysFresh(t, "done", thread[t].local, "no")
    BY <1>3 DEF StaysFresh
  <2>6. StaysWell(t, "done", thread[t].local, "no")
    BY DEF StaysWell
  <2> QED
    BY <1>1, <2>2, <2>3, <2>4, <2>5, <2>6, QuietStep
<1> QED
  BY <1>2, <1>3

\* What pika learns is so.
LEMMA NoticeFacts ==
  ASSUME IInv, NEW c, Notice(c)
  PROVE  noticed' \subseteq lost
BY DEF IInv, Basics, Notice

\* _ensure_channel looks at the global ...
LEMMA CheckInv ==
  ASSUME IInv, NEW t \in Threads, Check(t)
  PROVE  IInv'
<1> DEFINE pc == IF channel = None THEN "connect" ELSE "is_open"
<1>1. thread[t].pc = "check" /\ Goto(t, pc)
  BY DEF Check, At
<1>2. /\ lock' = lock /\ exchange' = exchange /\ lost' = lost /\ faults' = faults /\ Steady
      /\ probed' = probed /\ opened' = opened /\ connection' = connection
      /\ channel' = channel /\ noticed' = noticed
  BY DEF Check, sharedVars, brokerVars, historyVars, Steady
<1>3. up' = up /\ trouble' = trouble
  BY DEF Check, brokerVars, historyVars, Steady
<1>4. trouble' \in BOOLEAN
  BY <1>3 DEF IInv, Basics
<1>5. pc \in Places /\ pc \in {"connect", "is_open"} /\ (pc = "is_open" => channel # None)
  BY DEF Places
<1> HIDE DEF pc
<1>6. Moves(t, pc, thread[t].local, thread[t].result)
  BY <1>1 DEF Moves
<1>7. Quiet(t, pc, thread[t].local)
  <2>1. thread[t].pc \in Inside /\ pc \notin {"idle", "lock", "done", "publish", "except"}
    BY <1>1, <1>5 DEF Inside
  <2> QED
    BY <1>2, <2>1, Known, Calm
<1>8. StaysFresh(t, pc, thread[t].local, thread[t].result)
  <2>1. ASSUME NEW new \in Thread, new.pc = pc, Fresh(thread[t], connection, channel, lost, declared)
        PROVE  Fresh(new, connection', channel', lost, declared')
    BY <1>1, <1>5, <2>1 DEF Fresh
  <2> QED
    BY <1>2, <1>3, <2>1 DEF StaysFresh, Becomes
<1>9. StaysWell(t, pc, thread[t].local, thread[t].result)
  BY <1>2, <1>5 DEF StaysWell, Becomes, Undisturbed
<1> QED
  BY <1>3, <1>4, <1>5, <1>6, <1>7, <1>8, <1>9, Known, QuietStep

\* ... asks the channel whether it is open, which may be gone by then ...
LEMMA IsOpenInv ==
  ASSUME IInv, NEW t \in Threads, IsOpen(t)
  PROVE  IInv'
<1>1. thread[t].pc = "is_open" /\ thread[t].pc \in Inside
  BY DEF IsOpen, At, Inside
<1>2. /\ lock' = lock /\ exchange' = exchange /\ lost' = lost /\ faults' = faults /\ Steady
      /\ probed' = probed /\ opened' = opened /\ connection' = connection
      /\ channel' = channel /\ noticed' = noticed
  BY DEF IsOpen, sharedVars, brokerVars, historyVars, Steady
<1>3. up' = up /\ trouble' = trouble
  BY DEF IsOpen, brokerVars, historyVars, Steady
<1>4. trouble' \in BOOLEAN
  BY <1>3 DEF IInv, Basics
<1>5. noticed' \subseteq lost
  BY <1>2, Known
<1>6. ~Fresh(thread[t], connection, channel, lost, declared)
  BY <1>1 DEF Fresh
<1>7. CASE channel = None
  <2>1. Raise(t)
    BY <1>7 DEF IsOpen
  <2>2. ~Undisturbed(thread[t], connection, channel, Answer(t))
    BY <1>1, <1>7 DEF Undisturbed
  <2> QED
    BY <1>1, <1>2, <1>3, <1>5, <1>6, <2>1, <2>2, RaiseStep
<1>8. CASE channel # None
  <2> DEFINE pc == IF channel \in noticed THEN "connect" ELSE "return"
  <2>1. Goto(t, pc)
    BY <1>8 DEF IsOpen
  <2>2. pc \in Places /\ pc \in {"connect", "return"}
    BY DEF Places
  <2> HIDE DEF pc
  <2>3. Moves(t, pc, thread[t].local, thread[t].result)
    BY <2>1 DEF Moves
  <2>4. Quiet(t, pc, thread[t].local)
    BY <1>1, <1>2, <1>5, <2>2, Known, Calm
  <2>5. StaysFresh(t, pc, thread[t].local, thread[t].result)
    BY <1>2, <1>3, <1>6 DEF StaysFresh
  <2>6. StaysWell(t, pc, thread[t].local, thread[t].result)
    BY <1>2, <1>8, <2>2 DEF StaysWell, Becomes, Undisturbed
  <2> QED
    BY <1>3, <1>4, <2>2, <2>3, <2>4, <2>5, <2>6, Known, QuietStep
<1> QED
  BY <1>7, <1>8

\* ... opens a connection, if the broker is there ...
LEMMA ConnectInv ==
  ASSUME IInv, NEW t \in Threads, Connect(t)
  PROVE  IInv'
<1>1. thread[t].pc = "connect" /\ thread[t].pc \in Inside
  BY DEF Connect, At, Inside
<1>2. /\ lock' = lock /\ exchange' = exchange /\ lost' = lost /\ faults' = faults /\ Steady
      /\ probed' = probed /\ connection' = connection
      /\ channel' = channel /\ noticed' = noticed
  BY DEF Connect, sharedVars, historyVars, Steady
<1>3. up' = up /\ trouble' = trouble
  BY DEF Connect, historyVars
<1>4. trouble' \in BOOLEAN
  BY <1>3 DEF IInv, Basics
<1>5. noticed' \subseteq lost
  BY <1>2, Known
<1>6. CASE up
  <2> DEFINE local == opened + 1
  <2>1. opened' = local /\ Holds(t, "store_connection", local)
    BY <1>6 DEF Connect, Opens, Holds
  <2>2. local \in Nat /\ Usable(local, lost) /\ local # None
    BY Known DEF Usable, None
  <2>3. Quiet(t, "store_connection", local)
    BY <1>1, <1>2, <1>5, <2>1, Known DEF Quiet
  <2> HIDE DEF local
  <2>4. "store_connection" \in Places
    BY DEF Places
  <2>5. Moves(t, "store_connection", local, thread[t].result)
    BY <2>1 DEF Moves
  <2>6. StaysFresh(t, "store_connection", local, thread[t].result)
    BY <1>2, <1>3, <2>2 DEF StaysFresh, Becomes, Fresh
  <2>7. StaysWell(t, "store_connection", local, thread[t].result)
    BY <1>2, <2>2 DEF StaysWell, Becomes, Undisturbed
  <2> QED
    BY <1>3, <1>4, <2>2, <2>3, <2>4, <2>5, <2>6, <2>7, Known, QuietStep
<1>7. CASE ~up
  <2>1. Raise(t) /\ opened' = opened
    BY <1>7 DEF Connect
  <2> QED
    BY <1>1, <1>2, <1>3, <1>5, <1>7, <2>1, RaiseStep
<1> QED
  BY <1>6, <1>7

\* A store by a probe while a call is at work is trouble; a call's own store is not.
LEMMA DisturbedFacts ==
  ASSUME IInv, NEW t \in Threads, Disturbed(t)
  PROVE  /\ trouble' \in BOOLEAN
         /\ trouble' = TRUE \/ trouble' = trouble
         /\ t \in Callers => trouble' = trouble
         /\ t \in Probes /\ lock # {} => trouble' = TRUE
<1>1. trouble \in BOOLEAN
  BY DEF IInv, Basics
<1>2. t \in Callers => t \notin Probes
  BY Constants
<1> QED
  BY <1>1, <1>2 DEF Disturbed

\* ... stores it ...
LEMMA StoreConnectionInv ==
  ASSUME IInv, NEW t \in Threads, StoreConnection(t)
  PROVE  IInv'
<1>1. thread[t].pc = "store_connection" /\ thread[t].pc \in Inside
  BY DEF StoreConnection, At, Inside
<1>2. /\ lock' = lock /\ exchange' = exchange /\ lost' = lost /\ faults' = faults /\ Steady
      /\ probed' = probed /\ connection' = thread[t].local /\ opened' = opened
      /\ channel' = channel /\ noticed' = noticed
  BY DEF StoreConnection, brokerVars, historyVars, Steady
<1>3. up' = up
  BY DEF StoreConnection, brokerVars, historyVars, Steady
<1>4. Disturbed(t)
  BY DEF StoreConnection
<1>5. noticed' \subseteq lost
  BY <1>2, Known
<1>6. Moves(t, "open_channel", None, thread[t].result)
  BY DEF StoreConnection, Leave, Holds, Moves
<1>7. "open_channel" \in Places /\ None \in Nat
  BY DEF Places, None
<1>8. Quiet(t, "open_channel", None)
  BY <1>1, <1>2, <1>5, Known DEF Quiet, None
<1>9. StaysWell(t, "open_channel", None, thread[t].result)
  BY <1>1, <1>2 DEF StaysWell, Becomes, Undisturbed
<1>10. StaysFresh(t, "open_channel", None, thread[t].result)
  <2>1. CASE trouble' = TRUE
    BY <2>1 DEF StaysFresh
  <2>2. CASE t \in Callers /\ trouble' = trouble
    <3>1. t \notin Probes
      BY <2>2, Constants
    <3>2. ASSUME NEW new \in Thread, new.pc = "open_channel",
                 Fresh(thread[t], connection, channel, lost, declared)
          PROVE  Fresh(new, connection', channel', lost, declared')
      BY <1>1, <1>2, <3>2 DEF Fresh
    <3> QED
      BY <2>2, <3>1, <3>2 DEF StaysFresh, Becomes
  <2>3. CASE t \notin Callers /\ lock = {} /\ trouble' = trouble
    BY <2>3 DEF StaysFresh
  <2> QED
    BY <1>4, <2>1, <2>2, <2>3, DisturbedFacts DEF Threads
<1>11. trouble' \in BOOLEAN
  BY <1>4, DisturbedFacts
<1> QED
  BY <1>3, <1>6, <1>7, <1>8, <1>9, <1>10, <1>11, Known, QuietStep

\* ... opens the channel of what the global holds by now ...
LEMMA OpenChannelInv ==
  ASSUME IInv, NEW t \in Threads, OpenChannel(t)
  PROVE  IInv'
<1>1. thread[t].pc = "open_channel" /\ thread[t].pc \in Inside
  BY DEF OpenChannel, At, Inside
<1>2. /\ lock' = lock /\ exchange' = exchange /\ lost' = lost /\ faults' = faults /\ Steady
      /\ probed' = probed /\ connection' = connection
      /\ channel' = channel
  BY DEF OpenChannel, sharedVars, historyVars, Steady
<1>3. up' = up /\ trouble' = trouble
  BY DEF OpenChannel, historyVars
<1>4. trouble' \in BOOLEAN
  BY <1>3 DEF IInv, Basics
<1>5. noticed' \subseteq lost
  BY NoticeFacts DEF OpenChannel
<1>6. CASE connection # None /\ connection \notin lost
  <2> DEFINE local == opened + 1
  <2>1. opened' = local /\ Holds(t, "store_channel", local)
    BY <1>6 DEF OpenChannel, Opens, Holds
  <2>2. local \in Nat /\ Usable(local, lost) /\ local # None
    BY Known DEF Usable, None
  <2>3. Quiet(t, "store_channel", local)
    BY <1>1, <1>2, <1>5, <2>1, Known DEF Quiet
  <2> HIDE DEF local
  <2>4. "store_channel" \in Places
    BY DEF Places
  <2>5. Moves(t, "store_channel", local, thread[t].result)
    BY <2>1 DEF Moves
  <2>6. StaysFresh(t, "store_channel", local, thread[t].result)
    BY <1>2, <1>3, <2>2 DEF StaysFresh, Becomes, Fresh
  <2>7. StaysWell(t, "store_channel", local, thread[t].result)
    BY <1>2, <2>2 DEF StaysWell, Becomes, Undisturbed
  <2> QED
    BY <1>3, <1>4, <2>2, <2>3, <2>4, <2>5, <2>6, <2>7, Known, QuietStep
<1>7. CASE ~(connection # None /\ connection \notin lost)
  <2>1. Raise(t) /\ opened' = opened
    BY <1>7 DEF OpenChannel
  <2>2. ~Fresh(thread[t], connection, channel, lost, declared)
    BY <1>1, <1>7 DEF Fresh, Usable
  <2>3. ~(lost = {} /\ Undisturbed(thread[t], connection, channel, Answer(t)))
    BY <1>1, <1>7 DEF Undisturbed
  <2> QED
    BY <1>1, <1>2, <1>3, <1>5, <2>1, <2>2, <2>3, RaiseStep
<1> QED
  BY <1>6, <1>7

\* ... stores that one, ...
LEMMA StoreChannelInv ==
  ASSUME IInv, NEW t \in Threads, StoreChannel(t)
  PROVE  IInv'
<1>1. thread[t].pc = "store_channel" /\ thread[t].pc \in Inside
  BY DEF StoreChannel, At, Inside
<1>2. /\ lock' = lock /\ exchange' = exchange /\ lost' = lost /\ faults' = faults /\ Steady
      /\ probed' = probed /\ channel' = thread[t].local /\ opened' = opened
      /\ connection' = connection /\ noticed' = noticed
  BY DEF StoreChannel, brokerVars, historyVars, Steady
<1>3. up' = up
  BY DEF StoreChannel, brokerVars, historyVars, Steady
<1>4. Disturbed(t)
  BY DEF StoreChannel
<1>5. noticed' \subseteq lost
  BY <1>2, Known
<1>6. Moves(t, "declare", None, thread[t].result)
  BY DEF StoreChannel, Leave, Holds, Moves
<1>7. "declare" \in Places /\ None \in Nat
  BY DEF Places, None
<1>8. Quiet(t, "declare", None)
  BY <1>1, <1>2, <1>5, Known DEF Quiet, None
<1>9. StaysWell(t, "declare", None, thread[t].result)
  BY <1>1, <1>2 DEF StaysWell, Becomes, Undisturbed
<1>10. StaysFresh(t, "declare", None, thread[t].result)
  <2>1. CASE trouble' = TRUE
    BY <2>1 DEF StaysFresh
  <2>2. CASE t \in Callers /\ trouble' = trouble
    <3>1. t \notin Probes
      BY <2>2, Constants
    <3>2. ASSUME NEW new \in Thread, new.pc = "declare",
                 Fresh(thread[t], connection, channel, lost, declared)
          PROVE  Fresh(new, connection', channel', lost, declared')
      BY <1>1, <1>2, <3>2 DEF Fresh
    <3> QED
      BY <2>2, <3>1, <3>2 DEF StaysFresh, Becomes
  <2>3. CASE t \notin Callers /\ lock = {} /\ trouble' = trouble
    BY <2>3 DEF StaysFresh
  <2> QED
    BY <1>4, <2>1, <2>2, <2>3, DisturbedFacts DEF Threads
<1>11. trouble' \in BOOLEAN
  BY <1>4, DisturbedFacts
<1> QED
  BY <1>3, <1>6, <1>7, <1>8, <1>9, <1>10, <1>11, Known, QuietStep

\* ... declares the exchange on what the global holds by now ...
LEMMA DeclareInv ==
  ASSUME IInv, NEW t \in Threads, Declare(t)
  PROVE  IInv'
<1>1. thread[t].pc = "declare" /\ thread[t].pc \in Inside
  BY DEF Declare, At, Inside
<1>2. /\ lock' = lock /\ exchange' = exchange /\ lost' = lost /\ faults' = faults /\ Steady
      /\ probed' = probed /\ opened' = opened /\ connection' = connection
      /\ channel' = channel
  BY DEF Declare, sharedVars, historyVars, Steady
<1>3. up' = up /\ trouble' = trouble
  BY DEF Declare, historyVars
<1>4. trouble' \in BOOLEAN
  BY <1>3 DEF IInv, Basics
<1>5. noticed' \subseteq lost
  BY NoticeFacts DEF Declare, Rpc
<1>6. CASE channel # None /\ channel \notin lost
  <2>1. Goto(t, "return") /\ declared'
    BY <1>6 DEF Declare, Rpc
  <2>2. "return" \in Places
    BY DEF Places
  <2>3. Moves(t, "return", thread[t].local, thread[t].result)
    BY <2>1 DEF Moves
  <2>4. Quiet(t, "return", thread[t].local)
    BY <1>1, <1>2, <1>5, Known, Calm
  <2>5. StaysFresh(t, "return", thread[t].local, thread[t].result)
    BY <1>2, <1>3, <1>6, <2>1 DEF StaysFresh, Becomes, Fresh, Usable
  <2>6. StaysWell(t, "return", thread[t].local, thread[t].result)
    BY <1>2, <1>6 DEF StaysWell, Becomes, Undisturbed
  <2> QED
    BY <1>3, <1>4, <2>2, <2>3, <2>4, <2>5, <2>6, Known, QuietStep
<1>7. CASE ~(channel # None /\ channel \notin lost)
  <2>1. Raise(t)
    BY <1>7 DEF Declare, Rpc
  <2>2. ~Fresh(thread[t], connection, channel, lost, declared)
    BY <1>1, <1>7 DEF Fresh, Usable
  <2>3. ~(lost = {} /\ Undisturbed(thread[t], connection, channel, Answer(t)))
    BY <1>1, <1>7 DEF Undisturbed
  <2> QED
    BY <1>1, <1>2, <1>3, <1>5, <2>1, <2>2, <2>3, RaiseStep
<1> QED
  BY <1>6, <1>7

\* ... and returns the global: to publish_event, or to check_broker.
LEMMA ReturnInv ==
  ASSUME IInv, NEW t \in Threads, Return(t)
  PROVE  IInv'
<1>1. thread[t].pc = "return" /\ thread[t].pc \in Inside
  BY DEF Return, At, Inside
<1>2. /\ lock' = lock /\ exchange' = exchange /\ lost' = lost /\ faults' = faults /\ Steady
      /\ probed' = probed /\ opened' = opened /\ connection' = connection
      /\ channel' = channel /\ noticed' = noticed
  BY DEF Return, sharedVars, brokerVars, historyVars, Steady
<1>3. up' = up /\ trouble' = trouble
  BY DEF Return, brokerVars, historyVars, Steady
<1>4. trouble' \in BOOLEAN
  BY <1>3 DEF IInv, Basics
<1>5. CASE t \in Callers
  <2>1. t \notin Probes /\ Holds(t, "publish", channel)
    BY <1>5, Constants DEF Return, Holds
  <2>2. Moves(t, "publish", channel, thread[t].result)
    BY <2>1 DEF Moves
  <2>3. "publish" \in Places /\ channel \in Nat
    BY Known DEF Places
  <2>4. Quiet(t, "publish", channel)
    BY <1>1, <1>2, <2>1, Known, Calm
  <2>5. StaysFresh(t, "publish", channel, thread[t].result)
    <3>1. ASSUME NEW new \in Thread, new.pc = "publish", new.local = channel,
                 Fresh(thread[t], connection, channel, lost, declared)
          PROVE  Fresh(new, connection', channel', lost, declared')
      BY <1>1, <1>2, <3>1 DEF Fresh, Steady
    <3> QED
      BY <1>3, <2>1, <3>1 DEF StaysFresh, Becomes
  <2>6. StaysWell(t, "publish", channel, thread[t].result)
    BY <1>1, <1>2 DEF StaysWell, Becomes, Undisturbed
  <2> QED
    BY <1>3, <1>4, <2>2, <2>3, <2>4, <2>5, <2>6, Known, QuietStep
<1>6. CASE t \notin Callers
  <2>1. Answers(t, "done", "yes")
    BY <1>6 DEF Return, Answers
  <2>2. Moves(t, "done", thread[t].local, "yes")
    BY <2>1 DEF Moves
  <2>3. "done" \in Places /\ "yes" \in Results
    BY DEF Places, Results
  <2>4. Quiet(t, "done", thread[t].local)
    BY <1>1, <1>2, <1>6, Known, Calm
  <2>5. StaysFresh(t, "done", thread[t].local, "yes")
    BY <1>2, <1>3, <1>6 DEF StaysFresh
  <2>6. StaysWell(t, "done", thread[t].local, "yes")
    BY <1>2, <1>6 DEF StaysWell, Becomes, Undisturbed, Answer
  <2> QED
    BY <1>3, <1>4, <2>2, <2>3, <2>4, <2>5, <2>6, Known, QuietStep
<1> QED
  BY <1>5, <1>6

\* A publish that raises leaves nothing behind.
LEMMA PublishRaisesInv ==
  ASSUME IInv, NEW t \in Threads, PublishRaises(t)
  PROVE  IInv'
<1>1. thread[t].pc = "publish" /\ thread[t].pc \in Inside
  BY DEF PublishRaises, At, Inside
<1>2. /\ lock' = lock /\ exchange' = exchange /\ lost' = lost /\ faults' = faults /\ Steady
      /\ probed' = probed /\ opened' = opened /\ connection' = connection
      /\ channel' = channel
  BY DEF PublishRaises, sharedVars, historyVars, Steady
<1>3. up' = up /\ trouble' = trouble
  BY DEF PublishRaises, historyVars
<1>4. (thread[t].local = None \/ thread[t].local \in lost) /\ Raise(t)
  BY DEF PublishRaises
<1>5. noticed' \subseteq lost
  BY NoticeFacts DEF PublishRaises
<1>6. ~Fresh(thread[t], connection, channel, lost, declared)
  BY <1>1, <1>4 DEF Fresh, Usable
<1>7. ~(lost = {} /\ Undisturbed(thread[t], connection, channel, Answer(t)))
  BY <1>1, <1>4 DEF Undisturbed
<1> QED
  BY <1>1, <1>2, <1>3, <1>4, <1>5, <1>6, <1>7, RaiseStep

-----------------------------------------------------------------------------
\* The beginning and the end of a call.

\* publish_event is called, and asks for the lock; a probe comes.
LEMMA CallInv ==
  ASSUME IInv, NEW t \in Threads, Call(t)
  PROVE  IInv'
<1> DEFINE new == [thread[t] EXCEPT !.pc = "lock"]
<1>1. thread[t].pc = "idle" /\ t \in Callers /\ t \notin Probes
  BY Constants DEF Call, At
<1>2. /\ lock' = lock /\ exchange' = exchange /\ lost' = lost /\ faults' = faults /\ Steady
      /\ probed' = probed /\ opened' = opened /\ connection' = connection
      /\ channel' = channel /\ noticed' = noticed
  BY DEF Call, sharedVars, brokerVars, historyVars, Steady
<1>3. up' = up /\ trouble' = trouble
  BY DEF Call, brokerVars, historyVars, Steady
<1>4. thread' = [thread EXCEPT ![t] = new]
  BY DEF Call, Goto
<1>5. thread[t] \in Thread
  BY ThreadFacts DEF IInv
<1>6. /\ new \in Thread /\ new.pc = "lock" /\ new.attempt = thread[t].attempt
      /\ new.local = thread[t].local
  BY <1>5 DEF Thread
<1> HIDE DEF new
<1>7. ~Working(thread[t]) /\ ~Working(new)
  BY <1>1, <1>6 DEF Working
<1>8. thread' \in [Threads -> Thread] /\ LocalsKnown'
  <2>1. opened' \in Nat /\ opened <= opened' /\ new.local <= opened'
    BY <1>2, <1>6, Known
  <2> QED
    BY <1>4, <1>6, <2>1, LocalsStep
<1>9. LockHeld'
  BY <1>1, <1>2, <1>4, <1>6, <1>7, LockStep
<1>10. Orderly'
  BY <1>1, <1>2, <1>4, <1>6, <1>7, OrderlyStep
<1>11. SecondAttempts'
  BY <1>1, <1>2, <1>3, <1>4, <1>6, <1>7, AttemptsStep
<1>12. Healthy'
  <2>1. t \in Callers => (thread[t].pc = "done" <=> new.pc = "done")
    BY <1>1, <1>6
  <2>2. /\ Undisturbed(new, connection', channel', Answer(t))
        /\ connection # None => connection' # None
        /\ channel # None => channel' # None
    BY <1>2, <1>6 DEF Undisturbed
  <2> QED
    BY <1>2, <1>3, <1>4, <1>6, <2>1, <2>2, HealthyStep
<1>13. up' \in BOOLEAN /\ trouble' \in BOOLEAN
  BY <1>3 DEF IInv, Basics
<1>14. Basics'
  BY <1>2, <1>8, <1>13 DEF IInv, Basics
<1> QED
  BY <1>8, <1>9, <1>10, <1>11, <1>12, <1>14 DEF IInv

LEMMA ProbeInv ==
  ASSUME IInv, NEW t \in Threads, Probe(t)
  PROVE  IInv'
<1> DEFINE new == [pc |-> "check", attempt |-> 0, local |-> None, result |-> ""]
<1>1. t \in Probes /\ t \notin Callers
  BY Constants DEF Probe
<1>2. /\ lock' = lock /\ exchange' = exchange /\ lost' = lost /\ faults' = faults /\ Steady
      /\ opened' = opened /\ connection' = connection
      /\ channel' = channel /\ noticed' = noticed
  BY DEF Probe, sharedVars, brokerVars, historyVars, Steady
<1>3. up' = up /\ trouble' = trouble
  BY DEF Probe, brokerVars, historyVars, Steady
<1>4. thread' = [thread EXCEPT ![t] = new]
  BY DEF Probe
<1>5. probed' \in 0..MaxProbes
  <2>1. probed \in 0..MaxProbes /\ MaxProbes \in Nat
    BY Constants DEF IInv, Basics
  <2>2. probed < MaxProbes /\ probed' = probed + 1
    BY DEF Probe
  <2> QED
    BY <2>1, <2>2
<1>6. new \in Thread /\ new.pc = "check" /\ new.local = 0
  BY DEF Thread, None
<1> HIDE DEF new
<1>7. thread' \in [Threads -> Thread] /\ LocalsKnown'
  <2>1. opened' \in Nat /\ opened <= opened' /\ new.local <= opened'
    BY <1>2, <1>6, Known
  <2> QED
    BY <1>4, <1>6, <2>1, LocalsStep
<1>8. LockHeld'
  BY <1>1, <1>2, <1>4, <1>6, LockStep
<1>9. Orderly'
  BY <1>1, <1>2, <1>4, <1>6, OrderlyStep
<1>10. SecondAttempts'
  BY <1>1, <1>2, <1>3, <1>4, <1>6, AttemptsStep
<1>11. Healthy'
  <2>1. /\ Undisturbed(new, connection', channel', Answer(t))
        /\ connection # None => connection' # None
        /\ channel # None => channel' # None
    BY <1>2, <1>6 DEF Undisturbed
  <2> QED
    BY <1>1, <1>2, <1>3, <1>4, <1>6, <2>1, HealthyStep
<1>12. up' \in BOOLEAN /\ trouble' \in BOOLEAN
  BY <1>3 DEF IInv, Basics
<1>13. Basics'
  BY <1>2, <1>5, <1>7, <1>12 DEF IInv, Basics
<1> QED
  BY <1>7, <1>8, <1>9, <1>10, <1>11, <1>13 DEF IInv

\* The lock is free, so nobody is at work.
LEMMA AcquireInv ==
  ASSUME IInv, NEW t \in Threads, Acquire(t)
  PROVE  IInv'
<1> DEFINE moved == [thread[t] EXCEPT !.pc = "check"]
           new   == [moved EXCEPT !.attempt = 1]
<1>1. thread[t].pc = "lock" /\ t \in Callers /\ t \notin Probes
  <2>1. t \notin Probes
    BY DEF Acquire, At, IInv, LockHeld
  <2> QED
    BY <2>1 DEF Acquire, At, Threads
<1>2. /\ lock = {} /\ lock' = {t} /\ exchange' = exchange /\ lost' = lost
      /\ faults' = faults /\ Steady /\ probed' = probed /\ opened' = opened
      /\ connection' = connection /\ channel' = channel /\ noticed' = noticed
  BY DEF Acquire, brokerVars, historyVars, Steady
<1>3. up' = up /\ trouble' = trouble
  BY DEF Acquire, brokerVars, historyVars, Steady
<1>4. thread' = [thread EXCEPT ![t] = new]
  BY DEF Acquire
<1>5. thread[t] \in Thread /\ thread \in [Threads -> Thread]
  BY ThreadFacts DEF IInv
<1>6. moved \in Thread /\ moved.pc = "check" /\ moved.local = thread[t].local
  BY <1>5 DEF Thread
<1> HIDE DEF moved
<1>a. new \in Thread
  <2> DEFINE one == 1
  <2>1. one \in 0..2
    OBVIOUS
  <2>2. new = [moved EXCEPT !.attempt = one]
    OBVIOUS
  <2> HIDE DEF one, new
  <2> QED
    BY <1>6, <2>1, <2>2 DEF Thread
<1>b. new.pc = "check" /\ new.local = thread[t].local
  BY <1>6 DEF Thread
<1>c. new.attempt = 1
  BY <1>6 DEF Thread
<1>7. new \in Thread /\ new.pc = "check" /\ new.local = thread[t].local /\ new.attempt = 1
  BY <1>a, <1>b, <1>c
<1> HIDE DEF new
<1>8. ~Working(thread[t]) /\ Working(new)
  BY <1>1, <1>7 DEF Working
<1>9. thread' \in [Threads -> Thread] /\ LocalsKnown'
  <2>1. opened' \in Nat /\ opened <= opened' /\ new.local <= opened'
    BY <1>2, <1>7, Known
  <2> QED
    BY <1>4, <1>7, <2>1, LocalsStep
<1>10. LockHeld'
  <2>1. \A z \in Threads : thread'[z] = IF z = t THEN new ELSE thread[z]
    BY <1>4, <1>5
  <2>2. \A z \in Callers : ~Working(thread[z])
    BY <1>2 DEF IInv, LockHeld
  <2>3. ASSUME NEW z \in Callers
        PROVE  /\ Working(thread'[z]) <=> lock' = {z}
               /\ Working(thread'[z]) => thread'[z].attempt \in {1, 2}
    BY <1>2, <1>7, <1>8, <2>1, <2>2 DEF Threads
  <2>4. \A z \in Probes : thread'[z].pc \notin {"lock", "publish", "except"}
    BY <1>1, <2>1 DEF IInv, LockHeld, Threads
  <2> QED
    BY <1>1, <1>2, <2>3, <2>4 DEF LockHeld
<1>11. Orderly'
  BY <1>1, <1>2, <1>4, <1>7, <1>8, OrderlyStep
<1>12. SecondAttempts'
  <2>1. lock = {} /\ new.attempt # 2
    BY <1>2, <1>7
  <2> QED
    BY <1>2, <1>3, <1>4, <1>7, <2>1, AttemptsStep
<1>13. Healthy'
  <2>1. t \in Callers => (thread[t].pc = "done" <=> new.pc = "done")
    BY <1>1, <1>7
  <2>2. /\ Undisturbed(new, connection', channel', Answer(t))
        /\ connection # None => connection' # None
        /\ channel # None => channel' # None
    BY <1>2, <1>7 DEF Undisturbed
  <2> QED
    BY <1>2, <1>3, <1>4, <1>7, <2>1, <2>2, HealthyStep
<1>14. up' \in BOOLEAN /\ trouble' \in BOOLEAN
  BY <1>3 DEF IInv, Basics
<1>15. lock' \in SUBSET Callers
  BY <1>1, <1>2
<1>16. Basics'
  BY <1>2, <1>9, <1>14, <1>15 DEF IInv, Basics
<1> QED
  BY <1>9, <1>10, <1>11, <1>12, <1>13, <1>16 DEF IInv

\* A call that ends leaves nobody at work.
LEMMA EndFacts ==
  ASSUME IInv, NEW t \in Threads, NEW result \in Results, End(t, result)
  PROVE  \E new \in Thread :
           /\ thread' = [thread EXCEPT ![t] = new]
           /\ new.pc = "done" /\ new.local = 0 /\ new.result = result
<1> DEFINE q == thread[t]
           a == [q EXCEPT !.pc = "done"]
           b == [a EXCEPT !.attempt = 0]
           c == [b EXCEPT !.local = None]
           new == [c EXCEPT !.result = result]
<1>1. q \in Thread
  BY ThreadFacts DEF IInv
<1>2. thread' = [thread EXCEPT ![t] = new]
  BY DEF End
<1> HIDE DEF q
<1>3. a \in Thread /\ a.pc = "done"
  BY <1>1 DEF Thread
<1> HIDE DEF a
<1>4. b \in Thread /\ b.pc = "done"
  <2> DEFINE zero == 0
  <2>1. zero \in 0..2
    OBVIOUS
  <2>2. b = [a EXCEPT !.attempt = zero]
    OBVIOUS
  <2>3. b.pc = "done"
    BY <1>3 DEF Thread
  <2> HIDE DEF zero, b
  <2> QED
    BY <1>3, <2>1, <2>2, <2>3 DEF Thread
<1> HIDE DEF b
<1>5. c \in Thread /\ c.pc = "done" /\ c.local = 0
  BY <1>4 DEF Thread, None
<1> HIDE DEF c
<1>6. new \in Thread /\ new.pc = "done" /\ new.local = 0 /\ new.result = result
  BY <1>5 DEF Thread, Results
<1> QED
  BY <1>2, <1>6

\* What is on the exchange after one more message.
LEMMA OneMore ==
  ASSUME NEW messages \in Seq(Callers), NEW t \in Callers
  PROVE  /\ Append(messages, t) \in Seq(Callers)
         /\ Len(Append(messages, t)) = Len(messages) + 1
         /\ \A i \in DOMAIN messages : Append(messages, t)[i] = messages[i]
         /\ Append(messages, t)[Len(messages) + 1] = t
         /\ DOMAIN Append(messages, t) = (DOMAIN messages) \cup {Len(messages) + 1}
         /\ \A z \in Callers : Of(z, Append(messages, t)) =
                               IF z = t THEN Of(z, messages) \cup {Len(messages) + 1}
                               ELSE Of(z, messages)
<1>1. /\ Append(messages, t) \in Seq(Callers)
      /\ Len(Append(messages, t)) = Len(messages) + 1
      /\ \A i \in DOMAIN messages : Append(messages, t)[i] = messages[i]
      /\ Append(messages, t)[Len(messages) + 1] = t
  OBVIOUS
<1>2. DOMAIN messages = 1..Len(messages) /\ Len(messages) \in Nat
  OBVIOUS
<1>3. DOMAIN Append(messages, t) = 1..(Len(messages) + 1)
  BY <1>1
<1>4. DOMAIN Append(messages, t) = (DOMAIN messages) \cup {Len(messages) + 1}
  BY <1>2, <1>3
<1>5. ASSUME NEW z \in Callers
      PROVE  Of(z, Append(messages, t)) =
               IF z = t THEN Of(z, messages) \cup {Len(messages) + 1} ELSE Of(z, messages)
  BY <1>1, <1>4 DEF Of
<1> QED
  BY <1>1, <1>4, <1>5

\* A call ends, with one more message or without; a call without a fault ends well.
LEMMA EndStep ==
  ASSUME IInv, NEW t \in Callers, Working(thread[t]), NEW result \in Results, End(t, result),
         exchange' \in {exchange, Append(exchange, t)},
         lost \subseteq lost', lost' \subseteq 1..opened, up' = up, faults' = faults,
         probed' = probed, opened' = opened,
         noticed' = noticed, connection' \in {None, connection}, channel' \in {None, channel},
         faults = 0 /\ ~crossed' => /\ ~crossed /\ lost' = lost
                                   /\ result = "ok" /\ exchange' = Append(exchange, t)
                                   /\ connection' = connection /\ channel' = channel
  PROVE  IInv'
<1>0. t \in Threads /\ t \notin Probes
  BY Constants DEF Threads
<1>1. PICK new \in Thread :
        /\ thread' = [thread EXCEPT ![t] = new]
        /\ new.pc = "done" /\ new.local = 0 /\ new.result = result
  BY <1>0, EndFacts
<1>2. \A z \in Threads : thread'[z] = IF z = t THEN new ELSE thread[z]
  BY <1>1 DEF IInv, Basics
<1>3. lock' = {} /\ trouble' = FALSE
  BY DEF End
<1>4. exchange \in Seq(Callers)
  BY DEF IInv, Basics
<1>5. exchange' \in Seq(Callers)
  BY <1>4, OneMore
<1>6. \A z \in Callers : Working(thread[z]) => z = t
  BY DEF IInv, LockHeld
<1>7. \A z \in Callers : ~Working(thread'[z])
  BY <1>1, <1>2, <1>6 DEF Working, Threads
<1>8. thread' \in [Threads -> Thread] /\ LocalsKnown'
  <2>1. opened' \in Nat /\ opened <= opened' /\ new.local <= opened'
    BY <1>0, <1>1, Known
  <2> QED
    BY <1>0, <1>1, <2>1, LocalsStep
<1>9. LockHeld'
  <2>1. \A z \in Callers : lock' # {z}
    BY <1>3
  <2>2. \A z \in Probes : thread'[z].pc \notin {"lock", "publish", "except"}
    BY <1>0, <1>2 DEF IInv, LockHeld, Threads
  <2> QED
    BY <1>3, <1>7, <2>1, <2>2 DEF LockHeld
<1>10. SecondAttempts'
  BY <1>7 DEF SecondAttempts
<1>11. Orderly'
  <2>1. PICK n \in 0..Len(exchange) : Split(n, exchange, thread)
    BY DEF IInv, Orderly
  <2>2. ASSUME NEW i \in 1..Len(exchange) PROVE thread'[exchange[i]].pc = "done"
    <3>1. exchange[i] \in Callers
      BY <1>4
    <3>2. CASE exchange[i] = t
      BY <1>0, <1>1, <1>2, <3>2
    <3>3. CASE exchange[i] # t
      <4>1. ~Working(thread[exchange[i]])
        BY <1>6, <3>1, <3>3
      <4>2. i \in 1..n
        BY <1>4, <2>1, <4>1 DEF Split
      <4>3. thread[exchange[i]].pc = "done"
        BY <2>1, <4>2 DEF Split
      <4> QED
        BY <1>2, <3>1, <3>3, <4>3 DEF Threads
    <3> QED
      BY <3>2, <3>3
  <2>3. \A i \in 1..Len(exchange') : thread'[exchange'[i]].pc = "done"
    <3>1. CASE exchange' = exchange
      BY <2>2, <3>1
    <3>2. CASE exchange' = Append(exchange, t)
      <4>1. ASSUME NEW i \in 1..Len(exchange') PROVE thread'[exchange'[i]].pc = "done"
        <5>1. CASE i \in 1..Len(exchange)
          BY <1>4, <2>2, <3>2, <5>1, OneMore
        <5>2. CASE i = Len(exchange) + 1
          <6>1. exchange'[i] = t
            BY <1>4, <3>2, <5>2, OneMore
          <6> QED
            BY <1>0, <1>1, <1>2, <6>1
        <5> QED
          BY <1>4, <3>2, <5>1, <5>2, OneMore
      <4> QED
        BY <4>1
    <3> QED
      BY <3>1, <3>2
  <2>4. Len(exchange') \in 0..Len(exchange')
    BY <1>5
  <2>5. (Len(exchange') + 1)..Len(exchange') = {}
    BY <1>5
  <2>6. Split(Len(exchange'), exchange', thread')
    BY <2>3, <2>5 DEF Split
  <2> QED
    BY <2>4, <2>6 DEF Orderly
<1>12. Healthy'
  <2> SUFFICES ASSUME faults = 0, ~crossed'
               PROVE  /\ up' = TRUE /\ lost' = {}
                      /\ \A z \in Callers :
                           /\ Undisturbed(thread'[z], connection', channel', "ok")
                           /\ IF thread'[z].pc = "done"
                              THEN \E i \in DOMAIN exchange' : Of(z, exchange') = {i}
                              ELSE Of(z, exchange') = {}
                      /\ \A z \in Probes : Undisturbed(thread'[z], connection', channel', "yes")
    BY DEF Healthy
  <2>1. up = TRUE /\ lost' = {} /\ ~crossed
    BY DEF IInv, Healthy
  <2>2. /\ result = "ok" /\ exchange' = Append(exchange, t)
        /\ connection' = connection /\ channel' = channel
    OBVIOUS
  <2>3. ASSUME NEW z \in Callers
        PROVE  /\ Undisturbed(thread[z], connection, channel, "ok")
               /\ IF thread[z].pc = "done" THEN \E i \in DOMAIN exchange : Of(z, exchange) = {i}
                  ELSE Of(z, exchange) = {}
    BY DEF IInv, Healthy
  <2>4. ASSUME NEW z \in Callers
        PROVE  /\ Undisturbed(thread'[z], connection', channel', "ok")
               /\ IF thread'[z].pc = "done" THEN \E i \in DOMAIN exchange' : Of(z, exchange') = {i}
                  ELSE Of(z, exchange') = {}
    <3>1. CASE z = t
      <4>1. thread'[z] = new
        BY <1>0, <1>2, <3>1
      <4>2. Undisturbed(new, connection', channel', "ok")
        BY <1>1, <2>2 DEF Undisturbed
      <4>3. Of(t, exchange) = {}
        BY <2>3 DEF Working
      <4>4. Of(t, exchange') = {Len(exchange) + 1} /\ Len(exchange) + 1 \in DOMAIN exchange'
        BY <1>4, <2>2, <4>3, OneMore
      <4> QED
        BY <1>1, <3>1, <4>1, <4>2, <4>4
    <3>2. CASE z # t
      <4>1. thread'[z] = thread[z]
        BY <1>2, <3>2 DEF Threads
      <4>2. Of(z, exchange') = Of(z, exchange) /\ DOMAIN exchange \subseteq DOMAIN exchange'
        BY <1>4, <2>2, <3>2, OneMore
      <4> QED
        BY <2>2, <2>3, <4>1, <4>2
    <3> QED
      BY <3>1, <3>2
  <2>5. ASSUME NEW z \in Probes PROVE Undisturbed(thread'[z], connection', channel', "yes")
    <3>1. Undisturbed(thread[z], connection, channel, "yes")
      BY DEF IInv, Healthy
    <3>2. thread'[z] = thread[z]
      BY <1>0, <1>2 DEF Threads
    <3> QED
      BY <2>2, <3>1, <3>2
  <2> QED
    BY <2>1, <2>4, <2>5
<1>13. up' \in BOOLEAN
  BY DEF IInv, Basics
<1>14. connection' \in 0..opened' /\ channel' \in 0..opened'
  BY <1>0, Known DEF None
<1>15. /\ lost' \subseteq 1..opened' /\ noticed' \subseteq lost'
       /\ faults' \in 0..MaxFaults /\ probed' \in 0..MaxProbes /\ opened' \in Nat
  BY DEF IInv, Basics
<1>16. Basics'
  BY <1>3, <1>5, <1>8, <1>13, <1>14, <1>15 DEF Basics
<1> QED
  BY <1>8, <1>9, <1>10, <1>11, <1>12, <1>16 DEF IInv

\* A message goes through only on a connection that is there ...
LEMMA PublishInv ==
  ASSUME IInv, NEW t \in Threads, Publish(t)
  PROVE  IInv'
<1>1. thread[t].pc = "publish" /\ Working(thread[t])
  BY DEF Publish, OpenAt, At, Working
<1>2. t \in Callers
  BY <1>1 DEF IInv, LockHeld, Threads
<1>3. /\ exchange' = Append(exchange, t) /\ End(t, "ok") /\ lost' = lost
      /\ faults' = faults /\ crossed' = crossed /\ probed' = probed /\ opened' = opened
      /\ connection' = connection /\ channel' = channel /\ noticed' = noticed
  BY DEF Publish
<1>4. up' = up
  BY DEF Publish
<1>5. "ok" \in Results
  BY DEF Results
<1>6. lost' \subseteq 1..opened
  BY <1>3, Known
<1> QED
  BY <1>1, <1>2, <1>3, <1>4, <1>5, <1>6, EndStep

\* ... and vanishes only on one that is gone, which takes a fault.
LEMMA PublishVanishesInv ==
  ASSUME IInv, NEW t \in Threads, PublishVanishes(t)
  PROVE  IInv'
<1>1. thread[t].pc = "publish" /\ Working(thread[t])
  BY DEF PublishVanishes, At, Working
<1>2. t \in Callers
  BY <1>1 DEF IInv, LockHeld, Threads
<1>3. /\ End(t, "ok") /\ exchange' = exchange /\ lost' = lost
      /\ faults' = faults /\ crossed' = crossed /\ probed' = probed /\ opened' = opened
      /\ connection' = connection /\ channel' = channel /\ noticed' = noticed
  BY DEF PublishVanishes, brokerVars, historyVars, Steady
<1>4. up' = up
  BY DEF PublishVanishes, brokerVars, historyVars, Steady
<1>5. "ok" \in Results
  BY DEF Results
<1>6. ~(faults = 0 /\ ~crossed)
  <2>1. lost # {}
    BY DEF PublishVanishes
  <2> QED
    BY <2>1 DEF IInv, Healthy
<1>7. lost' \subseteq 1..opened
  BY <1>3, Known
<1> QED
  BY <1>1, <1>2, <1>3, <1>4, <1>5, <1>6, <1>7, EndStep

\* The except clause: the second attempt starts from scratch, the call ends after it.
LEMMA RecoverInv ==
  ASSUME IInv, NEW t \in Threads, Recover(t)
  PROVE  IInv'
<1>1. thread[t].pc = "except" /\ Working(thread[t])
  BY DEF Recover, At, Working
<1>2. t \in Callers
  BY <1>1 DEF IInv, LockHeld, Threads
<1>3. /\ exchange' = exchange /\ lost' = lost
      /\ faults' = faults /\ Steady /\ probed' = probed /\ opened' = opened
      /\ connection' = None /\ channel' = None /\ noticed' = noticed
  BY DEF Recover, brokerVars, historyVars, Steady
<1>4. up' = up
  BY DEF Recover, brokerVars, historyVars, Steady
<1>5. ~(faults = 0 /\ ~crossed) /\ crossed' = crossed
  BY <1>1, <1>2, <1>3 DEF IInv, Healthy, Undisturbed, Steady
<1>6. CASE thread[t].attempt = 1
  <2> DEFINE two == 2
             moved == [thread[t] EXCEPT !.pc = "check"]
             new == [moved EXCEPT !.attempt = two]
  <2>1. /\ thread' = [thread EXCEPT ![t] = new] /\ lock' = lock
    BY <1>6 DEF Recover
  <2>2. trouble' = trouble
    BY <1>6 DEF Recover
  <2>3. thread[t] \in Thread
    BY ThreadFacts DEF IInv
  <2>4. moved \in Thread /\ moved.pc = "check" /\ moved.local = thread[t].local
    BY <2>3 DEF Thread
  <2> HIDE DEF moved
  <2>5. two \in 0..2 /\ two = 2
    OBVIOUS
  <2> HIDE DEF two
  <2>6. /\ new \in Thread /\ new.pc = "check" /\ new.local = thread[t].local
        /\ new.attempt = two
    BY <2>4, <2>5 DEF Thread
  <2> HIDE DEF new
  <2>7. Working(new)
    BY <2>6 DEF Working
  <2>8. thread' \in [Threads -> Thread] /\ LocalsKnown'
    <3>1. opened' \in Nat /\ opened <= opened' /\ new.local <= opened'
      BY <1>3, <2>6, Known
    <3> QED
      BY <2>1, <2>6, <3>1, LocalsStep
  <2>9. \A z \in Threads : thread'[z] = IF z = t THEN new ELSE thread[z]
    BY <2>1 DEF IInv, Basics
  <2>10. LockHeld'
    <3>1. ASSUME NEW z \in Callers
          PROVE  /\ Working(thread'[z]) <=> lock' = {z}
                 /\ Working(thread'[z]) => thread'[z].attempt \in {1, 2}
      <4>1. /\ Working(thread[z]) <=> lock = {z}
            /\ Working(thread[z]) => thread[z].attempt \in {1, 2}
        BY DEF IInv, LockHeld
      <4>2. thread'[z] = IF z = t THEN new ELSE thread[z]
        BY <2>9 DEF Threads
      <4> QED
        BY <1>1, <2>1, <2>5, <2>6, <2>7, <4>1, <4>2
    <3>2. t \notin Probes
      BY <1>2, Constants
    <3>3. \A z \in Probes : thread'[z].pc \notin {"lock", "publish", "except"}
      BY <2>9, <3>2 DEF IInv, LockHeld, Threads
    <3>4. lock' = {} \/ \E z \in Callers : lock' = {z}
      BY <2>1 DEF IInv, LockHeld
    <3> QED
      BY <3>1, <3>3, <3>4 DEF LockHeld
  <2>11. Orderly'
    <3>1. Left(thread[t]) = 1 /\ Left(new) = 1
      BY <1>1, <1>6, <2>5, <2>6 DEF Left
    <3>2. Left(thread[t]) <= Left(new)
      BY <3>1
    <3> QED
      BY <1>1, <1>3, <2>1, <2>6, <2>7, <3>2, OrderlyStep
  <2>12. SecondAttempts'
    <3>1. Fresh(new, connection', channel', lost, declared')
      BY <1>3, <2>6 DEF Fresh
    <3> QED
      BY <1>1, <1>2, <1>3, <1>4, <2>1, <2>2, <2>6, <3>1, AttemptsStep
  <2>13. Healthy'
    BY <1>3, <1>5 DEF Healthy
  <2>14. up' \in BOOLEAN /\ trouble' \in BOOLEAN
    BY <1>4, <2>2 DEF IInv, Basics
  <2>15. connection' \in 0..opened' /\ channel' \in 0..opened'
    BY <1>3, Known DEF None
  <2>16. Basics'
    BY <1>3, <2>1, <2>8, <2>14, <2>15 DEF IInv, Basics
  <2> QED
    BY <2>8, <2>10, <2>11, <2>12, <2>13, <2>16 DEF IInv
<1>7. CASE thread[t].attempt # 1
  <2>1. End(t, "error") /\ "error" \in Results
    BY <1>7 DEF Recover, Results
  <2>2. lost' \subseteq 1..opened
    BY <1>3, Known
  <2> QED
    BY <1>1, <1>2, <1>3, <1>4, <1>5, <2>1, <2>2, EndStep
<1> QED
  BY <1>6, <1>7

-----------------------------------------------------------------------------
\* The process, the broker and the network.

\* Where the threads are does not change.
LEMMA OutsideStep ==
  ASSUME IInv, thread' = thread, exchange' = exchange, lock' = lock,
         opened' = opened, SecondAttempts', Healthy'
  PROVE  LocalsKnown' /\ LockHeld' /\ Orderly' /\ SecondAttempts' /\ Healthy'
<1>1. LocalsKnown'
  BY DEF IInv, LocalsKnown
<1>2. LockHeld'
  BY DEF IInv, LockHeld
<1>3. Orderly'
  BY DEF IInv, Orderly, Split
<1> QED
  BY <1>1, <1>2, <1>3

\* What happens while the lock is held is trouble, and otherwise there is no second attempt.
LEMMA TroubledStep ==
  ASSUME IInv, thread' = thread, trouble' = (lock # {})
  PROVE  SecondAttempts' /\ trouble' \in BOOLEAN
<1>1. CASE lock = {}
  <2>1. \A t \in Callers : ~Working(thread[t])
    BY <1>1 DEF IInv, LockHeld
  <2> QED
    BY <2>1 DEF SecondAttempts
<1>2. CASE lock # {}
  BY <1>2 DEF SecondAttempts
<1> QED
  BY <1>1, <1>2

LEMMA CloseInv ==
  ASSUME IInv, Close
  PROVE  IInv'
<1>1. /\ lock' = lock /\ exchange' = exchange /\ lost' = lost
      /\ faults' = faults /\ Steady /\ probed' = probed /\ opened' = opened
      /\ connection' = None /\ channel' = None /\ noticed' = noticed
      /\ thread' = thread
  BY DEF Close, brokerVars, historyVars, Steady
<1>2. up' = up /\ trouble' = trouble
  BY DEF Close, brokerVars, historyVars, Steady
<1>3. \A t \in Threads : thread[t].pc \in {"idle", "done"}
  BY DEF Close
<1>4. SecondAttempts'
  BY <1>1, <1>3 DEF SecondAttempts, Working, Threads
<1>5. Healthy'
  <2> SUFFICES ASSUME faults = 0, ~crossed
               PROVE  /\ up' = TRUE /\ lost' = {}
                      /\ \A z \in Callers :
                           /\ Undisturbed(thread'[z], connection', channel', "ok")
                           /\ IF thread'[z].pc = "done"
                              THEN \E i \in DOMAIN exchange' : Of(z, exchange') = {i}
                              ELSE Of(z, exchange') = {}
                      /\ \A z \in Probes : Undisturbed(thread'[z], connection', channel', "yes")
    BY <1>1 DEF Healthy, Steady
  <2>1. up = TRUE /\ lost = {}
    BY DEF IInv, Healthy
  <2>2. ASSUME NEW z \in Threads, NEW answer,
               Undisturbed(thread[z], connection, channel, answer)
        PROVE  Undisturbed(thread'[z], connection', channel', answer)
    BY <1>1, <1>3, <2>2 DEF Undisturbed
  <2>3. ASSUME NEW z \in Callers
        PROVE  /\ Undisturbed(thread'[z], connection', channel', "ok")
               /\ IF thread'[z].pc = "done"
                  THEN \E i \in DOMAIN exchange' : Of(z, exchange') = {i}
                  ELSE Of(z, exchange') = {}
    <3>1. /\ Undisturbed(thread[z], connection, channel, "ok")
          /\ IF thread[z].pc = "done" THEN \E i \in DOMAIN exchange : Of(z, exchange) = {i}
             ELSE Of(z, exchange) = {}
      BY DEF IInv, Healthy
    <3> QED
      BY <1>1, <2>2, <3>1 DEF Threads
  <2>4. ASSUME NEW z \in Probes PROVE Undisturbed(thread'[z], connection', channel', "yes")
    <3>1. Undisturbed(thread[z], connection, channel, "yes")
      BY DEF IInv, Healthy
    <3> QED
      BY <2>2, <3>1 DEF Threads
  <2> QED
    BY <1>1, <1>2, <2>1, <2>3, <2>4
<1>6. up' \in BOOLEAN /\ trouble' \in BOOLEAN
  BY <1>2 DEF IInv, Basics
<1>7. {connection', channel'} \subseteq 0..opened'
  <2>1. opened \in Nat
    BY DEF IInv, Basics
  <2> QED
    BY <1>1, <2>1 DEF None
<1>8. Basics'
  BY <1>1, <1>6, <1>7 DEF IInv, Basics
<1> QED
  BY <1>1, <1>4, <1>5, <1>8, OutsideStep DEF IInv

\* A fault is counted.
LEMMA FaultFacts ==
  ASSUME IInv, Fault
  PROVE  faults' \in 0..MaxFaults /\ faults' # 0 /\ Healthy' /\ trouble' = (lock # {})
<1>1. faults \in 0..MaxFaults /\ MaxFaults \in Nat
  BY Constants DEF IInv, Basics
<1>2. faults < MaxFaults /\ faults' = faults + 1
  BY DEF Fault
<1>3. faults' \in 0..MaxFaults /\ faults' # 0
  BY <1>1, <1>2
<1>4. Healthy'
  BY <1>3 DEF Healthy
<1>5. trouble' = (lock # {})
  BY DEF Fault
<1> QED
  BY <1>3, <1>4, <1>5

LEMMA BrokerStopsInv ==
  ASSUME IInv, BrokerStops
  PROVE  IInv'
<1>1. /\ lock' = lock /\ exchange' = exchange /\ probed' = probed /\ opened' = opened
      /\ connection' = connection /\ channel' = channel /\ noticed' = noticed
      /\ thread' = thread /\ lost' = 1..opened
  BY DEF BrokerStops, sharedVars, historyVars, Steady
<1>2. Fault
  BY DEF BrokerStops
<1>3. up' \in BOOLEAN
  BY DEF BrokerStops
<1>4. faults' \in 0..MaxFaults /\ Healthy'
  BY <1>2, FaultFacts
<1>5. SecondAttempts' /\ trouble' \in BOOLEAN
  BY <1>1, <1>2, TroubledStep, FaultFacts
<1>6. lost' \subseteq 1..opened' /\ noticed' \subseteq lost'
  BY <1>1 DEF IInv, Basics
<1>7. Basics'
  BY <1>1, <1>3, <1>4, <1>5, <1>6 DEF IInv, Basics
<1> QED
  BY <1>1, <1>4, <1>5, <1>7, OutsideStep DEF IInv

LEMMA BrokerStartsInv ==
  ASSUME IInv, BrokerStarts
  PROVE  IInv'
<1>1. /\ lock' = lock /\ exchange' = exchange /\ probed' = probed /\ opened' = opened
      /\ connection' = connection /\ channel' = channel /\ noticed' = noticed
      /\ thread' = thread /\ lost' = lost /\ faults' = faults /\ Steady
  BY DEF BrokerStarts, sharedVars, historyVars, Steady
<1>2. up' \in BOOLEAN /\ ~up
  BY DEF BrokerStarts
<1>3. Healthy'
  BY <1>1, <1>2 DEF IInv, Healthy, Steady
<1>4. trouble' = (lock # {})
  BY DEF BrokerStarts
<1>5. SecondAttempts' /\ trouble' \in BOOLEAN
  BY <1>1, <1>4, TroubledStep
<1>6. Basics'
  BY <1>1, <1>2, <1>5 DEF IInv, Basics
<1> QED
  BY <1>1, <1>3, <1>5, <1>6, OutsideStep DEF IInv

LEMMA ConnectionDropsInv ==
  ASSUME IInv, NEW c \in 1..opened, ConnectionDrops(c)
  PROVE  IInv'
<1>1. /\ lock' = lock /\ exchange' = exchange /\ probed' = probed /\ opened' = opened
      /\ connection' = connection /\ channel' = channel /\ noticed' = noticed
      /\ thread' = thread /\ lost' = lost \cup Family(c)
  BY DEF ConnectionDrops, sharedVars, historyVars, Steady
<1>2. Fault
  BY DEF ConnectionDrops
<1>3. up' \in BOOLEAN
  BY DEF ConnectionDrops, IInv, Basics
<1>4. faults' \in 0..MaxFaults /\ Healthy'
  BY <1>2, FaultFacts
<1>5. SecondAttempts' /\ trouble' \in BOOLEAN
  BY <1>1, <1>2, TroubledStep, FaultFacts
<1>6. lost' \subseteq 1..opened' /\ noticed' \subseteq lost'
  BY <1>1 DEF IInv, Basics, Family
<1>7. Basics'
  BY <1>1, <1>3, <1>4, <1>5, <1>6 DEF IInv, Basics
<1> QED
  BY <1>1, <1>4, <1>5, <1>7, OutsideStep DEF IInv

\* An exception takes a call to its except clause and ends a probe.
LEMMA RaiseFacts ==
  ASSUME IInv, NEW t \in Threads, Raise(t)
  PROVE  \E new \in Thread :
           /\ thread' = [thread EXCEPT ![t] = new]
           /\ new.pc = IF t \in Callers THEN "except" ELSE "done"
           /\ new.attempt = thread[t].attempt /\ new.local <= opened
<1>1. thread \in [Threads -> Thread]
  BY ThreadFacts DEF IInv
<1>2. "except" \in Places /\ "done" \in Places /\ "no" \in Results /\ None \in Nat
  BY DEF Places, Results, None
<1>3. CASE t \in Callers
  <2>1. Moves(t, "except", None, thread[t].result)
    BY <1>3 DEF Raise, Leave, Holds, Moves
  <2> QED
    BY <1>1, <1>2, <1>3, <2>1, Known, MovesFacts DEF Becomes, None
<1>4. CASE t \notin Callers
  <2>1. Moves(t, "done", thread[t].local, "no")
    BY <1>4 DEF Raise, Answers, Moves
  <2> QED
    BY <1>1, <1>2, <1>4, <2>1, Known, MovesFacts DEF Becomes
<1> QED
  BY <1>3, <1>4

\* A call to pika that raises, with the message of a publish taken or not: if it is,
\* one more is left, of one more it may.
LEMMA ThrownStep ==
  ASSUME IInv, NEW t \in Threads, Raise(t), thread[t].pc \in Inside,
         \/ exchange' = exchange
         \/ thread[t].pc = "publish" /\ exchange' = Append(exchange, t),
         lock' = lock, probed' = probed, opened' = opened, connection' = connection,
         channel' = channel, lost' \subseteq 1..opened, noticed' \subseteq lost', up' = up,
         faults' \in 0..MaxFaults, Healthy', trouble' \in BOOLEAN,
         \/ trouble' = TRUE \/ ~up
         \/ t \in Callers /\ thread[t].attempt # 2
         \/ t \notin Callers /\ lock = {}
  PROVE  IInv'
<1>1. PICK new \in Thread :
        /\ thread' = [thread EXCEPT ![t] = new]
        /\ new.pc = IF t \in Callers THEN "except" ELSE "done"
        /\ new.attempt = thread[t].attempt /\ new.local <= opened
  BY RaiseFacts
<1>2. Working(thread[t]) /\ (t \in Callers => Working(new) /\ t \notin Probes)
  BY <1>1, Constants DEF Working, Inside
<1>3. \A z \in Threads : thread'[z] = IF z = t THEN new ELSE thread[z]
  BY <1>1 DEF IInv, Basics
<1>4. \A z \in Callers : Working(thread[z]) => lock = {z} /\ thread[z].attempt \in {1, 2}
  BY DEF IInv, LockHeld
<1>10. thread' \in [Threads -> Thread] /\ LocalsKnown'
  <2>1. opened' \in Nat /\ opened <= opened' /\ new.local <= opened'
    BY <1>1, Known
  <2> QED
    BY <1>1, <2>1, LocalsStep
<1>11. LockHeld'
  <2>1. t \in Probes => new.pc = "done"
    BY <1>1, <1>2
  <2> QED
    BY <1>1, <1>2, <2>1, LockStep
<1>14. SecondAttempts'
  <2>1. CASE trouble' = TRUE \/ ~up
    BY <2>1 DEF SecondAttempts
  <2>3. CASE t \notin Callers /\ lock = {}
    <3>1. ASSUME NEW z \in Callers PROVE ~Working(thread'[z])
      <4>1. thread'[z] = thread[z]
        BY <1>3, <2>3 DEF Threads
      <4> QED
        BY <1>4, <2>3, <4>1
    <3> QED
      BY <3>1 DEF SecondAttempts
  <2>2. CASE t \in Callers /\ thread[t].attempt # 2
    <3>1. ASSUME NEW z \in Callers, Working(thread'[z])
          PROVE  thread'[z].attempt # 2
      <4>1. CASE z = t
        BY <1>1, <1>3, <2>2, <4>1
      <4>2. CASE z # t
        <5>1. thread'[z] = thread[z] /\ Working(thread[z])
          BY <1>3, <3>1, <4>2 DEF Threads
        <5> QED
          BY <1>2, <1>4, <2>2, <4>2, <5>1
      <4> QED
        BY <4>1, <4>2
    <3> QED
      BY <3>1 DEF SecondAttempts
  <2> QED
    BY <2>1, <2>2, <2>3
<1>15. exchange \in Seq(Callers)
  BY DEF IInv, Basics
<1>5. ASSUME exchange' = exchange
      PROVE  Orderly' /\ exchange' \in Seq(Callers)
  <2>1. Orderly'
    <3>1. ASSUME t \in Callers PROVE Left(thread[t]) <= Left(new)
      <4>1. thread[t].attempt \in {1, 2}
        BY <1>2, <1>4, <3>1
      <4> QED
        BY <1>1, <3>1, <4>1 DEF Left, Inside
    <3> QED
      BY <1>1, <1>2, <1>5, <3>1, OrderlyStep
  <2> QED
    BY <1>5, <1>15, <2>1
<1>6. ASSUME thread[t].pc = "publish", exchange' = Append(exchange, t)
      PROVE  Orderly' /\ exchange' \in Seq(Callers)
  <2>a. t \in Callers
    BY <1>6 DEF IInv, LockHeld, Threads
  <2>b. lock = {t}
    BY <1>2, <1>4, <2>a
  <2>1. Orderly'
    <3>1. PICK n \in 0..Len(exchange) : Split(n, exchange, thread)
      BY DEF IInv, Orderly
    <3>2. \A z \in Threads : thread'[z] = IF z = t THEN new ELSE thread[z]
      BY <1>1 DEF IInv, Basics
    <3>3. /\ Len(exchange') = Len(exchange) + 1 /\ exchange'[Len(exchange) + 1] = t
          /\ \A i \in 1..Len(exchange) : exchange'[i] = exchange[i]
      BY <1>6, <1>15, <2>a, OneMore
    <3>4. ASSUME NEW i \in 1..n PROVE thread'[exchange'[i]].pc = "done"
      <4>1. exchange[i] \in Callers /\ exchange'[i] = exchange[i]
        BY <1>15, <3>3
      <4>2. thread[exchange[i]].pc = "done"
        BY <3>1 DEF Split
      <4>3. exchange[i] # t
        BY <1>6, <4>2
      <4> QED
        BY <3>2, <4>1, <4>2, <4>3 DEF Threads
    <3>5. ASSUME NEW i \in (n + 1)..Len(exchange) PROVE exchange[i] = t
      <4>1. exchange[i] \in Callers /\ Working(thread[exchange[i]])
        BY <1>15, <3>1 DEF Split
      <4> QED
        BY <1>4, <2>b, <4>1
    <3>6. thread[t].attempt \in 1..2 /\ Left(new) = thread[t].attempt
          /\ Left(thread[t]) = thread[t].attempt - 1
      BY <1>1, <1>2, <1>4, <1>6, <2>a DEF Left
    <3>7. Len(exchange) - n <= Left(thread[t])
      <4>1. CASE n = Len(exchange)
        BY <1>15, <3>6, <4>1
      <4>2. CASE n < Len(exchange)
        <5>1. n + 1 \in (n + 1)..Len(exchange)
          BY <1>15, <4>2
        <5>2. exchange[n + 1] = t /\ Len(exchange) - n <= Left(thread[exchange[n + 1]])
          BY <3>1, <3>5, <5>1 DEF Split
        <5> QED
          BY <5>2
      <4> QED
        BY <1>15, <4>1, <4>2
    <3>8. Len(exchange') - n <= Left(new)
      BY <1>15, <3>3, <3>6, <3>7
    <3>9. ASSUME NEW i \in (n + 1)..Len(exchange')
          PROVE  thread'[exchange'[i]] = new
      <4>1. exchange'[i] = t
        BY <1>15, <3>3, <3>5
      <4> QED
        BY <3>2, <4>1
    <3>10. Split(n, exchange', thread')
      BY <1>2, <2>a, <3>4, <3>8, <3>9 DEF Split
    <3>11. n \in 0..Len(exchange')
      BY <1>15, <3>3
    <3> QED
      BY <3>10, <3>11 DEF Orderly
  <2>2. exchange' \in Seq(Callers)
    BY <1>6, <1>15, <2>a, OneMore
  <2> QED
    BY <2>1, <2>2
<1>16. Orderly' /\ exchange' \in Seq(Callers)
  BY <1>5, <1>6
<1>17. {connection', channel'} \subseteq 0..opened' /\ opened' \in Nat
  BY Known
<1>19. lock' \in SUBSET Callers /\ probed' \in 0..MaxProbes /\ up' \in BOOLEAN
  BY DEF IInv, Basics
<1>20. Basics'
  BY <1>10, <1>16, <1>17, <1>19 DEF Basics
<1> QED
  BY <1>10, <1>11, <1>14, <1>16, <1>20 DEF IInv

\* The connection goes under a publish ...
LEMMA PublishTornInv ==
  ASSUME IInv, NEW t \in Threads, PublishTorn(t)
  PROVE  IInv'
<1>1. thread[t].pc = "publish" /\ thread[t].pc \in Inside /\ Working(thread[t])
  BY DEF PublishTorn, OpenAt, At, Working, Inside
<1>2. t \in Callers /\ t \notin Probes
  BY <1>1, Constants DEF IInv, LockHeld, Threads
<1>3. /\ lock' = lock /\ exchange' = Append(exchange, t) /\ probed' = probed
      /\ opened' = opened /\ connection' = connection /\ channel' = channel
      /\ lost' = lost \cup Family(thread[t].local)
      /\ noticed' = noticed \cup Family(thread[t].local)
      /\ Raise(t) /\ Fault
  BY DEF PublishTorn, sharedVars
<1>4. up' = up
  BY DEF PublishTorn
<1>5. lock = {t}
  BY <1>1, <1>2 DEF IInv, LockHeld
<1>6. faults' \in 0..MaxFaults /\ Healthy' /\ trouble' = TRUE
  BY <1>3, <1>5, FaultFacts
<1>7. lost' \subseteq 1..opened /\ noticed' \subseteq lost'
  BY <1>3, Known DEF Family
<1> QED
  BY <1>1, <1>3, <1>4, <1>6, <1>7, ThrownStep

\* ... or two threads are inside pika on one connection, ...
LEMMA ClashInv ==
  ASSUME IInv, NEW t \in Threads, Clash(t)
  PROVE  IInv'
<1>1. Handle(t) # None /\ \E u \in Threads \ {t} : Handle(u) # None
  BY DEF Clash, Uses
<1>2. ASSUME NEW u \in Threads, Handle(u) # None
      PROVE  thread[u].pc \in {"open_channel", "declare", "publish"}
  BY <1>2 DEF Handle, At
<1>3. thread[t].pc \in Inside
  BY <1>1, <1>2 DEF Inside
<1>4. /\ lock' = lock /\ probed' = probed
      /\ opened' = opened /\ connection' = connection /\ channel' = channel
      /\ lost' \in {lost, lost \cup Family(Handle(t))} /\ noticed' = noticed
      /\ Raise(t) /\ Fault
  BY DEF Clash, sharedVars
<1>5. up' = up
  BY DEF Clash
<1>6. \/ exchange' = exchange
      \/ thread[t].pc = "publish" /\ exchange' = Append(exchange, t)
  BY DEF Clash, OpenAt, At
<1>7. faults' \in 0..MaxFaults /\ Healthy' /\ trouble' = (lock # {})
  BY <1>4, FaultFacts
<1>8. lost' \subseteq 1..opened /\ noticed' \subseteq lost'
  BY <1>4, Known DEF Family
<1>9. CASE lock # {}
  BY <1>3, <1>4, <1>5, <1>6, <1>7, <1>8, <1>9, ThrownStep
<1>10. CASE lock = {}
  <2>1. t \notin Callers
    BY <1>3, <1>10 DEF IInv, LockHeld, Working, Inside
  <2> QED
    BY <1>3, <1>4, <1>5, <1>6, <1>7, <1>8, <1>10, <2>1, ThrownStep
<1> QED
  BY <1>9, <1>10

\* ... or the exchange is not there yet.
LEMMA PublishRefusedInv ==
  ASSUME IInv, NEW t \in Threads, PublishRefused(t)
  PROVE  IInv'
<1>1. thread[t].pc = "publish" /\ thread[t].pc \in Inside /\ Working(thread[t])
  BY DEF PublishRefused, OpenAt, At, Working, Inside
<1>2. t \in Callers
  BY <1>1 DEF IInv, LockHeld, Threads
<1>3. /\ exchange' = exchange /\ probed' = probed /\ faults' = faults
      /\ opened' = opened /\ connection' = connection /\ channel' = channel
      /\ lost' = lost \cup {thread[t].local} /\ crossed' = TRUE
      /\ thread[t].local # None /\ ~declared
  BY DEF PublishRefused, OpenAt
<1>4. up' = up
  BY DEF PublishRefused
<1>5. lost' \subseteq 1..opened
  BY <1>3, Known DEF None
<1>6. Healthy'
  BY <1>3 DEF Healthy
<1>7. CASE End(t, "ok") /\ noticed' = noticed
  <2>1. "ok" \in Results
    BY DEF Results
  <2> QED
    BY <1>1, <1>2, <1>3, <1>4, <1>5, <1>7, <2>1, EndStep
<1>8. CASE /\ Raise(t) /\ noticed' = noticed \cup {thread[t].local}
           /\ lock' = lock /\ trouble' = trouble
  <2>1. noticed' \subseteq lost'
    BY <1>3, <1>8, Known
  <2>2. trouble' \in BOOLEAN /\ faults' \in 0..MaxFaults
    BY <1>3, <1>8 DEF IInv, Basics
  <2>3. trouble \/ ~up \/ thread[t].attempt # 2
    BY <1>1, <1>2, <1>3 DEF IInv, SecondAttempts, Fresh
  <2> QED
    BY <1>1, <1>2, <1>3, <1>4, <1>5, <1>6, <1>8, <2>1, <2>2, <2>3, ThrownStep
<1> QED
  BY <1>7, <1>8 DEF PublishRefused

-----------------------------------------------------------------------------
\* Nobody has called yet.
LEMMA InitInv == Init => IInv
<1> SUFFICES ASSUME Init PROVE IInv
  OBVIOUS
<1> DEFINE q == [pc |-> "idle", attempt |-> 0, local |-> None, result |-> ""]
<1>1. /\ lock = {} /\ connection = 0 /\ channel = 0 /\ opened = 0 /\ lost = {}
      /\ noticed = {} /\ exchange = <<>> /\ faults = 0 /\ probed = 0
      /\ thread = [t \in Threads |-> q]
  BY DEF Init, None
<1>2. up = TRUE /\ trouble = FALSE
  BY DEF Init
<1>3. q \in Thread /\ q.pc = "idle" /\ q.local = 0
  BY DEF Thread, None
<1> HIDE DEF q
<1>4. \A t \in Threads : thread[t] = q
  BY <1>1
<1>5. up \in BOOLEAN /\ trouble \in BOOLEAN
  BY <1>2
<1>6. Basics
  <2>1. thread \in [Threads -> Thread]
    BY <1>1, <1>3
  <2>2. exchange \in Seq(Callers)
    BY <1>1
  <2>3. faults \in 0..MaxFaults /\ probed \in 0..MaxProbes
    BY <1>1, Constants
  <2> QED
    BY <1>1, <1>5, <2>1, <2>2, <2>3 DEF Basics
<1>7. LocalsKnown
  BY <1>1, <1>3, <1>4 DEF LocalsKnown
<1>8. LockHeld
  BY <1>1, <1>3, <1>4 DEF LockHeld, Working, Threads
<1>9. SecondAttempts
  BY <1>3, <1>4 DEF SecondAttempts, Working, Threads
<1>10. Healthy
  <2>1. DOMAIN exchange = {}
    BY <1>1
  <2>2. \A t \in Callers : Of(t, exchange) = {}
    BY <2>1 DEF Of
  <2> QED
    BY <1>1, <1>2, <1>3, <1>4, <2>2 DEF Healthy, Undisturbed, Threads
<1>11. Orderly
  <2>1. Len(exchange) = 0
    BY <1>1
  <2>2. Split(0, exchange, thread)
    BY <2>1 DEF Split
  <2> QED
    BY <2>1, <2>2 DEF Orderly
<1> QED
  BY <1>6, <1>7, <1>8, <1>9, <1>10, <1>11 DEF IInv

LEMMA NextInv == IInv /\ [Next]_vars => IInv'
<1> SUFFICES ASSUME IInv, [Next]_vars PROVE IInv'
  OBVIOUS
<1>1. ASSUME NEW t \in Threads,
             Call(t) \/ Probe(t) \/ Work(t) \/ PublishTorn(t) \/ Clash(t)
      PROVE  IInv'
  <2>1. CASE Call(t)
    BY <2>1, CallInv
  <2>2. CASE Probe(t)
    BY <2>2, ProbeInv
  <2>3. CASE PublishTorn(t)
    BY <2>3, PublishTornInv
  <2>5. CASE Clash(t)
    BY <2>5, ClashInv
  <2>4. CASE Work(t)
    BY <2>4, AcquireInv, CheckInv, IsOpenInv, ConnectInv, StoreConnectionInv,
       OpenChannelInv, StoreChannelInv, DeclareInv, ReturnInv, PublishInv,
       PublishRefusedInv, PublishVanishesInv, PublishRaisesInv, RecoverInv DEF Work
  <2> QED
    BY <1>1, <2>1, <2>2, <2>3, <2>4, <2>5
<1>2. CASE Close
  BY <1>2, CloseInv
<1>3. CASE BrokerStops
  BY <1>3, BrokerStopsInv
<1>4. CASE BrokerStarts
  BY <1>4, BrokerStartsInv
<1>5. ASSUME NEW c \in 1..opened, ConnectionDrops(c) PROVE IInv'
  BY <1>5, ConnectionDropsInv
<1>6. CASE UNCHANGED vars
  <2>1. /\ lock' = lock /\ exchange' = exchange /\ probed' = probed /\ opened' = opened
        /\ connection' = connection /\ channel' = channel /\ noticed' = noticed
        /\ thread' = thread /\ lost' = lost /\ faults' = faults /\ Steady
    BY <1>6 DEF vars, sharedVars, brokerVars, historyVars, Steady
  <2>2. up' = up /\ trouble' = trouble /\ declared' = declared /\ crossed' = crossed
    BY <1>6 DEF vars, brokerVars, historyVars
  <2>3. SecondAttempts' /\ Healthy'
    BY <2>1, <2>2 DEF IInv, SecondAttempts, Healthy
  <2>4. Basics'
    BY <2>1, <2>2 DEF IInv, Basics
  <2> QED
    BY <2>1, <2>3, <2>4, OutsideStep DEF IInv
<1> QED
  BY <1>1, <1>2, <1>3, <1>4, <1>5, <1>6 DEF Next

-----------------------------------------------------------------------------
\* The invariant holds in every reachable state.
THEOREM Invariance == Spec => []IInv
<1> QED
  BY InitInv, NextInv, PTL DEF Spec

\* What is opened belongs to a connection that has been opened.
LEMMA OpensFacts ==
  ASSUME Remembered, NEW c \in 1..(opened + 1), NEW t, NEW pc, Opens(t, pc, c)
  PROVE  opened' \in Nat /\ carrier' \in [1..opened' -> 1..opened']
<1>1. opened \in Nat /\ carrier \in [1..opened -> 1..opened]
  BY DEF Remembered
<1>2. opened' = opened + 1 /\ carrier' = Append(carrier, c)
  BY DEF Opens
<1>3. carrier \in Seq(1..(opened + 1)) /\ Len(carrier) = opened
  BY <1>1
<1>4. carrier' \in Seq(1..(opened + 1)) /\ Len(carrier') = opened + 1
  BY <1>2, <1>3
<1>5. carrier' \in [1..(opened + 1) -> 1..(opened + 1)]
  <2> DEFINE k == carrier'
             n == opened + 1
  <2>1. k \in Seq(1..n) /\ Len(k) = n
    BY <1>4
  <2> HIDE DEF k, n
  <2>2. k \in [1..n -> 1..n]
    BY <2>1
  <2> QED
    BY <2>2 DEF k, n
<1> QED
  BY <1>1, <1>2, <1>5

LEMMA RememberedStep ==
  ASSUME IInv, Remembered, [Next]_vars
  PROVE  Remembered'
<1>1. opened \in Nat /\ declared \in BOOLEAN /\ crossed \in BOOLEAN
  BY DEF Remembered
<1>2. ASSUME opened' = opened, carrier' = carrier, declared' \in BOOLEAN, crossed' \in BOOLEAN
      PROVE  Remembered'
  BY <1>2 DEF Remembered
<1>3. ASSUME NEW t \in Threads,
             Call(t) \/ Probe(t) \/ Work(t) \/ PublishTorn(t) \/ Clash(t)
      PROVE  Remembered'
  <2>1. CASE Call(t) \/ Probe(t) \/ Acquire(t) \/ Check(t) \/ IsOpen(t)
    BY <1>1, <1>2, <2>1 DEF Call, Probe, Acquire, Check, IsOpen, brokerVars, historyVars
  <2>2. CASE StoreConnection(t) \/ StoreChannel(t) \/ Return(t) \/ Recover(t)
    BY <1>1, <1>2, <2>2 DEF StoreConnection, StoreChannel, Return, Recover, brokerVars, historyVars
  <2>3. CASE Publish(t) \/ PublishRefused(t) \/ PublishVanishes(t) \/ PublishRaises(t)
    BY <1>1, <1>2, <2>3 DEF Publish, PublishRefused, PublishVanishes, PublishRaises, brokerVars,
       historyVars
  <2>4. CASE Declare(t) \/ PublishTorn(t) \/ Clash(t)
    BY <1>1, <1>2, <2>4 DEF Declare, PublishTorn, Clash, historyVars
  <2>5. CASE Connect(t)
    <3>1. declared' = declared /\ crossed' = crossed
      BY <2>5 DEF Connect, historyVars
    <3>2. CASE up
      <4>1. Opens(t, "store_connection", opened + 1) /\ opened + 1 \in 1..(opened + 1)
        BY <1>1, <2>5, <3>2 DEF Connect
      <4> QED
        BY <1>1, <3>1, <4>1, OpensFacts DEF Remembered
    <3>3. CASE ~up
      BY <1>1, <1>2, <2>5, <3>1, <3>3 DEF Connect
    <3> QED
      BY <3>2, <3>3
  <2>6. CASE OpenChannel(t)
    <3>1. declared' = declared /\ crossed' = crossed
      BY <2>6 DEF OpenChannel, historyVars
    <3>2. CASE connection # None /\ connection \notin lost
      <4>1. connection \in 1..(opened + 1)
        BY <3>2 DEF IInv, Basics, None
      <4>2. Opens(t, "store_channel", connection)
        BY <2>6, <3>2 DEF OpenChannel
      <4> QED
        BY <1>1, <3>1, <4>1, <4>2, OpensFacts DEF Remembered
    <3>3. CASE ~(connection # None /\ connection \notin lost)
      BY <1>1, <1>2, <2>6, <3>1, <3>3 DEF OpenChannel
    <3> QED
      BY <3>2, <3>3
  <2> QED
    BY <1>3, <2>1, <2>2, <2>3, <2>4, <2>5, <2>6 DEF Work
<1>4. CASE Close \/ BrokerStops \/ BrokerStarts \/ \E c \in 1..opened : ConnectionDrops(c)
  BY <1>1, <1>2, <1>4 DEF Close, BrokerStops, BrokerStarts, ConnectionDrops, brokerVars, historyVars
<1>5. CASE UNCHANGED vars
  BY <1>1, <1>2, <1>5 DEF vars, brokerVars, historyVars
<1> QED
  BY <1>3, <1>4, <1>5 DEF Next

\* Every variable of the publisher and its broker keeps to its type.
THEOREM TypeCorrect == Spec => []TypeOK
<1>1. Init => Remembered
  <2> SUFFICES ASSUME Init PROVE Remembered
    OBVIOUS
  <2>1. opened = 0 /\ carrier = <<>> /\ declared \in BOOLEAN /\ crossed \in BOOLEAN
    BY DEF Init
  <2>2. DOMAIN carrier = {} /\ 1..opened = {}
    BY <2>1
  <2>3. carrier = [i \in {} |-> i]
    BY <2>1, <2>2
  <2> QED
    BY <2>1, <2>2, <2>3 DEF Remembered
<1>2. IInv /\ Remembered /\ [Next]_vars => Remembered'
  BY RememberedStep
<1>3. IInv /\ Remembered => TypeOK
  BY DEF IInv, Basics, Remembered, TypeOK
<1> QED
  BY <1>1, <1>2, <1>3, Invariance, PTL DEF Spec

-----------------------------------------------------------------------------
\* Before the first probe a channel on which nothing is declared yet is in the hands of
\* the call that opened it.
Unprobed ==
  probed = 0 =>
    /\ ~crossed
    /\ \A t \in Probes : thread[t].pc = "idle"
    /\ ~declared =>
         /\ \A t \in Callers : thread[t].pc \notin {"is_open", "return", "publish"}
         /\ channel = None \/ \E t \in Callers : thread[t].pc \in {"declare", "except"}

\* A step of a call, which is the only one at work.
LEMMA UnprobedWork ==
  ASSUME IInv, Unprobed, probed = 0, NEW t \in Callers, Working(thread[t]),
         NEW pc, thread'[t].pc = pc, \A z \in Threads \ {t} : thread'[z] = thread[z],
         crossed' = crossed, declared => declared',
         ~declared' =>
           /\ pc \notin {"is_open", "return", "publish"}
           /\ channel' = None \/ pc \in {"declare", "except"}
  PROVE  Unprobed'
<1>1. t \in Threads /\ \A z \in Probes : z \in Threads \ {t}
  BY Constants DEF Threads
<1>2. \A z \in Probes : thread'[z].pc = "idle"
  BY <1>1 DEF Unprobed
<1>3. \A z \in Callers \ {t} : thread'[z] = thread[z]
  BY DEF Threads
<1>4. ~declared' => \A z \in Callers : thread'[z].pc \notin {"is_open", "return", "publish"}
  BY <1>3 DEF Unprobed
<1> QED
  BY <1>2, <1>4 DEF Unprobed

LEMMA UnprobedStep ==
  ASSUME IInv, Unprobed, [Next]_vars
  PROVE  Unprobed'
<1> SUFFICES ASSUME probed' = 0 PROVE Unprobed'
  BY DEF Unprobed
<1>0. probed = 0
  <2>1. probed' = probed \/ (probed \in Nat /\ probed' = probed + 1)
    <3>1. probed \in Nat
      BY DEF IInv, Basics
    <3> QED
      BY <3>1 DEF Next, Work, Call, Probe, Acquire, Check, IsOpen, Connect, StoreConnection,
         OpenChannel, StoreChannel, Declare, Return, Publish, PublishRefused, PublishVanishes,
         PublishRaises, Recover, PublishTorn, Clash, Close, BrokerStops, BrokerStarts,
         ConnectionDrops, vars, historyVars
  <2> QED
    BY <2>1
<1>1. /\ ~crossed
      /\ \A t \in Probes : thread[t].pc = "idle"
      /\ ~declared =>
           /\ \A t \in Callers : thread[t].pc \notin {"is_open", "return", "publish"}
           /\ channel = None \/ \E t \in Callers : thread[t].pc \in {"declare", "except"}
  BY <1>0 DEF Unprobed
<1>2. thread \in [Threads -> Thread] /\ \A t \in Callers : t \in Threads /\ t \notin Probes
  BY Constants DEF IInv, Basics, Threads
<1>3. \A t, u \in Callers : Working(thread[t]) /\ Working(thread[u]) => t = u
  BY DEF IInv, LockHeld
\* Whoever is at work with no declared exchange finds no channel, or is declaring.
<1>4. ASSUME NEW t \in Callers, Working(thread[t]), thread[t].pc \notin {"declare", "except"},
             ~declared
      PROVE  channel = None
  BY <1>1, <1>3, <1>4 DEF Working
<1>5. ASSUME NEW t \in Callers, NEW pc, Goto(t, pc) \/ Leave(t, pc)
      PROVE  thread'[t].pc = pc /\ \A z \in Threads \ {t} : thread'[z] = thread[z]
  <2>1. t \in Threads
    BY <1>2
  <2>2. Goto(t, pc) => thread'[t].pc = pc /\ \A z \in Threads \ {t} : thread'[z] = thread[z]
    BY <1>2, <2>1 DEF Goto
  <2>3. Leave(t, pc) => thread'[t].pc = pc /\ \A z \in Threads \ {t} : thread'[z] = thread[z]
    BY <1>2, <2>1 DEF Leave
  <2> QED
    BY <1>5, <2>2, <2>3
<1>6. ASSUME NEW t \in Callers, Raise(t)
      PROVE  thread'[t].pc = "except" /\ \A z \in Threads \ {t} : thread'[z] = thread[z]
  BY <1>5, <1>6 DEF Raise
<1>7. ASSUME NEW t \in Threads,
             Call(t) \/ Probe(t) \/ Work(t) \/ PublishTorn(t) \/ Clash(t)
      PROVE  Unprobed'
  <2>1. ~Probe(t)
    BY <1>0 DEF Probe
  <2>2. t \in Callers
    <3>1. t \in Probes => ~Call(t) /\ ~Work(t) /\ ~PublishTorn(t) /\ ~Clash(t)
      BY <1>1, <1>2 DEF Call, Work, PublishTorn, Clash, Acquire, Check, IsOpen, Connect,
         StoreConnection, OpenChannel, StoreChannel, Declare, Return, Publish, PublishRefused,
         PublishVanishes, PublishRaises, Recover, OpenAt, At, Uses, Handle
    <3> QED
      BY <1>7, <2>1, <3>1 DEF Threads
  <2>3. CASE Call(t)
    <3>1. thread[t].pc = "idle" /\ Goto(t, "lock")
      BY <2>3 DEF Call, At
    <3>2. channel' = channel /\ declared' = declared /\ crossed' = crossed
      BY <2>3 DEF Call, sharedVars, brokerVars, historyVars
    <3>3. thread'[t].pc = "lock" /\ \A z \in Threads \ {t} : thread'[z] = thread[z]
      BY <1>5, <2>2, <3>1
    <3>4. \A z \in Probes : thread'[z].pc = "idle"
      BY <1>1, <1>2, <2>2, <3>3 DEF Threads
    <3>5. \A z \in Callers : thread'[z] = thread[z] \/ z = t
      BY <3>3 DEF Threads
    <3> QED
      BY <1>1, <3>1, <3>2, <3>3, <3>4, <3>5 DEF Unprobed
  <2>4. CASE Acquire(t)
    <3>1. thread[t].pc = "lock" /\ lock = {}
          /\ thread' = [thread EXCEPT ![t].pc = "check", ![t].attempt = 1]
      BY <2>4 DEF Acquire, At
    <3>2. channel' = channel /\ declared' = declared /\ crossed' = crossed
      BY <2>4 DEF Acquire, brokerVars, historyVars
    <3>3. thread'[t].pc = "check" /\ \A z \in Threads \ {t} : thread'[z] = thread[z]
      BY <1>2, <2>2, <3>1
    <3>4. \A z \in Probes : thread'[z].pc = "idle"
      BY <1>1, <1>2, <2>2, <3>3 DEF Threads
    <3>5. \A z \in Callers : thread'[z] = thread[z] \/ z = t
      BY <3>3 DEF Threads
    <3> QED
      BY <1>1, <3>1, <3>2, <3>3, <3>4, <3>5 DEF Unprobed
  <2>5. CASE Check(t)
    <3> DEFINE pc == IF channel = None THEN "connect" ELSE "is_open"
    <3>1. thread[t].pc = "check" /\ Goto(t, pc)
      BY <2>5 DEF Check, At
    <3>2. channel' = channel /\ declared' = declared /\ crossed' = crossed
      BY <2>5 DEF Check, sharedVars, brokerVars, historyVars
    <3>3. ~declared => pc = "connect" /\ channel = None
      BY <1>4, <2>2, <3>1 DEF Working
    <3> HIDE DEF pc
    <3> QED
      BY <1>0, <1>5, <2>2, <3>1, <3>2, <3>3, UnprobedWork DEF Working
  <2>6. CASE IsOpen(t) \/ Return(t) \/ Publish(t) \/ PublishVanishes(t)
    <3>1. declared /\ thread[t].pc \in {"is_open", "return", "publish"}
      BY <1>1, <2>2, <2>6 DEF IsOpen, Return, Publish, PublishVanishes, OpenAt, At
    <3>2. declared' = declared /\ crossed' = crossed
      BY <2>6 DEF IsOpen, Return, Publish, PublishVanishes, brokerVars, historyVars
    <3>3. \A z \in Threads \ {t} : thread'[z] = thread[z]
      BY <1>2, <2>6 DEF IsOpen, Return, Publish, PublishVanishes, Raise, Leave, Goto, End
    <3> QED
      BY <1>0, <2>2, <3>1, <3>2, <3>3, UnprobedWork DEF Working
  <2>7. CASE PublishRefused(t)
    BY <1>1, <2>2, <2>7 DEF PublishRefused, OpenAt, At
  <2>8. CASE PublishRaises(t) \/ PublishTorn(t)
    <3>1. declared /\ thread[t].pc = "publish" /\ Raise(t)
      BY <1>1, <2>2, <2>8 DEF PublishRaises, PublishTorn, OpenAt, At
    <3>2. declared' = declared /\ crossed' = crossed
      BY <2>8 DEF PublishRaises, PublishTorn, historyVars
    <3> QED
      BY <1>0, <1>6, <2>2, <3>1, <3>2, UnprobedWork DEF Working
  <2>9. CASE Connect(t)
    <3>1. thread[t].pc = "connect"
      BY <2>9 DEF Connect, At
    <3>2. channel' = channel /\ declared' = declared /\ crossed' = crossed
      BY <2>9 DEF Connect, sharedVars, historyVars
    <3>3. ~declared => channel = None
      BY <1>4, <2>2, <3>1 DEF Working
    <3>4. /\ thread'[t].pc \in {"store_connection", "except"}
          /\ \A z \in Threads \ {t} : thread'[z] = thread[z]
      <4>1. Opens(t, "store_connection", opened + 1) =>
              /\ thread'[t].pc = "store_connection"
              /\ \A z \in Threads \ {t} : thread'[z] = thread[z]
        BY <1>2, <2>2 DEF Opens
      <4>2. Opens(t, "store_connection", opened + 1) \/ Raise(t)
        BY <2>9 DEF Connect
      <4> QED
        BY <1>6, <2>2, <4>1, <4>2
    <3> QED
      BY <1>0, <2>2, <3>1, <3>2, <3>3, <3>4, UnprobedWork DEF Working
  <2>10. CASE OpenChannel(t)
    <3>1. thread[t].pc = "open_channel"
      BY <2>10 DEF OpenChannel, At
    <3>2. channel' = channel /\ declared' = declared /\ crossed' = crossed
      BY <2>10 DEF OpenChannel, sharedVars, historyVars
    <3>3. ~declared => channel = None
      BY <1>4, <2>2, <3>1 DEF Working
    <3>4. /\ thread'[t].pc \in {"store_channel", "except"}
          /\ \A z \in Threads \ {t} : thread'[z] = thread[z]
      <4>1. Opens(t, "store_channel", connection) =>
              /\ thread'[t].pc = "store_channel"
              /\ \A z \in Threads \ {t} : thread'[z] = thread[z]
        BY <1>2, <2>2 DEF Opens
      <4>2. Opens(t, "store_channel", connection) \/ Raise(t)
        BY <2>10 DEF OpenChannel
      <4> QED
        BY <1>6, <2>2, <4>1, <4>2
    <3> QED
      BY <1>0, <2>2, <3>1, <3>2, <3>3, <3>4, UnprobedWork DEF Working
  <2>11. CASE StoreConnection(t)
    <3>1. thread[t].pc = "store_connection" /\ Leave(t, "open_channel")
      BY <2>11 DEF StoreConnection, At
    <3>2. channel' = channel /\ declared' = declared /\ crossed' = crossed
      BY <2>11 DEF StoreConnection, brokerVars
    <3>3. ~declared => channel = None
      BY <1>4, <2>2, <3>1 DEF Working
    <3> QED
      BY <1>0, <1>5, <2>2, <3>1, <3>2, <3>3, UnprobedWork DEF Working
  <2>12. CASE StoreChannel(t)
    <3>1. thread[t].pc = "store_channel" /\ Leave(t, "declare")
      BY <2>12 DEF StoreChannel, At
    <3>2. declared' = declared /\ crossed' = crossed
      BY <2>12 DEF StoreChannel, brokerVars
    <3> QED
      BY <1>0, <1>5, <2>2, <3>1, <3>2, UnprobedWork DEF Working
  <2>13. CASE Declare(t)
    <3>1. thread[t].pc = "declare" /\ crossed' = crossed /\ (declared => declared')
      BY <2>13 DEF Declare, At, historyVars
    <3>2. CASE channel # None /\ channel \notin lost
      <4>1. Goto(t, "return") /\ declared'
        BY <2>13, <3>2 DEF Declare, Rpc
      <4> QED
        BY <1>0, <1>5, <2>2, <3>1, <4>1, UnprobedWork DEF Working
    <3>3. CASE ~(channel # None /\ channel \notin lost)
      <4>1. Raise(t)
        BY <2>13, <3>3 DEF Declare, Rpc
      <4> QED
        BY <1>0, <1>6, <2>2, <3>1, <4>1, UnprobedWork DEF Working
    <3> QED
      BY <3>2, <3>3
  <2>14. CASE Recover(t)
    <3>1. thread[t].pc = "except" /\ channel' = None
      BY <2>14 DEF Recover, At
    <3>2. declared' = declared /\ crossed' = crossed
      BY <2>14 DEF Recover, brokerVars
    <3>3. /\ thread'[t].pc \in {"check", "done"}
          /\ \A z \in Threads \ {t} : thread'[z] = thread[z]
      <4>1. thread' = [thread EXCEPT ![t].pc = "check", ![t].attempt = 2]
              => thread'[t].pc = "check" /\ \A z \in Threads \ {t} : thread'[z] = thread[z]
        BY <1>2, <2>2
      <4>2. End(t, "error")
              => thread'[t].pc = "done" /\ \A z \in Threads \ {t} : thread'[z] = thread[z]
        BY <1>2, <2>2 DEF End
      <4> QED
        BY <2>14, <4>1, <4>2 DEF Recover
    <3> QED
      BY <1>0, <2>2, <3>1, <3>2, <3>3, UnprobedWork DEF Working
  <2>15. ~Clash(t)
    <3>1. SUFFICES ASSUME Clash(t) PROVE FALSE
      OBVIOUS
    <3>2. PICK u \in Threads \ {t} : Handle(u) # None
      BY <3>1 DEF Clash, Uses
    <3>3. Handle(t) # None
      BY <3>1 DEF Clash, Uses
    <3>4. Working(thread[u]) /\ Working(thread[t])
      BY <3>2, <3>3 DEF Handle, At, Working
    <3>5. u \in Callers
      BY <1>1, <3>4 DEF Threads, Working
    <3> QED
      BY <1>3, <2>2, <3>2, <3>4, <3>5
  <2> QED
    BY <1>7, <2>1, <2>3, <2>4, <2>5, <2>6, <2>7, <2>8, <2>9, <2>10, <2>11, <2>12, <2>13, <2>14,
       <2>15 DEF Work
<1>8. CASE Close
  <2>1. channel' = None /\ thread' = thread /\ declared' = declared /\ crossed' = crossed
    BY <1>8 DEF Close, brokerVars, historyVars
  <2> QED
    BY <1>1, <2>1 DEF Unprobed
<1>9. CASE \/ BrokerStops \/ BrokerStarts \/ UNCHANGED vars
           \/ \E c \in 1..opened : ConnectionDrops(c)
  <2>1. channel' = channel /\ thread' = thread /\ declared' = declared /\ crossed' = crossed
    BY <1>9 DEF BrokerStops, BrokerStarts, ConnectionDrops, vars, sharedVars, brokerVars, historyVars
  <2> QED
    BY <1>1, <2>1 DEF Unprobed
<1> QED
  BY <1>7, <1>8, <1>9 DEF Next

\* With a broker that never fails each publish_event leaves exactly one message and
\* says so, and each check_broker finds the broker, however the two interleave, except
\* where a probe crosses another thread; and without a probe nobody crosses anybody.
THEOREM HealthyDeliversAlways == Spec => []HealthyDelivers
<1>1. ASSUME IInv, Unprobed PROVE HealthyDelivers
  <2>1. ASSUME faults = 0, ~crossed, NEW t \in Ended
        PROVE  /\ thread[t].result = "ok"
               /\ Cardinality({i \in DOMAIN exchange : exchange[i] = t}) = 1
    <3>1. t \in Callers /\ thread[t].pc = "done"
      BY <2>1 DEF Ended, At
    <3>2. Undisturbed(thread[t], connection, channel, "ok")
          /\ \E i \in DOMAIN exchange : Of(t, exchange) = {i}
      BY <1>1, <2>1, <3>1 DEF IInv, Healthy
    <3>3. PICK i \in DOMAIN exchange : Of(t, exchange) = {i}
      BY <3>2
    <3>4. Cardinality({i}) = 1
      BY FS_Singleton
    <3>5. {j \in DOMAIN exchange : exchange[j] = t} = {i}
      BY <3>3 DEF Of
    <3> QED
      BY <3>1, <3>2, <3>4, <3>5 DEF Undisturbed
  <2>2. ASSUME faults = 0, ~crossed, NEW t \in Probes, At(t, "done")
        PROVE  thread[t].result = "yes"
    BY <1>1, <2>2 DEF IInv, Healthy, Undisturbed, At
  <2>3. crossed => probed > 0
    <3>1. probed \in Nat
      BY <1>1 DEF IInv, Basics
    <3> QED
      BY <1>1, <3>1 DEF Unprobed
  <2> QED
    BY <2>1, <2>2, <2>3 DEF HealthyDelivers
<1>2. Init => Unprobed
  <2> SUFFICES ASSUME Init PROVE Unprobed
    OBVIOUS
  <2>1. \A t \in Threads : thread[t].pc = "idle"
    BY DEF Init
  <2> QED
    BY <2>1 DEF Init, Unprobed, Threads
<1>3. IInv /\ Unprobed /\ [Next]_vars => Unprobed'
  BY UnprobedStep
<1> QED
  BY <1>1, <1>2, <1>3, Invariance, PTL DEF Spec

\* A call fails only at the end of its second attempt, and that one fails only if
\* the broker is down or something went wrong again while it held the lock.
THEOREM RetriesReconnect == Spec => RetryReconnects
<1>1. ASSUME IInv, [Next]_vars
      PROVE  [\A t \in Callers :
                thread[t].result # "error" /\ thread'[t].result = "error"
                  => trouble \/ ~up]_vars
  <2> SUFFICES ASSUME NEW t \in Callers, Next,
                      thread[t].result # "error", thread'[t].result = "error",
                      ~trouble, up
               PROVE  FALSE
    BY <1>1
  <2>1. t \in Threads /\ t \notin Probes
    BY Constants DEF Threads
  <2>2. thread \in [Threads -> Thread] /\ thread[t] \in Thread
    BY <1>1, <2>1, ThreadFacts DEF IInv
  <2>3. ASSUME NEW z \in Threads, Recover(z) PROVE FALSE
    <3>1. thread[z].pc = "except" /\ Working(thread[z])
      BY <2>3 DEF Recover, At, Working
    <3>2. z \in Callers
      BY <1>1, <3>1 DEF IInv, LockHeld, Threads
    <3>3. thread[z].attempt \in {1, 2}
      BY <1>1, <3>1, <3>2 DEF IInv, LockHeld
    <3>4. thread[z].attempt # 2
      BY <1>1, <3>1, <3>2 DEF IInv, SecondAttempts, Fresh
    <3>5. thread' = [thread EXCEPT ![z].pc = "check", ![z].attempt = 2]
      BY <2>3, <3>3, <3>4 DEF Recover
    <3>6. thread'[t].result = thread[t].result
      BY <2>1, <2>2, <3>5
    <3> QED
      BY <3>6
  <2>4. ASSUME NEW z \in Threads,
               Call(z) \/ Probe(z) \/ Work(z) \/ PublishTorn(z) \/ Clash(z), ~Recover(z)
        PROVE  thread'[t].result \in {thread[t].result, "ok"}
    <3>1. z = t \/ thread'[t] = thread[t]
      BY <2>1, <2>2, <2>4 DEF Call, Probe, Work, PublishTorn, Acquire, Check, IsOpen, Connect,
           StoreConnection, OpenChannel, StoreChannel, Declare, Return, Publish, PublishRefused,
           PublishVanishes, PublishRaises, Clash, Opens, Goto, Leave, Raise, Rpc, End
    <3>2. CASE z = t
      <4> DEFINE Same == thread'[t].result = thread[t].result
      <4>1. ASSUME NEW pc, NEW local,
                   Goto(t, pc) \/ Leave(t, pc)
                     \/ thread' = [thread EXCEPT ![t].pc = pc, ![t].local = local]
                     \/ thread' = [thread EXCEPT ![t].pc = pc, ![t].attempt = local]
            PROVE  Same
        <5>1. Goto(t, pc) => Same
          BY <2>1, <2>2 DEF Goto
        <5>2. thread' = [thread EXCEPT ![t].pc = pc, ![t].local = local] => Same
          BY <2>1, <2>2
        <5>3. thread' = [thread EXCEPT ![t].pc = pc, ![t].attempt = local] => Same
          BY <2>1, <2>2
        <5>4. Leave(t, pc) => Same
          BY <2>1, <2>2 DEF Leave
        <5> HIDE DEF Same
        <5> QED
          BY <4>1, <5>1, <5>2, <5>3, <5>4
      <4>2. Raise(t) => Same
        BY <4>1 DEF Raise
      <4> HIDE DEF Same
      <4>3. Call(t) => Same
        BY <4>1 DEF Call
      <4>4. Acquire(t) => Same
        BY <4>1 DEF Acquire
      <4>5. Check(t) => Same
        BY <4>1 DEF Check
      <4>6. IsOpen(t) => Same
        BY <4>1, <4>2 DEF IsOpen
      <4>7. Connect(t) => Same
        BY <4>1, <4>2 DEF Connect, Opens
      <4>8. StoreConnection(t) \/ StoreChannel(t) => Same
        BY <4>1 DEF StoreConnection, StoreChannel
      <4>9. OpenChannel(t) => Same
        BY <4>1, <4>2 DEF OpenChannel, Opens
      <4>10. Declare(t) => Same
        BY <4>1, <4>2 DEF Declare, Rpc
      <4>11. Return(t) => Same
        BY <4>1 DEF Return
      <4>12. PublishRaises(t) \/ PublishTorn(t) \/ Clash(t) => Same
        BY <4>2 DEF PublishRaises, PublishTorn, Clash
      <4>13. ~Probe(t)
        BY <2>1 DEF Probe
      <4>14. End(t, "ok") => thread'[t].result = "ok"
        BY <2>1, <2>2 DEF End
      <4>15. /\ Publish(t) \/ PublishVanishes(t) => End(t, "ok")
             /\ PublishRefused(t) => End(t, "ok") \/ Same
        BY <4>2 DEF Publish, PublishRefused, PublishVanishes
      <4>16. Same \/ End(t, "ok")
        BY <2>4, <3>2, <4>3, <4>4, <4>5, <4>6, <4>7, <4>8, <4>9, <4>10, <4>11, <4>12, <4>13,
           <4>15 DEF Work
      <4> QED
        BY <3>2, <4>14, <4>16 DEF Same
    <3> QED
      BY <3>1, <3>2
  <2>5. CASE \E z \in Threads :
               Call(z) \/ Probe(z) \/ Work(z) \/ PublishTorn(z) \/ Clash(z)
    BY <2>3, <2>4, <2>5
  <2>6. CASE Close \/ BrokerStops \/ BrokerStarts \/ \E c \in 1..opened : ConnectionDrops(c)
    BY <2>6 DEF Close, BrokerStops, BrokerStarts, ConnectionDrops
  <2> QED
    BY <2>5, <2>6 DEF Next
<1> QED
  BY <1>1, Invariance, PTL DEF Spec, RetryReconnects

-----------------------------------------------------------------------------
\* The refinement: the end of a call is a step of the contract, everything else a stutter.

\* The settled messages are the first n of an orderly exchange.
LEMMA SettledIs ==
  ASSUME exchange \in Seq(Callers), NEW n \in 0..Len(exchange), Split(n, exchange, thread)
  PROVE  Settled = [i \in 1..n |-> exchange[i]]
<1>1. DOMAIN exchange = 1..Len(exchange) /\ Len(exchange) \in Nat
  OBVIOUS
<1>2. \A i \in 1..n : At(exchange[i], "done")
  BY DEF Split, At
<1>3. n < Len(exchange) => ~At(exchange[n + 1], "done")
  BY <1>1 DEF Split, At, Working
<1>4. ASSUME NEW i \in DOMAIN exchange, \A j \in 1..i : At(exchange[j], "done")
      PROVE  i \in 1..n
  BY <1>1, <1>3, <1>4
<1>5. ASSUME NEW i \in 1..n
      PROVE  i \in DOMAIN exchange /\ \A j \in 1..i : At(exchange[j], "done")
  BY <1>1, <1>2
<1>6. {i \in DOMAIN exchange : \A j \in 1..i : At(exchange[j], "done")} = 1..n
  BY <1>4, <1>5
<1> QED
  BY <1>6 DEF Settled

\* Where no call ends, at most one of a call that goes on is added to the exchange.
Idles ==
  /\ \A c \in Callers : thread'[c].pc = "done" <=> thread[c].pc = "done"
  /\ \/ exchange' = exchange
     \/ \E c \in Callers : thread[c].pc # "done" /\ exchange' = Append(exchange, c)

LEMMA IdlesStutters ==
  ASSUME IInv, Idles
  PROVE  Settled' = Settled /\ Ended' = Ended
<1>1. exchange \in Seq(Callers)
  BY DEF IInv, Basics
<1>2. \A c \in Callers : thread'[c].pc = "done" <=> thread[c].pc = "done"
  BY DEF Idles
<1>3. Ended' = Ended
  BY <1>2 DEF Ended, At
<1> DEFINE Firsts == {i \in DOMAIN exchange : \A j \in 1..i : thread[exchange[j]].pc = "done"}
           FirstsAfter ==
             {i \in DOMAIN exchange' : \A j \in 1..i : thread'[exchange'[j]].pc = "done"}
<1>4. Settled = [i \in Firsts |-> exchange[i]] /\ Settled' = [i \in FirstsAfter |-> exchange'[i]]
  BY DEF Settled, At
<1>5. CASE exchange' = exchange
  <2>1. \A i \in DOMAIN exchange : exchange[i] \in Callers
    BY <1>1
  <2>2. \A i \in DOMAIN exchange : \A j \in 1..i : j \in DOMAIN exchange
    BY <1>1
  <2>3. Firsts = FirstsAfter
    BY <1>2, <1>5, <2>1, <2>2
  <2> QED
    BY <1>3, <1>4, <1>5, <2>3
<1>6. ASSUME NEW c \in Callers, thread[c].pc # "done", exchange' = Append(exchange, c)
      PROVE  Settled' = Settled
  <2>1. DOMAIN exchange = 1..Len(exchange) /\ Len(exchange) \in Nat
    BY <1>1
  <2>2. /\ DOMAIN exchange' = (DOMAIN exchange) \cup {Len(exchange) + 1}
        /\ exchange'[Len(exchange) + 1] = c
        /\ \A i \in DOMAIN exchange : exchange'[i] = exchange[i]
    BY <1>1, <1>6, OneMore
  <2>3. \A i \in DOMAIN exchange : exchange[i] \in Callers
    BY <1>1
  <2>4. Len(exchange) + 1 \notin FirstsAfter
    BY <1>2, <1>6, <2>1, <2>2
  <2>5. ASSUME NEW i \in DOMAIN exchange PROVE i \in FirstsAfter <=> i \in Firsts
    <3>1. \A j \in 1..i : j \in DOMAIN exchange
      BY <2>1
    <3> QED
      BY <1>2, <2>2, <2>3, <3>1
  <2>6. Firsts = FirstsAfter
    BY <2>2, <2>4, <2>5
  <2>7. \A i \in Firsts : exchange'[i] = exchange[i]
    BY <2>2
  <2> HIDE DEF Firsts, FirstsAfter
  <2> QED
    BY <1>4, <2>6, <2>7
<1> QED
  BY <1>3, <1>5, <1>6 DEF Idles

\* The longer of two messages' sequences is the shorter one and what follows it.
LEMMA Extended ==
  ASSUME NEW n \in Nat, NEW copies \in Nat, NEW t \in Callers, NEW all, all = n + copies,
         NEW before, NEW after,
         \A i \in 1..n : before[i] \in Callers /\ after[i] = before[i],
         \A i \in (n + 1)..all : after[i] = t
  PROVE  [i \in 1..n |-> before[i]] \o [i \in 1..copies |-> t] = [i \in 1..all |-> after[i]]
<1> DEFINE head == [i \in 1..n |-> before[i]]
           tail == [i \in 1..copies |-> t]
           whole == [i \in 1..all |-> after[i]]
<1>1. head \in Seq(Callers) /\ Len(head) = n /\ \A i \in 1..n : head[i] = before[i]
  OBVIOUS
<1>2. tail \in Seq(Callers) /\ Len(tail) = copies /\ \A i \in 1..copies : tail[i] = t
  OBVIOUS
<1>3. \A i \in 1..all : after[i] \in Callers
  OBVIOUS
<1>4. whole \in Seq(Callers) /\ Len(whole) = all /\ \A i \in 1..all : whole[i] = after[i]
  BY <1>3
<1> HIDE DEF head, tail, whole
<1>5. head \o tail \in Seq(Callers) /\ Len(head \o tail) = all
  BY <1>1, <1>2
<1>6. \A i \in 1..n : (head \o tail)[i] = head[i]
  BY <1>1, <1>2
<1>7. ASSUME NEW i \in (n + 1)..all PROVE (head \o tail)[i] = t
  <2>1. i - n \in 1..copies /\ i \in Nat
    OBVIOUS
  <2>2. (head \o tail)[i] = tail[i - n]
    BY <1>1, <1>2, <2>1
  <2> QED
    BY <1>2, <2>1, <2>2
<1>8. \A i \in 1..all : (head \o tail)[i] = whole[i]
  <2>1. ASSUME NEW i \in 1..n PROVE (head \o tail)[i] = whole[i]
    BY <1>1, <1>4, <1>6
  <2>2. ASSUME NEW i \in (n + 1)..all PROVE (head \o tail)[i] = whole[i]
    <3>1. i \in 1..all
      OBVIOUS
    <3> QED
      BY <1>4, <1>7, <3>1
  <2>3. \A i \in 1..all : i \in 1..n \/ i \in (n + 1)..all
    OBVIOUS
  <2> QED
    BY <2>1, <2>2, <2>3
<1>9. head \o tail = whole
  <2> DEFINE joined == head \o tail
  <2>1. joined \in Seq(Callers) /\ Len(joined) = all
    BY <1>5
  <2>2. \A i \in 1..all : joined[i] = whole[i]
    BY <1>8
  <2> HIDE DEF joined
  <2>3. joined = whole
    BY <1>4, <2>1, <2>2
  <2> QED
    BY <2>3 DEF joined
<1> QED
  BY <1>9 DEF head, tail, whole

\* A call ends with what it left, and perhaps one more, at the end of the exchange.
Ends(t) ==
  /\ Working(thread[t])
  /\ \E result \in Results : End(t, result)
  /\ \/ exchange' = exchange
     \/ exchange' = Append(exchange, t) /\ thread[t].pc = "publish"

LEMMA EndsIsAStep ==
  ASSUME IInv, NEW t \in Callers, Ends(t)
  PROVE  Contract!End(t)
<1>1. exchange \in Seq(Callers)
  BY DEF IInv, Basics
<1>2. t \in Threads
  BY DEF Threads
<1>3. PICK new \in Thread : thread' = [thread EXCEPT ![t] = new] /\ new.pc = "done"
  BY <1>2, EndFacts DEF Ends
<1>4. \A z \in Threads : thread'[z] = IF z = t THEN new ELSE thread[z]
  BY <1>3 DEF IInv, Basics
<1>5. t \notin Ended /\ Ended' = Ended \cup {t}
  BY <1>3, <1>4 DEF Ends, Ended, At, Working, Threads
<1>6. \A z \in Callers : Working(thread[z]) => z = t
  BY DEF IInv, LockHeld, Ends
<1>7. PICK n \in 0..Len(exchange) : Split(n, exchange, thread)
  BY DEF IInv, Orderly
<1>8. Settled = [i \in 1..n |-> exchange[i]]
  BY <1>1, <1>7, SettledIs
<1>9. \A i \in 1..n : exchange[i] \in Callers /\ thread[exchange[i]].pc = "done"
  BY <1>1, <1>7 DEF Split
<1>10. \A i \in (n + 1)..Len(exchange) : exchange[i] = t /\ Len(exchange) - n <= Left(thread[t])
  <2>1. ASSUME NEW i \in (n + 1)..Len(exchange)
        PROVE  exchange[i] = t /\ Len(exchange) - n <= Left(thread[t])
    <3>1. /\ exchange[i] \in Callers /\ Working(thread[exchange[i]])
          /\ Len(exchange) - n <= Left(thread[exchange[i]])
      BY <1>1, <1>7 DEF Split
    <3> QED
      BY <1>6, <3>1
  <2> QED
    BY <2>1
<1>11. /\ thread[t].attempt \in {1, 2} /\ Left(thread[t]) \in 0..2
       /\ thread[t].pc = "publish" => Left(thread[t]) \in 0..1
  BY DEF Ends, IInv, LockHeld, Left
<1>12. Len(exchange) - n <= Left(thread[t])
  <2>1. CASE n = Len(exchange)
    BY <1>1, <1>11, <2>1
  <2>2. CASE n < Len(exchange)
    <3>1. n + 1 \in (n + 1)..Len(exchange)
      BY <1>1, <2>2
    <3> QED
      BY <1>10, <3>1
  <2> QED
    BY <1>1, <2>1, <2>2
<1> DEFINE all == Len(exchange')
           copies == all - n
<1>13. /\ exchange' \in Seq(Callers) /\ all \in Nat /\ n <= all /\ copies \in 0..2
       /\ \A i \in 1..n : exchange'[i] = exchange[i]
       /\ \A i \in (n + 1)..all : exchange'[i] = t
  <2>1. CASE exchange' = exchange
    BY <1>1, <1>10, <1>11, <1>12, <2>1
  <2>2. CASE exchange' = Append(exchange, t) /\ thread[t].pc = "publish"
    <3>1. /\ exchange' \in Seq(Callers) /\ all = Len(exchange) + 1
          /\ \A i \in DOMAIN exchange : exchange'[i] = exchange[i]
          /\ exchange'[all] = t
      BY <1>1, <2>2, OneMore
    <3>2. n <= all /\ copies \in 0..2
      BY <1>1, <1>11, <1>12, <2>2, <3>1
    <3>3. \A i \in 1..n : exchange'[i] = exchange[i]
      BY <1>1, <3>1
    <3>4. ASSUME NEW i \in (n + 1)..all PROVE exchange'[i] = t
      <4>1. i = all \/ i \in (n + 1)..Len(exchange)
        BY <1>1, <3>1
      <4> QED
        BY <1>1, <1>10, <3>1, <4>1
    <3> QED
      BY <1>1, <3>1, <3>2, <3>3, <3>4
  <2> QED
    BY <2>1, <2>2 DEF Ends
<1>14. \A i \in 1..all : thread'[exchange'[i]].pc = "done"
  <2>1. ASSUME NEW i \in 1..all PROVE thread'[exchange'[i]].pc = "done"
    <3>1. CASE i \in 1..n
      BY <1>3, <1>4, <1>9, <1>13, <3>1 DEF Threads
    <3>2. CASE i \in (n + 1)..all
      BY <1>2, <1>3, <1>4, <1>13, <3>2
    <3> QED
      BY <1>13, <3>1, <3>2
  <2> QED
    BY <2>1
<1>15. Settled' = [i \in 1..all |-> exchange'[i]]
  <2>1. DOMAIN exchange' = 1..all /\ all \in Nat
    BY <1>13
  <2> HIDE DEF all
  <2>2. \A i \in 1..all : \A j \in 1..i : j \in 1..all
    BY <2>1
  <2>3. {i \in DOMAIN exchange' : \A j \in 1..i : thread'[exchange'[j]].pc = "done"} = 1..all
    BY <1>14, <2>1, <2>2
  <2>4. Settled' = [i \in {i \in DOMAIN exchange' :
                             \A j \in 1..i : thread'[exchange'[j]].pc = "done"} |-> exchange'[i]]
    BY DEF Settled, At
  <2> QED
    BY <2>3, <2>4
<1> HIDE DEF copies, all
<1>16. Settled' = Settled \o [i \in 1..copies |-> t]
  <2>1. \A i \in 1..n : exchange[i] \in Callers
    BY <1>9
  <2>2. n \in Nat /\ all \in Nat /\ copies \in Nat /\ all = n + copies
    BY <1>1, <1>13 DEF copies
  <2>3. [i \in 1..n |-> exchange[i]] \o [i \in 1..copies |-> t] = [i \in 1..all |-> exchange'[i]]
    BY <1>9, <1>13, <2>2, Extended
  <2> QED
    BY <1>8, <1>15, <2>3
<1> QED
  BY <1>5, <1>13, <1>16 DEF Contract!End

\* A step of a thread ends a call, or ends none.
LEMMA ThreadSteps ==
  ASSUME IInv, NEW t \in Threads,
         Call(t) \/ Probe(t) \/ Work(t) \/ PublishTorn(t) \/ Clash(t)
  PROVE  Idles \/ (t \in Callers /\ Ends(t))
<1>1. thread \in [Threads -> Thread] /\ thread[t] \in Thread
  BY ThreadFacts DEF IInv
<1>2. t \in Callers => t \notin Probes
  BY Constants
<1>3. thread[t].pc \in {"publish", "except"} => t \in Callers
  BY DEF IInv, LockHeld, Threads
<1> DEFINE Goes == /\ \A z \in Threads : z # t => thread'[z] = thread[z]
                   /\ t \in Callers => thread[t].pc # "done" /\ thread'[t].pc # "done"
<1>4. ASSUME NEW pc, NEW local, pc # "done", thread[t].pc # "done"
      PROVE  /\ Goto(t, pc) => Goes
             /\ Leave(t, pc) => Goes
             /\ Holds(t, pc, local) => Goes
             /\ Tries(t, pc, local) => Goes
  <2>1. Goto(t, pc) => Goes
    BY <1>1, <1>4 DEF Goto
  <2>2. Leave(t, pc) => Goes
    BY <1>1, <1>4 DEF Leave
  <2>3. Holds(t, pc, local) => Goes
    BY <1>1, <1>4 DEF Holds
  <2>4. Tries(t, pc, local) => Goes
    BY <1>1, <1>4 DEF Tries
  <2> QED
    BY <2>1, <2>2, <2>3, <2>4
<1>a. ASSUME t \notin Callers, NEW pc, NEW result
      PROVE  Answers(t, pc, result) => Goes
  BY <1>1, <1>a DEF Answers
<1>b. ASSUME t \notin Callers, NEW new
      PROVE  thread' = [thread EXCEPT ![t] = new] => Goes
  BY <1>1, <1>b
<1> HIDE DEF Goes
<1>5. ASSUME Raise(t), thread[t].pc # "done" PROVE Goes
  <2>1. CASE t \in Callers
    <3>1. Leave(t, "except")
      BY <1>5, <2>1 DEF Raise
    <3> QED
      BY <1>4, <1>5, <3>1
  <2>2. CASE t \notin Callers
    <3>1. Answers(t, "done", "no")
      BY <1>5, <2>2 DEF Raise, Answers
    <3> QED
      BY <1>a, <2>2, <3>1
  <2> QED
    BY <2>1, <2>2
<1>6. ASSUME Goes, exchange' = exchange \/ (t \in Callers /\ exchange' = Append(exchange, t))
      PROVE  Idles
  <2>1. \A c \in Callers : thread'[c].pc = "done" <=> thread[c].pc = "done"
    BY <1>6 DEF Goes, Threads
  <2> QED
    BY <1>6, <2>1 DEF Goes, Idles
<1>7. Call(t) => Goes /\ exchange' = exchange
  <2>1. Call(t) => Goto(t, "lock") /\ thread[t].pc # "done"
    BY DEF Call, At
  <2> QED
    BY <1>4, <2>1 DEF Call, brokerVars, historyVars, Steady
<1>8. Probe(t) => Goes /\ exchange' = exchange
  <2>1. ASSUME Probe(t) PROVE Goes
    <3>1. t \notin Callers
      BY <1>2, <2>1 DEF Probe
    <3> QED
      BY <1>b, <2>1, <3>1 DEF Probe
  <2> QED
    BY <2>1 DEF Probe, brokerVars, historyVars, Steady
<1>9. Acquire(t) => Goes /\ exchange' = exchange
  <2>1. Acquire(t) => Tries(t, "check", 1) /\ thread[t].pc # "done"
    BY DEF Acquire, At, Tries
  <2> QED
    BY <1>4, <2>1 DEF Acquire, brokerVars, historyVars, Steady
<1>10. Check(t) => Goes /\ exchange' = exchange
  <2>1. ASSUME Check(t) PROVE Goes
    <3> DEFINE pc == IF channel = None THEN "connect" ELSE "is_open"
    <3>1. Goto(t, pc) /\ pc # "done" /\ thread[t].pc # "done"
      BY <2>1 DEF Check, At
    <3> HIDE DEF pc
    <3> QED
      BY <1>4, <3>1
  <2> QED
    BY <2>1 DEF Check, brokerVars, historyVars, Steady
<1>11. IsOpen(t) => Goes /\ exchange' = exchange
  <2>1. ASSUME IsOpen(t), channel # None PROVE Goes
    <3> DEFINE pc == IF channel \in noticed THEN "connect" ELSE "return"
    <3>1. Goto(t, pc) /\ pc # "done" /\ thread[t].pc # "done"
      BY <2>1 DEF IsOpen, At
    <3> HIDE DEF pc
    <3> QED
      BY <1>4, <3>1
  <2>2. ASSUME IsOpen(t), channel = None PROVE Goes
    BY <1>5, <2>2 DEF IsOpen, At
  <2>3. IsOpen(t) => exchange' = exchange
    BY DEF IsOpen, brokerVars, historyVars, Steady
  <2> QED
    BY <2>1, <2>2, <2>3
<1>12. Connect(t) => Goes /\ exchange' = exchange
  <2>1. ASSUME Connect(t), up PROVE Goes
    <3>1. Holds(t, "store_connection", opened + 1) /\ thread[t].pc # "done"
      BY <2>1 DEF Connect, Opens, At, Holds
    <3> QED
      BY <1>4, <3>1
  <2>2. ASSUME Connect(t), ~up PROVE Goes
    BY <1>5, <2>2 DEF Connect, At
  <2> QED
    BY <2>1, <2>2 DEF Connect
<1>13. StoreConnection(t) => Goes /\ exchange' = exchange
  <2>1. StoreConnection(t) => Leave(t, "open_channel") /\ thread[t].pc # "done"
    BY DEF StoreConnection, At
  <2> QED
    BY <1>4, <2>1 DEF StoreConnection, brokerVars, historyVars, Steady
<1>14. OpenChannel(t) => Goes /\ exchange' = exchange
  <2>1. ASSUME OpenChannel(t), Holds(t, "store_channel", opened + 1) PROVE Goes
    <3>1. thread[t].pc # "done"
      BY <2>1 DEF OpenChannel, At
    <3> QED
      BY <1>4, <2>1, <3>1
  <2>2. ASSUME OpenChannel(t), Raise(t) PROVE Goes
    BY <1>5, <2>2 DEF OpenChannel, At
  <2>3. OpenChannel(t) => exchange' = exchange
    BY DEF OpenChannel
  <2> QED
    BY <2>1, <2>2, <2>3 DEF OpenChannel, Opens, Holds
<1>15. StoreChannel(t) => Goes /\ exchange' = exchange
  <2>1. StoreChannel(t) => Leave(t, "declare") /\ thread[t].pc # "done"
    BY DEF StoreChannel, At
  <2> QED
    BY <1>4, <2>1 DEF StoreChannel, brokerVars, historyVars, Steady
<1>16. Declare(t) => Goes /\ exchange' = exchange
  <2>1. ASSUME Declare(t), Goto(t, "return") PROVE Goes
    <3>1. thread[t].pc # "done"
      BY <2>1 DEF Declare, At
    <3> QED
      BY <1>4, <2>1, <3>1
  <2>2. ASSUME Declare(t), Raise(t) PROVE Goes
    BY <1>5, <2>2 DEF Declare, At
  <2>3. Declare(t) => exchange' = exchange
    BY DEF Declare
  <2> QED
    BY <2>1, <2>2, <2>3 DEF Declare, Rpc
<1>17. Return(t) => Goes /\ exchange' = exchange
  <2>1. ASSUME Return(t), t \in Callers PROVE Goes
    <3>1. Holds(t, "publish", channel) /\ thread[t].pc # "done"
      BY <2>1 DEF Return, At, Holds
    <3> QED
      BY <1>4, <3>1
  <2>2. ASSUME Return(t), t \notin Callers PROVE Goes
    <3>1. Answers(t, "done", "yes")
      BY <2>2 DEF Return, Answers
    <3> QED
      BY <1>a, <2>2, <3>1
  <2> QED
    BY <2>1, <2>2 DEF Return, brokerVars, historyVars, Steady
<1>18. PublishRaises(t) => Goes /\ exchange' = exchange
  BY <1>5 DEF PublishRaises, At
<1>19. PublishTorn(t) => Goes /\ t \in Callers /\ exchange' = Append(exchange, t)
  BY <1>3, <1>5 DEF PublishTorn, OpenAt, At
<1>22. Clash(t) => /\ Goes
                   /\ exchange' = exchange \/ (t \in Callers /\ exchange' = Append(exchange, t))
  <2>1. Clash(t) => thread[t].pc # "done"
    BY DEF Clash, Uses, Handle, At
  <2> QED
    BY <1>3, <1>5, <2>1 DEF Clash, OpenAt, At
<1>23. PublishRefused(t) => (Goes /\ exchange' = exchange) \/ (t \in Callers /\ Ends(t))
  <2>1. PublishRefused(t) =>
          thread[t].pc = "publish" /\ exchange' = exchange /\ (End(t, "ok") \/ Raise(t))
    BY DEF PublishRefused, OpenAt, At
  <2>2. PublishRefused(t) => t \in Callers
    BY <1>3, <2>1
  <2>3. "ok" \in Results
    BY DEF Results
  <2>4. PublishRefused(t) /\ End(t, "ok") => Ends(t)
    BY <2>1, <2>3 DEF Ends, Working
  <2>5. PublishRefused(t) /\ Raise(t) => Goes
    BY <1>5, <2>1
  <2> QED
    BY <2>1, <2>2, <2>4, <2>5
<1>20. Publish(t) \/ PublishVanishes(t) => t \in Callers /\ Ends(t)
  BY <1>3 DEF Publish, PublishVanishes, OpenAt, At, Ends, Working, Results, brokerVars, historyVars, Steady
<1>21. ASSUME Recover(t) PROVE (Goes /\ exchange' = exchange) \/ (t \in Callers /\ Ends(t))
  <2>1. exchange' = exchange /\ thread[t].pc = "except"
    BY <1>21 DEF Recover, At, brokerVars, historyVars, Steady
  <2>2. CASE thread[t].attempt = 1
    <3>1. Tries(t, "check", 2) /\ thread[t].pc # "done"
      BY <1>21, <2>1, <2>2 DEF Recover, Tries
    <3> QED
      BY <1>4, <2>1, <3>1
  <2>3. CASE thread[t].attempt # 1
    <3>1. End(t, "error") /\ "error" \in Results
      BY <1>21, <2>3 DEF Recover, Results
    <3> QED
      BY <1>3, <2>1, <3>1 DEF Ends, Working
  <2> QED
    BY <2>2, <2>3
<1> QED
  BY <1>6, <1>7, <1>8, <1>9, <1>10, <1>11, <1>12, <1>13, <1>14, <1>15, <1>16, <1>17, <1>18,
     <1>19, <1>20, <1>21, <1>22, <1>23 DEF Work

\* Whatever happens to connections under it, a call of publish_event that ends leaves
\* at most two copies of its message, next to each other and after those of the calls
\* before it: BrokerChannel implements PublishContract.
THEOREM Refinement == Spec => ImplementsContract
<1>1. Init => Contract!ContractInit
  <2> SUFFICES ASSUME Init PROVE Settled = <<>> /\ Ended = {}
    BY DEF Contract!ContractInit
  <2>1. exchange = <<>>
    BY DEF Init
  <2>2. 0 \in 0..Len(exchange) /\ exchange \in Seq(Callers) /\ Len(exchange) = 0
    BY <2>1
  <2>3. Split(0, exchange, thread)
    BY <2>2 DEF Split
  <2>4. Settled = [i \in 1..0 |-> exchange[i]]
    BY <2>2, <2>3, SettledIs
  <2>5. Settled = <<>>
    BY <2>4
  <2>6. Ended = {}
    BY DEF Init, Ended, At, Threads
  <2> QED
    BY <2>5, <2>6
<1>2. ASSUME IInv, [Next]_vars
      PROVE  [Contract!ContractNext]_(Contract!contractVars)
  <2>1. Idles => UNCHANGED <<Settled, Ended>>
    BY <1>2, IdlesStutters
  <2>2. ASSUME NEW t \in Threads,
               Call(t) \/ Probe(t) \/ Work(t) \/ PublishTorn(t) \/ Clash(t)
        PROVE  Idles \/ Contract!ContractNext
    BY <1>2, <2>2, ThreadSteps, EndsIsAStep DEF Contract!ContractNext
  <2>3. CASE Close \/ BrokerStops \/ BrokerStarts \/ \E c \in 1..opened : ConnectionDrops(c)
    <3>1. thread' = thread /\ exchange' = exchange
      BY <2>3 DEF Close, BrokerStops, BrokerStarts, ConnectionDrops, brokerVars, historyVars, Steady
    <3>2. Idles
      BY <3>1 DEF Idles
    <3> QED
      BY <2>1, <3>2 DEF Contract!contractVars
  <2>4. CASE UNCHANGED vars
    <3>1. thread' = thread /\ exchange' = exchange
      BY <2>4 DEF vars, brokerVars, historyVars, Steady
    <3>2. Idles
      BY <3>1 DEF Idles
    <3> QED
      BY <2>1, <3>2 DEF Contract!contractVars
  <2> QED
    BY <1>2, <2>1, <2>2, <2>3, <2>4 DEF Next, Contract!contractVars
<1> QED
  BY <1>1, <1>2, Invariance, PTL DEF Spec, ImplementsContract, Contract!ContractSpec
=============================================================================
