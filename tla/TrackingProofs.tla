--------------------------- MODULE TrackingProofs ---------------------------
(***************************************************************************)
(* Theorems about Tracking, for any number of parcels, readers, event      *)
(* types, copies and faults.                                               *)
(***************************************************************************)
EXTENDS Tracking, ProjectionProofs

\* The assumptions on the constants, for the provers.
LEMMA Bounds ==
  /\ MaxTime \in Nat \ {0}
  /\ Copies \subseteq Nat
  /\ Prefetch \in Nat \ {0}
  /\ NotifyMax \in Nat \ {0}
  /\ MaxFaults \in Nat
BY StreamAssumption, TrackingAssumption DEF StreamAssumption, TrackingAssumption

\* A message and a served scan carry the instant they stand for.
LEMMA Instants ==
  ASSUME NEW k \in Nat
  PROVE  /\ Published(k) \in Nat /\ Instant(Published(k)) = k
         /\ Served(k) \in Nat /\ Instant(Served(k)) = k
         /\ \A l \in Nat : /\ Published(k) <= Published(l) <=> k <= l
                           /\ Served(k) <= Served(l) <=> k <= l
BY DEF Published, Served, Instant

-----------------------------------------------------------------------------
\* Histories and the states that tell of them.

\* later continues earlier.
Continues(earlier, later) ==
  \A k \in DOMAIN earlier : k \in DOMAIN later /\ later[k] = earlier[k]

\* ev stands for a step of history.
ToldBy(history, ev) ==
  \E k \in DOMAIN history :
    /\ history[k].type = ev.type
    /\ history[k].at = Instant(ev.at)
    /\ ev.status \in {"", history[k].status}

\* A state that invents nothing about history, in order.
Sound(history, state) ==
  /\ InOrder(state.events)
  /\ \A i \in DOMAIN state.events : ToldBy(history, state.events[i])
  /\ \E k \in DOMAIN history : history[k].status = state.status

\* What is sound stays sound when the history goes on.
LEMMA SoundContinues ==
  ASSUME NEW earlier, NEW later, NEW state,
         Continues(earlier, later), Sound(earlier, state)
  PROVE  Sound(later, state)
BY ZenonT(60) DEF Continues, Sound, ToldBy

\* The entry Reduce makes of a message.
EntryOf(msg) == [status |-> msg.status, type |-> msg.type, at |-> msg.at]

\* Reduce, with its two cases apart.
LEMMA ReduceCases ==
  ASSUME NEW state, NEW msg
  PROVE  /\ Applied(state.events, EntryOf(msg)) => Reduce(state, msg) = state
         /\ ~Applied(state.events, EntryOf(msg)) =>
              /\ Reduce(state, msg).status =
                   IF IsNewest(state.events, EntryOf(msg)) THEN msg.status ELSE state.status
              /\ Reduce(state, msg).previous =
                   IF IsNewest(state.events, EntryOf(msg)) THEN state.status ELSE state.previous
              /\ Reduce(state, msg).events = Inserted(state.events, EntryOf(msg))
              /\ Reduce(state, msg) =
                   [status   |-> Reduce(state, msg).status,
                    previous |-> Reduce(state, msg).previous,
                    events   |-> Inserted(state.events, EntryOf(msg))]
BY DEF Reduce, EntryOf

\* An empty timeline is sorted, and every event is its newest.
LEMMA EmptyFacts ==
  /\ EmptyState \in State
  /\ EmptyState.events = <<>>
  /\ InOrder(EmptyState.events)
  /\ \A ev : IsNewest(EmptyState.events, ev) /\ ~Applied(EmptyState.events, ev)
BY DEF EmptyState, State, StatusOrNone, InOrder, IsNewest, Applied

\* Reducing keeps the type of a sorted state.
LEMMA ReduceType ==
  ASSUME NEW state \in State, InOrder(state.events),
         NEW msg, EntryOf(msg) \in Event, msg.status \in Statuses
  PROVE  Reduce(state, msg) \in State
<1>1. \A e \in Event : e.at \in Nat
  BY DEF Event
<1>2. state.events \in Seq(Event)
  BY DEF State
<1>3. Inserted(state.events, EntryOf(msg)) \in Seq(Event)
  BY <1>1, <1>2, InsertedFacts
<1>4. CASE Applied(state.events, EntryOf(msg))
  BY <1>4, ReduceCases
<1>5. CASE ~Applied(state.events, EntryOf(msg))
  <2>1. Reduce(state, msg).status \in StatusOrNone /\ Reduce(state, msg).previous \in StatusOrNone
    BY <1>5, ReduceCases DEF State, StatusOrNone
  <2> QED
    BY <2>1, <1>3, <1>5, ReduceCases DEF State
<1> QED
  BY <1>4, <1>5

\* Folding a message about a step of history into a sound state, or into none,
\* gives a sound state (projection.go:63-112).
LEMMA ReduceSound ==
  ASSUME NEW state \in State, NEW history, NEW msg,
         state = EmptyState \/ Sound(history, state),
         EntryOf(msg) \in Event, ToldBy(history, EntryOf(msg)),
         \E k \in DOMAIN history : history[k].status = msg.status
  PROVE  Sound(history, Reduce(state, msg))
<1>1. \A e \in Event : e.at \in Nat
  BY DEF Event
<1>2. state.events \in Seq(Event) /\ InOrder(state.events)
  BY EmptyFacts DEF State, Sound
<1>3. CASE Applied(state.events, EntryOf(msg))
  <2>1. state # EmptyState
    BY <1>3, EmptyFacts
  <2> QED
    BY <2>1, <1>3, ReduceCases
<1>4. CASE ~Applied(state.events, EntryOf(msg))
  <2> DEFINE new == Inserted(state.events, EntryOf(msg))
  <2>1. InOrder(new)
    BY <1>1, <1>2, InsertedInOrder
  <2>2. \A i \in DOMAIN new :
          new[i] = EntryOf(msg) \/ \E k \in DOMAIN state.events : new[i] = state.events[k]
    BY <1>1, <1>2, InsertedPlaces
  <2>3. \A k \in DOMAIN state.events : ToldBy(history, state.events[k])
    BY EmptyFacts DEF Sound
  <2> HIDE DEF new
  <2>4. \A i \in DOMAIN new : ToldBy(history, new[i])
    BY <2>2, <2>3
  <2>5. \E k \in DOMAIN history : history[k].status = Reduce(state, msg).status
    <3>1. CASE state = EmptyState
      BY <3>1, <1>4, EmptyFacts, ReduceCases
    <3>2. CASE Sound(history, state)
      BY <3>2, <1>4, ReduceCases DEF Sound
    <3> QED
      BY <3>1, <3>2
  <2> QED
    BY <2>1, <2>4, <2>5, <1>4, ReduceCases DEF Sound, new
<1> QED
  BY <1>3, <1>4

-----------------------------------------------------------------------------
\* The inductive invariant.

\* Histories are numbered by their instants and end with DELIVERED, by a scan of
\* that type.
HistoryInStep ==
  \A tn \in TrackingNumbers : \A k \in DOMAIN log[tn] :
    /\ log[tn][k].at = k
    /\ log[tn][k].status = "DELIVERED" =>
         k = Len(log[tn]) /\ k > 1 /\ log[tn][k].type = "DELIVERED"

\* A message tells one step of a history.
MessagesTold ==
  \A n \in DOMAIN published :
    /\ published[n].at \in DOMAIN log[published[n].tn]
    /\ published[n] = Announcement(published[n].tn, log[published[n].tn][published[n].at])

CacheSound ==
  \A tn \in TrackingNumbers : Cached(tn) => Sound(log[tn], redis[tn])

Delivered(history) == \E k \in DOMAIN history : history[k].status = "DELIVERED"

\* What the consumer is about to write.
HandlerSound ==
  handler # HandlerIdle =>
    /\ handler.msg \in DOMAIN published
    /\ handler.pc = "save" => Sound(log[published[handler.msg].tn], handler.next)
    /\ handler.pc = "mail" => Delivered(log[published[handler.msg].tn])

\* What the readers are about to write.
ReaderSound(history, reader) ==
  /\ reader.pc \in {"row", "scans"} => reader.state.events = <<>>
  /\ reader.pc = "scans" => \E k \in DOMAIN history : history[k].status = reader.state.status
  /\ reader.pc = "warm" =>
       /\ Sound(history, reader.state)
       /\ reader.state.status = "DELIVERED" => Warmed(reader.state.events)

ReadersSound ==
  \A a \in Readers : api[a].pc # "idle" => ReaderSound(log[api[a].tn], api[a])

\* Where tn stands in a notification list.
Places(list, tn) == {i \in DOMAIN list : list[i] = tn}

\* Mails are about delivered parcels; the notification of a mail sent is still due.
MailsCounted ==
  /\ \A tn \in TrackingNumbers : mails[tn] > 0 => Delivered(log[tn])
  /\ Len(feed) <= NotifyMax
  /\ \A tn \in TrackingNumbers :
       Cardinality(Places(feed, tn))
         + (IF handler.pc = "notify" /\ published[handler.msg].tn = tn THEN 1 ELSE 0)
         <= mails[tn]

\* The email of tn is sent, or one of the faults has cost it.
Answered(tn) == mails[tn] > 0 \/ tn \in unmailed

\* The consumer saves over a delivery that it found when it read only if that one
\* is answered for.
HandlerMailed ==
  handler.pc = "save" /\ handler.before = "DELIVERED" /\ handler.next.status = "DELIVERED"
    => Warmed(handler.next.events) \/ Answered(published[handler.msg].tn)

IInv ==
  /\ TypeOK
  /\ HistoryInStep
  /\ MessagesTold
  /\ CacheSound
  /\ HandlerSound
  /\ ReadersSound
  /\ MailsCounted
  /\ HandlerMailed
  /\ MailUnlessWarmed

-----------------------------------------------------------------------------
\* The environment.

\* Only the environment's actions change the histories and the messages.
LEMMA StreamFrame ==
  ASSUME [Next]_vars
  PROVE  \/ \E tn \in TrackingNumbers :
              \/ Create(tn) \/ Announce(tn) \/ \E type \in ScanTypes : Scan(tn, type)
         \/ GiveUp
         \/ UNCHANGED streamVars
BY DEF Next, vars, Environment, Consume, Serve, Connect, Deliver, Take, GetAndReduce, GetFails,
       Save, SaveFails, SendMail, SendMailFails, Notify, NotifyFails, Ack, ConnectionLost, Crash,
       Expire, Lookup, LookupFails, FetchRow, FetchScans, FetchFails, Warm, WarmFails

\* next_status drives a known status nowhere but into a status, and DELIVERED nowhere.
LEMMA LegalTarget ==
  ASSUME NEW status, NEW type, Legal(status, type)
  PROVE  /\ type \in EventTypes /\ EventToStatus[type] \in Statuses /\ status # "DELIVERED"
         /\ EventToStatus[type] = "DELIVERED" => type = "DELIVERED"
BY DEF Legal, Allowed, EventToStatus, EventTypes, Statuses

\* One payload, appended any number of times.
LEMMA Repeated ==
  ASSUME NEW S, NEW s \in Seq(S), NEW m \in S, NEW n \in Nat, NEW t,
         t = s \o [i \in 1..n |-> m]
  PROVE  /\ t \in Seq(S)
         /\ \A k \in DOMAIN s : k \in DOMAIN t /\ t[k] = s[k]
         /\ \A i \in DOMAIN t : i \notin DOMAIN s => t[i] = m
OBVIOUS

\* Messages are true of histories that go on.
LEMMA MessagesKept ==
  ASSUME TypeOK, MessagesTold, \A tn \in TrackingNumbers : Continues(log[tn], log'[tn]),
         published' = published
  PROVE  MessagesTold'
<1> SUFFICES ASSUME NEW n \in DOMAIN published
             PROVE  /\ published[n].at \in DOMAIN log'[published[n].tn]
                    /\ published[n] =
                         Announcement(published[n].tn, log'[published[n].tn][published[n].at])
  BY DEF MessagesTold
<1>1. published[n] \in Message
  BY DEF TypeOK, StreamTypeOK
<1>2. published[n].tn \in TrackingNumbers
  BY <1>1 DEF Message
<1> QED
  BY <1>2 DEF MessagesTold, Continues

\* Nothing changes: nothing to show.
LEMMA StreamStutters ==
  ASSUME TypeOK, HistoryInStep, MessagesTold, UNCHANGED streamVars
  PROVE  /\ StreamTypeOK' /\ HistoryInStep' /\ MessagesTold'
         /\ \A tn \in TrackingNumbers : Continues(log[tn], log'[tn])
         /\ Continues(published, published')
BY DEF streamVars, TypeOK, StreamTypeOK, HistoryInStep, MessagesTold, Continues

\* A creation is the first entry of a history.
LEMMA CreateStep ==
  ASSUME TypeOK, HistoryInStep, MessagesTold, NEW tn \in TrackingNumbers, Create(tn)
  PROVE  /\ StreamTypeOK' /\ HistoryInStep' /\ MessagesTold'
         /\ \A t \in TrackingNumbers : Continues(log[t], log'[t])
         /\ Continues(published, published')
<1> DEFINE new == [type |-> "", at |-> 1, status |-> "CREATED", prev |-> ""]
<1>1. new \in Entry
  BY Bounds DEF Entry, Times, Statuses
<1>2. /\ log[tn] = <<>>
      /\ log' = [log EXCEPT ![tn] = <<new>>]
      /\ sent' = sent /\ published' = published
  BY DEF Create, StreamCreate
<1>3. new.at = 1 /\ new.status # "DELIVERED"
  OBVIOUS
<1> HIDE DEF new
<1>4. /\ <<new>> \in Seq(Entry)
      /\ log \in [TrackingNumbers -> Seq(Entry)]
  BY <1>1 DEF TypeOK, StreamTypeOK
<1>5. \A t \in TrackingNumbers : log'[t] = IF t = tn THEN <<new>> ELSE log[t]
  BY <1>2, <1>4
<1>6. StreamTypeOK'
  BY <1>2, <1>4 DEF TypeOK, StreamTypeOK
<1>7. \A t \in TrackingNumbers : Continues(log[t], log'[t])
  BY <1>2, <1>5 DEF Continues
<1>8. HistoryInStep'
  BY <1>3, <1>5 DEF HistoryInStep
<1>9. MessagesTold'
  BY <1>2, <1>7, MessagesKept
<1> QED
  BY <1>2, <1>6, <1>7, <1>8, <1>9 DEF Continues

\* A scan follows the entries there are, the last of which is not DELIVERED.
LEMMA ScanStep ==
  ASSUME TypeOK, HistoryInStep, MessagesTold,
         NEW tn \in TrackingNumbers, NEW type \in ScanTypes, Scan(tn, type)
  PROVE  /\ StreamTypeOK' /\ HistoryInStep' /\ MessagesTold'
         /\ \A t \in TrackingNumbers : Continues(log[t], log'[t])
         /\ Continues(published, published')
<1> DEFINE new == [type |-> type, at |-> Len(log[tn]) + 1,
                   status |-> EventToStatus[type], prev |-> Current(tn)]
<1>1. /\ log[tn] # <<>> /\ Legal(Current(tn), type)
      /\ Len(log[tn]) < MaxTime
      /\ log' = [log EXCEPT ![tn] = Append(@, new)]
      /\ sent' = sent /\ published' = published
  BY DEF Scan, StreamScan
<1>2. log \in [TrackingNumbers -> Seq(Entry)] /\ log[tn] \in Seq(Entry)
  BY DEF TypeOK, StreamTypeOK
<1>3. Len(log[tn]) \in DOMAIN log[tn] /\ log[tn][Len(log[tn])] \in Entry
  BY <1>1, <1>2
<1>4. new \in Entry
  <2>1. Current(tn) \in Statuses
    BY <1>3 DEF Current, Entry
  <2>2. Len(log[tn]) + 1 \in Times
    BY <1>1, <1>2, Bounds DEF Times
  <2>3. type \in EventTypes /\ EventToStatus[type] \in Statuses
    BY <1>1, LegalTarget
  <2> QED
    BY <2>1, <2>2, <2>3 DEF Entry
<1>5. /\ new.at = Len(log[tn]) + 1
      /\ new.status = "DELIVERED" => new.type = "DELIVERED"
  BY <1>1, LegalTarget
<1>6. Current(tn) # "DELIVERED" /\ Len(log[tn]) + 1 > 1
  BY <1>1, <1>2, LegalTarget
<1> HIDE DEF new
<1>7. /\ \A t \in TrackingNumbers : log'[t] = IF t = tn THEN Append(log[tn], new) ELSE log[t]
      /\ Append(log[tn], new) \in Seq(Entry)
      /\ Len(Append(log[tn], new)) = Len(log[tn]) + 1
      /\ \A k \in 1..Len(log[tn]) : Append(log[tn], new)[k] = log[tn][k]
      /\ Append(log[tn], new)[Len(log[tn]) + 1] = new
  BY <1>1, <1>2, <1>4
<1>8. StreamTypeOK'
  BY <1>1, <1>2, <1>7 DEF TypeOK, StreamTypeOK
<1>9. \A t \in TrackingNumbers : Continues(log[t], log'[t])
  <2>1. Continues(log[tn], Append(log[tn], new))
    BY <1>2, <1>7 DEF Continues
  <2>2. \A t \in TrackingNumbers : Continues(log[t], log[t])
    BY DEF Continues
  <2> QED
    BY <2>1, <2>2, <1>7
<1>10. HistoryInStep'
  <2>1. ASSUME NEW k \in 1..(Len(log[tn]) + 1)
        PROVE  /\ log'[tn][k].at = k
               /\ log'[tn][k].status = "DELIVERED" =>
                    k = Len(log[tn]) + 1 /\ k > 1 /\ log'[tn][k].type = "DELIVERED"
    <3>1. CASE k = Len(log[tn]) + 1
      BY <3>1, <1>5, <1>6, <1>7
    <3>2. CASE k \in 1..Len(log[tn])
      <4>1. log'[tn][k] = log[tn][k]
        BY <3>2, <1>7
      <4>2. log[tn][k].at = k /\ log[tn][k].status # "DELIVERED"
        BY <3>2, <1>2, <1>6 DEF HistoryInStep, Current
      <4> QED
        BY <4>1, <4>2
    <3> QED
      BY <3>1, <3>2, <1>2
  <2>2. DOMAIN log'[tn] = 1..(Len(log[tn]) + 1)
    <3>1. log'[tn] \in Seq(Entry) /\ Len(log'[tn]) = Len(log[tn]) + 1
      BY <1>7
    <3> QED
      BY <3>1
  <2>3. Len(log'[tn]) = Len(log[tn]) + 1
    BY <1>7
  <2>4. \A t \in TrackingNumbers : t # tn => log'[t] = log[t]
    BY <1>7
  <2> QED
    BY <2>1, <2>2, <2>3, <2>4 DEF HistoryInStep
<1>11. MessagesTold'
  BY <1>1, <1>9, MessagesKept
<1> QED
  BY <1>1, <1>8, <1>9, <1>10, <1>11 DEF Continues

\* An announcement appends copies of the message about one entry.
LEMMA AnnounceStep ==
  ASSUME TypeOK, HistoryInStep, MessagesTold, NEW tn \in TrackingNumbers, Announce(tn)
  PROVE  /\ StreamTypeOK' /\ HistoryInStep' /\ MessagesTold'
         /\ \A t \in TrackingNumbers : Continues(log[t], log'[t])
         /\ Continues(published, published')
<1> DEFINE k == sent[tn] + 1
           m == Announcement(tn, log[tn][k])
<1>1. PICK copies \in Copies :
        /\ sent[tn] < Len(log[tn])
        /\ sent' = [sent EXCEPT ![tn] = @ + 1]
        /\ published' = published \o [i \in 1..copies |-> m]
        /\ log' = log
  BY DEF Announce, StreamPublish
<1>2. /\ log[tn] \in Seq(Entry) /\ sent \in [TrackingNumbers -> Nat]
      /\ published \in Seq(Message) /\ copies \in Nat
  BY Bounds DEF TypeOK, StreamTypeOK
<1>3. k \in DOMAIN log[tn] /\ log[tn][k] \in Entry
  BY <1>1, <1>2
<1>4. m \in Message
  BY <1>3 DEF Announcement, Message, Entry
<1>5. log[tn][k].at = k
  BY <1>3 DEF HistoryInStep
<1>6. m.tn = tn /\ m.at = k /\ m = Announcement(tn, log[tn][k])
  BY <1>5 DEF Announcement
<1> HIDE DEF m, k
<1>7. /\ published' \in Seq(Message)
      /\ Continues(published, published')
      /\ \A i \in DOMAIN published' : i \notin DOMAIN published => published'[i] = m
  <2>1. published' \in Seq(Message)
    BY <1>1, <1>2, <1>4, Repeated
  <2>2. \A i \in DOMAIN published : i \in DOMAIN published' /\ published'[i] = published[i]
    BY <1>1, <1>2, <1>4, Repeated
  <2>3. \A i \in DOMAIN published' : i \notin DOMAIN published => published'[i] = m
    BY <1>1, <1>2, <1>4, Repeated
  <2> QED
    BY <2>1, <2>2, <2>3 DEF Continues
<1>8. StreamTypeOK'
  BY <1>1, <1>2, <1>7 DEF TypeOK, StreamTypeOK
<1>9. MessagesTold'
  <2> SUFFICES ASSUME NEW n \in DOMAIN published'
               PROVE  /\ published'[n].at \in DOMAIN log[published'[n].tn]
                      /\ published'[n] =
                           Announcement(published'[n].tn, log[published'[n].tn][published'[n].at])
    BY <1>1 DEF MessagesTold
  <2>1. CASE n \in DOMAIN published
    BY <2>1, <1>7 DEF MessagesTold, Continues
  <2>2. CASE n \notin DOMAIN published
    BY <2>2, <1>3, <1>6, <1>7
  <2> QED
    BY <2>1, <2>2
<1> QED
  BY <1>1, <1>7, <1>8, <1>9 DEF HistoryInStep, Continues

\* An announcement given up leaves no message.
LEMMA GiveUpStep ==
  ASSUME TypeOK, HistoryInStep, MessagesTold, GiveUp
  PROVE  /\ StreamTypeOK' /\ HistoryInStep' /\ MessagesTold'
         /\ \A t \in TrackingNumbers : Continues(log[t], log'[t])
         /\ Continues(published, published')
<1>1. PICK lost \in SUBSET TrackingNumbers :
        /\ sent' = [tn \in TrackingNumbers |-> IF tn \in lost THEN sent[tn] + 1 ELSE sent[tn]]
        /\ log' = log /\ published' = published
  BY DEF GiveUp, StreamGiveUp
<1>2. sent' \in [TrackingNumbers -> Nat]
  BY <1>1 DEF TypeOK, StreamTypeOK
<1> QED
  BY <1>1, <1>2 DEF TypeOK, StreamTypeOK, HistoryInStep, MessagesTold, Continues

\* Histories and messages only grow, and stay in step.
LEMMA StreamStep ==
  ASSUME TypeOK, HistoryInStep, MessagesTold, [Next]_vars
  PROVE  /\ StreamTypeOK' /\ HistoryInStep' /\ MessagesTold'
         /\ \A tn \in TrackingNumbers : Continues(log[tn], log'[tn])
         /\ Continues(published, published')
BY StreamFrame, StreamStutters, CreateStep, ScanStep, AnnounceStep, GiveUpStep

-----------------------------------------------------------------------------
\* Type correctness.

\* What a message is to the reducer.
LEMMA StampedFacts ==
  ASSUME TypeOK, MessagesTold, NEW n \in DOMAIN published
  PROVE  /\ published[n].tn \in TrackingNumbers
         /\ StampedMessage(n).tn = published[n].tn
         /\ StampedMessage(n).at = Published(published[n].at)
         /\ StampedMessage(n).type = published[n].type
         /\ StampedMessage(n).status = published[n].status
         /\ published[n].status \in Statuses
         /\ EntryOf(StampedMessage(n)) \in Event
         /\ ToldBy(log[published[n].tn], EntryOf(StampedMessage(n)))
<1>1. published[n] \in Message
  BY DEF TypeOK, StreamTypeOK
<1>2. /\ published[n].tn \in TrackingNumbers /\ published[n].at \in Nat
      /\ published[n].type \in EventTypes \cup {""} /\ published[n].status \in Statuses
  <2>1. Times \subseteq Nat
    BY Bounds DEF Times
  <2> QED
    BY <1>1, <2>1 DEF Message
<1>3. /\ StampedMessage(n).tn = published[n].tn
      /\ StampedMessage(n).at = Published(published[n].at)
      /\ StampedMessage(n).type = published[n].type
      /\ StampedMessage(n).status = published[n].status
  BY <1>1 DEF StampedMessage, Message
<1>4. EntryOf(StampedMessage(n)) \in Event
  BY <1>2, <1>3, Instants DEF EntryOf, Event, StatusOrNone
<1> DEFINE k == published[n].at
           e == log[published[n].tn][k]
<1>5. /\ k \in DOMAIN log[published[n].tn]
      /\ published[n] = Announcement(published[n].tn, e)
  BY DEF MessagesTold
<1>6. e.type = published[n].type /\ e.at = k /\ e.status = published[n].status
  BY <1>5 DEF Announcement
<1>7. Instant(Published(k)) = k
  BY <1>2, Instants
<1>8. ToldBy(log[published[n].tn], EntryOf(StampedMessage(n)))
  BY <1>3, <1>5, <1>6, <1>7 DEF ToldBy, EntryOf
<1> QED
  BY <1>2, <1>3, <1>4, <1>8

\* The elements of a sequence.
Elements(seq) == {seq[i] : i \in DOMAIN seq}

\* Taking a delivery off the channel leaves the others on it.
LEMMA WithoutFacts ==
  ASSUME NEW S, NEW seq \in Seq(S), NEW n
  PROVE  /\ Without(seq, n) \in Seq(S)
         /\ Elements(Without(seq, n)) \subseteq Elements(seq)
         /\ Elements(seq) \subseteq Elements(Without(seq, n)) \cup {n}
<1>1. CASE \E i \in DOMAIN seq : seq[i] = n
  <2> DEFINE i == CHOOSE i \in DOMAIN seq : seq[i] = n
             t == SubSeq(seq, 1, i - 1) \o SubSeq(seq, i + 1, Len(seq))
  <2>1. i \in 1..Len(seq) /\ seq[i] = n
    BY <1>1
  <2> HIDE DEF i
  <2>2. /\ t \in Seq(S) /\ Len(t) = Len(seq) - 1
        /\ \A j \in 1..(i - 1) : t[j] = seq[j]
        /\ \A j \in i..(Len(seq) - 1) : t[j] = seq[j + 1]
    <3> DEFINE front == SubSeq(seq, 1, i - 1)
               back == SubSeq(seq, i + 1, Len(seq))
    <3>1. /\ front \in Seq(S) /\ Len(front) = i - 1
          /\ \A j \in 1..(i - 1) : front[j] = seq[j]
      BY <2>1
    <3>2. /\ back \in Seq(S) /\ Len(back) = Len(seq) - i
          /\ \A j \in 1..(Len(seq) - i) : back[j] = seq[i + j]
      BY <2>1
    <3> HIDE DEF front, back
    <3>3. ASSUME NEW j \in i..(Len(seq) - 1) PROVE (front \o back)[j] = seq[j + 1]
      <4>1. j - (i - 1) \in 1..(Len(seq) - i) /\ i + (j - (i - 1)) = j + 1
        BY <2>1
      <4>2. (front \o back)[j] = back[j - (i - 1)]
        BY <2>1, <3>1, <3>2
      <4> QED
        BY <4>1, <4>2, <3>2
    <3>4. front \o back \in Seq(S) /\ Len(front \o back) = Len(seq) - 1
      BY <2>1, <3>1, <3>2
    <3>5. ASSUME NEW j \in 1..(i - 1) PROVE (front \o back)[j] = seq[j]
      <4>1. (front \o back)[j] = front[j]
        BY <2>1, <3>1, <3>2
      <4> QED
        BY <4>1, <3>1
    <3> QED
      BY <3>3, <3>4, <3>5 DEF front, back
  <2>3. Without(seq, n) = t
    BY <1>1 DEF Without, i
  <2> HIDE DEF t
  <2>4. ASSUME NEW j \in DOMAIN t PROVE t[j] \in Elements(seq)
    <3>1. CASE j < i
      BY <3>1, <2>1, <2>2 DEF Elements
    <3>2. CASE ~(j < i)
      <4>1. j + 1 \in DOMAIN seq /\ t[j] = seq[j + 1]
        BY <3>2, <2>1, <2>2
      <4> QED
        BY <4>1 DEF Elements
    <3> QED
      BY <3>1, <3>2
  <2>5. ASSUME NEW j \in DOMAIN seq, j # i PROVE seq[j] \in Elements(t)
    <3>1. CASE j < i
      BY <3>1, <2>1, <2>2 DEF Elements
    <3>2. CASE ~(j < i)
      <4>1. j - 1 \in i..(Len(seq) - 1) /\ (j - 1) + 1 = j
        BY <3>2, <2>1, <2>5
      <4>2. t[j - 1] = seq[(j - 1) + 1]
        BY <4>1, <2>2
      <4>3. j - 1 \in DOMAIN t
        BY <4>1, <2>1, <2>2
      <4> QED
        BY <4>1, <4>2, <4>3 DEF Elements
    <3> QED
      BY <3>1, <3>2
  <2> QED
    BY <2>1, <2>2, <2>3, <2>4, <2>5 DEF Elements
<1>2. CASE ~\E i \in DOMAIN seq : seq[i] = n
  BY <1>2 DEF Without
<1> QED
  BY <1>1, <1>2

\* A busy handler is a record of one kind, and so is a busy reader.
LEMMA Busy ==
  ASSUME TypeOK
  PROVE  /\ handler.pc # "idle" => handler \in Handling
         /\ handler # HandlerIdle => handler \in Handling
         /\ handler \in Handling => handler # HandlerIdle /\ handler.pc # "idle"
         /\ \A a \in Readers : api[a].pc # "idle" => api[a] \in Reading
BY DEF TypeOK, HandlerIdle, Handling, ReaderIdle, Reading

\* Moving on to the next call keeps the rest of a record.
LEMMA HandlerMoves ==
  ASSUME NEW h \in Handling, NEW pc \in {"get", "save", "mail", "notify", "ack"},
         NEW before \in StatusOrNone, NEW next \in State
  PROVE  /\ [h EXCEPT !.pc = pc] \in Handling
         /\ [h EXCEPT !.pc = pc, !.before = before, !.next = next] \in Handling
BY DEF Handling

\* The state a delivery is folded into is one, and in order.
LEMMA StoredFacts ==
  ASSUME TypeOK, CacheSound, NEW tn \in TrackingNumbers
  PROVE  /\ Stored(tn) \in State /\ InOrder(Stored(tn).events)
         /\ Stored(tn) = EmptyState \/ Sound(log[tn], Stored(tn))
<1>1. CASE redis[tn] = Missing
  BY <1>1, EmptyFacts DEF Stored
<1>2. CASE redis[tn] # Missing
  <2>1. redis[tn] \in State /\ Sound(log[tn], redis[tn])
    BY <1>2 DEF TypeOK, CacheSound, Cached
  <2> QED
    BY <1>2, <2>1 DEF Stored, Sound
<1> QED
  BY <1>1, <1>2

\* What GetAndReduce computes.
LEMMA GetFacts ==
  ASSUME IInv, GetAndReduce
  PROVE  LET tn == published[handler.msg].tn IN
         /\ handler \in Handling /\ handler.msg \in DOMAIN published
         /\ handler'.msg = handler.msg
         /\ handler'.before = Stored(tn).status
         /\ handler'.next = Reduce(Stored(tn), StampedMessage(handler.msg))
         /\ handler'.pc = IF handler'.next = Stored(tn) THEN "ack" ELSE "save"
         /\ handler' \in Handling
         /\ Sound(log[tn], handler'.next)
<1> DEFINE n == handler.msg
           tn == published[n].tn
           new == Reduce(Stored(tn), StampedMessage(n))
<1>1. handler \in Handling /\ handler # HandlerIdle
  BY Busy DEF GetAndReduce, IInv
<1>2. n \in DOMAIN published
  BY <1>1 DEF IInv, HandlerSound
<1>3. TypeOK /\ MessagesTold /\ CacheSound
  BY DEF IInv
<1>4. /\ tn \in TrackingNumbers
      /\ StampedMessage(n).tn = tn
      /\ StampedMessage(n).status \in Statuses
      /\ EntryOf(StampedMessage(n)) \in Event
      /\ ToldBy(log[tn], EntryOf(StampedMessage(n)))
  BY <1>2, <1>3, StampedFacts
<1>5. /\ Stored(tn) \in State /\ InOrder(Stored(tn).events)
      /\ Stored(tn) = EmptyState \/ Sound(log[tn], Stored(tn))
  BY <1>3, <1>4, StoredFacts
<1>6. \E k \in DOMAIN log[tn] : log[tn][k].status = StampedMessage(n).status
  BY <1>2, <1>3, <1>4, StampedFacts DEF MessagesTold, Announcement
<1>7. new \in State
  BY <1>4, <1>5, ReduceType
<1>8. Sound(log[tn], new)
  BY <1>4, <1>5, <1>6, ReduceSound
<1>9. handler' = [handler EXCEPT !.pc = IF new = Stored(tn) THEN "ack" ELSE "save",
                                 !.before = Stored(tn).status, !.next = new]
  BY <1>4 DEF GetAndReduce
<1>10. Stored(tn).status \in StatusOrNone
  BY <1>5 DEF State
<1> HIDE DEF new
<1>11. /\ handler'.msg = n /\ handler'.before = Stored(tn).status /\ handler'.next = new
       /\ handler'.pc = IF new = Stored(tn) THEN "ack" ELSE "save"
  BY <1>1, <1>9 DEF Handling
<1>12. handler' \in Handling
  BY <1>1, <1>7, <1>9, <1>10, HandlerMoves
<1> QED
  BY <1>1, <1>2, <1>8, <1>11, <1>12 DEF new

\* The last status of a history is one of its statuses.
LEMMA CurrentFacts ==
  ASSUME TypeOK, NEW tn \in TrackingNumbers, log[tn] # <<>>
  PROVE  /\ Current(tn) \in Statuses
         /\ \E k \in DOMAIN log[tn] : log[tn][k].status = Current(tn)
<1>1. log[tn] \in Seq(Entry)
  BY DEF TypeOK, StreamTypeOK
<1>2. Len(log[tn]) \in DOMAIN log[tn] /\ log[tn][Len(log[tn])] \in Entry
  BY <1>1
<1> QED
  BY <1>2 DEF Current, Entry

\* The scans served over HTTP are the history's, in its order (shipments.go:72-86).
LEMMA ScansFacts ==
  ASSUME TypeOK, HistoryInStep, NEW tn \in TrackingNumbers
  PROVE  /\ Scans(tn) \in Seq(Event)
         /\ InOrder(Scans(tn))
         /\ \A i \in DOMAIN Scans(tn) : ToldBy(log[tn], Scans(tn)[i])
         /\ Delivered(log[tn]) => Warmed(Scans(tn))
<1> DEFINE n == Len(log[tn]) - 1
           scan(i) == [status |-> "", type |-> log[tn][i + 1].type, at |-> Served(log[tn][i + 1].at)]
<1>1. log[tn] \in Seq(Entry) /\ n \in Int
  BY DEF TypeOK, StreamTypeOK
<1>2. ASSUME NEW i \in 1..n
      PROVE  /\ i + 1 \in DOMAIN log[tn] /\ log[tn][i + 1] \in Entry /\ log[tn][i + 1].at = i + 1
             /\ scan(i).at = Served(i + 1) /\ scan(i).status = "" /\ scan(i).type = log[tn][i + 1].type
             /\ scan(i) \in Event
  <2>1. i + 1 \in DOMAIN log[tn] /\ log[tn][i + 1] \in Entry /\ log[tn][i + 1].at = i + 1
    BY <1>1 DEF HistoryInStep
  <2>2. Served(i + 1) \in Nat
    BY Instants
  <2> QED
    BY <2>1, <2>2 DEF Entry, Event, StatusOrNone
<1>3. Scans(tn) = [i \in 1..n |-> scan(i)]
  BY DEF Scans
<1> HIDE DEF scan
<1>4. Scans(tn) \in Seq(Event) /\ DOMAIN Scans(tn) = 1..n /\ \A i \in 1..n : Scans(tn)[i] = scan(i)
  <2> DEFINE m == IF n = -1 THEN 0 ELSE n
  <2>1. m \in Nat /\ 1..n = 1..m
    BY <1>1
  <2>2. ASSUME NEW i \in 1..m PROVE scan(i) \in Event
    BY <2>1, <1>2
  <2> HIDE DEF m, n
  <2>3. Scans(tn) = [i \in 1..m |-> scan(i)]
    BY <2>1, <1>3
  <2>4. Scans(tn) \in [1..m -> Event]
    BY <2>2, <2>3
  <2>5. Scans(tn) \in Seq(Event)
    BY <2>1, <2>4
  <2> QED
    BY <2>1, <2>3, <2>5
<1>5. InOrder(Scans(tn))
  <2> SUFFICES ASSUME NEW i \in 1..n, NEW j \in 1..n, i < j
               PROVE  Scans(tn)[i].at <= Scans(tn)[j].at
    BY <1>4 DEF InOrder
  <2>1. Served(i + 1) <= Served(j + 1)
    BY DEF Served
  <2> QED
    BY <2>1, <1>2, <1>4
<1>6. ASSUME NEW i \in 1..n PROVE ToldBy(log[tn], Scans(tn)[i])
  <2>1. Instant(Served(i + 1)) = i + 1
    BY Instants
  <2> QED
    BY <2>1, <1>2, <1>4, <1>6 DEF ToldBy
<1>7. ASSUME Delivered(log[tn]) PROVE Warmed(Scans(tn))
  <2>1. PICK k \in DOMAIN log[tn] : log[tn][k].status = "DELIVERED"
    BY <1>7 DEF Delivered
  <2>2. k - 1 \in 1..n /\ (k - 1) + 1 = k /\ log[tn][k].type = "DELIVERED"
    BY <2>1, <1>1 DEF HistoryInStep
  <2>3. Scans(tn)[k - 1].type = "DELIVERED" /\ Scans(tn)[k - 1].status = "" /\ k - 1 \in DOMAIN Scans(tn)
    BY <2>2, <1>2, <1>4
  <2> QED
    BY <2>3 DEF Warmed
<1> QED
  BY <1>4, <1>5, <1>6, <1>7

\* A step of a reader's goroutine: it moves on itself, and if it writes, it writes
\* what it fetched.
LEMMA ServeFacts ==
  ASSUME IInv, NEW a \in Readers, Serve(a)
  PROVE  /\ UNCHANGED <<streamVars, ready, inflight, connected, handler, mails, unmailed, feed>>
         /\ faults' \in 0..MaxFaults
         /\ \A b \in Readers : b # a => api'[b] = api[b]
         /\ api' \in [Readers -> Reading \cup ReaderIdle]
         /\ api'[a].pc # "idle" => ReaderSound(log[api'[a].tn], api'[a])
         /\ redis' # redis => api[a].pc = "warm" /\ redis' = Saved(api[a].tn, api[a].state)
<1>1. TypeOK /\ HistoryInStep
  BY DEF IInv
<1>2. /\ api \in [Readers -> Reading \cup ReaderIdle]
      /\ api[a].pc # "idle" => api[a] \in Reading /\ ReaderSound(log[api[a].tn], api[a])
      /\ faults \in 0..MaxFaults /\ MaxFaults \in Nat
  BY Busy, Bounds DEF IInv, TypeOK, ReadersSound
<1>3. ASSUME NEW code \in {0, 200, 404, 502}, Answer(a, code)
      PROVE  /\ \A b \in Readers : b # a => api'[b] = api[b]
             /\ api' \in [Readers -> Reading \cup ReaderIdle]
             /\ api'[a].pc = "idle"
  BY <1>2, <1>3 DEF Answer, ReaderIdle
<1>4. ASSUME NEW q \in Reading, api' = [api EXCEPT ![a] = q]
      PROVE  /\ \A b \in Readers : b # a => api'[b] = api[b]
             /\ api' \in [Readers -> Reading \cup ReaderIdle]
             /\ api'[a] = q
  BY <1>2, <1>4
<1>5. ASSUME NEW tn \in TrackingNumbers, Lookup(a, tn)
      PROVE  /\ \A b \in Readers : b # a => api'[b] = api[b]
             /\ api' \in [Readers -> Reading \cup ReaderIdle]
             /\ api'[a].pc # "idle" => ReaderSound(log[api'[a].tn], api'[a])
  <2>1. CASE redis[tn] # Missing
    BY <2>1, <1>3, <1>5 DEF Lookup
  <2>2. CASE redis[tn] = Missing
    <3> DEFINE q == [pc |-> "row", tn |-> tn, state |-> EmptyState]
    <3>1. q \in Reading /\ ReaderSound(log[q.tn], q)
      BY EmptyFacts DEF Reading, ReaderSound
    <3>2. api' = [api EXCEPT ![a] = q]
      BY <2>2, <1>5 DEF Lookup
    <3> HIDE DEF q
    <3> QED
      BY <3>1, <3>2, <1>4
  <2> QED
    BY <2>1, <2>2
<1>6. ASSUME FetchRow(a)
      PROVE  /\ \A b \in Readers : b # a => api'[b] = api[b]
             /\ api' \in [Readers -> Reading \cup ReaderIdle]
             /\ api'[a].pc # "idle" => ReaderSound(log[api'[a].tn], api'[a])
  <2> DEFINE tn == api[a].tn
             q == [api[a] EXCEPT !.pc = "scans", !.state.status = Current(tn)]
  <2>1. api[a] \in Reading /\ api[a].state.events = <<>> /\ tn \in TrackingNumbers
    BY <1>2, <1>6 DEF FetchRow, ReaderSound, Reading
  <2>2. CASE log[tn] = <<>>
    BY <2>2, <1>3, <1>6 DEF FetchRow
  <2>3. CASE log[tn] # <<>>
    <3>1. /\ Current(tn) \in Statuses
          /\ \E k \in DOMAIN log[tn] : log[tn][k].status = Current(tn)
      BY <2>1, <2>3, <1>1, CurrentFacts
    <3>2. /\ q \in Reading /\ q.pc = "scans" /\ q.tn = tn
          /\ q.state.events = <<>> /\ q.state.status = Current(tn)
      BY <2>1, <3>1 DEF Reading, State, StatusOrNone
    <3>3. api' = [api EXCEPT ![a] = q]
      BY <2>3, <1>2, <1>6 DEF FetchRow
    <3> HIDE DEF q
    <3>4. ReaderSound(log[q.tn], q)
      BY <3>1, <3>2 DEF ReaderSound
    <3> QED
      BY <3>2, <3>3, <3>4, <1>4
  <2> QED
    BY <2>2, <2>3
<1>7. ASSUME FetchScans(a)
      PROVE  /\ \A b \in Readers : b # a => api'[b] = api[b]
             /\ api' \in [Readers -> Reading \cup ReaderIdle]
             /\ api'[a].pc # "idle" => ReaderSound(log[api'[a].tn], api'[a])
  <2> DEFINE tn == api[a].tn
             q == [api[a] EXCEPT !.pc = "warm", !.state.events = Scans(tn)]
  <2>1. /\ api[a] \in Reading /\ tn \in TrackingNumbers
        /\ \E k \in DOMAIN log[tn] : log[tn][k].status = api[a].state.status
    BY <1>2, <1>7 DEF FetchScans, ReaderSound, Reading
  <2>2. /\ Scans(tn) \in Seq(Event) /\ InOrder(Scans(tn))
        /\ \A i \in DOMAIN Scans(tn) : ToldBy(log[tn], Scans(tn)[i])
        /\ api[a].state.status = "DELIVERED" => Warmed(Scans(tn))
    BY <2>1, <1>1, ScansFacts DEF Delivered
  <2>3. /\ q \in Reading /\ q.pc = "warm" /\ q.tn = tn
        /\ q.state.events = Scans(tn) /\ q.state.status = api[a].state.status
    BY <2>1, <2>2 DEF Reading, State
  <2>4. api' = [api EXCEPT ![a] = q]
    BY <1>2, <1>7 DEF FetchScans
  <2> HIDE DEF q
  <2>5. ReaderSound(log[q.tn], q)
    BY <2>1, <2>2, <2>3 DEF ReaderSound, Sound
  <2> QED
    BY <2>3, <2>4, <2>5, <1>4
<1>8. CASE \E tn \in TrackingNumbers : Lookup(a, tn)
  BY <1>2, <1>5, <1>8 DEF Lookup
<1>9. CASE FetchRow(a)
  BY <1>2, <1>6, <1>9 DEF FetchRow
<1>10. CASE FetchScans(a)
  BY <1>2, <1>7, <1>10 DEF FetchScans
<1>11. CASE LookupFails(a) \/ FetchFails(a)
  BY <1>2, <1>3, <1>11 DEF LookupFails, FetchFails, Fault
<1>12. CASE Warm(a) \/ WarmFails(a)
  BY <1>2, <1>3, <1>12 DEF Warm, WarmFails, Fault
<1> QED
  BY <1>8, <1>9, <1>10, <1>11, <1>12 DEF Serve

\* One more mail.
LEMMA Sent ==
  ASSUME NEW f \in [TrackingNumbers -> Nat], NEW tn \in TrackingNumbers
  PROVE  [f EXCEPT ![tn] = @ + 1] \in [TrackingNumbers -> Nat]
OBVIOUS

\* The lowest number waiting is what Deliver takes.
LEMMA DeliverFacts ==
  ASSUME TypeOK, Deliver
  PROVE  \E n \in ready : ready' = ready \ {n} /\ inflight' = Append(inflight, n)
<1> DEFINE n == CHOOSE n \in ready : \A m \in ready : n <= m
<1>1. ready \in SUBSET Nat /\ ready # {}
  BY DEF TypeOK, StreamTypeOK, Deliver
<1>2. n \in ready
  BY <1>1, Smallest
<1>3. ready' = ready \ {n} /\ inflight' = Append(inflight, n)
  BY DEF Deliver
<1> HIDE DEF n
<1> QED
  BY <1>2, <1>3

\* Acknowledging or rejecting keeps the channel's type.
LEMMA DoneFacts ==
  ASSUME TypeOK, NEW n, Done(n)
  PROVE  /\ inflight' \in Seq(DOMAIN published)
         /\ Elements(inflight') \subseteq Elements(inflight)
         /\ Elements(inflight) \subseteq Elements(inflight') \cup {n}
         /\ handler' = HandlerIdle
BY WithoutFacts DEF Done, TypeOK

\* A requeued delivery waits again, if it was on the channel.
LEMMA RequeueFacts ==
  ASSUME TypeOK, NEW n, Requeue(n)
  PROVE  /\ inflight' \in Seq(DOMAIN published)
         /\ ready' \subseteq DOMAIN published
         /\ ready \subseteq ready'
         /\ ready' \cup Elements(inflight') = ready \cup Elements(inflight)
         /\ handler' = HandlerIdle
<1>1. /\ inflight' \in Seq(DOMAIN published)
      /\ Elements(inflight') \subseteq Elements(inflight)
      /\ Elements(inflight) \subseteq Elements(inflight') \cup {n}
      /\ handler' = HandlerIdle
  BY DoneFacts DEF Requeue
<1>2. ready' = IF n \in Elements(inflight) THEN ready \cup {n} ELSE ready
  BY DEF Requeue, Elements
<1>3. Elements(inflight) \subseteq DOMAIN published /\ ready \subseteq DOMAIN published
  BY DEF TypeOK, Elements
<1> QED
  BY <1>1, <1>2, <1>3

\* What the consumer writes is a state of the parcel it handles.
LEMMA SaveFacts ==
  ASSUME IInv, handler.pc = "save"
  PROVE  /\ handler \in Handling /\ handler.msg \in DOMAIN published
         /\ published[handler.msg].tn \in TrackingNumbers
         /\ Sound(log[published[handler.msg].tn], handler.next)
         /\ Saved(published[handler.msg].tn, handler.next)
              \in [TrackingNumbers -> State \cup {Missing}]
<1>1. handler \in Handling /\ handler # HandlerIdle
  BY Busy DEF IInv
<1>2. /\ handler.msg \in DOMAIN published
      /\ Sound(log[published[handler.msg].tn], handler.next)
  BY <1>1 DEF IInv, HandlerSound
<1>3. published[handler.msg].tn \in TrackingNumbers
  BY <1>2, StampedFacts DEF IInv
<1> QED
  BY <1>1, <1>2, <1>3 DEF Saved, IInv, TypeOK, Handling

\* Every step keeps every variable in its type.
LEMMA TypeStep ==
  ASSUME IInv, [Next]_vars
  PROVE  TypeOK'
<1>1. TypeOK /\ HistoryInStep /\ MessagesTold /\ CacheSound
  BY DEF IInv
<1>2. StreamTypeOK' /\ Continues(published, published')
  BY <1>1, StreamStep
<1>3. /\ DOMAIN published \subseteq DOMAIN published'
      /\ inflight \in Seq(DOMAIN published) /\ ready \subseteq DOMAIN published
      /\ handler \in Handling \cup {HandlerIdle}
      /\ redis \in [TrackingNumbers -> State \cup {Missing}]
      /\ mails \in [TrackingNumbers -> Nat] /\ feed \in Seq(TrackingNumbers)
      /\ unmailed \subseteq TrackingNumbers
      /\ api \in [Readers -> Reading \cup ReaderIdle]
      /\ faults \in 0..MaxFaults /\ MaxFaults \in Nat
      /\ connected \in BOOLEAN
  BY <1>1, <1>2, Bounds DEF Continues, TypeOK
<1>4. \A s \in Seq(DOMAIN published) : s \in Seq(DOMAIN published')
  BY <1>3
<1>5. HandlerIdle \in Handling \cup {HandlerIdle}
  OBVIOUS
<1> DEFINE Rest ==
      /\ ready' \subseteq DOMAIN published'
      /\ inflight' \in Seq(DOMAIN published')
      /\ connected' \in BOOLEAN
      /\ handler' \in Handling \cup {HandlerIdle}
      /\ redis' \in [TrackingNumbers -> State \cup {Missing}]
      /\ mails' \in [TrackingNumbers -> Nat]
      /\ unmailed' \subseteq TrackingNumbers
      /\ feed' \in Seq(TrackingNumbers)
      /\ api' \in [Readers -> Reading \cup ReaderIdle]
      /\ faults' \in 0..MaxFaults
<1> SUFFICES Rest
  BY <1>2 DEF TypeOK
<1>6. ASSUME NEW kind, Fault(kind) PROVE faults' \in 0..MaxFaults
  BY <1>3, <1>6 DEF Fault
<1>7. CASE Environment
  <2>1. CASE GiveUp
    BY <2>1, <1>3, <1>4, <1>6 DEF GiveUp, StreamGiveUp
  <2>2. CASE ~GiveUp
    BY <2>2, <1>3, <1>4, <1>7 DEF Environment, Create, Scan, Announce, trackingVars
  <2> QED
    BY <2>1, <2>2
<1>8. CASE Connect
  BY <1>3, <1>4, <1>8 DEF Connect, streamVars
<1>9. CASE Deliver
  <2>1. PICK n \in ready : ready' = ready \ {n} /\ inflight' = Append(inflight, n)
    BY <1>1, <1>9, DeliverFacts
  <2>2. inflight' \in Seq(DOMAIN published)
    BY <2>1, <1>3
  <2> QED
    BY <2>1, <2>2, <1>3, <1>4, <1>9 DEF Deliver, streamVars
<1>10. CASE Take
  <2>0. DOMAIN published \subseteq Nat
    BY <1>1 DEF TypeOK, StreamTypeOK
  <2>3. inflight # <<>>
    BY <1>10 DEF Take
  <2>1. Head(inflight) \in Nat
    BY <2>0, <2>3, <1>3
  <2>2. handler' \in Handling
    BY <2>1, <1>10, EmptyFacts DEF Take, Handling, StatusOrNone
  <2> QED
    BY <2>2, <1>3, <1>4, <1>10 DEF Take, streamVars
<1>11. CASE GetAndReduce
  <2>1. handler' \in Handling
    BY <1>11, GetFacts
  <2> QED
    BY <2>1, <1>3, <1>4, <1>11 DEF GetAndReduce, streamVars
<1>12. CASE GetFails
  BY <1>1, <1>3, <1>4, <1>5, <1>6, <1>12, RequeueFacts DEF GetFails, streamVars
<1>13. CASE Save
  <2>1. /\ handler \in Handling /\ redis' \in [TrackingNumbers -> State \cup {Missing}]
    BY <1>13, SaveFacts DEF Save
  <2>2. handler' \in Handling
    BY <2>1, <1>13 DEF Save, AfterSave, Handling
  <2> QED
    BY <2>1, <2>2, <1>3, <1>4, <1>13 DEF Save, streamVars
<1>14. CASE SaveFails
  <2>1. /\ redis' \in [TrackingNumbers -> State \cup {Missing}]
        /\ unmailed' \subseteq TrackingNumbers
    BY <1>3, <1>14, SaveFacts DEF SaveFails
  <2> QED
    BY <2>1, <1>1, <1>3, <1>4, <1>5, <1>6, <1>14, RequeueFacts DEF SaveFails, streamVars
<1>15. CASE SendMail
  <2>1. handler \in Handling /\ handler # HandlerIdle
    BY <1>1, <1>15, Busy DEF SendMail
  <2>4. published[handler.msg].tn \in TrackingNumbers
    BY <2>1, <1>1, StampedFacts DEF IInv, HandlerSound
  <2>2. handler' \in Handling
    BY <2>1, <1>15 DEF SendMail, Handling
  <2>3. mails' \in [TrackingNumbers -> Nat]
    BY <2>4, <1>3, <1>15, Sent DEF SendMail
  <2> QED
    BY <2>2, <2>3, <1>3, <1>4, <1>15 DEF SendMail, streamVars
<1>16. CASE SendMailFails
  <2>1. handler \in Handling /\ handler # HandlerIdle
    BY <1>1, <1>16, Busy DEF SendMailFails
  <2>4. published[handler.msg].tn \in TrackingNumbers
    BY <2>1, <1>1, StampedFacts DEF IInv, HandlerSound
  <2>2. handler' \in Handling
    BY <2>1, <1>16 DEF SendMailFails, Handling
  <2>3. mails' \in [TrackingNumbers -> Nat] /\ unmailed' \subseteq TrackingNumbers
    <3>1. [mails EXCEPT ![published[handler.msg].tn] = @ + 1] \in [TrackingNumbers -> Nat]
      BY <2>4, <1>3, Sent
    <3> QED
      BY <3>1, <2>4, <1>3, <1>16 DEF SendMailFails
  <2> QED
    BY <2>2, <2>3, <1>3, <1>4, <1>6, <1>16 DEF SendMailFails, streamVars
<1>17. CASE Notify
  <2>1. handler \in Handling /\ handler # HandlerIdle
    BY <1>1, <1>17, Busy DEF Notify
  <2>2. published[handler.msg].tn \in TrackingNumbers
    BY <2>1, <1>1, StampedFacts DEF IInv, HandlerSound
  <2>3. handler' \in Handling
    BY <2>1, <1>17 DEF Notify, Handling
  <2>4. feed' \in Seq(TrackingNumbers)
    BY <2>2, <1>3, <1>17, Bounds DEF Notify, Pushed
  <2> QED
    BY <2>3, <2>4, <1>3, <1>4, <1>17 DEF Notify, streamVars
<1>18. CASE NotifyFails
  <2>1. handler \in Handling
    BY <1>1, <1>18, Busy DEF NotifyFails
  <2>2. handler' \in Handling
    BY <2>1, <1>18 DEF NotifyFails, Handling
  <2> QED
    BY <2>2, <1>3, <1>4, <1>6, <1>18 DEF NotifyFails, streamVars
<1>19. CASE Ack
  BY <1>1, <1>3, <1>4, <1>5, <1>19, DoneFacts DEF Ack, streamVars
<1>20. CASE ConnectionLost
  <2>1. ready' = ready \cup Elements(inflight) /\ inflight' = <<>>
    BY <1>20 DEF ConnectionLost, Elements
  <2>2. Elements(inflight) \subseteq DOMAIN published
    BY <1>3 DEF Elements
  <2>3. /\ faults' \in 0..MaxFaults /\ connected' = FALSE
        /\ UNCHANGED <<streamVars, handler, redis, mails, unmailed, feed, api>>
    BY <1>6, <1>20 DEF ConnectionLost
  <2>4. ready' \subseteq DOMAIN published' /\ inflight' \in Seq(DOMAIN published')
    BY <2>1, <2>2, <1>3
  <2> QED
    BY <2>3, <2>4, <1>3 DEF streamVars
<1>21. CASE Crash
  <2>1. [pc |-> "idle", code |-> 0] \in ReaderIdle
    BY DEF ReaderIdle
  <2>2. ready' = ready \cup Elements(inflight) /\ inflight' = <<>>
    BY <1>21 DEF Crash, Elements
  <2>3. Elements(inflight) \subseteq DOMAIN published
    BY <1>3 DEF Elements
  <2>4. /\ faults' \in 0..MaxFaults /\ connected' = FALSE /\ handler' = HandlerIdle
        /\ api' = [a \in Readers |-> [pc |-> "idle", code |-> 0]]
        /\ unmailed' \subseteq TrackingNumbers
        /\ UNCHANGED <<streamVars, redis, mails, feed>>
    BY <1>3, <1>6, <1>21 DEF Crash
  <2>5. ready' \subseteq DOMAIN published' /\ inflight' \in Seq(DOMAIN published')
    BY <2>2, <2>3, <1>3
  <2> QED
    BY <2>1, <2>4, <2>5, <1>3 DEF streamVars
<1>22. CASE \E tn \in TrackingNumbers : Expire(tn)
  BY <1>3, <1>4, <1>6, <1>22 DEF Expire, streamVars
<1>23. CASE \E a \in Readers : Serve(a)
  <2>1. PICK a \in Readers : Serve(a)
    BY <1>23
  <2>2. /\ UNCHANGED <<streamVars, ready, inflight, connected, handler, mails, unmailed, feed>>
        /\ faults' \in 0..MaxFaults
        /\ api' \in [Readers -> Reading \cup ReaderIdle]
        /\ redis' # redis => api[a].pc = "warm" /\ redis' = Saved(api[a].tn, api[a].state)
    BY <2>1, ServeFacts
  <2>3. api[a].pc = "warm" => Saved(api[a].tn, api[a].state) \in [TrackingNumbers -> State \cup {Missing}]
    BY <1>1, <1>3, Busy DEF Saved, Reading
  <2> QED
    BY <2>2, <2>3, <1>3, <1>4 DEF streamVars
<1>24. CASE UNCHANGED vars
  BY <1>3, <1>4, <1>24 DEF vars, streamVars, trackingVars
<1> QED
  BY <1>7, <1>8, <1>9, <1>10, <1>11, <1>12, <1>13, <1>14, <1>15, <1>16, <1>17, <1>18, <1>19,
     <1>20, <1>21, <1>22, <1>23, <1>24 DEF Next, Consume

-----------------------------------------------------------------------------
\* The read model.

\* Whoever writes to the cache writes a sound state of the right parcel.
LEMMA RedisWrites ==
  ASSUME IInv, [Next]_vars
  PROVE  \/ redis' = redis
         \/ \E tn \in TrackingNumbers : redis' = [redis EXCEPT ![tn] = Missing]
         \/ \E tn \in TrackingNumbers, state \in State :
              Sound(log[tn], state) /\ redis' = [redis EXCEPT ![tn] = state]
<1>1. CASE Save \/ SaveFails
  <2>1. handler.pc = "save"
    BY <1>1 DEF Save, SaveFails
  <2>2. /\ published[handler.msg].tn \in TrackingNumbers /\ handler.next \in State
        /\ Sound(log[published[handler.msg].tn], handler.next)
    BY <2>1, SaveFacts DEF Handling
  <2> QED
    BY <2>2, <1>1 DEF Save, SaveFails, Saved
<1>2. CASE \E tn \in TrackingNumbers : Expire(tn)
  BY <1>2 DEF Expire
<1>3. CASE \E a \in Readers : Serve(a)
  <2>1. PICK a \in Readers : Serve(a)
    BY <1>3
  <2>2. redis' # redis => api[a].pc = "warm" /\ redis' = Saved(api[a].tn, api[a].state)
    BY <2>1, ServeFacts
  <2>3. api[a].pc = "warm" =>
          api[a].tn \in TrackingNumbers /\ api[a].state \in State /\ Sound(log[api[a].tn], api[a].state)
    BY Busy DEF IInv, ReadersSound, ReaderSound, Reading
  <2> QED
    BY <2>2, <2>3 DEF Saved
<1>4. CASE UNCHANGED redis
  BY <1>4
<1> QED
  BY <1>1, <1>2, <1>3, <1>4
     DEF Next, vars, trackingVars, Environment, Create, Scan, Announce, GiveUp, Consume, Connect, Deliver, Take,
         GetAndReduce, GetFails, SendMail, SendMailFails, Notify, NotifyFails, Ack, ConnectionLost, Crash

\* The cache stays sound: writes are, and histories only grow.
LEMMA CacheStep ==
  ASSUME IInv, [Next]_vars
  PROVE  CacheSound'
<1> SUFFICES ASSUME NEW tn \in TrackingNumbers, redis'[tn] # Missing
             PROVE  Sound(log'[tn], redis'[tn])
  BY DEF CacheSound, Cached
<1>1. redis \in [TrackingNumbers -> State \cup {Missing}]
  BY DEF IInv, TypeOK
<1>2. Continues(log[tn], log'[tn])
  BY StreamStep DEF IInv
<1>3. redis[tn] # Missing => Sound(log[tn], redis[tn])
  BY DEF IInv, CacheSound, Cached
<1>4. Sound(log[tn], redis'[tn])
  BY <1>1, <1>3, RedisWrites
<1> QED
  BY <1>2, <1>4, SoundContinues

\* What the consumer is about to write stays sound.
LEMMA HandlerStep ==
  ASSUME IInv, [Next]_vars
  PROVE  HandlerSound'
<1>1. TypeOK /\ MessagesTold /\ HandlerSound
  BY DEF IInv
<1>2. /\ \A tn \in TrackingNumbers : Continues(log[tn], log'[tn])
      /\ Continues(published, published')
  BY StreamStep DEF IInv
<1>3. \A n \in DOMAIN published : published[n].tn \in TrackingNumbers
  BY <1>1, StampedFacts
<1>4. ASSUME NEW h, h.msg \in DOMAIN published,
             h.pc = "save" => Sound(log[published[h.msg].tn], h.next),
             h.pc = "mail" => Delivered(log[published[h.msg].tn]),
             handler' = h
      PROVE  HandlerSound'
  <2>1. /\ h.msg \in DOMAIN published' /\ published'[h.msg] = published[h.msg]
        /\ published[h.msg].tn \in TrackingNumbers
    BY <1>2, <1>3, <1>4 DEF Continues
  <2>2. h.pc = "save" => Sound(log'[published'[h.msg].tn], h.next)
    BY <2>1, <1>2, <1>4, SoundContinues
  <2>3. h.pc = "mail" => Delivered(log'[published'[h.msg].tn])
    BY <2>1, <1>2, <1>4 DEF Delivered, Continues
  <2> QED
    BY <2>1, <2>2, <2>3, <1>4 DEF HandlerSound
<1>5. CASE handler' = HandlerIdle
  BY <1>5 DEF HandlerSound
<1>6. CASE handler' = handler /\ handler # HandlerIdle
  BY <1>1, <1>4, <1>6 DEF HandlerSound
<1>7. CASE Take
  <2> DEFINE h == [pc |-> "get", msg |-> Head(inflight), before |-> "", next |-> EmptyState]
  <2>1. h.pc = "get" /\ h.msg = Head(inflight) /\ handler' = h
    BY <1>7 DEF Take
  <2>2. inflight \in Seq(DOMAIN published) /\ inflight # <<>>
    BY <1>1, <1>7 DEF Take, TypeOK
  <2>3. Head(inflight) \in DOMAIN published
    BY <2>2
  <2> HIDE DEF h
  <2> QED
    BY <2>1, <2>3, <1>4
<1>8. CASE GetAndReduce
  <2>1. /\ handler.msg \in DOMAIN published /\ handler'.msg = handler.msg
        /\ handler'.pc \in {"save", "ack"}
        /\ Sound(log[published[handler.msg].tn], handler'.next)
    BY <1>8, GetFacts
  <2> QED
    BY <2>1, <1>4
<1>9. CASE Save
  <2>1. /\ handler \in Handling /\ handler.msg \in DOMAIN published
        /\ Sound(log[published[handler.msg].tn], handler.next)
    BY <1>9, SaveFacts DEF Save
  <2>2. /\ handler'.msg = handler.msg /\ handler'.pc = AfterSave(handler)
    BY <2>1, <1>9 DEF Save, Handling
  <2>3. handler'.pc = "mail" => Delivered(log[published[handler.msg].tn])
    BY <2>1, <2>2 DEF AfterSave, Sound, Delivered
  <2>4. handler'.pc # "save"
    BY <2>2 DEF AfterSave
  <2> QED
    BY <2>1, <2>2, <2>3, <2>4, <1>4
<1>10. CASE SendMail \/ SendMailFails \/ Notify \/ NotifyFails
  <2>1. handler \in Handling /\ handler.msg \in DOMAIN published
    BY <1>1, <1>10, Busy DEF SendMail, SendMailFails, Notify, NotifyFails, HandlerSound
  <2>2. handler'.msg = handler.msg /\ handler'.pc \in {"notify", "ack"}
    BY <2>1, <1>10 DEF SendMail, SendMailFails, Notify, NotifyFails, Handling
  <2> QED
    BY <2>1, <2>2, <1>4
<1>11. CASE Environment \/ Connect \/ Deliver \/ ConnectionLost
  BY <1>5, <1>6, <1>11 DEF Environment, Create, Scan, Announce, GiveUp, trackingVars, Connect, Deliver, ConnectionLost
<1>12. CASE GetFails \/ SaveFails \/ Ack \/ Crash
  BY <1>5, <1>12 DEF GetFails, SaveFails, Ack, Crash, Requeue, Done
<1>13. CASE \E tn \in TrackingNumbers : Expire(tn)
  BY <1>5, <1>6, <1>13 DEF Expire
<1>14. CASE \E a \in Readers : Serve(a)
  <2>1. handler' = handler
    BY <1>14, ServeFacts
  <2> QED
    BY <2>1, <1>5, <1>6
<1>15. CASE UNCHANGED vars
  BY <1>5, <1>6, <1>15 DEF vars, trackingVars
<1> QED
  BY <1>7, <1>8, <1>9, <1>10, <1>11, <1>12, <1>13, <1>14, <1>15 DEF Next, Consume

\* What the readers are about to write stays sound.
LEMMA ReadersStep ==
  ASSUME IInv, [Next]_vars
  PROVE  ReadersSound'
<1>1. TypeOK /\ ReadersSound
  BY DEF IInv
<1>2. \A tn \in TrackingNumbers : Continues(log[tn], log'[tn])
  BY StreamStep DEF IInv
<1>3. ASSUME NEW a \in Readers, api'[a] = api[a], api[a].pc # "idle"
      PROVE  ReaderSound(log'[api[a].tn], api[a])
  <2>1. ReaderSound(log[api[a].tn], api[a]) /\ api[a].tn \in TrackingNumbers
    BY <1>1, <1>3, Busy DEF ReadersSound, Reading
  <2> QED
    BY <2>1, <1>2, SoundContinues DEF ReaderSound, Continues
<1>4. CASE UNCHANGED api
  BY <1>3, <1>4 DEF ReadersSound
<1>5. CASE Crash
  BY <1>5 DEF Crash, ReadersSound
<1>6. CASE \E a \in Readers : Serve(a)
  <2>1. PICK a \in Readers : Serve(a)
    BY <1>6
  <2>2. /\ log' = log
        /\ \A b \in Readers : b # a => api'[b] = api[b]
        /\ api'[a].pc # "idle" => ReaderSound(log[api'[a].tn], api'[a])
    BY <2>1, ServeFacts DEF streamVars
  <2> QED
    BY <2>2, <1>3 DEF ReadersSound
<1> QED
  BY <1>4, <1>5, <1>6
     DEF Next, vars, trackingVars, Environment, Create, Scan, Announce, GiveUp, Consume, Connect, Deliver, Take,
         GetAndReduce, GetFails, Save, SaveFails, SendMail, SendMailFails, Notify, NotifyFails, Ack,
         ConnectionLost, Expire

-----------------------------------------------------------------------------
\* Mails and notifications.

\* A list of notifications names a parcel finitely often.
LEMMA PlacesFinite ==
  ASSUME NEW list \in Seq(TrackingNumbers), NEW tn
  PROVE  /\ IsFiniteSet(Places(list, tn))
         /\ Cardinality(Places(list, tn)) \in Nat
<1>1. IsFiniteSet(1..Len(list))
  BY FS_Interval
<1>2. Places(list, tn) \in SUBSET (1..Len(list))
  BY DEF Places
<1> QED
  BY <1>1, <1>2, FS_Subset, FS_CardinalityType

\* LPUSH and LTRIM: the list keeps its bound and names one parcel once more.
LEMMA PushedFacts ==
  ASSUME NEW list \in Seq(TrackingNumbers), Len(list) <= NotifyMax,
         NEW tn \in TrackingNumbers, NEW t
  PROVE  /\ Pushed(list, tn) \in Seq(TrackingNumbers)
         /\ Len(Pushed(list, tn)) <= NotifyMax
         /\ Cardinality(Places(Pushed(list, tn), t))
              <= Cardinality(Places(list, t)) + (IF t = tn THEN 1 ELSE 0)
<1> DEFINE new == Pushed(list, tn)
           N == Places(new, t)
           O == Places(list, t)
<1>1. /\ new \in Seq(TrackingNumbers) /\ Len(new) <= NotifyMax /\ Len(new) <= Len(list) + 1
      /\ Len(new) >= 1 /\ new[1] = tn
      /\ \A i \in 2..Len(new) : i - 1 \in 1..Len(list) /\ new[i] = list[i - 1]
  BY Bounds DEF Pushed
<1> HIDE DEF new
<1>2. /\ IsFiniteSet(N) /\ Cardinality(N) \in Nat
      /\ IsFiniteSet(O) /\ Cardinality(O) \in Nat
  BY <1>1, PlacesFinite
<1>3. N \ {1} \subseteq 2..Len(new)
  BY <1>1 DEF Places
<1>4. \A i \in N \ {1} : i - 1 \in O
  BY <1>1, <1>3 DEF Places
<1>5. 1 \in N => t = tn
  BY <1>1 DEF Places
<1> HIDE DEF N, O
<1> DEFINE f == [i \in N \ {1} |-> i - 1]
<1>6. f \in Injection(N \ {1}, O)
  BY <1>3, <1>4 DEF Injection, IsInjective
<1>7. Cardinality(N \ {1}) <= Cardinality(O)
  BY <1>2, <1>6, FS_Injection
<1>8. Cardinality(N \ {1}) = IF 1 \in N THEN Cardinality(N) - 1 ELSE Cardinality(N)
  BY <1>2, FS_RemoveElement
<1>9. Cardinality(N) <= Cardinality(O) + (IF t = tn THEN 1 ELSE 0)
  BY <1>2, <1>5, <1>7, <1>8
<1> QED
  BY <1>1, <1>9 DEF new, N, O

\* Mails are for delivered parcels, and notifications for mails.
LEMMA MailsStep ==
  ASSUME IInv, [Next]_vars
  PROVE  MailsCounted'
<1>1. TypeOK /\ MessagesTold /\ HandlerSound /\ MailsCounted
  BY DEF IInv
<1>2. /\ \A tn \in TrackingNumbers : Continues(log[tn], log'[tn])
      /\ Continues(published, published')
  BY StreamStep DEF IInv
<1>3. \A tn \in TrackingNumbers : Delivered(log[tn]) => Delivered(log'[tn])
  BY <1>2 DEF Continues, Delivered
<1>4. handler # HandlerIdle =>
        /\ handler.msg \in DOMAIN published
        /\ published[handler.msg].tn \in TrackingNumbers
        /\ published'[handler.msg] = published[handler.msg]
  BY <1>1, <1>2, StampedFacts DEF HandlerSound, Continues
<1>5. \A tn \in TrackingNumbers : Cardinality(Places(feed, tn)) \in Nat /\ mails[tn] \in Nat
  BY <1>1, PlacesFinite DEF TypeOK
<1> DEFINE Due(tn) == IF handler.pc = "notify" /\ published[handler.msg].tn = tn THEN 1 ELSE 0
<1>6. /\ \A tn \in TrackingNumbers : mails[tn] > 0 => Delivered(log[tn])
      /\ Len(feed) <= NotifyMax
      /\ \A tn \in TrackingNumbers : Cardinality(Places(feed, tn)) + Due(tn) <= mails[tn]
  BY <1>1 DEF MailsCounted
<1>7. CASE mails' = mails /\ feed' = feed /\ (handler' = handler \/ handler'.pc # "notify")
  <2>1. \A tn \in TrackingNumbers :
          handler'.pc = "notify" /\ published'[handler'.msg].tn = tn
            => handler.pc = "notify" /\ published[handler.msg].tn = tn
    BY <1>4, <1>7 DEF HandlerIdle
  <2>2. \A tn \in TrackingNumbers :
          Cardinality(Places(feed, tn))
            + (IF handler'.pc = "notify" /\ published'[handler'.msg].tn = tn THEN 1 ELSE 0)
            <= mails[tn]
    BY <2>1, <1>5, <1>6
  <2> QED
    BY <2>2, <1>3, <1>6, <1>7 DEF MailsCounted
<1>8. CASE SendMail
  <2> DEFINE t == published[handler.msg].tn
  <2>1. handler \in Handling /\ handler # HandlerIdle /\ handler.pc = "mail"
    BY <1>1, <1>8, Busy DEF SendMail
  <2>2. t \in TrackingNumbers /\ Delivered(log[t])
    BY <2>1, <1>1, <1>4 DEF HandlerSound
  <2>3. /\ handler'.pc = "notify" /\ handler'.msg = handler.msg
        /\ published' = published /\ feed' = feed
        /\ mails' = [mails EXCEPT ![t] = @ + 1]
    BY <2>1, <1>8 DEF SendMail, Handling, streamVars
  <2>4. \A tn \in TrackingNumbers : mails'[tn] = IF tn = t THEN mails[tn] + 1 ELSE mails[tn]
    BY <2>3, <1>1 DEF TypeOK
  <2>5. \A tn \in TrackingNumbers : Cardinality(Places(feed, tn)) <= mails[tn]
    BY <1>5, <1>6
  <2> HIDE DEF t
  <2>6. \A tn \in TrackingNumbers :
          Cardinality(Places(feed, tn)) + (IF t = tn THEN 1 ELSE 0) <= mails'[tn]
    BY <2>4, <2>5, <1>5
  <2>7. \A tn \in TrackingNumbers : mails'[tn] > 0 => Delivered(log'[tn])
    BY <2>2, <2>4, <1>3, <1>6
  <2> QED
    BY <2>3, <2>6, <2>7, <1>6 DEF MailsCounted, t
<1>9. CASE SendMailFails
  <2> DEFINE t == published[handler.msg].tn
  <2>1. handler \in Handling /\ handler # HandlerIdle /\ handler.pc = "mail"
    BY <1>1, <1>9, Busy DEF SendMailFails
  <2>2. t \in TrackingNumbers /\ Delivered(log[t])
    BY <2>1, <1>1, <1>4 DEF HandlerSound
  <2>3. /\ handler'.pc = "ack" /\ feed' = feed
        /\ mails' \in {mails, [mails EXCEPT ![t] = @ + 1]}
    BY <2>1, <1>9 DEF SendMailFails, Handling
  <2>4. \A tn \in TrackingNumbers :
          mails'[tn] = mails[tn] \/ (tn = t /\ mails'[tn] = mails[tn] + 1)
    BY <2>3, <1>1 DEF TypeOK
  <2> HIDE DEF t
  <2>5. \A tn \in TrackingNumbers : Cardinality(Places(feed, tn)) <= mails'[tn]
    BY <2>4, <1>5, <1>6
  <2>6. \A tn \in TrackingNumbers : mails'[tn] > 0 => Delivered(log'[tn])
    BY <2>2, <2>4, <1>3, <1>6
  <2> QED
    BY <2>3, <2>5, <2>6, <1>5, <1>6 DEF MailsCounted
<1>10. CASE Notify
  <2> DEFINE t == published[handler.msg].tn
  <2>1. handler \in Handling /\ handler # HandlerIdle /\ handler.pc = "notify"
    BY <1>1, <1>10, Busy DEF Notify
  <2>2. t \in TrackingNumbers
    BY <2>1, <1>4
  <2>3. /\ handler'.pc = "ack" /\ feed' = Pushed(feed, t) /\ mails' = mails
    BY <2>1, <1>10 DEF Notify, Handling
  <2>4. \A tn \in TrackingNumbers :
          Cardinality(Places(feed, tn)) + (IF t = tn THEN 1 ELSE 0) <= mails[tn]
    BY <2>1, <1>6
  <2> HIDE DEF t
  <2>5. /\ feed' \in Seq(TrackingNumbers) /\ Len(feed') <= NotifyMax
        /\ \A tn \in TrackingNumbers :
             Cardinality(Places(feed', tn))
               <= Cardinality(Places(feed, tn)) + (IF tn = t THEN 1 ELSE 0)
    BY <2>2, <2>3, <1>1, <1>6, PushedFacts DEF TypeOK
  <2>6. \A tn \in TrackingNumbers : Cardinality(Places(feed', tn)) \in Nat
    BY <2>5, PlacesFinite
  <2>7. \A tn \in TrackingNumbers : Cardinality(Places(feed', tn)) <= mails[tn]
    BY <2>4, <2>5, <2>6, <1>5
  <2> QED
    BY <2>3, <2>5, <2>6, <2>7, <1>3, <1>5, <1>6 DEF MailsCounted
<1>11. CASE Environment \/ Connect \/ Deliver \/ ConnectionLost
  BY <1>7, <1>11 DEF Environment, Create, Scan, Announce, GiveUp, trackingVars, Connect, Deliver, ConnectionLost
<1>12. CASE GetFails \/ SaveFails \/ Ack \/ Crash
  BY <1>7, <1>12 DEF GetFails, SaveFails, Ack, Crash, Requeue, Done, HandlerIdle
<1>13. CASE \E tn \in TrackingNumbers : Expire(tn)
  BY <1>7, <1>13 DEF Expire
<1>14. CASE \E a \in Readers : Serve(a)
  <2>1. handler' = handler /\ mails' = mails /\ feed' = feed
    BY <1>14, ServeFacts
  <2> QED
    BY <2>1, <1>7
<1>15. CASE UNCHANGED vars
  BY <1>7, <1>15 DEF vars, trackingVars
<1>16. CASE Take
  BY <1>7, <1>16 DEF Take
<1>17. CASE GetAndReduce
  <2>1. handler'.pc # "notify"
    BY <1>17, GetFacts
  <2> QED
    BY <2>1, <1>7, <1>17 DEF GetAndReduce
<1>18. CASE Save
  <2>1. handler \in Handling
    BY <1>1, <1>18, Busy DEF Save
  <2>2. handler'.pc # "notify"
    BY <2>1, <1>18 DEF Save, AfterSave, Handling
  <2> QED
    BY <2>2, <1>7, <1>18 DEF Save
<1>19. CASE NotifyFails
  <2>1. handler \in Handling
    BY <1>1, <1>19, Busy DEF NotifyFails
  <2>2. handler'.pc # "notify"
    BY <2>1, <1>19 DEF NotifyFails, Handling
  <2> QED
    BY <2>2, <1>7, <1>19 DEF NotifyFails
<1> QED
  BY <1>8, <1>9, <1>10, <1>11, <1>12, <1>13, <1>14, <1>15, <1>16, <1>17, <1>18, <1>19 DEF Next, Consume

\* What is answered for stays so, and a mail that is due becomes it.
LEMMA AnsweredStep ==
  ASSUME IInv, [Next]_vars, NEW tn \in TrackingNumbers
  PROVE  /\ Answered(tn) => Answered(tn)'
         /\ MailDue(tn) => MailDue(tn)' \/ Answered(tn)'
<1>1. TypeOK /\ HandlerSound
  BY DEF IInv
<1>2. mails \in [TrackingNumbers -> Nat] /\ mails[tn] \in Nat
  BY <1>1 DEF TypeOK
<1>3. handler.pc = "mail" =>
        /\ handler \in Handling /\ handler.msg \in DOMAIN published
        /\ published'[handler.msg] = published[handler.msg]
  <2>1. Continues(published, published')
    BY StreamStep DEF IInv
  <2>2. handler.pc = "mail" => handler \in Handling /\ handler.msg \in DOMAIN published
    BY <1>1, Busy DEF HandlerSound, HandlerIdle
  <2> QED
    BY <2>1, <2>2 DEF Continues
<1>4. CASE handler' = handler /\ mails' = mails /\ unmailed' = unmailed
  BY <1>3, <1>4 DEF Answered, MailDue
<1>5. CASE handler.pc # "mail" /\ mails' = mails /\ unmailed \subseteq unmailed'
  BY <1>5 DEF Answered, MailDue
<1>6. CASE SendMail \/ SendMailFails
  <2> DEFINE t == published[handler.msg].tn
  <2>1. /\ handler.pc = "mail"
        /\ \/ mails' = [mails EXCEPT ![t] = @ + 1] /\ unmailed' = unmailed
           \/ mails' = mails /\ unmailed' = unmailed \cup {t}
    BY <1>6 DEF SendMail, SendMailFails
  <2>2. MailDue(tn) <=> tn = t
    BY <2>1 DEF MailDue
  <2> HIDE DEF t
  <2>3. CASE mails' = [mails EXCEPT ![t] = @ + 1] /\ unmailed' = unmailed
    <3>1. mails'[tn] = IF tn = t THEN mails[tn] + 1 ELSE mails[tn]
      BY <2>3, <1>2
    <3> QED
      BY <3>1, <2>2, <2>3, <1>2 DEF Answered
  <2>4. CASE mails' = mails /\ unmailed' = unmailed \cup {t}
    BY <2>2, <2>4 DEF Answered
  <2> QED
    BY <2>1, <2>3, <2>4
<1>7. CASE Crash
  BY <1>7 DEF Crash, Answered
<1>8. CASE Environment \/ Connect \/ Deliver \/ ConnectionLost
  BY <1>4, <1>8 DEF Environment, Create, Scan, Announce, GiveUp, trackingVars, Connect, Deliver,
                    ConnectionLost
<1>9. CASE Take \/ GetAndReduce \/ GetFails \/ Save \/ SaveFails \/ Notify \/ NotifyFails \/ Ack
  <2>1. handler = HandlerIdle => handler.pc = "idle"
    BY DEF HandlerIdle
  <2>2. handler.pc # "mail"
    BY <2>1, <1>9 DEF Take, GetAndReduce, GetFails, Save, SaveFails, Notify, NotifyFails, Ack
  <2>3. mails' = mails
    BY <1>9 DEF Take, GetAndReduce, GetFails, Save, SaveFails, Notify, NotifyFails, Ack
  <2>4. unmailed \subseteq unmailed'
    BY <1>9 DEF Take, GetAndReduce, GetFails, Save, SaveFails, Notify, NotifyFails, Ack
  <2> QED
    BY <2>2, <2>3, <2>4, <1>5
<1>10. CASE \E t \in TrackingNumbers : Expire(t)
  BY <1>4, <1>10 DEF Expire
<1>11. CASE \E a \in Readers : Serve(a)
  <2>1. handler' = handler /\ mails' = mails /\ unmailed' = unmailed
    BY <1>11, ServeFacts
  <2> QED
    BY <2>1, <1>4
<1>12. CASE UNCHANGED vars
  BY <1>4, <1>12 DEF vars, trackingVars
<1> QED
  BY <1>6, <1>7, <1>8, <1>9, <1>10, <1>11, <1>12 DEF Next, Consume

\* Reducing takes no entry out of a timeline.
LEMMA ReduceKeepsWarmed ==
  ASSUME NEW state \in State, InOrder(state.events),
         NEW msg, EntryOf(msg) \in Event, Warmed(state.events)
  PROVE  Warmed(Reduce(state, msg).events)
<1> DEFINE new == Inserted(state.events, EntryOf(msg))
<1>1. CASE Applied(state.events, EntryOf(msg))
  BY <1>1, ReduceCases
<1>2. CASE ~Applied(state.events, EntryOf(msg))
  <2>1. (\A e \in Event : e.at \in Nat) /\ state.events \in Seq(Event)
    BY DEF Event, State
  <2>2. \A k \in DOMAIN state.events : \E i \in DOMAIN new : new[i] = state.events[k]
    BY <2>1, InsertedPlaces
  <2>3. Reduce(state, msg).events = new
    BY <1>2, ReduceCases
  <2> HIDE DEF new
  <2> QED
    BY <2>2, <2>3 DEF Warmed
<1> QED
  BY <1>1, <1>2

\* A delivery found when reading is answered for, by now or before: no mail is due
\* while the consumer reads.
LEMMA HandlerMailedStep ==
  ASSUME IInv, [Next]_vars
  PROVE  HandlerMailed'
<1>1. TypeOK /\ HandlerSound /\ MessagesTold /\ HandlerMailed /\ CacheSound /\ MailUnlessWarmed
  BY DEF IInv
<1>2. CASE handler'.pc # "save"
  BY <1>2 DEF HandlerMailed
<1>3. ASSUME handler' = handler, handler.pc = "save" PROVE HandlerMailed'
  <2>0. handler.msg \in DOMAIN published /\ published[handler.msg].tn \in TrackingNumbers
    BY <1>1, <1>3, StampedFacts DEF HandlerSound, HandlerIdle
  <2>1. PICK t \in TrackingNumbers : t = published[handler.msg].tn
    BY <2>0
  <2>2. published'[handler.msg] = published[handler.msg]
    BY <2>0, StreamStep DEF IInv, Continues
  <2>3. Answered(t) => Answered(t)'
    BY AnsweredStep
  <2>4. handler.before = "DELIVERED" /\ handler.next.status = "DELIVERED"
          => Warmed(handler.next.events) \/ Answered(t)
    BY <2>1, <1>1, <1>3 DEF HandlerMailed
  <2> QED
    BY <2>1, <2>2, <2>3, <2>4, <1>3 DEF HandlerMailed, Answered
<1>4. CASE handler' = handler
  BY <1>2, <1>3, <1>4
<1>5. CASE GetAndReduce
  <2> DEFINE t == published[handler.msg].tn
             current == Stored(t)
             next == Reduce(current, StampedMessage(handler.msg))
  <2>1. /\ handler.msg \in DOMAIN published
        /\ handler'.msg = handler.msg /\ handler'.before = current.status /\ handler'.next = next
        /\ published' = published /\ mails' = mails /\ unmailed' = unmailed
    BY <1>5, GetFacts DEF GetAndReduce, streamVars
  <2>2. t \in TrackingNumbers /\ EntryOf(StampedMessage(handler.msg)) \in Event
    BY <2>1, <1>1, StampedFacts
  <2>3. current \in State /\ InOrder(current.events)
    BY <2>2, <1>1, StoredFacts
  <2>4. Warmed(current.events) => Warmed(next.events)
    BY <2>2, <2>3, ReduceKeepsWarmed
  <2>5. current.status = "DELIVERED" => Cached(t) /\ current = redis[t]
    BY DEF Stored, EmptyState, Cached
  <2>6. ~MailDue(t)
    BY <1>5 DEF GetAndReduce, MailDue
  <2>7. current.status = "DELIVERED" => Warmed(current.events) \/ Answered(t)
    BY <2>2, <2>5, <2>6, <1>1 DEF MailUnlessWarmed, Answered
  <2> HIDE DEF current, next
  <2> QED
    BY <2>1, <2>4, <2>7 DEF HandlerMailed, Answered
<1>6. CASE Take
  BY <1>2, <1>6 DEF Take
<1>7. CASE Save \/ SendMail \/ SendMailFails \/ Notify \/ NotifyFails
  <2>1. handler \in Handling
    BY <1>1, <1>7, Busy DEF Save, SendMail, SendMailFails, Notify, NotifyFails
  <2>2. handler'.pc \in {"mail", "notify", "ack"}
    BY <2>1, <1>7 DEF Save, AfterSave, SendMail, SendMailFails, Notify, NotifyFails, Handling
  <2> QED
    BY <2>2, <1>2
<1>8. CASE GetFails \/ SaveFails \/ Ack \/ Crash
  <2>1. handler' = HandlerIdle
    BY <1>8 DEF GetFails, SaveFails, Ack, Crash, Requeue, Done
  <2> QED
    BY <2>1, <1>2 DEF HandlerIdle
<1>9. CASE Environment \/ Connect \/ Deliver \/ ConnectionLost
  BY <1>4, <1>9 DEF Environment, Create, Scan, Announce, GiveUp, trackingVars, Connect, Deliver,
                    ConnectionLost
<1>10. CASE \E tn \in TrackingNumbers : Expire(tn)
  BY <1>4, <1>10 DEF Expire
<1>11. CASE \E a \in Readers : Serve(a)
  BY <1>4, <1>11, ServeFacts
<1>12. CASE UNCHANGED vars
  BY <1>4, <1>12 DEF vars, trackingVars
<1> QED
  BY <1>5, <1>6, <1>7, <1>8, <1>9, <1>10, <1>11, <1>12 DEF Next, Consume

\* Whoever writes a delivered state answers for the mail: the consumer that found
\* none delivered sends it, the reader has warmed the delivery itself.
LEMMA MailShownStep ==
  ASSUME IInv, [Next]_vars
  PROVE  MailUnlessWarmed'
<1>1. /\ TypeOK /\ HandlerMailed /\ MailUnlessWarmed
      /\ redis \in [TrackingNumbers -> State \cup {Missing}]
  BY DEF IInv, TypeOK
<1> SUFFICES ASSUME NEW tn \in TrackingNumbers, redis'[tn] # Missing,
                    redis'[tn].status = "DELIVERED", ~Warmed(redis'[tn].events)
             PROVE  Answered(tn)' \/ MailDue(tn)'
  BY DEF MailUnlessWarmed, Cached, Answered
<1>2. /\ Answered(tn) => Answered(tn)'
      /\ MailDue(tn) => MailDue(tn)' \/ Answered(tn)'
  BY AnsweredStep
<1>3. CASE redis'[tn] = redis[tn]
  BY <1>1, <1>2, <1>3 DEF MailUnlessWarmed, Cached, Answered
<1>4. CASE Save \/ SaveFails
  <2> DEFINE t == published[handler.msg].tn
  <2>1. handler.pc = "save"
    BY <1>4 DEF Save, SaveFails
  <2>2. handler \in Handling /\ handler.msg \in DOMAIN published /\ t \in TrackingNumbers
    BY <2>1, SaveFacts
  <2>3. CASE tn # t
    <3>1. redis'[tn] = redis[tn]
      BY <2>3, <1>1, <1>4 DEF Save, SaveFails, Saved
    <3> QED
      BY <3>1, <1>3
  <2>4. ASSUME tn = t, redis' = [redis EXCEPT ![t] = handler.next], handler.before = "DELIVERED"
        PROVE  Answered(tn)'
    <3>1. redis'[tn] = handler.next
      BY <2>2, <2>4, <1>1
    <3> QED
      BY <3>1, <2>1, <2>4, <1>1, <1>2 DEF HandlerMailed
  <2>5. ASSUME tn = t, redis' = [redis EXCEPT ![t] = handler.next], handler.before # "DELIVERED"
        PROVE  AfterSave(handler) = "mail"
    <3>1. redis'[tn] = handler.next
      BY <2>2, <2>5, <1>1
    <3> QED
      BY <3>1, <2>5 DEF AfterSave
  <2>6. CASE tn = t /\ Save
    <3>1. /\ redis' = [redis EXCEPT ![t] = handler.next]
          /\ handler'.pc = AfterSave(handler) /\ handler'.msg = handler.msg /\ published' = published
      BY <2>2, <2>6 DEF Save, Saved, Handling, streamVars
    <3>2. AfterSave(handler) = "mail" => MailDue(tn)'
      BY <3>1, <2>6 DEF MailDue
    <3> QED
      BY <3>1, <3>2, <2>4, <2>5, <2>6
  <2>7. CASE tn = t /\ SaveFails
    <3>1. CASE redis' = redis
      BY <3>1, <1>3
    <3>2. CASE redis' # redis
      <4>1. /\ redis' = [redis EXCEPT ![t] = handler.next]
            /\ AfterSave(handler) = "mail" => t \in unmailed'
        BY <3>2, <2>7 DEF SaveFails, Saved
      <4> QED
        BY <4>1, <2>4, <2>5, <2>7 DEF Answered
    <3> QED
      BY <3>1, <3>2
  <2> QED
    BY <2>3, <2>6, <2>7, <1>4
<1>5. CASE \E t \in TrackingNumbers : Expire(t)
  BY <1>1, <1>3, <1>5 DEF Expire
<1>6. CASE \E a \in Readers : Serve(a)
  <2>1. PICK a \in Readers : Serve(a)
    BY <1>6
  <2>2. redis' # redis => api[a].pc = "warm" /\ redis' = Saved(api[a].tn, api[a].state)
    BY <2>1, ServeFacts
  <2>3. api[a].pc = "warm" /\ api[a].state.status = "DELIVERED" => Warmed(api[a].state.events)
    BY DEF IInv, ReadersSound, ReaderSound
  <2>4. redis'[tn] = redis[tn]
    BY <2>2, <2>3, <1>1 DEF Saved
  <2> QED
    BY <2>4, <1>3
<1>7. CASE redis' = redis
  BY <1>3, <1>7
<1> QED
  BY <1>4, <1>5, <1>6, <1>7
     DEF Next, vars, trackingVars, Environment, Create, Scan, Announce, GiveUp, Consume, Connect, Deliver,
         Take, GetAndReduce, GetFails, SendMail, SendMailFails, Notify, NotifyFails, Ack, ConnectionLost,
         Crash

-----------------------------------------------------------------------------
\* The invariant, and what it gives for any readers and faults.

\* Nothing is cached, read or sent at the start.
LEMMA InitInv == Init => IInv
<1> SUFFICES ASSUME Init PROVE IInv
  OBVIOUS
<1>1. [pc |-> "idle", code |-> 0] \in ReaderIdle
  BY DEF ReaderIdle
<1>2. TypeOK
  <2>1. StreamTypeOK
    BY DEF Init, StreamInit, StreamTypeOK
  <2>2. published = <<>> /\ DOMAIN published = {}
    BY DEF Init, StreamInit
  <2>3. api \in [Readers -> Reading \cup ReaderIdle]
    BY <1>1 DEF Init
  <2>4. /\ redis \in [TrackingNumbers -> State \cup {Missing}]
        /\ mails \in [TrackingNumbers -> Nat]
    BY DEF Init
  <2>5. ready \subseteq DOMAIN published /\ inflight \in Seq(DOMAIN published)
    BY <2>2 DEF Init
  <2>6. feed \in Seq(TrackingNumbers) /\ faults \in 0..MaxFaults
    BY Bounds DEF Init
  <2>9. unmailed \subseteq TrackingNumbers
    BY DEF Init
  <2>8. connected \in BOOLEAN
    BY DEF Init
  <2>7. handler \in Handling \cup {HandlerIdle}
    BY DEF Init
  <2> QED
    BY <2>1, <2>3, <2>4, <2>5, <2>6, <2>7, <2>8, <2>9 DEF TypeOK
<1>3. HistoryInStep /\ MessagesTold
  BY DEF Init, StreamInit, HistoryInStep, MessagesTold
<1>4. CacheSound /\ HandlerSound /\ ReadersSound
  BY DEF Init, CacheSound, Cached, HandlerSound, ReadersSound
<1>5. MailsCounted
  <2>1. feed = <<>> /\ Len(feed) = 0 /\ handler.pc = "idle"
    BY DEF Init, HandlerIdle
  <2>2. \A tn \in TrackingNumbers : mails[tn] = 0
    BY DEF Init
  <2>3. \A tn \in TrackingNumbers : Places(feed, tn) = {}
    BY <2>1 DEF Places
  <2>4. \A tn \in TrackingNumbers : Cardinality(Places(feed, tn)) = 0
    BY <2>3, FS_EmptySet
  <2> QED
    BY <2>1, <2>2, <2>4, Bounds DEF MailsCounted
<1>6. HandlerMailed /\ MailUnlessWarmed
  BY DEF Init, HandlerMailed, HandlerIdle, MailUnlessWarmed, Cached
<1> QED
  BY <1>2, <1>3, <1>4, <1>5, <1>6 DEF IInv

\* Every step keeps every part of the invariant.
LEMMA NextInv ==
  ASSUME IInv, [Next]_vars
  PROVE  IInv'
<1>1. HistoryInStep' /\ MessagesTold'
  BY StreamStep DEF IInv
<1> QED
  BY <1>1, TypeStep, CacheStep, HandlerStep, ReadersStep, MailsStep, HandlerMailedStep,
     MailShownStep DEF IInv

\* The strengthened invariant holds throughout.
THEOREM Invariance == Spec => []IInv
<1>1. IInv /\ [Next]_vars => IInv'
  BY NextInv
<1> QED
  BY InitInv, <1>1, PTL DEF Spec

\* Types are kept by every interleaving of the consumer, the readers and the faults.
THEOREM TypeCorrect == Spec => []TypeOK
<1>1. IInv => TypeOK
  BY DEF IInv
<1> QED
  BY Invariance, <1>1, PTL

\* The read model invents nothing, whatever the readers warm over it
\* (consumer.go:96-111, httpapi.go:42-62).
THEOREM ReadModelStaysReal == Spec => []ReadModelIsReal
<1>1. IInv => ReadModelIsReal
  BY DEF IInv, CacheSound, ReadModelIsReal, Sound, ToldBy, Reported
<1> QED
  BY Invariance, <1>1, PTL

\* The timeline is sorted whatever comes late, twice or from a reader
\* (projection.go:89-92).
THEOREM TimelineStaysSorted == Spec => []TimelineSorted
<1>1. IInv => TimelineSorted
  BY DEF IInv, CacheSound, TimelineSorted, Sound, InOrder
<1> QED
  BY Invariance, <1>1, PTL

\* The feed is bounded and names a parcel at most once for each accepted mail
\* (store.go:77-87).
THEOREM FeedStaysMailed == Spec => []FeedIsMailed
<1>1. IInv => FeedIsMailed
  <2> SUFFICES ASSUME IInv PROVE FeedIsMailed
    OBVIOUS
  <2>1. MailsCounted /\ TypeOK
    BY DEF IInv
  <2>2. ASSUME NEW tn \in TrackingNumbers
        PROVE  Cardinality(Places(feed, tn)) <= mails[tn]
    <3>1. Cardinality(Places(feed, tn)) \in Nat /\ mails[tn] \in Nat
      BY <2>1, PlacesFinite DEF TypeOK
    <3> QED
      BY <3>1, <2>1 DEF MailsCounted
  <2> QED
    BY <2>1, <2>2 DEF FeedIsMailed, MailsCounted, Places
<1> QED
  BY Invariance, <1>1, PTL

\* The email of a parcel shown as delivered is sent or about to be, unless a reader
\* warmed the delivery or a fault has cost it (consumer.go:105-126), for any readers
\* and any faults.
THEOREM MailSentUnlessWarmed == Spec => []MailUnlessWarmed
<1>1. IInv => MailUnlessWarmed
  BY DEF IInv
<1> QED
  BY Invariance, <1>1, PTL

-----------------------------------------------------------------------------
\* States as the reducer builds them from messages.

\* ev is the entry of a step of history.
EntryIn(history, ev) ==
  \E k \in DOMAIN history :
    ev = [status |-> history[k].status, type |-> history[k].type, at |-> Published(k)]

\* A state as the reducer builds it from messages about history.
Folded(history, state) ==
  /\ state.events # <<>>
  /\ \A i \in DOMAIN state.events : EntryIn(history, state.events[i])
  /\ NoRepeat(state.events)
  /\ state.status = state.events[Len(state.events)].status
  /\ state.previous # "" =>
       \E i \in 1..(Len(state.events) - 1) : state.events[i].status = state.previous

CacheFolded == \A tn \in TrackingNumbers : Cached(tn) => Folded(log[tn], redis[tn])

\* The message as the reducer gets it, and the state it is folded into.
Stamp(msg) == [msg EXCEPT !.at = Published(@)]

Base(cached) == IF cached = Missing THEN EmptyState ELSE cached

\* What was folded from a history was folded from one that goes on.
LEMMA FoldedContinues ==
  ASSUME NEW earlier, NEW later, NEW state,
         Continues(earlier, later), Folded(earlier, state)
  PROVE  Folded(later, state)
BY DEF Continues, Folded, EntryIn

\* Two entries of one step of a history have the same time, and conversely.
LEMMA SameStep ==
  ASSUME NEW history \in Seq(Entry), NEW e, NEW f, EntryIn(history, e), EntryIn(history, f)
  PROVE  /\ e.at = f.at => e = f
         /\ e.at \in Nat /\ f.at \in Nat
<1>1. PICK k \in DOMAIN history :
        e = [status |-> history[k].status, type |-> history[k].type, at |-> Published(k)]
  BY DEF EntryIn
<1>2. PICK l \in DOMAIN history :
        f = [status |-> history[l].status, type |-> history[l].type, at |-> Published(l)]
  BY DEF EntryIn
<1>3. e.at = Published(k) /\ f.at = Published(l) /\ k \in Nat /\ l \in Nat
  BY <1>1, <1>2
<1>4. e.at = f.at => k = l
  BY <1>3 DEF Published
<1> QED
  BY <1>1, <1>2, <1>3, <1>4, Instants

\* Folding one more message.
LEMMA ReduceFolds ==
  ASSUME NEW history, NEW state \in State, InOrder(state.events),
         state = EmptyState \/ Folded(history, state),
         NEW msg, EntryOf(msg) \in Event, EntryIn(history, EntryOf(msg))
  PROVE  /\ Folded(history, Reduce(state, msg))
         /\ Applied(Reduce(state, msg).events, EntryOf(msg))
         /\ \A ev : Applied(state.events, ev) => Applied(Reduce(state, msg).events, ev)
<1> DEFINE ev == EntryOf(msg)
           old == state.events
           new == Inserted(old, ev)
<1>1. CASE Applied(old, ev)
  <2>1. state # EmptyState
    BY <1>1, EmptyFacts
  <2> QED
    BY <2>1, <1>1, ReduceCases
<1>2. CASE ~Applied(old, ev)
  <2>1. (\A e \in Event : e.at \in Nat) /\ old \in Seq(Event) /\ ev \in Event
    BY DEF Event, State
  <2>2. /\ \A i \in DOMAIN new : new[i] = ev \/ \E k \in DOMAIN old : new[i] = old[k]
        /\ \E i \in DOMAIN new : new[i] = ev
        /\ \A k \in DOMAIN old : \E i \in DOMAIN new : i >= k /\ i <= k + 1 /\ new[i] = old[k]
        /\ new[Len(new)] = IF IsNewest(old, ev) THEN ev ELSE old[Len(old)]
    BY <2>1, InsertedPlaces
  <2>3. new \in Seq(Event) /\ Len(new) = Len(old) + 1
    BY <2>1, InsertedFacts
  <2>0. state = EmptyState => DOMAIN old = {} /\ state.status = ""
    <3>1. EmptyState.events = <<>> /\ DOMAIN <<>> = {}
      BY EmptyFacts
    <3>2. EmptyState.status = ""
      BY DEF EmptyState
    <3> QED
      BY <3>1, <3>2
  <2>4. NoRepeat(old)
    BY <2>0 DEF Folded, NoRepeat
  <2>5. NoRepeat(new)
    BY <2>1, <2>4, <1>2, InsertedOnce
  <2>6. /\ Reduce(state, msg).status = IF IsNewest(old, ev) THEN msg.status ELSE state.status
        /\ Reduce(state, msg).previous = IF IsNewest(old, ev) THEN state.status ELSE state.previous
        /\ Reduce(state, msg).events = new
    BY <1>2, ReduceCases
  <2>7. ev.status = msg.status
    BY DEF EntryOf
  <2>8. \A i \in DOMAIN old : EntryIn(history, old[i])
    BY <2>0 DEF Folded
  <2>9. state = EmptyState => IsNewest(old, ev) /\ state.status = ""
    BY <2>0 DEF IsNewest
  <2> HIDE DEF ev, old, new
  <2>10. \A i \in DOMAIN new : EntryIn(history, new[i])
    BY <2>2, <2>8 DEF ev
  <2>11. Reduce(state, msg).status = new[Len(new)].status
    BY <2>2, <2>6, <2>7, <2>9 DEF Folded, old
  <2>12. ASSUME Reduce(state, msg).previous # ""
         PROVE  \E i \in 1..(Len(new) - 1) : new[i].status = Reduce(state, msg).previous
    <3>1. PICK k \in DOMAIN old :
            /\ old[k].status = Reduce(state, msg).previous
            /\ ~IsNewest(old, ev) => k < Len(old)
      <4>1. Folded(history, state)
        BY <2>6, <2>9, <2>12
      <4>2. CASE IsNewest(old, ev)
        <5>1. old # <<>> /\ old[Len(old)].status = state.status
          BY <4>1 DEF Folded, old
        <5>2. Len(old) \in DOMAIN old
          BY <5>1, <2>1
        <5> QED
          BY <5>1, <5>2, <4>2, <2>6
      <4>3. CASE ~IsNewest(old, ev)
        <5>1. PICK i \in 1..(Len(old) - 1) : old[i].status = state.previous
          BY <4>1, <4>3, <2>6, <2>12 DEF Folded, old
        <5> QED
          BY <5>1, <4>3, <2>1, <2>6
      <4> QED
        BY <4>2, <4>3
    <3>2. PICK i \in DOMAIN new : i >= k /\ i <= k + 1 /\ new[i] = old[k]
      BY <2>2
    <3>3. CASE i # Len(new)
      <4>1. i \in 1..(Len(new) - 1)
        BY <3>3, <2>3
      <4> QED
        BY <4>1, <3>1, <3>2
    <3>4. CASE i = Len(new)
      <4>1. k = Len(old) /\ IsNewest(old, ev)
        BY <3>1, <3>2, <3>4, <2>1, <2>3
      <4>2. old[k] = ev
        BY <4>1, <3>2, <3>4, <2>2
      <4> QED
        BY <4>2, <1>2 DEF Applied, old, ev
    <3> QED
      BY <3>3, <3>4
  <2>13. new # <<>>
    BY <2>1, <2>3
  <2>14. Folded(history, Reduce(state, msg))
    BY <2>5, <2>6, <2>10, <2>11, <2>12, <2>13 DEF Folded
  <2>15. Applied(new, ev)
    BY <2>2 DEF Applied
  <2>16. ASSUME NEW e, Applied(old, e) PROVE Applied(new, e)
    BY <2>2, <2>16 DEF Applied
  <2> QED
    BY <2>6, <2>14, <2>15, <2>16 DEF ev, old
<1> QED
  BY <1>1, <1>2

\* The headline moves only with a newer last entry (docs/architecture.md:49).
LEMMA HeadlineMoves ==
  ASSUME NEW history \in Seq(Entry), NEW state \in State, InOrder(state.events),
         Folded(history, state),
         NEW msg, EntryOf(msg) \in Event, EntryIn(history, EntryOf(msg)),
         Reduce(state, msg).status # state.status
  PROVE  LET events == Reduce(state, msg).events
         IN events[Len(events)].at > state.events[Len(state.events)].at
<1> DEFINE ev == EntryOf(msg)
           old == state.events
           new == Inserted(old, ev)
<1>1. ~Applied(old, ev) /\ IsNewest(old, ev)
  BY ReduceCases
<1>2. (\A e \in Event : e.at \in Nat) /\ old \in Seq(Event) /\ ev \in Event /\ old # <<>>
  BY DEF Event, State, Folded
<1>3. new[Len(new)] = ev
  BY <1>1, <1>2, InsertedPlaces
<1>4. Reduce(state, msg).events = new
  BY <1>1, ReduceCases
<1> HIDE DEF ev, old, new
<1>5. Len(old) \in DOMAIN old
  BY <1>2
<1>6. old[Len(old)].at <= ev.at /\ old[Len(old)] # ev
  BY <1>1, <1>5 DEF IsNewest, Applied
<1>7. EntryIn(history, ev) /\ EntryIn(history, old[Len(old)])
  BY <1>5 DEF Folded, ev, old
<1>8. old[Len(old)].at # ev.at /\ old[Len(old)].at \in Nat /\ ev.at \in Nat
  BY <1>6, <1>7, SameStep
<1> QED
  BY <1>3, <1>4, <1>6, <1>8 DEF old

\* Nothing is newer than the delivery: its headline stays.
LEMMA DeliveredStays ==
  ASSUME NEW history \in Seq(Entry),
         \A k \in DOMAIN history : history[k].status = "DELIVERED" => k = Len(history),
         NEW state \in State, Folded(history, state), state.status = "DELIVERED",
         NEW msg, EntryIn(history, EntryOf(msg))
  PROVE  Reduce(state, msg).status = "DELIVERED"
<1> DEFINE ev == EntryOf(msg)
           old == state.events
<1>1. old \in Seq(Event) /\ old # <<>>
  BY DEF State, Folded
<1>2. Len(old) \in DOMAIN old
  BY <1>1
<1>3. PICK k \in DOMAIN history :
        old[Len(old)] = [status |-> history[k].status, type |-> history[k].type, at |-> Published(k)]
  BY <1>2 DEF Folded, EntryIn
<1>4. k = Len(history)
  <2>1. old[Len(old)].status = "DELIVERED"
    BY DEF Folded
  <2> HIDE DEF old
  <2>2. history[k].status = "DELIVERED"
    BY <2>1, <1>3
  <2> QED
    BY <2>2
<1>5. PICK l \in DOMAIN history :
        ev = [status |-> history[l].status, type |-> history[l].type, at |-> Published(l)]
  BY DEF EntryIn
<1>6. l <= k /\ k \in Nat /\ l \in Nat
  BY <1>4
<1>7. IsNewest(old, ev) => Applied(old, ev)
  <2> SUFFICES ASSUME old[Len(old)].at <= ev.at PROVE old[Len(old)] = ev
    BY <1>2 DEF IsNewest, Applied
  <2>1. Published(k) <= Published(l)
    BY <1>3, <1>5
  <2>2. k = l
    BY <2>1, <1>6 DEF Published
  <2> QED
    BY <2>2, <1>3, <1>5
<1> QED
  BY <1>7, ReduceCases

\* The handled message and the state it is folded into.
LEMMA HandledFacts ==
  ASSUME IInv, CacheFolded, handler # HandlerIdle
  PROVE  LET msg == published[handler.msg]
             base == Base(redis[msg.tn])
         IN /\ handler \in Handling /\ handler.msg \in DOMAIN published
            /\ msg.tn \in TrackingNumbers
            /\ log[msg.tn] \in Seq(Entry)
            /\ \A k \in DOMAIN log[msg.tn] :
                 log[msg.tn][k].status = "DELIVERED" => k = Len(log[msg.tn])
            /\ EntryOf(Stamp(msg)) \in Event
            /\ EntryIn(log[msg.tn], EntryOf(Stamp(msg)))
            /\ base \in State /\ InOrder(base.events)
            /\ redis[msg.tn] = Missing => base = EmptyState
            /\ redis[msg.tn] # Missing => base = redis[msg.tn] /\ Folded(log[msg.tn], base)
<1> DEFINE n == handler.msg
           msg == published[n]
           base == Base(redis[msg.tn])
<1>1. TypeOK /\ HistoryInStep /\ MessagesTold /\ CacheSound /\ CacheFolded
  BY DEF IInv
<1>2. handler \in Handling /\ n \in DOMAIN published
  BY <1>1, Busy DEF IInv, HandlerSound
<1>3. Stamp(msg) = StampedMessage(n)
  BY DEF Stamp, StampedMessage
<1>4. /\ msg.tn \in TrackingNumbers
      /\ EntryOf(Stamp(msg)) \in Event
      /\ Stamp(msg).at = Published(msg.at)
      /\ Stamp(msg).type = msg.type
      /\ Stamp(msg).status = msg.status
  BY <1>1, <1>2, <1>3, StampedFacts
<1>5. /\ msg.at \in DOMAIN log[msg.tn]
      /\ msg = Announcement(msg.tn, log[msg.tn][msg.at])
  BY <1>1, <1>2 DEF MessagesTold
<1>6. /\ msg.type = log[msg.tn][msg.at].type
      /\ msg.status = log[msg.tn][msg.at].status
  BY <1>5 DEF Announcement
<1>7. EntryIn(log[msg.tn], EntryOf(Stamp(msg)))
  BY <1>4, <1>5, <1>6 DEF EntryIn, EntryOf
<1>8. base = Stored(msg.tn)
  BY DEF Base, Stored
<1>9. base \in State /\ InOrder(base.events)
  BY <1>1, <1>4, <1>8, StoredFacts
<1>10. /\ redis[msg.tn] = Missing => base = EmptyState
       /\ redis[msg.tn] # Missing => base = redis[msg.tn] /\ Folded(log[msg.tn], base)
  BY <1>1, <1>4 DEF Base, CacheFolded, Cached
<1>11. /\ log[msg.tn] \in Seq(Entry)
       /\ \A k \in DOMAIN log[msg.tn] :
            log[msg.tn][k].status = "DELIVERED" => k = Len(log[msg.tn])
  BY <1>1, <1>4 DEF TypeOK, StreamTypeOK, HistoryInStep
<1> QED
  BY <1>2, <1>4, <1>7, <1>9, <1>10, <1>11

\* An event is in a timeline by its time and type only.
LEMMA AppliedEntry ==
  ASSUME NEW events, NEW msg
  PROVE  Applied(events, EntryOf(msg)) <=> Applied(events, msg)
BY DEF Applied, EntryOf

\* The state about to be saved is folded from the history, has the message, and
\* has lost nothing.
LEMMA NextFacts ==
  ASSUME IInv, CacheFolded, handler # HandlerIdle
  PROVE  LET msg == published[handler.msg]
             base == Base(redis[msg.tn])
             next == Reduce(base, Stamp(msg))
         IN /\ Folded(log[msg.tn], next)
            /\ Applied(next.events, Stamp(msg))
            /\ \A ev : Applied(base.events, ev) => Applied(next.events, ev)
            /\ redis[msg.tn] # Missing /\ base.status = "DELIVERED" => next.status = "DELIVERED"
            /\ redis[msg.tn] # Missing /\ next.status # base.status =>
                 next.events[Len(next.events)].at > base.events[Len(base.events)].at
<1> DEFINE msg == published[handler.msg]
           base == Base(redis[msg.tn])
           next == Reduce(base, Stamp(msg))
<1>1. /\ log[msg.tn] \in Seq(Entry)
      /\ \A k \in DOMAIN log[msg.tn] :
           log[msg.tn][k].status = "DELIVERED" => k = Len(log[msg.tn])
      /\ EntryOf(Stamp(msg)) \in Event
      /\ EntryIn(log[msg.tn], EntryOf(Stamp(msg)))
      /\ base \in State /\ InOrder(base.events)
      /\ base = EmptyState \/ Folded(log[msg.tn], base)
      /\ redis[msg.tn] # Missing => Folded(log[msg.tn], base)
  BY HandledFacts
<1> HIDE DEF msg, base
<1>2. /\ Folded(log[msg.tn], next)
      /\ Applied(next.events, EntryOf(Stamp(msg)))
      /\ \A ev : Applied(base.events, ev) => Applied(next.events, ev)
  BY <1>1, ReduceFolds
<1>3. Applied(next.events, Stamp(msg))
  BY <1>2, AppliedEntry
<1>4. ASSUME redis[msg.tn] # Missing, base.status = "DELIVERED"
      PROVE  next.status = "DELIVERED"
  BY <1>1, <1>4, DeliveredStays
<1>5. ASSUME redis[msg.tn] # Missing, next.status # base.status
      PROVE  next.events[Len(next.events)].at > base.events[Len(base.events)].at
  BY <1>1, <1>5, HeadlineMoves
<1> QED
  BY <1>2, <1>3, <1>4, <1>5 DEF msg, base

-----------------------------------------------------------------------------
\* Without readers, the cache holds what the reducer made of the messages; entries
\* may expire.

HandlerFolded == handler.pc = "save" => Folded(log[published[handler.msg].tn], handler.next)

FInv ==
  /\ IInv
  /\ CacheFolded
  /\ HandlerFolded

\* The consumer and expiry are the only ones who write to the cache.
LEMMA UnreadWrites ==
  ASSUME Readers = {}, IInv, [Next]_vars
  PROVE  \/ redis' = redis
         \/ \E tn \in TrackingNumbers : redis' = [redis EXCEPT ![tn] = Missing]
         \/ /\ handler.pc = "save" /\ published[handler.msg].tn \in TrackingNumbers
            /\ redis' = [redis EXCEPT ![published[handler.msg].tn] = handler.next]
<1>1. CASE Save \/ SaveFails
  <2>1. handler.pc = "save"
    BY <1>1 DEF Save, SaveFails
  <2>2. published[handler.msg].tn \in TrackingNumbers
    BY <2>1, SaveFacts
  <2> QED
    BY <2>1, <2>2, <1>1 DEF Save, SaveFails, Saved
<1>2. CASE \E tn \in TrackingNumbers : Expire(tn)
  BY <1>2 DEF Expire
<1>3. CASE \E a \in Readers : Serve(a)
  BY <1>3
<1>4. CASE UNCHANGED redis
  BY <1>4
<1> QED
  BY <1>1, <1>2, <1>3, <1>4
     DEF Next, vars, trackingVars, Environment, Create, Scan, Announce, GiveUp, Consume, Connect, Deliver, Take,
         GetAndReduce, GetFails, SendMail, SendMailFails, Notify, NotifyFails, Ack, ConnectionLost, Crash

\* Whatever is read before and written after an expiry was folded from the history.
LEMMA UnreadStep ==
  ASSUME Readers = {}, FInv, [Next]_vars
  PROVE  CacheFolded' /\ HandlerFolded'
<1>1. /\ IInv /\ CacheFolded /\ HandlerFolded
      /\ redis \in [TrackingNumbers -> State \cup {Missing}]
      /\ HandlerSound
  BY DEF FInv, IInv, TypeOK
<1>2. /\ \A tn \in TrackingNumbers : Continues(log[tn], log'[tn])
      /\ Continues(published, published')
  BY <1>1, StreamStep DEF IInv
<1>3. CacheFolded'
  <2> SUFFICES ASSUME NEW tn \in TrackingNumbers, redis'[tn] # Missing
               PROVE  Folded(log[tn], redis'[tn])
    BY <1>2, FoldedContinues DEF CacheFolded, Cached
  <2>1. CASE redis' = redis
    BY <2>1, <1>1 DEF CacheFolded, Cached
  <2>2. CASE \E t \in TrackingNumbers : redis' = [redis EXCEPT ![t] = Missing]
    BY <2>2, <1>1 DEF CacheFolded, Cached
  <2>3. ASSUME handler.pc = "save", published[handler.msg].tn \in TrackingNumbers,
               redis' = [redis EXCEPT ![published[handler.msg].tn] = handler.next]
        PROVE  Folded(log[tn], redis'[tn])
    BY <2>3, <1>1 DEF CacheFolded, Cached, HandlerFolded
  <2> QED
    BY <1>1, <2>1, <2>2, <2>3, UnreadWrites
<1>4. HandlerFolded'
  <2>1. CASE handler'.pc # "save"
    BY <2>1 DEF HandlerFolded
  <2>2. ASSUME handler' = handler, handler.pc = "save" PROVE HandlerFolded'
    <3>1. handler.msg \in DOMAIN published /\ Folded(log[published[handler.msg].tn], handler.next)
      BY <2>2, <1>1 DEF HandlerSound, HandlerIdle, HandlerFolded
    <3>2. published'[handler.msg] = published[handler.msg] /\ published[handler.msg].tn \in TrackingNumbers
      BY <2>2, <3>1, <1>1, <1>2, HandledFacts DEF Continues, HandlerIdle
    <3>3. Folded(log'[published[handler.msg].tn], handler.next)
      BY <3>1, <3>2, <1>2, FoldedContinues
    <3> QED
      BY <2>2, <3>2, <3>3 DEF HandlerFolded
  <2>3. CASE handler' = handler
    BY <2>1, <2>2, <2>3
  <2>4. CASE GetAndReduce
    <3> DEFINE msg == published[handler.msg]
               base == Base(redis[msg.tn])
               next == Reduce(base, Stamp(msg))
    <3>1. handler # HandlerIdle
      BY <2>4 DEF GetAndReduce, HandlerIdle
    <3>2. Stamp(msg) = StampedMessage(handler.msg) /\ base = Stored(msg.tn)
      BY DEF Stamp, StampedMessage, Base, Stored
    <3>3. /\ handler'.msg = handler.msg /\ handler'.next = next
          /\ published' = published /\ log' = log
      BY <1>1, <2>4, <3>2, GetFacts DEF GetAndReduce, streamVars
    <3>4. Folded(log[msg.tn], next)
      BY <1>1, <3>1, NextFacts
    <3> HIDE DEF next
    <3> QED
      BY <3>3, <3>4 DEF HandlerFolded
  <2>5. CASE Take \/ Save \/ SendMail \/ SendMailFails \/ Notify \/ NotifyFails
    <3>1. CASE Take
      BY <3>1, <2>1 DEF Take
    <3>2. CASE ~Take
      <4>1. handler \in Handling
        BY <1>1, <2>5, <3>2, Busy DEF Save, SendMail, SendMailFails, Notify, NotifyFails, IInv
      <4>2. handler'.pc \in {"mail", "notify", "ack"}
        BY <4>1, <2>5, <3>2 DEF Save, AfterSave, SendMail, SendMailFails, Notify, NotifyFails, Handling
      <4> QED
        BY <4>2, <2>1
    <3> QED
      BY <3>1, <3>2
  <2>6. CASE GetFails \/ SaveFails \/ Ack \/ Crash
    <3>1. handler' = HandlerIdle
      BY <2>6 DEF GetFails, SaveFails, Ack, Crash, Requeue, Done
    <3> QED
      BY <3>1, <2>1 DEF HandlerIdle
  <2> QED
    BY <2>3, <2>4, <2>5, <2>6
       DEF Next, Consume, vars, trackingVars, Environment, Create, Scan, Announce, GiveUp, Connect, Deliver,
           ConnectionLost, Expire
<1> QED
  BY <1>3, <1>4

\* Without readers every timeline is folded from messages.
THEOREM UnreadInvariance ==
  ASSUME Readers = {}
  PROVE  Spec => []FInv
<1>1. Init => FInv
  <2> SUFFICES ASSUME Init PROVE FInv
    OBVIOUS
  <2>1. /\ IInv
        /\ \A tn \in TrackingNumbers : redis[tn] = Missing
        /\ handler.pc = "idle"
    BY InitInv DEF Init, HandlerIdle
  <2> QED
    BY <2>1 DEF FInv, CacheFolded, Cached, HandlerFolded
<1>2. FInv /\ [Next]_vars => FInv'
  BY NextInv, UnreadStep DEF FInv
<1> QED
  BY <1>1, <1>2, PTL DEF Spec

\* Redelivered, duplicated and reordered messages enter the timeline once
\* (README.md:148).
THEOREM NothingEntersTwice ==
  ASSUME Readers = {}
  PROVE  Spec => []NothingTwice
<1>1. FInv => NothingTwice
  <2> SUFFICES ASSUME FInv, NEW tn \in TrackingNumbers, Cached(tn),
                      NEW i \in DOMAIN redis[tn].events, NEW j \in DOMAIN redis[tn].events,
                      redis[tn].events[i].type = redis[tn].events[j].type,
                      Instant(redis[tn].events[i].at) = Instant(redis[tn].events[j].at)
               PROVE  i = j
    BY DEF NothingTwice
  <2> DEFINE e == redis[tn].events[i]
             f == redis[tn].events[j]
  <2>1. Folded(log[tn], redis[tn]) /\ log[tn] \in Seq(Entry)
    BY DEF FInv, IInv, TypeOK, StreamTypeOK, CacheFolded
  <2>a. EntryIn(log[tn], redis[tn].events[i]) /\ EntryIn(log[tn], redis[tn].events[j])
    BY <2>1 DEF Folded
  <2>b. EntryIn(log[tn], e) /\ EntryIn(log[tn], f)
    BY <2>a
  <2>c. e.type = f.type /\ Instant(e.at) = Instant(f.at)
    OBVIOUS
  <2> HIDE DEF e, f
  <2>2. PICK k \in DOMAIN log[tn] : e.at = Published(k)
    BY <2>b DEF EntryIn
  <2>3. PICK l \in DOMAIN log[tn] : f.at = Published(l)
    BY <2>b DEF EntryIn
  <2>4. k \in Nat /\ l \in Nat
    BY <2>1
  <2>5. k = l
    BY <2>c, <2>2, <2>3, <2>4, Instants
  <2> QED
    BY <2>1, <2>c, <2>2, <2>3, <2>5 DEF Folded, NoRepeat, e, f
<1> QED
  BY <1>1, UnreadInvariance, PTL

\* "Only the chronologically newest event drives the headline status"
\* (projection.go:81), whatever order the messages are handled in.
THEOREM HeadlineStaysNewest ==
  ASSUME Readers = {}
  PROVE  Spec => []HeadlineIsNewest
<1>1. FInv => HeadlineIsNewest
  BY DEF FInv, CacheFolded, Folded, HeadlineIsNewest
<1> QED
  BY <1>1, UnreadInvariance, PTL

-----------------------------------------------------------------------------
\* The consumer alone: nobody else writes to the cache and nothing expires.

Alone == Readers = {} /\ "expiry" \notin Faults

\* Between Get and Save nothing changes the state read; after Save it has the message.
HandlerFresh ==
  LET msg == published[handler.msg] IN
  /\ handler.pc = "save" =>
       /\ handler.before = Base(redis[msg.tn]).status
       /\ handler.next = Reduce(Base(redis[msg.tn]), Stamp(msg))
  /\ handler.pc \in {"mail", "notify", "ack"} =>
       redis[msg.tn] # Missing /\ Applied(redis[msg.tn].events, Stamp(msg))

\* tn is shown as delivered.
ShownDelivered(tn) == Cached(tn) /\ redis[tn].status = "DELIVERED"

\* The mail belongs to the step into DELIVERED, which happens once.
MailOnce ==
  \A tn \in TrackingNumbers :
    /\ mails[tn] <= 1
    /\ mails[tn] = 1 \/ MailDue(tn) => ShownDelivered(tn)
    /\ MailDue(tn) => mails[tn] = 0

AInv ==
  /\ IInv
  /\ CacheFolded
  /\ HandlerFresh
  /\ AckedIsApplied
  /\ MailOnce

\* The consumer is the only one who writes to the cache.
LEMMA AloneWrites ==
  ASSUME Alone, AInv, [Next]_vars
  PROVE  \/ redis' = redis
         \/ /\ Save \/ SaveFails
            /\ handler # HandlerIdle
            /\ published[handler.msg].tn \in TrackingNumbers
            /\ redis' = [redis EXCEPT ![published[handler.msg].tn] =
                 Reduce(Base(redis[published[handler.msg].tn]), Stamp(published[handler.msg]))]
<1>1. CASE Save \/ SaveFails
  <2>1. handler.pc = "save" /\ handler # HandlerIdle
    BY <1>1 DEF Save, SaveFails, HandlerIdle
  <2>2. /\ published[handler.msg].tn \in TrackingNumbers
        /\ handler.next = Reduce(Base(redis[published[handler.msg].tn]), Stamp(published[handler.msg]))
    BY <2>1, HandledFacts DEF AInv, HandlerFresh
  <2> QED
    BY <2>1, <2>2, <1>1 DEF Save, SaveFails, Saved
<1>2. CASE \E tn \in TrackingNumbers : Expire(tn)
  BY <1>2 DEF Expire, Fault, Alone
<1>3. CASE \E a \in Readers : Serve(a)
  BY <1>3 DEF Alone
<1>4. CASE UNCHANGED redis
  BY <1>4
<1> QED
  BY <1>1, <1>2, <1>3, <1>4
     DEF Next, vars, trackingVars, Environment, Create, Scan, Announce, GiveUp, Consume, Connect, Deliver, Take,
         GetAndReduce, GetFails, SendMail, SendMailFails, Notify, NotifyFails, Ack, ConnectionLost, Crash

\* A cached state stays folded from its history, and no event leaves its timeline.
LEMMA FoldedStep ==
  ASSUME Alone, AInv, [Next]_vars
  PROVE  /\ CacheFolded'
         /\ \A tn \in TrackingNumbers : redis[tn] # Missing =>
              /\ redis'[tn] # Missing
              /\ \A ev : Applied(redis[tn].events, ev) => Applied(redis'[tn].events, ev)
<1>1. /\ redis \in [TrackingNumbers -> State \cup {Missing}]
      /\ \A tn \in TrackingNumbers : redis[tn] # Missing => Folded(log[tn], redis[tn])
  BY DEF AInv, IInv, TypeOK, CacheFolded, Cached
<1>2. \A tn \in TrackingNumbers : Continues(log[tn], log'[tn])
  BY StreamStep DEF AInv, IInv
<1>3. ASSUME NEW tn \in TrackingNumbers
      PROVE  /\ redis'[tn] # Missing => Folded(log[tn], redis'[tn])
             /\ redis[tn] # Missing =>
                  /\ redis'[tn] # Missing
                  /\ \A ev : Applied(redis[tn].events, ev) => Applied(redis'[tn].events, ev)
  <2>1. CASE redis' = redis
    BY <2>1, <1>1
  <2>2. CASE redis' # redis
    <3> DEFINE msg == published[handler.msg]
               base == Base(redis[msg.tn])
               next == Reduce(base, Stamp(msg))
    <3>1. handler # HandlerIdle /\ msg.tn \in TrackingNumbers /\ redis' = [redis EXCEPT ![msg.tn] = next]
      BY <2>2, AloneWrites
    <3>2. /\ Folded(log[msg.tn], next)
          /\ \A ev : Applied(base.events, ev) => Applied(next.events, ev)
      BY <3>1, NextFacts DEF AInv
    <3>3. redis[msg.tn] # Missing => base = redis[msg.tn]
      BY DEF Base
    <3>4. next # Missing
      <4>1. base \in State /\ InOrder(base.events) /\ EntryOf(Stamp(msg)) \in Event
        BY <3>1, HandledFacts DEF AInv
      <4>2. DOMAIN next = {"status", "previous", "events"}
        BY <4>1, ReduceCases DEF State
      <4>3. DOMAIN Missing = {"status"}
        BY DEF Missing
      <4> QED
        BY <4>2, <4>3
    <3> HIDE DEF msg, base, next
    <3>5. CASE tn = msg.tn
      BY <3>1, <3>2, <3>3, <3>4, <3>5, <1>1
    <3>6. CASE tn # msg.tn
      BY <3>1, <3>6, <1>1
    <3> QED
      BY <3>5, <3>6
  <2> QED
    BY <2>1, <2>2
<1>4. CacheFolded'
  BY <1>2, <1>3, FoldedContinues DEF CacheFolded, Cached
<1> QED
  BY <1>3, <1>4

\* What is read stays fresh until it is written: nothing runs in between that
\* could change the state of the parcel.
LEMMA FreshStep ==
  ASSUME Alone, AInv, [Next]_vars
  PROVE  HandlerFresh'
<1>1. TypeOK /\ HandlerSound /\ HandlerFresh
  BY DEF AInv, IInv
<1>2. handler # HandlerIdle =>
        /\ handler \in Handling /\ handler.msg \in DOMAIN published
        /\ published'[handler.msg] = published[handler.msg]
        /\ published[handler.msg].tn \in TrackingNumbers
  BY <1>1, HandledFacts, StreamStep DEF AInv, IInv, Continues
<1>3. CASE handler'.pc \notin {"save", "mail", "notify", "ack"}
  BY <1>3 DEF HandlerFresh
<1>4. CASE handler' = handler /\ redis' = redis
  <2>1. CASE handler = HandlerIdle
    BY <2>1, <1>3, <1>4 DEF HandlerIdle
  <2>2. CASE handler # HandlerIdle
    BY <2>2, <1>1, <1>2, <1>4 DEF HandlerFresh
  <2> QED
    BY <2>1, <2>2
<1>5. CASE GetAndReduce
  <2> DEFINE msg == published[handler.msg]
             base == Base(redis[msg.tn])
             next == Reduce(base, Stamp(msg))
  <2>1. handler # HandlerIdle
    BY <1>5 DEF GetAndReduce, HandlerIdle
  <2>2. Stamp(msg) = StampedMessage(handler.msg) /\ base = Stored(msg.tn)
    BY DEF Stamp, StampedMessage, Base, Stored
  <2>3. /\ handler'.msg = handler.msg /\ handler'.before = base.status /\ handler'.next = next
        /\ handler'.pc = IF next = base THEN "ack" ELSE "save"
        /\ redis' = redis /\ published' = published
    BY <1>5, <2>2, GetFacts DEF AInv, GetAndReduce, streamVars
  <2>4. Applied(next.events, Stamp(msg))
    BY <2>1, NextFacts DEF AInv
  <2>5. ASSUME next = base PROVE redis[msg.tn] # Missing /\ Applied(redis[msg.tn].events, Stamp(msg))
    BY <2>4, <2>5, EmptyFacts DEF Base
  <2> HIDE DEF msg, base, next
  <2>6. handler'.pc = "save" =>
          /\ handler'.before = Base(redis'[published'[handler'.msg].tn]).status
          /\ handler'.next = Reduce(Base(redis'[published'[handler'.msg].tn]), Stamp(published'[handler'.msg]))
    BY <2>3 DEF msg, base, next
  <2>7. handler'.pc # "save" =>
          /\ redis'[published'[handler'.msg].tn] # Missing
          /\ Applied(redis'[published'[handler'.msg].tn].events, Stamp(published'[handler'.msg]))
    BY <2>3, <2>5 DEF msg
  <2>8. handler'.pc \in {"save", "ack"}
    BY <2>3
  <2> QED
    BY <2>6, <2>7, <2>8 DEF HandlerFresh
<1>6. CASE Save
  <2> DEFINE msg == published[handler.msg]
             base == Base(redis[msg.tn])
             next == Reduce(base, Stamp(msg))
  <2>1. handler # HandlerIdle /\ handler.pc = "save"
    BY <1>6 DEF Save, HandlerIdle
  <2>2. handler.next = next
    BY <2>1, <1>1 DEF HandlerFresh
  <2>3. /\ handler'.msg = handler.msg /\ handler'.pc \in {"mail", "ack"}
        /\ published' = published /\ redis' = [redis EXCEPT ![msg.tn] = next]
    BY <2>1, <2>2, <1>2, <1>6 DEF Save, Saved, AfterSave, Handling, streamVars
  <2>4. Applied(next.events, Stamp(msg)) /\ Folded(log[msg.tn], next)
    BY <2>1, NextFacts DEF AInv
  <2>5. next # Missing
    <3>1. handler.next \in State
      BY <2>1, <1>2 DEF Handling
    <3>2. DOMAIN handler.next = {"status", "previous", "events"} /\ DOMAIN Missing = {"status"}
      BY <3>1 DEF State, Missing
    <3> QED
      BY <3>2, <2>2
  <2>6. redis'[msg.tn] = next
    BY <2>1, <2>3, <1>1, <1>2 DEF TypeOK
  <2> HIDE DEF next
  <2> QED
    BY <2>3, <2>4, <2>5, <2>6 DEF HandlerFresh
<1>7. CASE SendMail \/ SendMailFails \/ Notify \/ NotifyFails
  <2>1. handler # HandlerIdle /\ handler.pc \in {"mail", "notify"}
    BY <1>7 DEF SendMail, SendMailFails, Notify, NotifyFails, HandlerIdle
  <2>2. /\ handler'.msg = handler.msg /\ handler'.pc \in {"notify", "ack"}
        /\ published' = published /\ redis' = redis
    BY <2>1, <1>2, <1>7 DEF SendMail, SendMailFails, Notify, NotifyFails, Handling, streamVars
  <2> QED
    BY <2>1, <2>2, <1>1 DEF HandlerFresh
<1>8. CASE Environment \/ Connect \/ Deliver \/ ConnectionLost
  BY <1>4, <1>8 DEF Environment, Create, Scan, Announce, GiveUp, trackingVars, Connect, Deliver, ConnectionLost
<1>9. CASE GetFails \/ SaveFails \/ Ack \/ Crash \/ Take
  <2>1. CASE Take
    BY <2>1, <1>3 DEF Take
  <2>2. CASE GetFails \/ SaveFails \/ Ack \/ Crash
    <3>1. handler' = HandlerIdle
      BY <2>2 DEF GetFails, SaveFails, Ack, Crash, Requeue, Done
    <3> QED
      BY <3>1, <1>3 DEF HandlerIdle
  <2> QED
    BY <2>1, <2>2, <1>9
<1>10. CASE \E tn \in TrackingNumbers : Expire(tn)
  BY <1>10 DEF Expire, Fault, Alone
<1>11. CASE \E a \in Readers : Serve(a)
  BY <1>11 DEF Alone
<1>12. CASE UNCHANGED vars
  BY <1>4, <1>12 DEF vars, trackingVars
<1> QED
  BY <1>5, <1>6, <1>7, <1>8, <1>9, <1>10, <1>11, <1>12 DEF Next, Consume

\* A message leaves the queue and the channel by an ack only.
LEMMA QueueStep ==
  ASSUME IInv, [Next]_vars,
         NEW n \in DOMAIN published' \ (ready' \cup Elements(inflight'))
  PROVE  /\ n \in DOMAIN published
         /\ n \in ready \cup Elements(inflight) => Ack /\ n = handler.msg
<1>1. TypeOK
  BY DEF IInv
<1>2. CASE UNCHANGED <<published, ready, inflight>>
  BY <1>2
<1>3. CASE Environment
  <2>1. CASE \E tn \in TrackingNumbers : Announce(tn)
    BY <2>1 DEF Announce
  <2>2. CASE \E tn \in TrackingNumbers : Create(tn) \/ \E type \in ScanTypes : Scan(tn, type)
    BY <2>2, <1>2 DEF Create, Scan, StreamCreate, StreamScan, trackingVars
  <2>3. CASE GiveUp
    BY <2>3, <1>2 DEF GiveUp, StreamGiveUp
  <2> QED
    BY <2>1, <2>2, <2>3, <1>3 DEF Environment
<1>4. CASE Deliver
  <2>1. PICK m \in ready : ready' = ready \ {m} /\ inflight' = Append(inflight, m)
    BY <1>1, <1>4, DeliverFacts
  <2>2. inflight \in Seq(DOMAIN published) /\ m \in DOMAIN published
    BY <1>1, <2>1 DEF TypeOK
  <2>3. Elements(inflight') = Elements(inflight) \cup {m}
    <3>1. /\ Len(inflight') = Len(inflight) + 1 /\ inflight'[Len(inflight) + 1] = m
          /\ \A i \in 1..Len(inflight) : inflight'[i] = inflight[i]
          /\ DOMAIN inflight' = 1..(Len(inflight) + 1) /\ DOMAIN inflight = 1..Len(inflight)
          /\ Len(inflight) \in Nat
      BY <2>1, <2>2
    <3> QED
      BY <3>1 DEF Elements
  <2> QED
    BY <2>1, <2>3, <1>4 DEF Deliver, streamVars
<1>5. CASE GetFails \/ SaveFails
  BY <1>1, <1>5, RequeueFacts DEF GetFails, SaveFails, streamVars
<1>6. CASE Ack
  BY <1>1, <1>6, DoneFacts DEF Ack, streamVars
<1>7. CASE ConnectionLost \/ Crash
  BY <1>7 DEF ConnectionLost, Crash, streamVars, Elements
<1>8. CASE \E a \in Readers : Serve(a)
  BY <1>2, <1>8, ServeFacts DEF streamVars
<1> QED
  BY <1>2, <1>3, <1>4, <1>5, <1>6, <1>7, <1>8
     DEF Next, vars, streamVars, trackingVars, Consume, Connect, Take, GetAndReduce, Save, SendMail,
         SendMailFails, Notify, NotifyFails, Expire

\* What is acknowledged is applied, and stays it.
LEMMA AckedStep ==
  ASSUME Alone, AInv, [Next]_vars
  PROVE  AckedIsApplied'
<1>1. IInv /\ TypeOK /\ MessagesTold /\ HandlerFresh /\ AckedIsApplied
  BY DEF AInv, IInv
<1>2. Continues(published, published')
  BY <1>1, StreamStep DEF IInv
<1>3. \A tn \in TrackingNumbers : redis[tn] # Missing =>
        /\ redis'[tn] # Missing
        /\ \A ev : Applied(redis[tn].events, ev) => Applied(redis'[tn].events, ev)
  BY FoldedStep
<1> SUFFICES ASSUME NEW n \in DOMAIN published' \ (ready' \cup Elements(inflight'))
             PROVE  /\ redis'[published'[n].tn] # Missing
                    /\ Applied(redis'[published'[n].tn].events, Stamp(published'[n]))
  BY DEF AckedIsApplied, Elements, Cached, StampedMessage, Stamp
<1>4. n \in DOMAIN published /\ (n \in ready \cup Elements(inflight) => Ack /\ n = handler.msg)
  BY <1>1, QueueStep
<1>5. published'[n] = published[n] /\ published[n].tn \in TrackingNumbers
  BY <1>1, <1>2, <1>4, StampedFacts DEF Continues
<1>6. redis[published[n].tn] # Missing /\ Applied(redis[published[n].tn].events, Stamp(published[n]))
  <2>1. CASE n \notin ready \cup Elements(inflight)
    BY <2>1, <1>1, <1>4 DEF AckedIsApplied, Elements, Cached, StampedMessage, Stamp
  <2>2. CASE Ack /\ n = handler.msg
    BY <2>2, <1>1 DEF Ack, HandlerFresh
  <2> QED
    BY <2>1, <2>2, <1>4
<1> QED
  BY <1>3, <1>5, <1>6

\* A parcel shown as delivered stays so: nothing is newer than its delivery.
LEMMA ShownStays ==
  ASSUME Alone, AInv, [Next]_vars, NEW tn \in TrackingNumbers, ShownDelivered(tn)
  PROVE  ShownDelivered(tn)'
<1>1. CASE redis' = redis
  BY <1>1 DEF ShownDelivered, Cached
<1>2. CASE redis' # redis
  <2> DEFINE msg == published[handler.msg]
             base == Base(redis[msg.tn])
             next == Reduce(base, Stamp(msg))
  <2>1. handler # HandlerIdle /\ msg.tn \in TrackingNumbers /\ redis' = [redis EXCEPT ![msg.tn] = next]
    BY <1>2, AloneWrites
  <2>2. redis[msg.tn] # Missing /\ base.status = "DELIVERED" => next.status = "DELIVERED"
    BY <2>1, NextFacts DEF AInv
  <2>3. redis'[tn] # Missing /\ redis[tn] # Missing /\ redis[tn].status = "DELIVERED"
    BY FoldedStep DEF ShownDelivered, Cached
  <2>4. redis[msg.tn] # Missing => base = redis[msg.tn]
    BY DEF Base
  <2>5. redis \in [TrackingNumbers -> State \cup {Missing}]
    BY DEF AInv, IInv, TypeOK
  <2> HIDE DEF msg, base, next
  <2>6. redis'[tn].status = "DELIVERED"
    BY <2>1, <2>2, <2>3, <2>4, <2>5
  <2> QED
    BY <2>3, <2>6 DEF ShownDelivered, Cached
<1> QED
  BY <1>1, <1>2

\* No step sends a second mail.
LEMMA OnceStep ==
  ASSUME Alone, AInv, [Next]_vars
  PROVE  MailOnce'
<1>1. TypeOK /\ HandlerSound /\ HandlerFresh /\ MailOnce
  BY DEF AInv, IInv
<1>2. /\ mails \in [TrackingNumbers -> Nat]
      /\ redis \in [TrackingNumbers -> State \cup {Missing}]
  BY <1>1, Bounds DEF TypeOK
<1>3. handler # HandlerIdle =>
        /\ handler \in Handling /\ handler.msg \in DOMAIN published
        /\ published'[handler.msg] = published[handler.msg]
        /\ published[handler.msg].tn \in TrackingNumbers
  BY <1>1, HandledFacts, StreamStep DEF AInv, IInv, Continues
<1> SUFFICES ASSUME NEW tn \in TrackingNumbers
             PROVE  /\ mails'[tn] <= 1
                    /\ mails'[tn] = 1 \/ MailDue(tn)' => ShownDelivered(tn)'
                    /\ MailDue(tn)' => mails'[tn] = 0
  BY DEF MailOnce
<1>5. /\ mails[tn] <= 1 /\ mails[tn] \in Nat
      /\ mails[tn] = 1 \/ MailDue(tn) => ShownDelivered(tn)
      /\ MailDue(tn) => mails[tn] = 0
  BY <1>1, <1>2 DEF MailOnce
<1>6. ShownDelivered(tn) => ShownDelivered(tn)'
  BY ShownStays
<1>7. CASE redis' = redis /\ mails' = mails /\ (MailDue(tn)' <=> MailDue(tn))
  BY <1>5, <1>7 DEF ShownDelivered, Cached
<1>8. CASE mails' = mails /\ ~MailDue(tn)'
  BY <1>5, <1>6, <1>8
<1>9. CASE handler' = handler /\ redis' = redis /\ mails' = mails
  <2>1. MailDue(tn)' <=> MailDue(tn)
    BY <1>3, <1>9 DEF MailDue, HandlerIdle
  <2> QED
    BY <2>1, <1>5, <1>9 DEF ShownDelivered, Cached
<1>10. CASE Environment \/ Connect \/ Deliver \/ ConnectionLost
  BY <1>9, <1>10 DEF Environment, Create, Scan, Announce, GiveUp, trackingVars, Connect, Deliver, ConnectionLost
<1>11. CASE Take
  <2>1. ~MailDue(tn)
    BY <1>11 DEF Take, MailDue, HandlerIdle
  <2>2. ~MailDue(tn)'
    BY <1>11 DEF Take, MailDue
  <2> QED
    BY <2>1, <2>2, <1>7, <1>11 DEF Take
<1>12. CASE GetAndReduce
  <2>1. ~MailDue(tn)
    BY <1>12 DEF GetAndReduce, MailDue
  <2>2. ~MailDue(tn)'
    BY <1>12, GetFacts DEF AInv, MailDue
  <2> QED
    BY <2>1, <2>2, <1>7, <1>12 DEF GetAndReduce
<1>13. CASE Save
  <2> DEFINE msg == published[handler.msg]
             base == Base(redis[msg.tn])
             next == Reduce(base, Stamp(msg))
  <2>1. handler # HandlerIdle /\ handler.pc = "save"
    BY <1>13 DEF Save, HandlerIdle
  <2>2. handler.next = next /\ handler.before = base.status
    BY <2>1, <1>1 DEF HandlerFresh
  <2>3. /\ handler'.msg = handler.msg
        /\ handler'.pc = IF next.status = "DELIVERED" /\ base.status # "DELIVERED" THEN "mail" ELSE "ack"
        /\ published' = published /\ mails' = mails
        /\ redis' = [redis EXCEPT ![msg.tn] = next]
    BY <2>1, <2>2, <1>3, <1>13 DEF Save, Saved, AfterSave, Handling, streamVars
  <2>4. ~MailDue(tn)
    BY <2>1 DEF MailDue
  <2>5. MailDue(tn)' <=> msg.tn = tn /\ next.status = "DELIVERED" /\ base.status # "DELIVERED"
    BY <2>3 DEF MailDue
  <2>6. ShownDelivered(msg.tn) <=> redis[msg.tn] # Missing /\ base.status = "DELIVERED"
    BY DEF ShownDelivered, Cached, Base
  <2>7. redis[msg.tn] = Missing => base.status # "DELIVERED"
    BY DEF Base, EmptyState
  <2>8. CASE tn # msg.tn
    <3>1. redis'[tn] = redis[tn]
      BY <2>3, <2>8, <1>2
    <3>2. ShownDelivered(tn)' <=> ShownDelivered(tn)
      BY <3>1 DEF ShownDelivered, Cached
    <3> QED
      BY <3>2, <2>3, <2>4, <2>5, <2>8, <1>5
  <2>9. CASE tn = msg.tn
    <3>1. redis'[tn] = next /\ redis'[tn] # Missing
      <4>1. handler.next \in State
        BY <2>1, <1>3 DEF Handling
      <4>2. DOMAIN handler.next = {"status", "previous", "events"} /\ DOMAIN Missing = {"status"}
        BY <4>1 DEF State, Missing
      <4>3. redis'[tn] = next
        BY <2>3, <2>9, <1>2
      <4> QED
        BY <4>2, <4>3, <2>2
    <3>2. ShownDelivered(tn)' <=> next.status = "DELIVERED"
      BY <3>1 DEF ShownDelivered, Cached
    <3> HIDE DEF msg, base, next
    <3>3. ShownDelivered(tn) <=> base.status = "DELIVERED"
      BY <2>6, <2>7, <2>9
    <3> QED
      BY <3>2, <3>3, <2>3, <2>4, <2>5, <2>9, <1>5, <1>6
  <2> QED
    BY <2>8, <2>9
<1>14. CASE GetFails \/ SaveFails \/ Crash
  <2>1. handler' = HandlerIdle /\ mails' = mails
    BY <1>14 DEF GetFails, SaveFails, Crash, Requeue, Done
  <2>2. ~MailDue(tn)'
    BY <2>1 DEF MailDue, HandlerIdle
  <2> QED
    BY <2>1, <2>2, <1>8
<1>15. CASE SendMail
  <2>1. handler # HandlerIdle /\ handler.pc = "mail"
    BY <1>15 DEF SendMail, HandlerIdle
  <2>2. /\ handler'.pc = "notify" /\ redis' = redis
        /\ mails' = [mails EXCEPT ![published[handler.msg].tn] = @ + 1]
    BY <2>1, <1>3, <1>15 DEF SendMail, Handling
  <2>3. mails'[tn] = IF MailDue(tn) THEN mails[tn] + 1 ELSE mails[tn]
    BY <2>1, <2>2, <1>2 DEF MailDue
  <2>4. ~MailDue(tn)' /\ (ShownDelivered(tn)' <=> ShownDelivered(tn))
    BY <2>2 DEF MailDue, ShownDelivered, Cached
  <2> QED
    BY <2>2, <2>3, <2>4, <1>5
<1>16. CASE SendMailFails
  <2>1. handler # HandlerIdle /\ handler.pc = "mail"
    BY <1>16 DEF SendMailFails, HandlerIdle
  <2>2. /\ handler'.pc = "ack"
        /\ mails' \in {mails, [mails EXCEPT ![published[handler.msg].tn] = @ + 1]}
    BY <2>1, <1>3, <1>16 DEF SendMailFails, Handling
  <2>3. mails'[tn] = mails[tn] \/ (MailDue(tn) /\ mails'[tn] = mails[tn] + 1)
    BY <2>1, <2>2, <1>2 DEF MailDue
  <2>4. ~MailDue(tn)'
    BY <2>2 DEF MailDue
  <2> QED
    BY <2>2, <2>3, <2>4, <1>5, <1>6
<1>17. CASE Notify \/ NotifyFails
  <2>1. handler # HandlerIdle /\ ~MailDue(tn)
    BY <1>17 DEF Notify, NotifyFails, HandlerIdle, MailDue
  <2>2. /\ handler'.pc = "ack" /\ redis' = redis /\ mails' = mails
    BY <2>1, <1>3, <1>17 DEF Notify, NotifyFails, Handling
  <2>3. ~MailDue(tn)'
    BY <2>2 DEF MailDue
  <2> QED
    BY <2>1, <2>2, <2>3, <1>7, <1>8
<1>18. CASE Ack
  <2>1. ~MailDue(tn) /\ ~MailDue(tn)'
    BY <1>18 DEF Ack, Done, MailDue, HandlerIdle
  <2> QED
    BY <2>1, <1>7, <1>18 DEF Ack
<1>19. CASE \E t \in TrackingNumbers : Expire(t)
  BY <1>19 DEF Expire, Fault, Alone
<1>20. CASE \E a \in Readers : Serve(a)
  BY <1>20 DEF Alone
<1>21. CASE UNCHANGED vars
  BY <1>9, <1>21 DEF vars, trackingVars
<1> QED
  BY <1>10, <1>11, <1>12, <1>13, <1>14, <1>15, <1>16, <1>17, <1>18, <1>19, <1>20, <1>21 DEF Next, Consume

\* The strengthened invariant of the consumer alone holds throughout.
THEOREM AloneInvariance ==
  ASSUME Alone
  PROVE  Spec => []AInv
<1>1. Init => AInv
  <2> SUFFICES ASSUME Init PROVE AInv
    OBVIOUS
  <2>1. /\ IInv
        /\ \A tn \in TrackingNumbers : redis[tn] = Missing /\ mails[tn] = 0
        /\ handler.pc = "idle"
        /\ DOMAIN published = {}
    BY InitInv DEF Init, StreamInit, HandlerIdle
  <2>2. CacheFolded /\ HandlerFresh /\ AckedIsApplied
    BY <2>1 DEF CacheFolded, Cached, HandlerFresh, AckedIsApplied
  <2>3. MailOnce
    BY <2>1 DEF MailOnce, MailDue, ShownDelivered, Cached
  <2> QED
    BY <2>1, <2>2, <2>3 DEF AInv
<1>2. AInv /\ [Next]_vars => AInv'
  BY NextInv, FoldedStep, FreshStep, AckedStep, OnceStep DEF AInv
<1> QED
  BY <1>1, <1>2, PTL DEF Spec

\* A message leaves the queue only once it is in the read model
\* (consumer.go:105-116), whatever fails between the steps of handle.
THEOREM AckedStaysApplied ==
  ASSUME Alone
  PROVE  Spec => []AckedIsApplied
<1>1. AInv => AckedIsApplied
  BY DEF AInv
<1> QED
  BY <1>1, AloneInvariance, PTL

\* At most one delivery mail, and for a delivered parcel only (consumer.go:119-122),
\* however often the message comes.
THEOREM AtMostOneMail ==
  ASSUME Alone
  PROVE  Spec => []OneTrueMail
<1>1. AInv => OneTrueMail
  BY DEF AInv, IInv, MailOnce, MailsCounted, Delivered, OneTrueMail
<1> QED
  BY <1>1, AloneInvariance, PTL

\* A late scan is recorded without rewinding the headline (docs/architecture.md:49).
THEOREM HeadlineKeepsUp ==
  ASSUME Alone
  PROVE  Spec => HeadlineNeverRewinds
<1> DEFINE Forward ==
             \A tn \in TrackingNumbers :
               Cached(tn) /\ redis'[tn].status # redis[tn].status
                 => redis'[tn].events[Len(redis'[tn].events)].at
                      > redis[tn].events[Len(redis[tn].events)].at
<1>1. ASSUME AInv, [Next]_vars PROVE Forward
  <2> SUFFICES ASSUME NEW tn \in TrackingNumbers, redis[tn] # Missing,
                      redis'[tn].status # redis[tn].status
               PROVE  redis'[tn].events[Len(redis'[tn].events)].at
                        > redis[tn].events[Len(redis[tn].events)].at
    BY DEF Cached
  <2> DEFINE msg == published[handler.msg]
             base == Base(redis[msg.tn])
             next == Reduce(base, Stamp(msg))
  <2>1. handler # HandlerIdle /\ msg.tn \in TrackingNumbers /\ redis' = [redis EXCEPT ![msg.tn] = next]
    BY <1>1, AloneWrites
  <2>2. redis[msg.tn] # Missing /\ next.status # base.status =>
          next.events[Len(next.events)].at > base.events[Len(base.events)].at
    BY <1>1, <2>1, NextFacts DEF AInv
  <2>3. redis[msg.tn] # Missing => base = redis[msg.tn]
    BY DEF Base
  <2>4. redis \in [TrackingNumbers -> State \cup {Missing}]
    BY <1>1 DEF AInv, IInv, TypeOK
  <2> HIDE DEF msg, base, next
  <2>5. tn = msg.tn /\ redis'[tn] = next
    BY <2>1, <2>4
  <2> QED
    BY <2>2, <2>3, <2>5
<1>2. AInv /\ [Next]_vars => [Forward]_vars
  BY <1>1
<1> QED
  BY <1>2, AloneInvariance, PTL DEF Spec, HeadlineNeverRewinds
=============================================================================
