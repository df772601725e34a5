----------------------------- MODULE Projection -----------------------------
(***************************************************************************)
(* The pure reducer of tracking-service                                    *)
(* (services/tracking-service/internal/projection/projection.go).          *)
(*                                                                         *)
(* occurredAt is a string and is compared as one.  The reducer only asks   *)
(* which of two such strings is smaller or whether they are equal, so they *)
(* are numbered in their order: shipments-service publishes an instant     *)
(* with isoformat ("...+00:00") but serves it over HTTP in pydantic's form *)
(* ("...Z"), and "+" sorts before "Z".  Instants differ by a second or     *)
(* more, and none carries another offset.                                  *)
(***************************************************************************)
EXTENDS Integers, Sequences

Published(at) == 2 * at      \* instant at as a message spells it
Served(at)    == 2 * at + 1  \* the same instant as GET /internal/track spells it
Instant(stamp) == stamp \div 2

\* The record cached for one tracking number: the fields the reducer decides.
EmptyState == [status |-> "", previous |-> "", events |-> <<>>]

\* Slips: only the last entry is compared; every event counts as the newest.
AppliedLast(events, ev) ==
  events # <<>> /\ events[Len(events)].at = ev.at /\ events[Len(events)].type = ev.type

AlwaysNewest(events, ev) == TRUE

\* ev is already in the timeline.
Applied(events, ev) ==
  \E i \in DOMAIN events : events[i].at = ev.at /\ events[i].type = ev.type

\* Nothing in the timeline is later than ev: latestSeen <= occurredAt.
IsNewest(events, ev) == \A i \in DOMAIN events : events[i].at <= ev.at

\* append and sort.SliceStable on a timeline that was sorted before: ev goes
\* behind every event that is not later.
NotLater(events, ev) ==
  CHOOSE n \in 0..Len(events) :
    \A i \in DOMAIN events : i <= n <=> events[i].at <= ev.at

Inserted(events, ev) ==
  LET n == NotLater(events, ev)
  IN SubSeq(events, 1, n) \o <<ev>> \o SubSeq(events, n + 1, Len(events))

\* Slips: the status stands for the event type, or previousStatus for the status,
\* of the entry; the timeline is not sorted.
ReduceMixed(state, msg) ==
  LET ev == [status |-> msg.status, type |-> msg.status, at |-> msg.at] IN
  IF Applied(state.events, ev) THEN state
  ELSE [status |-> msg.status, previous |-> state.status, events |-> Inserted(state.events, ev)]

ReducePrevious(state, msg) ==
  LET ev == [status |-> msg.prev, type |-> msg.type, at |-> msg.at] IN
  IF Applied(state.events, ev) THEN state
  ELSE [status |-> msg.status, previous |-> state.status, events |-> Inserted(state.events, ev)]

ReduceUnsorted(state, msg) ==
  LET ev == [status |-> msg.status, type |-> msg.type, at |-> msg.at] IN
  IF Applied(state.events, ev) THEN state
  ELSE [status |-> msg.status, previous |-> state.status, events |-> Append(state.events, ev)]

\* Reduce; the `changed` it also returns is ~Applied(state.events, msg).
Reduce(state, msg) ==
  LET ev == [status |-> msg.status, type |-> msg.type, at |-> msg.at] IN
  IF Applied(state.events, ev) THEN state
  ELSE [status   |-> IF IsNewest(state.events, ev) THEN msg.status ELSE state.status,
        previous |-> IF IsNewest(state.events, ev) THEN state.status ELSE state.previous,
        events   |-> Inserted(state.events, ev)]
=============================================================================
