----------------------------- MODULE EventStream -----------------------------
(***************************************************************************)
(* What shipments-service promises tracking-service, stated without its    *)
(* threads, sessions and broker connection: every tracking number has one  *)
(* history, each step of it a legal transition later than the one before;  *)
(* the steps are announced in that order, each at most twice (one retry)   *)
(* and possibly never (a failed publish is not repeated).                  *)
(*                                                                         *)
(* Module Shipments implements this when the scans of each shipment come   *)
(* one after the other; module Tracking takes it as its environment.       *)
(***************************************************************************)
EXTENDS ShipmentStatus, Naturals, Sequences

CONSTANTS TrackingNumbers,  \* the tracking numbers in use
          ScanTypes,        \* event types the operators submit
          MaxTime,          \* bound on the timestamps of the histories
          Copies            \* how often one announcement may reach the broker

ASSUME StreamAssumption == MaxTime \in Nat /\ Copies \subseteq Nat

VARIABLES log,        \* log[tn]: the history of tn, creation first
          sent,       \* sent[tn]: how many steps of it are announced or given up
          published   \* the messages in the order the broker took them

streamVars == <<log, sent, published>>

Times == 1..MaxTime

\* One step of a history; type "" is the creation, prev "" its missing predecessor.
Entry == [type : EventTypes \cup {""}, at : Times,
          status : Statuses, prev : Statuses \cup {""}]

\* The JSON payload the consumer reads, with the fields that drive it.
Message == [tn : TrackingNumbers, type : EventTypes \cup {""}, at : Times,
            status : Statuses, prev : Statuses \cup {""}]

Announcement(tn, e) ==
  [tn |-> tn, type |-> e.type, at |-> e.at, status |-> e.status, prev |-> e.prev]

StreamTypeOK ==
  /\ log \in [TrackingNumbers -> Seq(Entry)]
  /\ sent \in [TrackingNumbers -> Nat]
  /\ published \in Seq(Message)

StreamInit ==
  /\ log = [tn \in TrackingNumbers |-> <<>>]
  /\ sent = [tn \in TrackingNumbers |-> 0]
  /\ published = <<>>

Current(tn) == log[tn][Len(log[tn])].status

Later(tn, at) == \A i \in DOMAIN log[tn] : log[tn][i].at < at

StreamCreate(tn, at) ==
  /\ log[tn] = <<>>
  /\ log' = [log EXCEPT ![tn] =
               <<[type |-> "", at |-> at, status |-> "CREATED", prev |-> ""]>>]
  /\ UNCHANGED <<sent, published>>

StreamScan(tn, type, at) ==
  /\ log[tn] # <<>>
  /\ Legal(Current(tn), type)
  /\ Later(tn, at)
  /\ log' = [log EXCEPT ![tn] =
               Append(@, [type |-> type, at |-> at,
                          status |-> EventToStatus[type], prev |-> Current(tn)])]
  /\ UNCHANGED <<sent, published>>

StreamPublish(tn, copies) ==
  /\ sent[tn] < Len(log[tn])
  /\ sent' = [sent EXCEPT ![tn] = @ + 1]
  /\ published' = published \o
       [i \in 1..copies |-> Announcement(tn, log[tn][sent[tn] + 1])]
  /\ UNCHANGED log

\* The requests that owed the next announcement of these died after the commit.
StreamGiveUp(lost) ==
  /\ lost # {}
  /\ \A tn \in lost : sent[tn] < Len(log[tn])
  /\ sent' = [tn \in TrackingNumbers |-> IF tn \in lost THEN sent[tn] + 1 ELSE sent[tn]]
  /\ UNCHANGED <<log, published>>

StreamNext ==
  \/ \E tn \in TrackingNumbers :
       \/ \E at \in Times : StreamCreate(tn, at)
       \/ \E type \in ScanTypes, at \in Times : StreamScan(tn, type, at)
       \/ \E copies \in Copies : StreamPublish(tn, copies)
  \/ \E lost \in SUBSET TrackingNumbers : StreamGiveUp(lost)

StreamSpec == StreamInit /\ [][StreamNext]_streamVars
=============================================================================
