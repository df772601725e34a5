--------------------------- MODULE PublishContract ---------------------------
(***************************************************************************)
(* What publish_event promises the use cases of shipments-service: each    *)
(* call ends, and by then its message has reached the exchange not at all, *)
(* once or twice, the copies next to each other.  Action Publish of        *)
(* Shipments is a step of this.                                            *)
(***************************************************************************)
EXTENDS Naturals, Sequences

CONSTANT Calls  \* calls of publish_event

VARIABLES taken, \* whose messages the exchange has taken, in its order
          ended  \* the calls that have returned

contractVars == <<taken, ended>>

ContractInit == taken = <<>> /\ ended = {}

End(c) ==
  /\ c \notin ended
  /\ ended' = ended \cup {c}
  /\ \E copies \in 0..2 : taken' = taken \o [i \in 1..copies |-> c]

ContractNext == \E c \in Calls : End(c)

ContractSpec == ContractInit /\ [][ContractNext]_contractVars
=============================================================================
