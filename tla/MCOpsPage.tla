----------------------------- MODULE MCOpsPage -----------------------------
(***************************************************************************)
(* Instances of OpsPage for TLC.                                           *)
(***************************************************************************)
EXTENDS OpsPage

CONSTANTS s1, s2, p1, p2

TwoLists == {s1, s2}
TwoPosts == {p1, p2}
=============================================================================
