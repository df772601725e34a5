--------------------------- MODULE MCBrokerChannel ---------------------------
(***************************************************************************)
(* Instances of BrokerChannel for TLC.                                     *)
(***************************************************************************)
EXTENDS BrokerChannel

CONSTANTS c1, c2, p1

OneCaller  == {c1}
TwoCallers == {c1, c2}
OneProbe   == {p1}
=============================================================================
