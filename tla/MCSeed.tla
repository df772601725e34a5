------------------------------- MODULE MCSeed -------------------------------
(***************************************************************************)
(* Instances of Seed for TLC.                                              *)
(***************************************************************************)
EXTENDS Seed

CONSTANTS l1, l2, v

TwoLoaders == {l1, l2}

\* One that the loader's next scan may not follow, and one it may.
Deliveries == {"OUT_FOR_DELIVERY", "DELIVERED"}
=============================================================================
