----------------------------- MODULE MCShipments -----------------------------
(***************************************************************************)
(* Instances of Shipments for TLC.                                         *)
(***************************************************************************)
EXTENDS Shipments, TLC

CONSTANTS pp1, pp2, r1, r2

OneNumber  == {pp1}
TwoNumbers == {pp1, pp2}
TwoThreads == {r1, r2}

\* A type for each target status but one (OUT_FOR_DELIVERY), and an unknown type.
OrderedTypes == {"PICKED_UP", "DELIVERED", "RETURNED", "TELEPORTED"}
ShortTypes == {"OUT_FOR_DELIVERY", "DELIVERED", "RETURNED"}

NoTimes == {}
\* A back-dated instant, equal to the one some request reads from the clock.
BackDated == {1}
\* Instants ahead of the clock and behind it.
ChosenTimes == {2, 4}

NoneOrTwice == {0, 2}
AtMostOnce  == {0, 1}

\* Threads, and tracking numbers, are interchangeable; only safety is checked.
Interchangeable == Permutations(Requests) \cup Permutations(TrackingNumbers)
=============================================================================
