----------------------------- MODULE MCServing -----------------------------
(***************************************************************************)
(* Instances of Serving for TLC.                                           *)
(***************************************************************************)
EXTENDS Serving, TLC

CONSTANTS r1, r2, r3, r4

FourRequests == {r1, r2, r3, r4}

\* Two writers, which meet at the lock, a reader, and a request of the operators.
OneOfEach ==
  (r1 :> {"scan"}) @@ (r2 :> {"create"}) @@ (r3 :> {"read"})
    @@ (r4 :> {"readyz", "healthz"})
=============================================================================
