------------------------- MODULE MCManagedRuntime -------------------------
(* Instances of ManagedRuntime for TLC.                                    *)
EXTENDS ManagedRuntime, TLC

CONSTANTS c1, c2, p1, p2

TwoCallers == {c1, c2}
TwoPlans == 1..2
SomePlans == (c1 :> {1}) @@ (c2 :> {1, 2})
TwoPids == {p1, p2}
=============================================================================
