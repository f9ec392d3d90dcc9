----------------------------- MODULE MCPMStream -----------------------------
(* Instances of PMStream for TLC. *)
EXTENDS PMStream, TLC

CONSTANTS a1, a2, d1, k1, k2, k3

Flow(a, k) == [local |-> a, dest |-> d1, pair |-> k]

\* A subflow on one leg and two on the other.
MCFlows == {Flow(a1, k1), Flow(a2, k2), Flow(a2, k3)}
MCSpecs == {[legA |-> a1, legB |-> a2, dest |-> d1]}

\* The two subflows of the second leg play the same part.
MCSymmetry == Permutations({k2, k3})
=============================================================================
