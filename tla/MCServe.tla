------------------------------ MODULE MCServe -------------------------------
(* Instances of Serve for TLC. *)
EXTENDS Serve, TLC

CONSTANTS a1, a2, d1, k1, k2

Flow(a, k) == [local |-> a, dest |-> d1, pair |-> k]

\* A subflow on each leg, and a third for the limit.
MCFlows == {Flow(a1, k1), Flow(a2, k2), Flow(a2, k1)}
MCSpecs == {[legA |-> a1, legB |-> a2, dest |-> d1]}
=============================================================================
