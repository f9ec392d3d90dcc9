------------------------------ MODULE MCDaemon ------------------------------
(* Instances of Daemon for TLC. *)
EXTENDS Daemon, TLC

CONSTANTS a1, a2, d1, d2, k1, k2

Flow(a, d, k) == [local |-> a, dest |-> d, pair |-> k]

\* Two legs to one destination, and a pair that is used again on a leg of a
\* connection to the other.
MCFlows == {Flow(a1, d1, k1), Flow(a2, d1, k2), Flow(a2, d2, k1)}

Between(a, b, d) == [legA |-> a, legB |-> b, dest |-> d]

\* The legs either way round, and a context that can live beside the others.
MCSpecs == {Between(a1, a2, d1), Between(a2, a1, d1), Between(a2, a1, d2)}

MCSymmetry == Permutations(Ids)
=============================================================================
