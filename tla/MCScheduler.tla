---------------------------- MODULE MCScheduler -----------------------------
(* Instances of Scheduler for TLC. *)
EXTENDS Scheduler, TLC

CONSTANTS k1, k2

Steering(g, m) ==
    [generation |-> g, enabled |-> 1, mode |-> m,
     weight |-> [l \in Legs |-> 50], rtt_delta_us |-> 1]

\* Two generations: WRR on leg B only, and RTT on both legs.
MCTwoPolicies ==
    {[Steering(1, DS_MODE_WRR) EXCEPT !.weight = [l \in Legs |-> 100 * l]],
     Steering(2, DS_MODE_RTT)}
MCOnePolicy   == {Steering(1, DS_MODE_WRR)}

MCOnePath  == {[generation |-> 1, access |-> 0]}
\* The legs that the two policies use.
MCTwoPaths == [generation : {1, 2}, access : Legs] \ MCOnePath

\* The subflows of a socket have different pairs, or there is only one.
MCTwoPairs == [i \in Positions |-> IF i = 0 THEN k1 ELSE k2]
MCOnePair  == [i \in Positions |-> k1]

MCSymmetry == Permutations(Sockets) \cup Permutations(Tokens)
=============================================================================
