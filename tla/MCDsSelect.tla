----------------------------- MODULE MCDsSelect -----------------------------
(* Instances of DsSelect for TLC. *)
EXTENDS DsSelect

CONSTANTS
    wide, near, far, odd, a1, a2,
    ShareA,       \* weights of leg A
    Deltas,       \* hysteresis
    Generations   \* generations, 0 included to be refused

Sums == {<<w, 100 - w>> : w \in ShareA} \cup {<<50, 51>>, <<101, Word - 1>>}

ConfigLeg(name, w) == [ifname |-> name, weight |-> w, endpoints |-> <<>>]

\* Files with and without a mode, weights of every kind; a name with white
\* space inside is good enough for the file.
MCConfigs ==
    {[enabled |-> e, generation |-> g, mode |-> m, rttDeltaUs |-> 0,
      legs |-> [l \in Legs |-> IF l = 0 THEN ConfigLeg(wide, w[1])
                               ELSE ConfigLeg(far, w[2])],
      connection |-> None] :
        e \in {FALSE, None}, g \in Generations, m \in Modes \cup {None},
        w \in Sums \cup {<<None, 100>>}}

Link(name, address) == [ifname |-> name, address |-> address]

\* A context the file's check takes as well, and one with a name that only
\* the protocol accepts.
MCContexts ==
    {[id |-> near, dnn |-> near,
      legs |-> [l \in Legs |-> IF l = 0 THEN Link(near, a1) ELSE Link(b, a2)],
      destination |-> a1, port |-> 443] : b \in {far, odd}}

\* The deltas that matter to a mode.
DeltasOf(m) == IF m = "load-balance" THEN {0} ELSE Deltas

\* Assignments of one context under every policy.
MCAssignments ==
    UNION {{[spec |-> s, generation |-> g,
             policy |-> [enabled |-> TRUE, mode |-> m, rttDeltaUs |-> d,
                         weight |-> [l \in Legs |-> w[l + 1]]]] :
               s \in MCContexts, g \in Generations, d \in DeltasOf(m), w \in Sums} :
           m \in Modes \cup {None}}
=============================================================================
