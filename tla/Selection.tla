----------------------------- MODULE Selection ------------------------------
(***************************************************************************)
(* dualsteer_select.h: which leg the next scheduling decision of an MPTCP  *)
(* socket goes to, as a function of the policy, the socket's state and one *)
(* candidate per leg.  __u32 values are naturals below Word, and their     *)
(* subtraction is modulo Word.                                             *)
(*                                                                         *)
(* Definitions marked "slip" are mistakes the properties must notice;      *)
(* nothing uses them.                                                      *)
(***************************************************************************)
EXTENDS Integers

CONSTANT Word   \* 2^32

DS_NONE     == -1
DS_MODE_WRR == 1
DS_MODE_RTT == 2
Legs        == {0, 1}
U32         == 0 .. Word - 1

ds_policy ==
    [generation : U32, enabled : U32, mode : U32,
     weight : [Legs -> U32], rtt_delta_us : U32]

ds_candidate == [position : Nat \cup {DS_NONE}, rtt_us : U32]

ds_state ==
    [generation : U32, mode : U32, credit : [Legs -> Int],
     available_mask : SUBSET Legs, previous_access : Legs \cup {DS_NONE}]

\* The state a new socket storage has: all zero.
ZeroState ==
    [generation |-> 0, mode |-> 0, credit |-> [l \in Legs |-> 0],
     available_mask |-> {}, previous_access |-> 0]
-----------------------------------------------------------------------------
ds_policy_valid(p) ==
    /\ p.generation # 0
    /\ p.enabled <= 1
    /\ p.mode \in {DS_MODE_WRR, DS_MODE_RTT}
    /\ \A l \in Legs : p.weight[l] <= 100
    /\ p.weight[0] + p.weight[1] = 100

ds_reset(p) ==
    [generation |-> p.generation, mode |-> p.mode,
     credit |-> [l \in Legs |-> 0], available_mask |-> {},
     previous_access |-> DS_NONE]

\* A subflow is offered for its leg; the first one, then a strictly smaller
\* known RTT wins.
ds_offer(c, position, rtt_us) ==
    IF \/ c.position = DS_NONE
       \/ rtt_us # 0 /\ (c.rtt_us = 0 \/ rtt_us < c.rtt_us)
    THEN [position |-> position, rtt_us |-> rtt_us]
    ELSE c

Other(l) == 1 - l

\* Slip: the mask bit is stored instead of the leg.
DecisionBit(s, pick) == [state |-> [s EXCEPT !.previous_access = pick + 1], pick |-> pick]

Decision(s, pick) == [state |-> [s EXCEPT !.previous_access = pick], pick |-> pick]
NoDecision(s)     == [state |-> s, pick |-> DS_NONE]

SubU32(x, y) == IF x >= y THEN x - y ELSE x - y + Word

\* The RTT branch: the faster leg, but stay with the previous one unless
\* the gain exceeds the delta.
RttUsable(c) == {l \in Legs : c[l].position # DS_NONE /\ c[l].rtt_us # 0}

Faster(c) == IF c[1].rtt_us < c[0].rtt_us THEN 1 ELSE 0

\* Slips: the gain is not compared; equality counts as a gain.
StaysAnyway(p, prev, c) == p.rtt_delta_us # 0 /\ prev \in Legs
StaysBelow(p, prev, c) ==
    /\ p.rtt_delta_us # 0
    /\ prev \in Legs
    /\ SubU32(c[prev].rtt_us, c[Faster(c)].rtt_us) < p.rtt_delta_us

StaysWith(p, prev, c) ==
    /\ p.rtt_delta_us # 0
    /\ prev \in Legs
    /\ SubU32(c[prev].rtt_us, c[Faster(c)].rtt_us) <= p.rtt_delta_us

\* Slip: hysteresis is applied before availability.
SelectRttSticky(p, s, c) ==
    IF StaysWith(p, s.previous_access, c) THEN Decision(s, s.previous_access)
    ELSE IF RttUsable(c) = {} THEN NoDecision(s)
    ELSE Decision(s, IF 0 \notin RttUsable(c) THEN 1
                     ELSE IF 1 \notin RttUsable(c) THEN 0 ELSE Faster(c))

SelectRtt(p, s, c) ==
    IF RttUsable(c) = {} THEN NoDecision(s)
    ELSE Decision(s,
           IF 0 \notin RttUsable(c) THEN 1
           ELSE IF 1 \notin RttUsable(c) THEN 0
           ELSE IF StaysWith(p, s.previous_access, c) THEN s.previous_access
           ELSE Faster(c))

\* The WRR branch: credits start again when the set of usable legs changes,
\* grow by the weights, and the richer leg pays for the round.
\* Slip: a leg without a weight is usable.
PresentLegs(p, c) == {l \in Legs : c[l].position # DS_NONE}

WrrUsable(p, c) == {l \in Legs : c[l].position # DS_NONE /\ p.weight[l] # 0}

\* Slip: the credits survive a change of the usable legs.
RemaskOnly(s, mask) == [s EXCEPT !.available_mask = mask]

Remask(s, mask) ==
    IF mask = s.available_mask THEN s
    ELSE [s EXCEPT !.credit = [l \in Legs |-> 0], !.available_mask = mask]

Earned(p, s, mask) ==
    [l \in Legs |-> s.credit[l] + IF l \in mask THEN p.weight[l] ELSE 0]

Richer(credit, mask) ==
    IF 0 \notin mask THEN 1
    ELSE IF 1 \notin mask THEN 0
    ELSE IF credit[1] > credit[0] THEN 1 ELSE 0

\* Slip: a round always costs a hundred.
FullCost(p, mask) == 100

RoundCost(p, mask) ==
    (IF 0 \in mask THEN p.weight[0] ELSE 0) + (IF 1 \in mask THEN p.weight[1] ELSE 0)

SelectWrr(p, s, c) ==
    LET mask   == WrrUsable(p, c)
        s1     == Remask(s, mask)
        earned == Earned(p, s1, mask)
        pick   == Richer(earned, mask)
        paid   == [l \in Legs |->
                     earned[l] - IF l = pick THEN RoundCost(p, mask) ELSE 0]
    IN IF mask = {} THEN NoDecision(s1)
       ELSE Decision([s1 EXCEPT !.credit = paid], pick)

Fresh(p, s) ==
    IF s.generation # p.generation \/ s.mode # p.mode THEN ds_reset(p) ELSE s

ds_select(p, s, c) ==
    IF ~ds_policy_valid(p) \/ p.enabled = 0 THEN NoDecision(s)
    ELSE IF p.mode = DS_MODE_RTT THEN SelectRtt(p, Fresh(p, s), c)
    ELSE SelectWrr(p, Fresh(p, s), c)
=============================================================================
