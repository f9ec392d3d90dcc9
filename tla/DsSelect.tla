------------------------------ MODULE DsSelect ------------------------------
(***************************************************************************)
(* ds_select called again and again for one MPTCP socket, while the agent  *)
(* replaces the policy and subflows come, go and change their RTT.         *)
(*                                                                         *)
(* `last' and `owed' are history: the last call, and the account of leg A  *)
(* since the WRR credits were last reset.  The account keeps the           *)
(* difference of two counters only, so that no call is ever cut off.       *)
(***************************************************************************)
EXTENDS Config

CONSTANTS
    RttValues,   \* RTTs in us that candidates may have; 0 is "no sample yet"
    Configs,     \* configurations the command line is given
    Assignments  \* assignments the SMF sends the daemon

ASSUME DsSelectConstants ==
    /\ RttValues \subseteq U32
    /\ Configs \subseteq Config
    /\ Assignments \subseteq Assignment

VARIABLES
    policy,   \* the policy entry the scheduler reads
    state,    \* ds_state in the socket's storage
    last,     \* the last call: policy, candidates, previous access, result
    owed      \* hundredths of decisions leg A was due and has not got

vars == <<policy, state, last, owed>>

NoEndpoints == [l \in Legs |-> <<>>]

\* The policies that reach the map, from either source: ApplyLive validates
\* what plan makes of an assignment like a file.  Endpoints do not matter to
\* the policy entry.
Planned == {PlanConfig(a, NoEndpoints) : a \in {b \in Assignments : ValidAssignment(b)}}

AssignedPolicies == {MapPolicy(c) : c \in {d \in Configs \cup Planned : Validate(d)}}

\* One candidate per leg, as ds_schedule initialises and offers them: the
\* subflow of leg l is at position l.
Offers(l) == {[position |-> DS_NONE, rtt_us |-> 0]} \cup
             {[position |-> l, rtt_us |-> r] : r \in RttValues}

Candidates == {c \in [Legs -> Offers(0) \cup Offers(1)] :
                  \A l \in Legs : c[l] \in Offers(l)}

NoCall == [policy |-> <<>>, cand |-> <<>>, prev |-> DS_NONE, pick |-> DS_NONE]

Init ==
    /\ policy \in AssignedPolicies
    /\ state  = ZeroState
    /\ last   = NoCall
    /\ owed   = 0

\* The agent replaces the policy entry; nothing forces the generation up.
ReplacePolicy ==
    /\ policy' \in AssignedPolicies
    /\ UNCHANGED <<state, last, owed>>

\* History: the account starts again with the credits.  A decision that
\* both legs could have had is due to leg A by its weight in a hundred.
Restarts(p, s, c) ==
    s.generation # p.generation \/ s.mode # p.mode \/ WrrUsable(p, c) # s.available_mask

Counted(due, p, c, pick) ==
    IF WrrUsable(p, c) # Legs THEN due
    ELSE due + p.weight[0] - IF pick = 0 THEN 100 ELSE 0

Steers(p) == ds_policy_valid(p) /\ p.enabled = 1

NextOwed(p, s, c, pick) ==
    IF ~Steers(p) THEN owed
    ELSE IF p.mode = DS_MODE_RTT
         THEN IF Fresh(p, s) = s THEN owed ELSE 0
    ELSE Counted(IF Restarts(p, s, c) THEN 0 ELSE owed, p, c, pick)

Select(c) ==
    LET r == ds_select(policy, state, c)
    IN /\ state' = r.state
       /\ last'  = [policy |-> policy, cand |-> c,
                    prev   |-> Fresh(policy, state).previous_access,
                    pick   |-> r.pick]
       /\ owed'  = NextOwed(policy, state, c, r.pick)
       /\ UNCHANGED policy

Next ==
    \/ ReplacePolicy
    \/ \E c \in Candidates : Select(c)

Spec == Init /\ [][Next]_vars
-----------------------------------------------------------------------------
(* Properties *)

\* The policy, the socket state and the history have their types.
TypeOK ==
    /\ policy \in ds_policy
    /\ state  \in ds_state
    /\ owed   \in Int

(***************************************************************************)
(* The three validators agree: what the YAML file's and the protocol's     *)
(* checks let through is a policy that ds_policy_valid accepts.  One it    *)
(* refuses would be reported as applied and steer nothing.                 *)
(***************************************************************************)
AcceptedIsValid == ds_policy_valid(policy)

\* The credits are opposite and small, whatever the sequence of policies,
\* losses and recoveries: no drift and no overflow of an __s32.
CreditsBounded ==
    /\ state.credit[0] + state.credit[1] = 0
    /\ -50 <= state.credit[0] /\ state.credit[0] <= 49

(***************************************************************************)
(* WRR keeps its promise at every moment: since the credits were reset,    *)
(* the number of decisions given to leg A is within half a decision of its *)
(* share, the sum of the weights it had, even if these changed under the   *)
(* same generation.                                                        *)
(***************************************************************************)
ShareIsExact == -50 <= owed /\ owed <= 49

\* A leg has a subflow, and what the mode needs: an RTT sample or a weight.
Usable(p, c) ==
    {l \in Legs : /\ c[l].position # DS_NONE
                  /\ IF p.mode = DS_MODE_RTT THEN c[l].rtt_us # 0
                     ELSE p.weight[l] # 0}

\* A leg is chosen only if it can be used, and the kernel default is left
\* to decide only if the policy does not steer or no leg can be used.
ChoosesUsableLeg ==
    last # NoCall =>
        IF Steers(last.policy) /\ Usable(last.policy, last.cand) # {}
        THEN last.pick \in Usable(last.policy, last.cand)
        ELSE last.pick = DS_NONE

BothRtts == last # NoCall /\ Steers(last.policy) /\ last.policy.mode = DS_MODE_RTT
            /\ RttUsable(last.cand) = Legs

\* In RTT mode the chosen leg is never slower than the other by more than
\* the delta: hysteresis keeps a slower leg only that far, and the unsigned
\* difference never wraps.
NeverMuchSlower ==
    BothRtts =>
        last.cand[last.pick].rtt_us
           <= last.cand[Other(last.pick)].rtt_us + last.policy.rtt_delta_us

\* With a nonzero delta, a change of leg brings more than the delta.
Switched == BothRtts /\ last.prev = Other(last.pick)
Gain     == last.cand[last.prev].rtt_us - last.cand[last.pick].rtt_us

SwitchPaysOff ==
    Switched /\ last.policy.rtt_delta_us # 0 => Gain > last.policy.rtt_delta_us

(***************************************************************************)
(* The header's own words, for every delta: "switch only when the          *)
(* improvement is strictly greater than delta".                            *)
(***************************************************************************)
SwitchOnlyForMore ==
    Switched => Gain > last.policy.rtt_delta_us
=============================================================================
