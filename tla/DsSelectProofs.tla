--------------------------- MODULE DsSelectProofs ---------------------------
(***************************************************************************)
(* ds_select for every weight, delta, RTT and sequence of calls.  The      *)
(* inductive invariant is that the credits are opposite, lie in -50 .. 49, *)
(* and are the exact account of leg A: credit[0] is what it was due less a *)
(* hundred for each decision it got.                                       *)
(***************************************************************************)
EXTENDS DsSelect, TLAPS

Opposite(credit) == credit[0] + credit[1] = 0 /\ -50 <= credit[0] /\ credit[0] <= 49

Ledger == owed = state.credit[0]

IInv == TypeOK /\ CreditsBounded /\ Ledger

-----------------------------------------------------------------------------
(* The validators of the file, of the protocol and of the scheduler agree *)

\* Two weights of at most 100 do not wrap around, so that their u32 sum is
\* 100 only if their sum is.
LEMMA WeightsAddUp ==
    ASSUME NEW x \in 0 .. 100, NEW y \in 0 .. 100, AddU32(x, y) = 100
    PROVE  x + y = 100
  <1>1. x + y \in 0 .. Word - 1
    BY ConfigConstants
  <1>2. (x + y) % Word = x + y
    BY <1>1, ConfigConstants
  <1>3. QED
    BY <1>2 DEF AddU32

\* A configuration with a generation and a mode, and weights of at most 100
\* whose u32 sum is 100, becomes a policy entry the scheduler accepts.
LEMMA MapPolicySteers ==
    ASSUME NEW c,
           c.enabled \in BOOLEAN, c.generation \in U32, c.generation # 0,
           c.mode \in Modes, c.rttDeltaUs \in U32,
           \A l \in Legs : c.legs[l].weight \in 0 .. 100,
           AddU32(c.legs[0].weight, c.legs[1].weight) = 100
    PROVE  MapPolicy(c) \in ds_policy /\ ds_policy_valid(MapPolicy(c))
  <1> DEFINE w == [l \in Legs |-> c.legs[l].weight]
  <1>1. w \in [Legs -> U32]
    <2>1. \A x \in 0 .. 100 : x \in U32
      BY ConfigConstants DEF U32
    <2>2. QED
      BY <2>1
  <1>2. w[0] + w[1] = 100 /\ w[0] <= 100 /\ w[1] <= 100
    <2>1. w[0] = c.legs[0].weight /\ w[1] = c.legs[1].weight
      BY DEF Legs
    <2>2. w[0] \in 0 .. 100 /\ w[1] \in 0 .. 100
      BY DEF Legs
    <2>3. AddU32(w[0], w[1]) = 100
      BY <2>1
    <2> HIDE DEF w
    <2>4. QED
      BY <2>2, <2>3, WeightsAddUp
  <1>3. DS_MODE_WRR \in U32 /\ DS_MODE_RTT \in U32 /\ 0 \in U32 /\ 1 \in U32
    BY ConfigConstants DEF DS_MODE_WRR, DS_MODE_RTT, U32
  <1> HIDE DEF w
  <1>4. MapPolicy(c) =
          [generation |-> c.generation, enabled |-> IF c.enabled THEN 1 ELSE 0,
           mode |-> IF c.mode = "lowest-rtt" THEN DS_MODE_RTT ELSE DS_MODE_WRR,
           weight |-> w, rtt_delta_us |-> c.rttDeltaUs]
    BY DEF MapPolicy, w
  <1>5. MapPolicy(c) \in ds_policy
    BY <1>1, <1>3, <1>4 DEF ds_policy
  <1>6. ds_policy_valid(MapPolicy(c))
    BY <1>2, <1>4 DEF ds_policy_valid, Legs
  <1>7. QED
    BY <1>5, <1>6

(***************************************************************************)
(* What Config.Validate lets through becomes a policy entry the scheduler  *)
(* accepts: apply never reports success for a policy that steers nothing   *)
(* because ds_policy_valid refuses it.                                     *)
(***************************************************************************)
THEOREM AcceptedConfigSteers ==
    ASSUME NEW c \in Config, Validate(c)
    PROVE  MapPolicy(c) \in ds_policy /\ ds_policy_valid(MapPolicy(c))
  <1>1. \A l \in Legs : c.legs[l] \in Leg /\ ValidLeg(c.legs[l])
    BY DEF Config, Validate
  <1>2. \A l \in Legs : c.legs[l].weight \in 0 .. 100
    <2>1. \A l \in Legs : c.legs[l].weight \in U32
      BY <1>1 DEF ValidLeg, Leg
    <2>2. \A l \in Legs : c.legs[l].weight <= 100
      BY <1>1 DEF ValidLeg
    <2>3. QED
      BY <2>1, <2>2, ConfigConstants DEF U32
  <1>3. /\ c.enabled \in BOOLEAN /\ c.mode \in Modes
        /\ c.generation \in U32 /\ c.generation # 0 /\ c.rttDeltaUs \in U32
        /\ AddU32(c.legs[0].weight, c.legs[1].weight) = 100
    BY DEF Config, Validate
  <1>4. QED
    BY <1>2, <1>3, MapPolicySteers

(***************************************************************************)
(* What Assignment.Validate lets through becomes a policy entry the        *)
(* scheduler accepts, whatever endpoints were observed: the check that     *)
(* ApplyLive repeats never finds a fault with the policy.                  *)
(***************************************************************************)
THEOREM AcceptedAssignmentSteers ==
    ASSUME NEW a \in Assignment, ValidAssignment(a), NEW endpoints
    PROVE  /\ MapPolicy(PlanConfig(a, endpoints)) \in ds_policy
           /\ ds_policy_valid(MapPolicy(PlanConfig(a, endpoints)))
  <1> DEFINE c == PlanConfig(a, endpoints)
  <1>1. /\ c.enabled \in BOOLEAN /\ c.mode \in Modes
        /\ c.generation \in U32 /\ c.generation # 0 /\ c.rttDeltaUs \in U32
    BY DEF PlanConfig, Assignment, Policy, ValidAssignment, ValidPolicy
  <1>2. \A l \in Legs : c.legs[l].weight = a.policy.weight[l]
    BY DEF PlanConfig
  <1>3. \A l \in Legs : a.policy.weight[l] \in 0 .. 100
    <2>1. \A l \in Legs : a.policy.weight[l] \in U32 /\ a.policy.weight[l] <= 100
      BY DEF Assignment, Policy, ValidAssignment, ValidPolicy
    <2>2. QED
      BY <2>1, ConfigConstants DEF U32
  <1>4. AddU32(c.legs[0].weight, c.legs[1].weight) = 100
    BY <1>2 DEF ValidAssignment, ValidPolicy, Legs
  <1> HIDE DEF c
  <1>5. \A l \in Legs : c.legs[l].weight \in 0 .. 100
    BY <1>2, <1>3
  <1>6. MapPolicy(c) \in ds_policy /\ ds_policy_valid(MapPolicy(c))
    BY <1>1, <1>4, <1>5, MapPolicySteers
  <1>7. QED
    BY <1>6 DEF c

(***************************************************************************)
(* plan does not validate the configuration it builds; ApplyLive does.     *)
(* If no endpoint pair was observed twice, as plan makes sure, that check  *)
(* can fail for one reason only: a leg's name that the protocol's list of  *)
(* forbidden characters lets through and strings.TrimSpace changes.  Such  *)
(* a context is accepted and its bindings never come to be.                *)
(***************************************************************************)
Observation == [localId : 0 .. 255, remoteId : 0 .. 255]

ObservedOnce(endpoints) ==
    /\ endpoints \in [Legs -> Seq(Observation)]
    /\ LET all == endpoints[0] \o endpoints[1]
       IN \A m, n \in DOMAIN all : m # n => all[m] # all[n]

THEOREM OnlyNamesFailTwice ==
    ASSUME NEW a \in Assignment, ValidAssignment(a),
           NEW endpoints, ObservedOnce(endpoints)
    PROVE  Validate(PlanConfig(a, endpoints))
              <=> \A l \in Legs : a.spec.legs[l].ifname \in IfNames
  <1> DEFINE c   == PlanConfig(a, endpoints)
             all == endpoints[0] \o endpoints[1]
  <1>1. \A l \in Legs : /\ c.legs[l].ifname = a.spec.legs[l].ifname
                        /\ c.legs[l].weight = a.policy.weight[l]
                        /\ c.legs[l].endpoints = endpoints[l]
    BY DEF PlanConfig
  <1>2. c.enabled # None /\ c.generation # 0 /\ c.mode \in Modes
    BY ConfigConstants DEF PlanConfig, Assignment, Policy, ValidAssignment, ValidPolicy
  <1>3. \A l \in Legs : a.policy.weight[l] # None /\ a.policy.weight[l] <= 100
    BY ConfigConstants DEF Assignment, Policy, ValidAssignment, ValidPolicy
  <1>4. \A l \in Legs : ValidLeg(c.legs[l]) <=> a.spec.legs[l].ifname \in IfNames
    BY <1>1, <1>3 DEF ValidLeg
  <1>5. c.legs[0].ifname # c.legs[1].ifname
    BY <1>1 DEF ValidAssignment, ValidContext, Legs
  <1>6. AddU32(c.legs[0].weight, c.legs[1].weight) = 100
    BY <1>1 DEF ValidAssignment, ValidPolicy, Legs
  <1>7. c.connection = None
    BY DEF PlanConfig
  <1>8. ValidEndpoints(c)
    <2>1. Listed(c) = all
      BY <1>1 DEF Listed, Legs
    <2>2. all \in Seq(Observation)
      BY DEF ObservedOnce, Legs
    <2> HIDE DEF all
    <2>3. \A n \in DOMAIN all : all[n] \in Observation
      BY <2>2
    <2>4. \A x \in 0 .. 255 : x # None /\ x <= 255
      BY ConfigConstants DEF U32
    <2>5. \A m, n \in DOMAIN all : m # n => all[m] # all[n]
      BY DEF ObservedOnce, all
    <2>6. QED
      BY <2>1, <2>3, <2>4, <2>5 DEF ValidEndpoints, Observation
  <1> HIDE DEF c
  <1>9. Validate(c) <=> \A l \in Legs : ValidLeg(c.legs[l])
    BY <1>2, <1>5, <1>6, <1>7, <1>8 DEF Validate
  <1>10. QED
    BY <1>4, <1>9 DEF c

(***************************************************************************)
(* If apply reaches the maps, each leg has a path entry of its own: no     *)
(* endpoint of leg A is overwritten by leg B's loop in DesiredPaths, which *)
(* would leave the scheduler a leg it never finds.                         *)
(***************************************************************************)
THEOREM AppliedPathsOnBothLegs ==
    ASSUME NEW c \in Config, NEW index, NEW inode, Applies(c, index, inode),
           NEW l \in Legs
    PROVE  \E e \in DOMAIN DesiredPaths(c) :
              DesiredPaths(c)[e] = [generation |-> c.generation, access |-> l]
  <1> DEFINE x == c.legs[0].endpoints
             y == c.legs[1].endpoints
  <1>1. /\ x \in Seq(Endpoint) /\ y \in Seq(Endpoint)
        /\ x # <<>> /\ y # <<>>
        /\ \A m, n \in DOMAIN (x \o y) : m # n => (x \o y)[m] # (x \o y)[n]
    BY DEF Config, Leg, Legs, Applies, Prepares, Validate, ValidEndpoints, Listed
  <1> HIDE DEF x, y
  <1>2. 1 \in DOMAIN x /\ 1 \in DOMAIN y
    BY <1>1
  <1>3. \A n \in DOMAIN y : x[1] # y[n]
    <2> TAKE n \in DOMAIN y
    <2>1. /\ 1 \in DOMAIN (x \o y) /\ Len(x) + n \in DOMAIN (x \o y)
          /\ (x \o y)[1] = x[1] /\ (x \o y)[Len(x) + n] = y[n]
          /\ Len(x) + n # 1
      BY <1>1, <1>2
    <2>2. QED
      BY <1>1, <2>1
  <1>4. EndpointsOf(c, 0) = {x[n] : n \in DOMAIN x} /\ EndpointsOf(c, 1) = {y[n] : n \in DOMAIN y}
    BY DEF EndpointsOf, x, y
  <1>5. CASE l = 0
    <2>1. x[1] \in EndpointsOf(c, 0) /\ x[1] \notin EndpointsOf(c, 1)
      BY <1>2, <1>3, <1>4
    <2>2. QED
      BY <1>5, <2>1 DEF DesiredPaths
  <1>6. CASE l = 1
    <2>1. y[1] \in EndpointsOf(c, 1)
      BY <1>2, <1>4
    <2>2. QED
      BY <1>6, <2>1 DEF DesiredPaths
  <1>7. QED
    BY <1>5, <1>6 DEF Legs
-----------------------------------------------------------------------------
(* The policies of a run *)

\* Every policy that reaches the map is well typed, valid for the scheduler,
\* and has weights that add to 100.
LEMMA AssignedPolicyType ==
    ASSUME NEW p \in AssignedPolicies
    PROVE  /\ p \in ds_policy
           /\ ds_policy_valid(p)
           /\ p.weight[0] \in 0 .. 100
           /\ p.weight[1] = 100 - p.weight[0]
  <1>1. p \in ds_policy /\ ds_policy_valid(p)
    <2>1. CASE \E c \in Configs : Validate(c) /\ p = MapPolicy(c)
      BY <2>1, AcceptedConfigSteers, DsSelectConstants
    <2>2. CASE \E a \in Assignments :
                  ValidAssignment(a) /\ p = MapPolicy(PlanConfig(a, NoEndpoints))
      BY <2>2, AcceptedAssignmentSteers, DsSelectConstants
    <2>3. QED
      BY <2>1, <2>2 DEF AssignedPolicies, Planned
  <1>2. QED
    BY <1>1 DEF ds_policy, ds_policy_valid, Legs, U32

(***************************************************************************)
(* Whatever the command line or the daemon writes, at any time, is a       *)
(* policy the scheduler does not ignore.                                   *)
(***************************************************************************)
THEOREM PoliciesAreAccepted == Spec => []AcceptedIsValid
  <1> DEFINE Inv == policy \in AssignedPolicies
  <1>1. Init => Inv
    BY DEF Init
  <1>2. Inv /\ [Next]_vars => Inv'
    BY DEF Next, ReplacePolicy, Select, vars
  <1>3. Inv => AcceptedIsValid
    BY AssignedPolicyType DEF AcceptedIsValid
  <1>4. QED
    BY <1>1, <1>2, <1>3, PTL DEF Spec

\* A reset keeps the type of the state and balances the credits.
LEMMA FreshType ==
    ASSUME NEW p \in ds_policy, NEW s \in ds_state, Opposite(s.credit)
    PROVE  Fresh(p, s) \in ds_state /\ Opposite(Fresh(p, s).credit)
  <1>1. ds_reset(p) \in ds_state /\ Opposite(ds_reset(p).credit)
    BY DEF ds_reset, ds_state, ds_policy, Legs, DS_NONE, Opposite
  <1>2. QED
    BY <1>1 DEF Fresh

\* One WRR decision moves the credits by the round, and keeps them bounded.
LEMMA WrrDecision ==
    ASSUME NEW p \in ds_policy, p.weight[0] \in 0 .. 100,
           p.weight[1] = 100 - p.weight[0],
           NEW s \in ds_state, Opposite(s.credit), NEW c
    PROVE  LET r    == SelectWrr(p, s, c)
               mask == WrrUsable(p, c)
               base == Remask(s, mask).credit
           IN /\ r.state \in ds_state
              /\ Opposite(r.state.credit)
              /\ mask = {} => r.pick = DS_NONE
              /\ mask # {} => r.pick \in mask
              /\ mask # Legs => r.state.credit[0] = base[0]
              /\ mask = Legs => r.state.credit[0] =
                    base[0] + p.weight[0] - IF r.pick = 0 THEN 100 ELSE 0
  <1> DEFINE mask   == WrrUsable(p, c)
             s1     == Remask(s, mask)
             earned == Earned(p, s1, mask)
             pick   == Richer(earned, mask)
             paid   == [l \in Legs |->
                          earned[l] - IF l = pick THEN RoundCost(p, mask) ELSE 0]
             r      == SelectWrr(p, s, c)
  <1>1. mask \subseteq Legs
    BY DEF WrrUsable
  <1> HIDE DEF mask
  <1>2. s1 \in ds_state /\ Opposite(s1.credit)
    <2> DEFINE zero == [l \in Legs |-> 0]
               z == [s EXCEPT !.credit = zero, !.available_mask = mask]
    <2>1. zero \in [Legs -> Int] /\ Opposite(zero)
      BY DEF Opposite, Legs
    <2> HIDE DEF zero
    <2>2. z \in ds_state /\ z.credit = zero
      BY <2>1, <1>1 DEF ds_state
    <2>3. s1 = s \/ s1 = z
      BY DEF Remask, zero
    <2>4. QED
      BY <2>1, <2>2, <2>3
  <1> HIDE DEF s1
  <1>3. s1.credit[0] \in Int /\ s1.credit[1] = -s1.credit[0]
        /\ -50 <= s1.credit[0] /\ s1.credit[0] <= 49
    BY <1>2 DEF ds_state, Opposite, Legs
  <1>4. /\ earned[0] = s1.credit[0] + IF 0 \in mask THEN p.weight[0] ELSE 0
        /\ earned[1] = s1.credit[1] + IF 1 \in mask THEN p.weight[1] ELSE 0
    BY DEF Earned, Legs
  <1> HIDE DEF earned
  <1>5. pick \in Legs /\ (mask # {} => pick \in mask)
    BY <1>1 DEF Richer, Legs
  <1>6. mask = Legs => pick = IF earned[1] > earned[0] THEN 1 ELSE 0
    BY DEF Richer, Legs
  <1> HIDE DEF pick
  <1>7. /\ paid[0] = earned[0] - IF pick = 0 THEN RoundCost(p, mask) ELSE 0
        /\ paid[1] = earned[1] - IF pick = 1 THEN RoundCost(p, mask) ELSE 0
    BY DEF Legs
  <1>8. p.weight[0] \in Int /\ p.weight[1] \in Int /\ RoundCost(p, mask) \in Int
    BY DEF RoundCost
  <1>9. paid \in [Legs -> Int]
    BY <1>3, <1>4, <1>8 DEF Legs
  <1> HIDE DEF paid
  <1>10. CASE mask = {}
    <2>1. r.state = s1 /\ r.pick = DS_NONE
      BY <1>10 DEF SelectWrr, NoDecision, mask, s1
    <2>2. mask # Legs
      BY <1>10 DEF Legs
    <2>3. QED
      BY <2>1, <2>2, <1>2, <1>10 DEF mask, s1
  <1>11. CASE mask # {}
    <2>1. r = Decision([s1 EXCEPT !.credit = paid], pick)
      BY <1>11 DEF SelectWrr, mask, s1, earned, pick, paid
    <2>2. /\ r.pick = pick
          /\ r.state = [[s1 EXCEPT !.credit = paid] EXCEPT !.previous_access = pick]
      BY <2>1 DEF Decision
    <2>3. r.state \in ds_state /\ r.state.credit = paid
      BY <2>2, <1>2, <1>5, <1>9 DEF ds_state
    <2>4. CASE mask = Legs
      <3>1. RoundCost(p, mask) = 100
        BY <2>4 DEF RoundCost, Legs
      <3>2. earned[0] = s1.credit[0] + p.weight[0] /\ earned[1] = s1.credit[1] + p.weight[1]
        BY <1>4, <2>4 DEF Legs
      <3>3. paid[0] = s1.credit[0] + p.weight[0] - IF pick = 0 THEN 100 ELSE 0
        BY <1>3, <1>7, <1>8, <3>1, <3>2
      <3>4. paid[1] = -paid[0]
        BY <1>3, <1>5, <1>7, <1>8, <3>1, <3>2 DEF Legs
      <3>5. -50 <= paid[0] /\ paid[0] <= 49
        BY <1>3, <1>6, <1>8, <2>4, <3>2, <3>3
      <3>6. Opposite(paid)
        BY <3>4, <3>5, <1>9 DEF Opposite, Legs
      <3>7. QED
        BY <2>2, <2>3, <2>4, <3>3, <3>6, <1>5 DEF mask, s1
    <2>5. CASE mask # Legs
      <3>1. \E l \in Legs : mask = {l}
        BY <1>1, <1>11, <2>5 DEF Legs
      <3>2. paid[0] = s1.credit[0] /\ paid[1] = s1.credit[1]
        <4>1. CASE mask = {0}
          <5>1. pick = 0 /\ RoundCost(p, mask) = p.weight[0]
            BY <4>1, <1>5, <1>8 DEF RoundCost
          <5>2. QED
            BY <5>1, <4>1, <1>3, <1>4, <1>7, <1>8
        <4>2. CASE mask = {1}
          <5>1. pick = 1 /\ RoundCost(p, mask) = p.weight[1]
            BY <4>2, <1>5, <1>8 DEF RoundCost
          <5>2. QED
            BY <5>1, <4>2, <1>3, <1>4, <1>7, <1>8
        <4>3. QED
          BY <3>1, <4>1, <4>2 DEF Legs
      <3>3. Opposite(paid)
        BY <3>2, <1>2 DEF Opposite
      <3>4. r.pick \in mask
        BY <2>2, <1>5, <1>11
      <3>5. QED
        BY <2>3, <2>5, <3>2, <3>3, <3>4, <1>11 DEF mask, s1
    <2>6. QED
      BY <2>4, <2>5
  <1>12. QED
    BY <1>10, <1>11

\* Every pair of candidates ds_schedule can offer is well typed.
LEMMA CandidateType ==
    ASSUME NEW c \in Candidates, NEW l \in Legs
    PROVE  c[l].rtt_us \in U32
  <1>1. c[l] \in Offers(l)
    BY DEF Candidates
  <1>2. RttValues \subseteq U32 /\ 0 \in U32
    BY DsSelectConstants, ConfigConstants DEF U32
  <1>3. QED
    BY <1>1, <1>2 DEF Offers

\* One RTT decision leaves the credits alone and obeys the delta.
LEMMA RttDecision ==
    ASSUME NEW p \in ds_policy, NEW s \in ds_state, NEW c \in Candidates
    PROVE  LET r == SelectRtt(p, s, c)
           IN /\ r.state \in ds_state
              /\ r.state.credit = s.credit
              /\ RttUsable(c) = {} => r.pick = DS_NONE
              /\ RttUsable(c) # {} => r.pick \in RttUsable(c)
              /\ RttUsable(c) = Legs =>
                    /\ c[r.pick].rtt_us <= c[Other(r.pick)].rtt_us + p.rtt_delta_us
                    /\ s.previous_access = Other(r.pick) /\ p.rtt_delta_us # 0 =>
                          c[s.previous_access].rtt_us - c[r.pick].rtt_us > p.rtt_delta_us
  <1> DEFINE r == SelectRtt(p, s, c)
             prev == s.previous_access
             delta == p.rtt_delta_us
             a == c[0].rtt_us
             b == c[1].rtt_us
             usable == RttUsable(c)
  <1>1. a \in Nat /\ b \in Nat /\ delta \in Nat /\ a < Word /\ b < Word /\ Word \in Nat
    BY CandidateType, DsSelectConstants, ConfigConstants DEF U32, Legs, ds_policy
  <1>2. usable \subseteq Legs /\ prev \in Legs \cup {DS_NONE}
    BY DEF RttUsable, ds_state
  <1>3. CASE usable = {}
    <2>1. r.state = s /\ r.pick = DS_NONE
      BY <1>3 DEF SelectRtt, NoDecision
    <2>2. usable # Legs
      BY <1>3 DEF Legs
    <2>3. QED
      BY <2>1, <2>2, <1>3
  <1>4. ASSUME usable # {}, NEW pick \in Legs, r = Decision(s, pick)
        PROVE  /\ r.state \in ds_state
               /\ r.state.credit = s.credit
               /\ r.pick = pick
    BY <1>4 DEF Decision, ds_state
  <1>5. CASE usable # {} /\ usable # Legs
    <2>1. PICK l \in Legs : usable = {l}
      BY <1>2, <1>5 DEF Legs
    <2>2. r = Decision(s, l)
      BY <1>5, <2>1 DEF SelectRtt, Legs
    <2>3. QED
      BY <1>4, <1>5, <2>1, <2>2
  <1>6. CASE usable = Legs
    <2> DEFINE fast == Faster(c)
    <2>1. /\ fast \in Legs
          /\ c[fast].rtt_us <= c[Other(fast)].rtt_us
          /\ c[fast].rtt_us \in Nat /\ c[Other(fast)].rtt_us \in Nat
      BY <1>1 DEF Faster, Legs, Other
    <2>2. CASE StaysWith(p, prev, c)
      <3>1. r = Decision(s, prev) /\ prev \in Legs /\ usable # {}
        BY <1>6, <2>2 DEF SelectRtt, StaysWith, Legs
      <3>2. c[prev].rtt_us <= c[fast].rtt_us + delta
        BY <1>1, <2>1, <2>2 DEF StaysWith, SubU32, Legs, Other
      <3>3. c[fast].rtt_us <= c[Other(prev)].rtt_us
        BY <1>1, <2>1, <3>1 DEF Legs, Other
      <3>4. c[prev].rtt_us <= c[Other(prev)].rtt_us + delta
        BY <1>1, <2>1, <3>1, <3>2, <3>3 DEF Legs, Other
      <3>5. prev # Other(prev)
        BY <3>1 DEF Legs, Other
      <3>6. QED
        BY <1>4, <1>6, <3>1, <3>4, <3>5
    <2>3. CASE ~StaysWith(p, prev, c)
      <3>1. r = Decision(s, fast) /\ usable # {}
        BY <1>6, <2>3 DEF SelectRtt, Legs
      <3>2. c[fast].rtt_us <= c[Other(fast)].rtt_us + delta
        BY <1>1, <2>1
      <3>3. prev = Other(fast) /\ delta # 0 => c[prev].rtt_us - c[fast].rtt_us > delta
        BY <1>1, <2>1, <2>3 DEF StaysWith, SubU32, Legs, Other
      <3>4. QED
        BY <1>4, <1>6, <2>1, <3>1, <3>2, <3>3
    <2>4. QED
      BY <2>2, <2>3
  <1>7. QED
    BY <1>3, <1>5, <1>6
-----------------------------------------------------------------------------
\* The properties of a single call, as invariants of `last'.
CallInv == ChoosesUsableLeg /\ NeverMuchSlower /\ SwitchPaysOff

\* A zeroed socket storage satisfies the invariant.
LEMMA InitInv == Init => IInv /\ CallInv
  <1> SUFFICES ASSUME Init PROVE IInv /\ CallInv
    OBVIOUS
  <1>1. policy \in ds_policy
    BY AssignedPolicyType DEF Init
  <1>2. ZeroState \in ds_state
    BY DsSelectConstants, ConfigConstants DEF ZeroState, ds_state, U32, Legs
  <1>3. IInv
    BY <1>1, <1>2 DEF Init, IInv, TypeOK, CreditsBounded, Ledger, ZeroState, Legs
  <1>4. CallInv
    BY DEF Init, CallInv, ChoosesUsableLeg, NeverMuchSlower, SwitchPaysOff, Switched, BothRtts
  <1>5. QED
    BY <1>3, <1>4

\* One call of ds_select preserves the invariant.
LEMMA SelectInv ==
    ASSUME IInv, NEW c \in Candidates, Select(c)
    PROVE  IInv' /\ CallInv'
  <1> DEFINE p == policy
             s0 == Fresh(policy, state)
             r == ds_select(policy, state, c)
             call == [policy |-> policy, cand |-> c, prev |-> s0.previous_access,
                      pick |-> r.pick]
  <1>1. /\ policy \in ds_policy /\ state \in ds_state /\ Opposite(state.credit)
        /\ Ledger
    BY DEF IInv, TypeOK, CreditsBounded, Opposite
  <1>2. s0 \in ds_state /\ Opposite(s0.credit)
    BY <1>1, FreshType
  <1>3. /\ state' = r.state /\ last' = call /\ policy' = policy
        /\ owed' = NextOwed(policy, state, c, r.pick)
    BY DEF Select
  <1>5. /\ last'.policy = policy /\ last'.cand = c
        /\ last'.prev = s0.previous_access /\ last'.pick = r.pick
    BY <1>3
  <1> HIDE DEF call
  <1>6. CASE ~Steers(policy)
    <2>1. r.state = state /\ r.pick = DS_NONE
      BY <1>6, <1>1 DEF ds_select, NoDecision, Steers, ds_policy_valid, ds_policy, U32
    <2>2. owed' = owed
      BY <1>3, <1>6 DEF NextOwed
    <2>3. IInv'
      BY <1>3, <2>1, <2>2 DEF IInv, TypeOK, CreditsBounded, Ledger
    <2>4. CallInv'
      BY <1>5, <1>6, <2>1
      DEF CallInv, ChoosesUsableLeg, NeverMuchSlower, SwitchPaysOff, Switched, BothRtts
    <2>5. QED
      BY <2>3, <2>4
  <1>7. CASE Steers(policy) /\ policy.mode = DS_MODE_RTT
    <2>1. r = SelectRtt(policy, s0, c)
      BY <1>7 DEF ds_select, Steers
    <2>2. /\ r.state \in ds_state
          /\ r.state.credit = s0.credit
          /\ RttUsable(c) = {} => r.pick = DS_NONE
          /\ RttUsable(c) # {} => r.pick \in RttUsable(c)
          /\ RttUsable(c) = Legs =>
                /\ c[r.pick].rtt_us <= c[Other(r.pick)].rtt_us + p.rtt_delta_us
                /\ s0.previous_access = Other(r.pick) /\ p.rtt_delta_us # 0 =>
                      c[s0.previous_access].rtt_us - c[r.pick].rtt_us > p.rtt_delta_us
      BY <1>1, <1>2, <2>1, RttDecision
    <2> HIDE DEF r, s0
    <2>3. IInv'
      <3>1. CASE s0 = state
        <4>1. owed' = owed
          BY <1>3, <1>7, <3>1 DEF NextOwed, s0
        <4>2. QED
          BY <1>1, <1>2, <1>3, <2>2, <3>1, <4>1
          DEF IInv, TypeOK, CreditsBounded, Ledger, Opposite
      <3>2. CASE s0 # state
        <4>1. owed' = 0
          BY <1>3, <1>7, <3>2 DEF NextOwed, s0
        <4>2. s0.credit[0] = 0
          BY <3>2 DEF s0, Fresh, ds_reset, Legs
        <4>3. QED
          BY <1>1, <1>2, <1>3, <2>2, <4>1, <4>2
          DEF IInv, TypeOK, CreditsBounded, Ledger, Opposite
      <3>3. QED
        BY <3>1, <3>2
    <2>4. CallInv'
      <3>1. ChoosesUsableLeg'
        <4>1. Usable(policy, c) = RttUsable(c)
          BY <1>7 DEF Usable, RttUsable
        <4>2. QED
          BY <1>5, <1>7, <2>2, <4>1 DEF ChoosesUsableLeg
      <3>2. NeverMuchSlower'
        BY <1>5, <2>2 DEF NeverMuchSlower, BothRtts
      <3>3. SwitchPaysOff'
        BY <1>5, <2>2 DEF SwitchPaysOff, Switched, BothRtts, Gain
      <3>4. QED
        BY <3>1, <3>2, <3>3 DEF CallInv
    <2>5. QED
      BY <2>3, <2>4
  <1>8. CASE Steers(policy) /\ policy.mode # DS_MODE_RTT
    <2> DEFINE mask == WrrUsable(policy, c)
               base == Remask(s0, mask).credit
               due  == IF Restarts(policy, state, c) THEN 0 ELSE owed
    <2>1. r = SelectWrr(policy, s0, c)
      BY <1>8 DEF ds_select, Steers
    <2>2. policy.weight[0] \in 0 .. 100 /\ policy.weight[1] = 100 - policy.weight[0]
      <3>1. policy.weight[0] \in Nat /\ policy.weight[1] \in Nat
        BY <1>1, DsSelectConstants, ConfigConstants DEF ds_policy, U32, Legs
      <3>2. QED
        BY <3>1, <1>8 DEF Steers, ds_policy_valid, Legs
    <2>3. /\ r.state \in ds_state
          /\ Opposite(r.state.credit)
          /\ mask = {} => r.pick = DS_NONE
          /\ mask # {} => r.pick \in mask
          /\ mask # Legs => r.state.credit[0] = base[0]
          /\ mask = Legs => r.state.credit[0] =
                base[0] + policy.weight[0] - IF r.pick = 0 THEN 100 ELSE 0
      BY <1>1, <1>2, <2>1, <2>2, WrrDecision
    <2>4. owed' = Counted(due, policy, c, r.pick)
      BY <1>3, <1>8 DEF NextOwed
    <2>5. due = base[0]
      <3>1. CASE Restarts(policy, state, c)
        <4>1. s0.credit[0] = 0 \/ mask # s0.available_mask
          BY <3>1 DEF Restarts, Fresh, ds_reset, Legs
        <4>2. base[0] = 0
          BY <4>1, <1>2 DEF Remask, Legs, ds_state
        <4>3. QED
          BY <3>1, <4>2
      <3>2. CASE ~Restarts(policy, state, c)
        <4>1. s0 = state /\ mask = s0.available_mask
          BY <3>2 DEF Restarts, Fresh
        <4>2. base = state.credit
          BY <4>1 DEF Remask
        <4>3. QED
          BY <3>2, <4>2, <1>1 DEF Ledger
      <3>3. QED
        BY <3>1, <3>2
    <2> HIDE DEF r, s0, base, due
    <2>6. owed' = r.state.credit[0]
      <3>1. CASE mask = Legs
        BY <2>3, <2>4, <2>5, <3>1 DEF Counted
      <3>2. CASE mask # Legs
        BY <2>3, <2>4, <2>5, <3>2 DEF Counted
      <3>3. QED
        BY <3>1, <3>2
    <2>7. IInv'
      <3>1. r.state.credit[0] \in Int
        BY <2>3 DEF ds_state, Legs
      <3>2. owed' = state'.credit[0] /\ owed' \in Int
        BY <1>3, <2>6, <3>1 DEF r
      <3>3. QED
        BY <1>1, <1>3, <2>3, <3>2
        DEF IInv, TypeOK, CreditsBounded, Ledger, Opposite, r
    <2>8. CallInv'
      <3>1. ChoosesUsableLeg'
        <4>1. Usable(policy, c) = WrrUsable(policy, c)
          BY <1>8 DEF Usable, WrrUsable
        <4>2. QED
          BY <1>5, <1>8, <2>3, <4>1 DEF ChoosesUsableLeg, r
      <3>2. NeverMuchSlower' /\ SwitchPaysOff'
        BY <1>5, <1>8 DEF NeverMuchSlower, SwitchPaysOff, Switched, BothRtts
      <3>3. QED
        BY <3>1, <3>2 DEF CallInv
    <2>9. QED
      BY <2>7, <2>8
  <1>9. QED
    BY <1>6, <1>7, <1>8

\* Every step preserves the invariant: a call, or a policy replaced.
LEMMA StepInv ==
    ASSUME IInv /\ CallInv, [Next]_vars
    PROVE  (IInv /\ CallInv)'
  <1>1. CASE ReplacePolicy
    <2>1. policy' \in ds_policy
      BY <1>1, AssignedPolicyType DEF ReplacePolicy
    <2>2. QED
      BY <1>1, <2>1
      DEF ReplacePolicy, IInv, TypeOK, CreditsBounded, Ledger, CallInv,
          ChoosesUsableLeg, NeverMuchSlower, SwitchPaysOff, Switched, BothRtts, Gain
  <1>2. ASSUME NEW c \in Candidates, Select(c) PROVE (IInv /\ CallInv)'
    BY <1>2, SelectInv
  <1>3. CASE UNCHANGED vars
    BY <1>3
    DEF vars, IInv, TypeOK, CreditsBounded, Ledger, CallInv,
        ChoosesUsableLeg, NeverMuchSlower, SwitchPaysOff, Switched, BothRtts, Gain
  <1>4. QED
    BY <1>1, <1>2, <1>3 DEF Next

\* The state keeps its type, the credits are leg A's account, and
\* the last decision is what it should be.
THEOREM SelectionInvariant == Spec => [](IInv /\ CallInv)
  BY InitInv, StepInv, PTL DEF Spec

\* The policy, the socket's state and the history keep their types.
THEOREM TypeCorrect == Spec => []TypeOK
  <1>1. IInv => TypeOK
    BY DEF IInv
  <1>2. QED
    BY SelectionInvariant, <1>1, PTL

\* The credits stay opposite and bounded: an __s32 never overflows.
THEOREM CreditsStayBounded == Spec => []CreditsBounded
  <1>1. IInv => CreditsBounded
    BY DEF IInv
  <1>2. QED
    BY SelectionInvariant, <1>1, PTL

\* Leg A has its share of the decisions to within half a decision, always.
THEOREM ShareStaysExact == Spec => []ShareIsExact
  <1>1. IInv => ShareIsExact
    BY DEF IInv, Ledger, CreditsBounded, ShareIsExact
  <1>2. QED
    BY SelectionInvariant, <1>1, PTL

\* Every decision goes to a usable leg if there is one.
THEOREM DecisionsAreUsable == Spec => []ChoosesUsableLeg
  <1>1. CallInv => ChoosesUsableLeg
    BY DEF CallInv
  <1>2. QED
    BY SelectionInvariant, <1>1, PTL

\* RTT mode: the chosen leg is never more than the delta slower.
THEOREM RttHysteresis == Spec => []NeverMuchSlower
  <1>1. CallInv => NeverMuchSlower
    BY DEF CallInv
  <1>2. QED
    BY SelectionInvariant, <1>1, PTL

\* RTT mode: a change of leg brings more than a nonzero delta.
THEOREM SwitchesPayOff == Spec => []SwitchPaysOff
  <1>1. CallInv => SwitchPaysOff
    BY DEF CallInv
  <1>2. QED
    BY SelectionInvariant, <1>1, PTL
=============================================================================
