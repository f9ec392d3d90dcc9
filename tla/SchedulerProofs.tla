-------------------------- MODULE SchedulerProofs ---------------------------
(***************************************************************************)
(* The scheduler's properties for every number of sockets, tokens and      *)
(* subflows, whatever the agent writes between two lookups.                *)
(*                                                                         *)
(* The properties speak of decisions and of the maps; what makes them      *)
(* inductive is what a running call knows: its storage is there and keeps  *)
(* its key (CallInv), a candidate on a leg is the position of a subflow    *)
(* whose path entry, as read, is of the call's generation and that leg     *)
(* (Backed), a candidate is not a backup subflow, and a selection state    *)
(* that a call may keep was built under the key beside it (HistoryInv).    *)
(***************************************************************************)
EXTENDS Scheduler, TLAPS

ReadPath == Paths \cup {None}

Candidates == [Legs -> ds_candidate]

Calls ==
    [key : Keys, policy : Policies, next : 0 .. Subflows, active : BOOLEAN,
     candidates : Candidates, backups : Candidates,
     read : [Positions -> ReadPath], backup : SUBSET Positions]

\* What is offered for a leg was read as an entry of this generation for it.
Backed(c, cands) ==
    \A l \in Legs : cands[l].position # DS_NONE =>
        /\ cands[l].position \in 0 .. c.next - 1
        /\ c.read[cands[l].position] =
              [generation |-> c.policy.generation, access |-> l]

\* A running call, whatever the maps have become since it began.
GoodCall(c) ==
    /\ c \in Calls
    /\ ds_policy_valid(c.policy) /\ c.policy.enabled # 0
    /\ c.backup \subseteq 0 .. c.next - 1
    /\ Backed(c, c.candidates) /\ Backed(c, c.backups)
    /\ \A l \in Legs : c.candidates[l].position \notin c.backup

CallInv ==
    \A s \in Sockets : call[s] # None =>
        /\ GoodCall(call[s])
        /\ token[s] = call[s].key
        /\ ds_state_map[s] # None
        /\ ds_state_map[s].stats_key = call[s].key

\* Without a socket there is no storage.
StorageInv == \A s \in Sockets : token[s] = None => ds_state_map[s] = None

\* A selection state in use was built under the key it is kept beside.
HistoryInv ==
    \A s \in Sockets :
        /\ ds_state_map[s] # None
        /\ ds_state_map[s].selection.generation # 0
        => /\ ds_state_map[s].stats_key # None
           /\ heldFor[s] = ds_state_map[s].stats_key

HistoryTypeOK ==
    /\ call    \in [Sockets -> Calls \cup {None}]
    /\ DOMAIN did = Sockets
    /\ heldFor \in [Sockets -> Keys \cup {None}]

IInv ==
    /\ TypeOK /\ HistoryTypeOK
    /\ StorageInv /\ CallInv /\ HistoryInv
    /\ StatsHaveAnOwner /\ SteersByOneGeneration /\ BackupsAreLast
-----------------------------------------------------------------------------
(* The operators *)

\* A state that does not restart is of the policy's generation.
LEMMA FreshResult ==
    ASSUME NEW p \in ds_policy, NEW s \in ds_state
    PROVE  /\ Fresh(p, s) \in ds_state
           /\ Fresh(p, s) = s => s.generation = p.generation
  BY DEF Fresh, ds_reset, ds_policy, ds_state, Legs, DS_NONE

\* A decision is noted in the state.
LEMMA DecisionResult ==
    ASSUME NEW s \in ds_state, NEW pick \in Legs
    PROVE  /\ Decision(s, pick).state \in ds_state
           /\ Decision(s, pick).state.previous_access = pick
           /\ Decision(s, pick).pick = pick
  BY DEF Decision, ds_state

\* New credits, for the present legs or for others.
LEMMA CreditType ==
    ASSUME NEW s \in ds_state, NEW credit \in [Legs -> Int], NEW mask \in SUBSET Legs
    PROVE  /\ [s EXCEPT !.credit = credit] \in ds_state
           /\ [s EXCEPT !.credit = credit, !.available_mask = mask] \in ds_state
  BY DEF ds_state

\* A decision goes to a leg that was offered, and the state names it.
LEMMA RttResult ==
    ASSUME NEW p, NEW s \in ds_state, NEW c \in Candidates
    PROVE  LET r == SelectRtt(p, s, c)
           IN /\ r.state \in ds_state
              /\ r.pick \in Legs \cup {DS_NONE}
              /\ r.pick # DS_NONE =>
                    c[r.pick].position # DS_NONE /\ r.state.previous_access = r.pick
  <1> DEFINE pick == IF 0 \notin RttUsable(c) THEN 1
                     ELSE IF 1 \notin RttUsable(c) THEN 0
                     ELSE IF StaysWith(p, s.previous_access, c) THEN s.previous_access
                     ELSE Faster(c)
  <1>1. CASE RttUsable(c) = {}
    BY <1>1 DEF SelectRtt, NoDecision
  <1>2. CASE RttUsable(c) # {}
    <2>1. RttUsable(c) \subseteq Legs
      BY DEF RttUsable
    <2>2. pick \in RttUsable(c)
      BY <1>2, <2>1 DEF Legs, StaysWith, Faster
    <2>3. SelectRtt(p, s, c) = Decision(s, pick)
      BY <1>2 DEF SelectRtt
    <2>4. c[pick].position # DS_NONE /\ pick \in Legs
      BY <2>2 DEF RttUsable
    <2> HIDE DEF pick
    <2>5. QED
      BY <2>3, <2>4, DecisionResult
  <1>3. QED
    BY <1>1, <1>2

LEMMA WrrResult ==
    ASSUME NEW p \in ds_policy, NEW s \in ds_state, NEW c \in Candidates
    PROVE  LET r == SelectWrr(p, s, c)
           IN /\ r.state \in ds_state
              /\ r.pick \in Legs \cup {DS_NONE}
              /\ r.pick # DS_NONE =>
                    c[r.pick].position # DS_NONE /\ r.state.previous_access = r.pick
  <1> DEFINE mask   == WrrUsable(p, c)
             s1     == Remask(s, mask)
             earned == Earned(p, s1, mask)
             pick   == Richer(earned, mask)
             paid   == [l \in Legs |->
                          earned[l] - IF l = pick THEN RoundCost(p, mask) ELSE 0]
  <1>1. mask \in SUBSET Legs
    BY DEF WrrUsable
  <1>2. s1 \in ds_state
    <2>1. [l \in Legs |-> 0] \in [Legs -> Int]
      OBVIOUS
    <2>2. QED
      BY <1>1, <2>1, CreditType DEF Remask
  <1>3. CASE mask = {}
    BY <1>2, <1>3 DEF SelectWrr, NoDecision
  <1>4. CASE mask # {}
    <2>1. pick \in mask
      BY <1>1, <1>4 DEF Richer, Legs
    <2>2. pick \in Legs /\ c[pick].position # DS_NONE
      BY <2>1 DEF WrrUsable
    <2>3. p.weight[0] \in Int /\ p.weight[1] \in Int
      BY SchedulerConstants DEF ds_policy, U32, Legs
    <2>4. earned \in [Legs -> Int] /\ RoundCost(p, mask) \in Int
      <3>1. s1.credit \in [Legs -> Int]
        BY <1>2 DEF ds_state
      <3> HIDE DEF s1, mask
      <3>2. QED
        BY <3>1, <2>3 DEF Earned, RoundCost, Legs
    <2>5. paid \in [Legs -> Int]
      <3> HIDE DEF earned, pick, mask
      <3>1. QED
        BY <2>4
    <2>6. SelectWrr(p, s, c) = Decision([s1 EXCEPT !.credit = paid], pick)
      BY <1>4 DEF SelectWrr
    <2> HIDE DEF paid, pick, s1
    <2>7. [s1 EXCEPT !.credit = paid] \in ds_state
      BY <1>2, <2>5, CreditType
    <2>8. QED
      BY <2>2, <2>6, <2>7, DecisionResult
  <1>5. QED
    BY <1>3, <1>4

\* ds_select for a call that steers.
LEMMA SelectResult ==
    ASSUME NEW p \in ds_policy, NEW s \in ds_state, NEW c \in Candidates
    PROVE  LET r == ds_select(p, s, c)
           IN /\ r.state \in ds_state
              /\ r.pick \in Legs \cup {DS_NONE}
              /\ r.pick # DS_NONE =>
                    c[r.pick].position # DS_NONE /\ r.state.previous_access = r.pick
  <1>1. CASE ~ds_policy_valid(p) \/ p.enabled = 0
    BY <1>1 DEF ds_select, NoDecision
  <1>2. CASE ~(~ds_policy_valid(p) \/ p.enabled = 0) /\ p.mode = DS_MODE_RTT
    <2>1. ds_select(p, s, c) = SelectRtt(p, Fresh(p, s), c)
      BY <1>2 DEF ds_select
    <2>2. QED
      BY <2>1, FreshResult, RttResult
  <1>3. CASE ~(~ds_policy_valid(p) \/ p.enabled = 0) /\ p.mode # DS_MODE_RTT
    <2>1. ds_select(p, s, c) = SelectWrr(p, Fresh(p, s), c)
      BY <1>3 DEF ds_select
    <2>2. QED
      BY <2>1, FreshResult, WrrResult
  <1>4. QED
    BY <1>1, <1>2, <1>3

\* ds_record writes one entry, of the right type, or nothing.
LEMMA RecordResult ==
    ASSUME NEW stats \in [Keys -> ds_stats \cup {None}], NEW k \in Keys,
           NEW p \in ds_policy, NEW leg \in Legs \cup {DS_NONE},
           NEW new \in ds_record(stats, k, p, leg)
    PROVE  /\ new \in [Keys -> ds_stats \cup {None}]
           /\ \A j \in Keys \ {k} : new[j] = stats[j]
  BY DEF ds_record, ds_stats, ds_policy

\* Offering a subflow that was read as an entry of this call for its leg
\* keeps the candidates backed.
LEMMA OfferResult ==
    ASSUME NEW cands \in Candidates, NEW i \in Positions,
           NEW path \in Paths, path.access \in Legs, NEW rtt \in RttValues
    PROVE  /\ Offered(cands, i, path, rtt) \in Candidates
           /\ \A l \in Legs :
                 \/ Offered(cands, i, path, rtt)[l] = cands[l]
                 \/ l = path.access /\ Offered(cands, i, path, rtt)[l].position = i
  <1>1. rtt \in U32 /\ i \in Nat
    BY SchedulerConstants DEF Positions
  <1>2. ds_offer(cands[path.access], i, rtt) \in ds_candidate
    BY <1>1 DEF ds_offer, ds_candidate, Candidates
  <1>3. QED
    BY <1>2 DEF Offered, ds_offer, Candidates
-----------------------------------------------------------------------------
(* One look at a subflow *)

\* A later call of the same key and policy that has read no position twice.
Extends(c, d) ==
    /\ d.policy = c.policy /\ c.next <= d.next
    /\ \A j \in 0 .. c.next - 1 : d.read[j] = c.read[j]

LEMMA BackedExtends ==
    ASSUME NEW c \in Calls, NEW d \in Calls, Extends(c, d),
           NEW cands \in Candidates, Backed(c, cands)
    PROVE  Backed(d, cands)
  <1>1. c.next \in Int /\ d.next \in Int /\ c.next <= d.next
    BY SchedulerConstants DEF Calls, Extends
  <1>2. \A j \in 0 .. c.next - 1 : j \in 0 .. d.next - 1
    BY <1>1
  <1>3. QED
    BY <1>2 DEF Backed, Extends

\* Whatever the map holds at this moment and the subflow looks like, the
\* call stays one whose candidates are backed by what it read.
LEMMA LookedResult ==
    ASSUME TypeOK, NEW c, GoodCall(c), c.next < Subflows, NEW f \in SubflowStatus
    PROVE  GoodCall(Looked(c, f)) /\ Looked(c, f).key = c.key
  <1> DEFINE i    == c.next
             path == ds_path_map[c.key][PairOf[i]]
             c1   == [c EXCEPT !.next = i + 1, !.active = @ \/ (f.active /\ ~f.backup)]
             c2   == [c1 EXCEPT !.read[i] = path,
                                !.backup = IF f.backup THEN @ \cup {i} ELSE @]
             cb   == [c2 EXCEPT !.backups = Offered(@, i, path, f.rtt)]
             cc   == [c2 EXCEPT !.candidates = Offered(@, i, path, f.rtt)]
  <1>1. c \in Calls /\ c.candidates \in Candidates /\ c.backups \in Candidates
    BY DEF GoodCall, Calls
  <1>2. i \in Positions /\ i \in Nat /\ i + 1 \in 0 .. Subflows
    BY <1>1, SchedulerConstants DEF Calls, Positions
  <1>3. path \in ReadPath
    BY <1>1, <1>2, SchedulerConstants DEF TypeOK, Calls, ReadPath
  <1>4. f.active \in BOOLEAN /\ f.backup \in BOOLEAN /\ f.rtt \in RttValues
    BY SchedulerConstants DEF SubflowStatus
  <1>5. /\ c1 \in Calls /\ c1.next = i + 1 /\ c1.policy = c.policy /\ c1.key = c.key
        /\ c1.read = c.read /\ c1.backup = c.backup
        /\ c1.candidates = c.candidates /\ c1.backups = c.backups
    BY <1>1, <1>2, <1>4 DEF Calls
  <1>6. Extends(c, c1)
    BY <1>2, <1>5 DEF Extends
  <1>7. GoodCall(c1)
    <2>1. Backed(c1, c1.candidates) /\ Backed(c1, c1.backups)
      BY <1>1, <1>5, <1>6, BackedExtends DEF GoodCall
    <2>2. c1.backup \subseteq 0 .. c1.next - 1
      BY <1>2, <1>5 DEF GoodCall
    <2> HIDE DEF c1
    <2>3. QED
      BY <1>5, <2>1, <2>2 DEF GoodCall
  <1>8. /\ c2 \in Calls /\ c2.next = i + 1 /\ c2.policy = c.policy /\ c2.key = c.key
        /\ c2.read = [c.read EXCEPT ![i] = path]
        /\ c2.backup = IF f.backup THEN c.backup \cup {i} ELSE c.backup
        /\ c2.candidates = c.candidates /\ c2.backups = c.backups
    <2> HIDE DEF c1, i, path
    <2>1. c1.read \in [Positions -> ReadPath] /\ c1.backup \in SUBSET Positions
      BY <1>5 DEF Calls
    <2>2. QED
      BY <1>2, <1>3, <1>5, <2>1 DEF Calls
  <1> HIDE DEF c1, c2
  <1>9. c.read \in [Positions -> ReadPath]
    BY <1>1 DEF Calls
  <1>10. Extends(c, c2)
    BY <1>2, <1>8, <1>9 DEF Extends
  <1>11. GoodCall(c2)
    <2>1. Backed(c2, c2.candidates) /\ Backed(c2, c2.backups)
      BY <1>1, <1>8, <1>10, BackedExtends DEF GoodCall
    <2>2. c2.backup \subseteq 0 .. c2.next - 1
      BY <1>2, <1>8 DEF GoodCall
    <2>3. ASSUME NEW l \in Legs PROVE c2.candidates[l].position \notin c2.backup
      <3>1. c.candidates[l].position # DS_NONE => c.candidates[l].position \in 0 .. i - 1
        BY DEF GoodCall, Backed
      <3>2. c.candidates[l].position # i
        BY <3>1, <1>2 DEF DS_NONE
      <3>3. QED
        BY <3>2, <1>8 DEF GoodCall
    <2>4. QED
      BY <1>8, <2>1, <2>2, <2>3 DEF GoodCall
  <1>12. ASSUME Classifies(c.policy, path, f.rtt)
         PROVE  /\ path \in Paths /\ path.access \in Legs
                /\ c2.read[i] = [generation |-> c2.policy.generation,
                                 access |-> path.access]
    <2>1. path \in Paths /\ path.access \in Legs /\ path.generation = c.policy.generation
      BY <1>3, <1>12 DEF Classifies, ReadPath
    <2>2. path \in ds_path
      BY <2>1, SchedulerConstants
    <2>3. path = [generation |-> path.generation, access |-> path.access]
      BY <2>2 DEF ds_path
    <2>4. QED
      BY <1>2, <1>8, <1>9, <2>1, <2>3
  <1>13. ASSUME NEW cands \in Candidates, Backed(c2, cands),
                Classifies(c.policy, path, f.rtt)
         PROVE  /\ Offered(cands, i, path, f.rtt) \in Candidates
                /\ Backed(c2, Offered(cands, i, path, f.rtt))
    <2> DEFINE new == Offered(cands, i, path, f.rtt)
    <2>1. /\ path \in Paths /\ path.access \in Legs
          /\ c2.read[i] = [generation |-> c2.policy.generation, access |-> path.access]
      BY <1>12, <1>13
    <2> HIDE DEF path, i
    <2>2. /\ new \in Candidates
          /\ \A l \in Legs : new[l] = cands[l] \/ (l = path.access /\ new[l].position = i)
      BY <1>2, <1>4, <1>13, <2>1, OfferResult
    <2> HIDE DEF new
    <2>3. ASSUME NEW l \in Legs, new[l].position # DS_NONE
          PROVE  /\ new[l].position \in 0 .. c2.next - 1
                 /\ c2.read[new[l].position] =
                       [generation |-> c2.policy.generation, access |-> l]
      <3>1. CASE new[l] = cands[l]
        BY <1>13, <2>3, <3>1 DEF Backed
      <3>2. CASE l = path.access /\ new[l].position = i
        BY <1>2, <1>8, <2>1, <3>2
      <3>3. QED
        BY <2>2, <3>1, <3>2
    <2>4. QED
      BY <2>2, <2>3 DEF Backed, new
  <1>14. CASE ~f.active \/ ~f.room
    <2>1. Looked(c, f) = c1
      BY <1>14 DEF Looked, c1
    <2>2. QED
      BY <2>1, <1>5, <1>7
  <1>15. CASE ~(~f.active \/ ~f.room) /\ ~Classifies(c.policy, path, f.rtt)
    <2>1. Looked(c, f) = c2
      BY <1>15 DEF Looked, c1, c2
    <2>2. QED
      BY <2>1, <1>8, <1>11
  <1>16. CASE ~(~f.active \/ ~f.room) /\ Classifies(c.policy, path, f.rtt) /\ f.backup
    <2>1. Looked(c, f) = cb
      BY <1>16 DEF Looked, c1, c2
    <2> DEFINE new == Offered(c2.backups, i, path, f.rtt)
    <2>2. new \in Candidates /\ Backed(c2, new)
      BY <1>1, <1>8, <1>11, <1>13, <1>16 DEF GoodCall
    <2> HIDE DEF new
    <2>3. /\ cb \in Calls /\ cb.next = c2.next /\ cb.policy = c2.policy
          /\ cb.key = c2.key /\ cb.read = c2.read /\ cb.backup = c2.backup
          /\ cb.candidates = c2.candidates /\ cb.backups = new
      BY <1>8, <2>2 DEF Calls, new
    <2> HIDE DEF cb
    <2>4. Backed(cb, cb.backups) /\ Backed(cb, cb.candidates)
      BY <1>11, <2>2, <2>3 DEF Backed, GoodCall
    <2>5. QED
      BY <1>8, <1>11, <2>1, <2>3, <2>4 DEF GoodCall
  <1>17. CASE ~(~f.active \/ ~f.room) /\ Classifies(c.policy, path, f.rtt) /\ ~f.backup
    <2>1. Looked(c, f) = cc
      BY <1>17 DEF Looked, c1, c2
    <2> DEFINE new == Offered(c2.candidates, i, path, f.rtt)
    <2>2. new \in Candidates /\ Backed(c2, new)
      BY <1>1, <1>8, <1>11, <1>13, <1>17 DEF GoodCall
    <2>3. \A l \in Legs : new[l] = c2.candidates[l] \/ new[l].position = i
      <3> HIDE DEF path, i
      <3>1. QED
        BY <1>1, <1>2, <1>4, <1>8, <1>12, <1>17, OfferResult
    <2>4. i \notin c2.backup
      BY <1>2, <1>8, <1>17 DEF GoodCall
    <2> HIDE DEF new
    <2>5. /\ cc \in Calls /\ cc.next = c2.next /\ cc.policy = c2.policy
          /\ cc.key = c2.key /\ cc.read = c2.read /\ cc.backup = c2.backup
          /\ cc.candidates = new /\ cc.backups = c2.backups
      BY <1>8, <2>2 DEF Calls, new
    <2> HIDE DEF cc
    <2>6. Backed(cc, cc.backups) /\ Backed(cc, cc.candidates)
      BY <1>11, <2>2, <2>5 DEF Backed, GoodCall
    <2>7. \A l \in Legs : cc.candidates[l].position \notin cc.backup
      BY <1>11, <2>3, <2>4, <2>5 DEF GoodCall
    <2>8. QED
      BY <1>8, <1>11, <2>1, <2>5, <2>6, <2>7 DEF GoodCall
  <1>18. QED
    BY <1>14, <1>15, <1>16, <1>17
-----------------------------------------------------------------------------
(* The steps *)

LEMMA InitInv == Init => IInv
  <1> SUFFICES ASSUME Init PROVE IInv
    OBVIOUS
  <1> USE DEF Init
  <1>1. TypeOK /\ HistoryTypeOK
    BY DEF TypeOK, HistoryTypeOK
  <1>2. StorageInv /\ CallInv /\ HistoryInv
    BY DEF StorageInv, CallInv, HistoryInv
  <1>3. StatsHaveAnOwner /\ SteersByOneGeneration /\ BackupsAreLast
    BY DEF StatsHaveAnOwner, SteersByOneGeneration, BackupsAreLast
  <1>4. QED
    BY <1>1, <1>2, <1>3 DEF IInv

\* The agent's writes are seen by the calls that come to look, and by
\* nothing else.
LEMMA WriteInv ==
    ASSUME IInv, NEW k \in Tokens,
           \/ \E v \in Policies \cup {None} : WritePolicy(k, v)
           \/ \E p \in Pairs, v \in Paths \cup {None} : WritePath(k, p, v)
    PROVE  IInv'
  <1>1. UNCHANGED <<ds_stats_map, ds_state_map, token, call, did, heldFor>>
    BY DEF WritePolicy, WritePath, history
  <1>2. TypeOK'
    BY <1>1 DEF IInv, TypeOK, WritePolicy, WritePath, Keys
  <1>3. QED
    BY <1>1, <1>2
    DEF IInv, HistoryTypeOK, StorageInv, CallInv, HistoryInv, StatsHaveAnOwner,
        SteersByOneGeneration, BackupsAreLast

\* A new storage holds no statistics key and no history.
LEMMA InitSocketInv ==
    ASSUME IInv, NEW s \in Sockets, ds_init(s)
    PROVE  IInv'
  <1>1. /\ token[s] = None /\ ds_state_map[s] = None /\ call[s] = None
    BY SchedulerConstants DEF ds_init, IInv, StorageInv, CallInv
  <1>2. PICK created \in {NewStorage, None} :
           ds_state_map' = [ds_state_map EXCEPT ![s] = created]
    BY DEF ds_init
  <1>3. /\ token' = [token EXCEPT ![s] = 0]
        /\ UNCHANGED <<ds_policy_map, ds_path_map, ds_stats_map, call, did, heldFor>>
    BY DEF ds_init, agentMaps, history
  <1>4. /\ token \in [Sockets -> Keys \cup {None}] /\ 0 \in Keys
        /\ ds_state_map \in [Sockets -> Storage \cup {None}]
    BY DEF IInv, TypeOK, Keys
  <1>5. NewStorage \in Storage /\ NewStorage.selection.generation = 0
    BY SchedulerConstants DEF NewStorage, Storage, ZeroState, ds_state, U32, Legs
  <1>6. TypeOK' /\ HistoryTypeOK'
    BY <1>2, <1>3, <1>4, <1>5 DEF IInv, TypeOK, HistoryTypeOK
  <1>7. ASSUME NEW r \in Sockets \ {s}
        PROVE  token'[r] = token[r] /\ ds_state_map'[r] = ds_state_map[r]
    BY <1>2, <1>3, <1>4
  <1>8. token'[s] = 0 /\ ds_state_map'[s] = created
    BY <1>2, <1>3, <1>4
  <1>9. StorageInv'
    BY <1>7, <1>8, SchedulerConstants DEF IInv, StorageInv, Keys
  <1>10. CallInv'
    BY <1>1, <1>3, <1>7 DEF IInv, CallInv
  <1>11. HistoryInv'
    BY <1>3, <1>5, <1>7, <1>8 DEF IInv, HistoryInv
  <1>12. StatsHaveAnOwner'
    BY <1>1, <1>3, <1>7 DEF IInv, StatsHaveAnOwner
  <1>13. SteersByOneGeneration' /\ BackupsAreLast'
    BY <1>3 DEF IInv, SteersByOneGeneration, BackupsAreLast
  <1>14. QED
    BY <1>6, <1>9, <1>10, <1>11, <1>12, <1>13 DEF IInv

\* The token may become another while no call is running.
LEMMA SetTokenInv ==
    ASSUME IInv, NEW s \in Sockets, NEW k \in Keys, SetToken(s, k)
    PROVE  IInv'
  <1>1. /\ token' = [token EXCEPT ![s] = k] /\ call[s] = None /\ token[s] # None
        /\ UNCHANGED <<ds_policy_map, ds_path_map, ds_stats_map, ds_state_map,
                       call, did, heldFor>>
    BY DEF SetToken, agentMaps, history
  <1>2. TypeOK' /\ HistoryTypeOK'
    BY <1>1 DEF IInv, TypeOK, HistoryTypeOK
  <1>3. StorageInv' /\ CallInv'
    BY <1>1, SchedulerConstants DEF IInv, TypeOK, StorageInv, CallInv
  <1>4. HistoryInv' /\ StatsHaveAnOwner' /\ SteersByOneGeneration' /\ BackupsAreLast'
    BY <1>1 DEF IInv, HistoryInv, StatsHaveAnOwner, SteersByOneGeneration, BackupsAreLast
  <1>5. QED
    BY <1>2, <1>3, <1>4 DEF IInv

\* The released socket's entry goes with it, whatever its token is now; no
\* other entry was its own.
LEMMA ReleaseInv ==
    ASSUME IInv, NEW s \in Sockets, ds_release(s)
    PROVE  IInv'
  <1>1. /\ call[s] = None
        /\ ds_stats_map' = ReleasedStats(s)
        /\ ds_state_map' = [ds_state_map EXCEPT ![s] = None]
        /\ token' = [token EXCEPT ![s] = None]
        /\ did' = [did EXCEPT ![s] = None]
        /\ heldFor' = [heldFor EXCEPT ![s] = None]
        /\ UNCHANGED <<ds_policy_map, ds_path_map, call>>
    BY DEF ds_release, agentMaps
  <1>2. /\ ds_state_map \in [Sockets -> Storage \cup {None}]
        /\ ds_stats_map \in [Keys -> ds_stats \cup {None}]
        /\ token \in [Sockets -> Keys \cup {None}]
        /\ heldFor \in [Sockets -> Keys \cup {None}] /\ DOMAIN did = Sockets
    BY DEF IInv, TypeOK, HistoryTypeOK
  <1>3. /\ ds_stats_map' \in [Keys -> ds_stats \cup {None}]
        /\ \A k \in Keys : ds_stats_map'[k] # None =>
              /\ ds_stats_map[k] # None
              /\ ~(ds_state_map[s] # None /\ ds_state_map[s].stats_key = k)
    BY <1>1, <1>2, SchedulerConstants DEF ReleasedStats
  <1>4. TypeOK' /\ HistoryTypeOK'
    BY <1>1, <1>2, <1>3 DEF IInv, TypeOK, HistoryTypeOK
  <1>5. ASSUME NEW r \in Sockets \ {s}
        PROVE  /\ token'[r] = token[r] /\ ds_state_map'[r] = ds_state_map[r]
               /\ did'[r] = did[r] /\ heldFor'[r] = heldFor[r]
    BY <1>1, <1>2
  <1>6. ds_state_map'[s] = None /\ did'[s] = None
    BY <1>1, <1>2
  <1>7. StorageInv' /\ CallInv' /\ HistoryInv'
    BY <1>1, <1>5, <1>6 DEF IInv, StorageInv, CallInv, HistoryInv
  <1>8. StatsHaveAnOwner'
    <2> SUFFICES ASSUME NEW k \in Keys, ds_stats_map'[k] # None
                 PROVE  \E r \in Sockets :
                           ds_state_map'[r] # None /\ ds_state_map'[r].stats_key = k
      BY DEF StatsHaveAnOwner
    <2>1. PICK r \in Sockets : ds_state_map[r] # None /\ ds_state_map[r].stats_key = k
      BY <1>3 DEF IInv, StatsHaveAnOwner
    <2>2. r # s
      BY <1>3, <2>1
    <2>3. QED
      BY <1>5, <2>1, <2>2
  <1>9. SteersByOneGeneration' /\ BackupsAreLast'
    BY <1>5, <1>6 DEF IInv, SteersByOneGeneration, BackupsAreLast
  <1>10. QED
    BY <1>4, <1>7, <1>8, <1>9 DEF IInv
-----------------------------------------------------------------------------
\* What the start of a call makes of its storage: the key is the call's, and
\* a history that is kept was built under it.
LEMMA EnterResult ==
    ASSUME NEW st \in Storage, NEW k \in Keys
    PROVE  /\ Enter(st, k) \in Storage
           /\ Enter(st, k).stats_key = k
           /\ Enter(st, k).selection.generation # 0 =>
                 /\ st.selection.generation # 0
                 /\ st.stats_key \in {None, k}
  <1>1. 0 \in U32
    BY SchedulerConstants DEF U32
  <1>2. QED
    BY <1>1 DEF Enter, Rekeyed, Storage, ds_state

\* The entry of a key that the socket gives up is deleted, no other.
LEMMA EnterStatsResult ==
    ASSUME TypeOK, NEW st \in Storage, NEW k \in Keys
    PROVE  /\ EnterStats(st, k) \in [Keys -> ds_stats \cup {None}]
           /\ \A j \in Keys \ {k} : EnterStats(st, k)[j] # None =>
                 ds_stats_map[j] # None /\ st.stats_key # j
  BY SchedulerConstants DEF TypeOK, EnterStats, Rekeyed, Storage

\* A call that begins has read nothing and has no candidates.
LEMMA NewCallResult ==
    ASSUME NEW k \in Keys, NEW p \in Policies, ds_policy_valid(p), p.enabled # 0
    PROVE  GoodCall(NewCall(k, p)) /\ NewCall(k, p).key = k
  <1>1. NoCandidates \in Candidates
    BY SchedulerConstants DEF NoCandidates, Candidates, ds_candidate, U32
  <1>2. NewCall(k, p) \in Calls
    BY <1>1, SchedulerConstants DEF NewCall, Calls, ReadPath
  <1>3. Backed(NewCall(k, p), NoCandidates)
    BY DEF Backed, NoCandidates
  <1>4. QED
    BY <1>2, <1>3 DEF GoodCall, NewCall, NoCandidates

\* The owner of the entries is the socket that has their key: one whose
\* storage is replaced by one with key k gives up no entry but that of k.
LEMMA OwnersStay ==
    ASSUME IInv, NEW s \in Sockets, NEW k \in Keys, NEW st \in Storage,
           st.stats_key = k,
           ds_state_map' = [ds_state_map EXCEPT ![s] = st],
           \A j \in Keys \ {k} : ds_stats_map'[j] # None =>
              /\ ds_stats_map[j] # None
              /\ ~(ds_state_map[s] # None /\ ds_state_map[s].stats_key = j)
    PROVE  StatsHaveAnOwner'
  <1> SUFFICES ASSUME NEW j \in Keys, ds_stats_map'[j] # None
               PROVE  \E r \in Sockets :
                         ds_state_map'[r] # None /\ ds_state_map'[r].stats_key = j
    BY DEF StatsHaveAnOwner
  <1>1. ds_state_map \in [Sockets -> Storage \cup {None}] /\ st # None
    BY SchedulerConstants DEF IInv, TypeOK
  <1>2. CASE j = k
    BY <1>1, <1>2
  <1>3. CASE j # k
    <2>1. PICK r \in Sockets : ds_state_map[r] # None /\ ds_state_map[r].stats_key = j
      BY <1>3 DEF IInv, StatsHaveAnOwner
    <2>2. r # s
      BY <1>3, <2>1
    <2>3. QED
      BY <1>1, <2>1, <2>2
  <1>4. QED
    BY <1>2, <1>3

LEMMA BeginInv ==
    ASSUME IInv, NEW s \in Sockets, NEW reinject \in BOOLEAN,
           BeginSchedule(s, reinject)
    PROVE  IInv'
  <1> DEFINE k == token[s]
             p == ds_policy_map[k]
  <1>1. /\ token[s] # None /\ call[s] = None
        /\ did' = [did EXCEPT ![s] = None]
        /\ UNCHANGED <<ds_policy_map, ds_path_map, token, heldFor>>
    BY DEF BeginSchedule, agentMaps
  <1>2. /\ ds_state_map \in [Sockets -> Storage \cup {None}]
        /\ ds_stats_map \in [Keys -> ds_stats \cup {None}]
        /\ call \in [Sockets -> Calls \cup {None}]
        /\ heldFor \in [Sockets -> Keys \cup {None}] /\ DOMAIN did = Sockets
        /\ k \in Keys /\ p \in Policies \cup {None}
    BY <1>1 DEF IInv, TypeOK, HistoryTypeOK
  <1>3. did'[s] = None /\ \A r \in Sockets \ {s} : did'[r] = did[r]
    BY <1>1, <1>2
  <1>4. SteersByOneGeneration' /\ BackupsAreLast'
    BY <1>3 DEF IInv, SteersByOneGeneration, BackupsAreLast
  <1>5. PICK st \in StorageOf(s) :
           IF st = None
           THEN UNCHANGED <<ds_stats_map, ds_state_map, call>>
           ELSE /\ ds_state_map' = [ds_state_map EXCEPT ![s] = Enter(st, k)]
                /\ IF FallsBack(p, reinject)
                   THEN /\ ds_stats_map' \in
                              ds_record(EnterStats(st, k), k, OrZero(p), DS_NONE)
                        /\ UNCHANGED call
                   ELSE /\ ds_stats_map' = EnterStats(st, k)
                        /\ call' = [call EXCEPT ![s] = NewCall(k, p)]
    BY DEF BeginSchedule
  <1>6. CASE st = None
    <2>1. UNCHANGED <<ds_stats_map, ds_state_map, call>>
      BY <1>5, <1>6
    <2>2. QED
      BY <1>1, <1>4, <2>1
      DEF IInv, TypeOK, HistoryTypeOK, StorageInv, CallInv, HistoryInv, StatsHaveAnOwner
  <1>7. CASE st # None
    <2>1. st \in Storage /\ (st = ds_state_map[s] \/ (ds_state_map[s] = None /\ st = NewStorage))
      <3>1. NewStorage \in Storage
        BY SchedulerConstants DEF NewStorage, Storage, ZeroState, ds_state, U32, Legs
      <3>2. QED
        BY <1>2, <1>7, <3>1 DEF StorageOf
    <2> DEFINE new == Enter(st, k)
    <2>2. /\ new \in Storage /\ new.stats_key = k
          /\ new.selection.generation # 0 =>
                st.selection.generation # 0 /\ st.stats_key \in {None, k}
      BY <1>2, <2>1, EnterResult
    <2>3. ds_state_map' = [ds_state_map EXCEPT ![s] = new]
      BY <1>5, <1>7
    <2>4. new # None
      BY <2>2, SchedulerConstants
    <2> HIDE DEF new
    <2>5. \A r \in Sockets : ds_state_map'[r] = IF r = s THEN new ELSE ds_state_map[r]
      BY <1>2, <2>3
    <2>6. StorageInv'
      BY <1>1, <2>5 DEF IInv, StorageInv
    <2>7. HistoryInv'
      <3>1. new.selection.generation # 0 => heldFor[s] = k /\ k # None
        <4>1. SUFFICES ASSUME new.selection.generation # 0
                       PROVE  heldFor[s] = k /\ k # None
          OBVIOUS
        <4>2. st.selection.generation # 0 /\ st.stats_key \in {None, k}
          BY <2>2, <4>1
        <4>3. st = ds_state_map[s] /\ ds_state_map[s] # None
          BY <1>7, <2>1, <4>2 DEF NewStorage, ZeroState
        <4>4. QED
          BY <4>2, <4>3, <1>1 DEF IInv, HistoryInv
      <3>2. QED
        BY <1>1, <2>2, <2>5, <3>1 DEF IInv, HistoryInv
    <2>8. CASE FallsBack(p, reinject)
      <3>1. ds_stats_map' \in ds_record(EnterStats(st, k), k, OrZero(p), DS_NONE)
            /\ UNCHANGED call
        BY <1>5, <1>7, <2>8
      <3>2. OrZero(p) \in ds_policy
        BY <1>2, SchedulerConstants DEF OrZero, NoPolicy, ds_policy, U32
      <3>3. /\ EnterStats(st, k) \in [Keys -> ds_stats \cup {None}]
            /\ \A j \in Keys \ {k} : EnterStats(st, k)[j] # None =>
                  ds_stats_map[j] # None /\ st.stats_key # j
        BY <1>2, <2>1, EnterStatsResult DEF IInv
      <3>4. /\ ds_stats_map' \in [Keys -> ds_stats \cup {None}]
            /\ \A j \in Keys \ {k} : ds_stats_map'[j] = EnterStats(st, k)[j]
        BY <1>2, <3>1, <3>2, <3>3, RecordResult
      <3>5. StatsHaveAnOwner'
        <4>1. \A j \in Keys \ {k} : ds_stats_map'[j] # None =>
                 /\ ds_stats_map[j] # None
                 /\ ~(ds_state_map[s] # None /\ ds_state_map[s].stats_key = j)
          BY <2>1, <3>3, <3>4
        <4> HIDE DEF k
        <4>2. QED
          BY <1>2, <2>2, <2>3, <4>1, OwnersStay
      <3>6. TypeOK' /\ HistoryTypeOK'
        BY <1>1, <1>2, <2>2, <2>3, <3>1, <3>4 DEF IInv, TypeOK, HistoryTypeOK
      <3>7. CallInv'
        BY <1>1, <2>5, <3>1 DEF IInv, CallInv
      <3>8. QED
        BY <1>4, <2>6, <2>7, <3>5, <3>6, <3>7 DEF IInv
    <2>9. CASE ~FallsBack(p, reinject)
      <3>1. /\ ds_stats_map' = EnterStats(st, k)
            /\ call' = [call EXCEPT ![s] = NewCall(k, p)]
        BY <1>5, <1>7, <2>9
      <3>2. /\ ds_stats_map' \in [Keys -> ds_stats \cup {None}]
            /\ \A j \in Keys \ {k} : ds_stats_map'[j] # None =>
                  ds_stats_map[j] # None /\ st.stats_key # j
        BY <1>2, <2>1, <3>1, EnterStatsResult DEF IInv
      <3>3. p \in Policies /\ ds_policy_valid(p) /\ p.enabled # 0
        BY <1>2, <2>9 DEF FallsBack
      <3>4. GoodCall(NewCall(k, p)) /\ NewCall(k, p).key = k
        BY <1>2, <3>3, NewCallResult
      <3>5. StatsHaveAnOwner'
        <4>1. \A j \in Keys \ {k} : ds_stats_map'[j] # None =>
                 /\ ds_stats_map[j] # None
                 /\ ~(ds_state_map[s] # None /\ ds_state_map[s].stats_key = j)
          BY <2>1, <3>2
        <4> HIDE DEF k
        <4>2. QED
          BY <1>2, <2>2, <2>3, <4>1, OwnersStay
      <3>6. NewCall(k, p) \in Calls
        BY <3>4 DEF GoodCall
      <3>7. TypeOK' /\ HistoryTypeOK'
        BY <1>1, <1>2, <2>2, <2>3, <3>1, <3>2, <3>6 DEF IInv, TypeOK, HistoryTypeOK
      <3>8. CallInv'
        <4>1. \A r \in Sockets : call'[r] = IF r = s THEN NewCall(k, p) ELSE call[r]
          BY <1>2, <3>1
        <4>2. QED
          BY <1>1, <2>2, <2>4, <2>5, <3>4, <4>1 DEF IInv, CallInv
      <3>9. QED
        BY <1>4, <2>6, <2>7, <3>5, <3>7, <3>8 DEF IInv
    <2>10. QED
      BY <2>8, <2>9
  <1>8. QED
    BY <1>6, <1>7

LEMMA LookInv ==
    ASSUME IInv, NEW s \in Sockets, Look(s)
    PROVE  IInv'
  <1>1. PICK f \in SubflowStatus : call' = [call EXCEPT ![s] = Looked(@, f)]
    BY DEF Look
  <1>2. /\ call[s] # None /\ call[s].next < Subflows
        /\ UNCHANGED <<ds_policy_map, ds_path_map, ds_stats_map, ds_state_map, token,
                       did, heldFor>>
    BY DEF Look, agentMaps, history
  <1> DEFINE new == Looked(call[s], f)
  <1>3. GoodCall(new) /\ new.key = call[s].key
    BY <1>2, LookedResult DEF IInv, CallInv
  <1> HIDE DEF new
  <1>4. call \in [Sockets -> Calls \cup {None}]
    BY DEF IInv, HistoryTypeOK
  <1>5. \A r \in Sockets : call'[r] = IF r = s THEN new ELSE call[r]
    BY <1>1, <1>4 DEF new
  <1>6. call' \in [Sockets -> Calls \cup {None}]
    BY <1>1, <1>3, <1>4 DEF GoodCall, new
  <1>7. TypeOK' /\ HistoryTypeOK'
    BY <1>2, <1>6 DEF IInv, TypeOK, HistoryTypeOK
  <1>8. CallInv'
    BY <1>2, <1>3, <1>5 DEF IInv, CallInv
  <1>9. QED
    BY <1>2, <1>7, <1>8
    DEF IInv, StorageInv, HistoryInv, StatsHaveAnOwner, SteersByOneGeneration, BackupsAreLast

LEMMA DecideInv ==
    ASSUME IInv, NEW s \in Sockets, Decide(s)
    PROVE  IInv'
  <1> DEFINE c     == call[s]
             st    == ds_state_map[s]
             cands == FinalCandidates(c)
             r     == ds_select(c.policy, st.selection, cands)
             pos   == IF r.pick = DS_NONE THEN DS_NONE ELSE cands[r.pick].position
             leg   == IF pos = DS_NONE THEN DS_NONE ELSE r.state.previous_access
             new   == [st EXCEPT !.selection = r.state]
             done  == IF pos = DS_NONE THEN None
                      ELSE [leg |-> leg, generation |-> c.policy.generation,
                            path |-> c.read[pos], backup |-> pos \in c.backup,
                            active |-> c.active]
  <1>1. /\ c # None
        /\ ds_state_map' = [ds_state_map EXCEPT ![s].selection = r.state]
        /\ ds_stats_map' \in ds_record(ds_stats_map, c.key, c.policy, leg)
        /\ did' = [did EXCEPT ![s] = done]
        /\ heldFor' = [heldFor EXCEPT ![s] = c.key]
        /\ call' = [call EXCEPT ![s] = None]
        /\ UNCHANGED <<ds_policy_map, ds_path_map, token>>
    BY DEF Decide, agentMaps
  <1>2. /\ GoodCall(c) /\ token[s] = c.key
        /\ st # None /\ st.stats_key = c.key
    BY <1>1 DEF IInv, CallInv
  <1>3. /\ ds_state_map \in [Sockets -> Storage \cup {None}]
        /\ ds_stats_map \in [Keys -> ds_stats \cup {None}]
        /\ call \in [Sockets -> Calls \cup {None}]
        /\ heldFor \in [Sockets -> Keys \cup {None}] /\ DOMAIN did = Sockets
    BY DEF IInv, TypeOK, HistoryTypeOK
  <1>4. /\ c.key \in Keys /\ c.policy \in ds_policy
        /\ c.candidates \in Candidates /\ c.backups \in Candidates
    BY <1>2, SchedulerConstants DEF GoodCall, Calls
  <1>5. /\ cands \in Candidates /\ Backed(c, cands)
        /\ c.active => cands = c.candidates
    BY <1>2, <1>4 DEF FinalCandidates, GoodCall
  <1>6. st \in Storage /\ st.selection \in ds_state
    BY <1>2, <1>3 DEF Storage
  <1> HIDE DEF c, st, cands
  <1>7. /\ r.state \in ds_state /\ r.pick \in Legs \cup {DS_NONE}
        /\ r.pick # DS_NONE =>
              cands[r.pick].position # DS_NONE /\ r.state.previous_access = r.pick
    BY <1>4, <1>5, <1>6, SelectResult
  <1> HIDE DEF r
  <1>8. /\ leg \in Legs \cup {DS_NONE}
        /\ pos # DS_NONE =>
              /\ leg \in Legs /\ pos = cands[leg].position
              /\ c.read[pos] = [generation |-> c.policy.generation, access |-> leg]
    BY <1>5, <1>7 DEF Backed, Legs, DS_NONE
  <1>9. pos # DS_NONE => ~(pos \in c.backup /\ c.active)
    BY <1>2, <1>5, <1>8 DEF GoodCall
  <1>10. done # None =>
            /\ done.path = [generation |-> done.generation, access |-> done.leg]
            /\ ~(done.backup /\ done.active)
    BY <1>8, <1>9
  <1>11. new \in Storage /\ new.stats_key = c.key
    BY <1>2, <1>6, <1>7 DEF Storage
  <1>12. ds_state_map' = [ds_state_map EXCEPT ![s] = new]
    BY <1>1 DEF st
  <1>13. /\ ds_stats_map' \in [Keys -> ds_stats \cup {None}]
         /\ \A j \in Keys \ {c.key} : ds_stats_map'[j] = ds_stats_map[j]
    BY <1>1, <1>3, <1>4, <1>8, RecordResult
  <1> HIDE DEF new, done, leg, pos
  <1>14. new # None
    BY <1>11, SchedulerConstants
  <1>15. \A q \in Sockets :
            /\ ds_state_map'[q] = IF q = s THEN new ELSE ds_state_map[q]
            /\ did'[q] = IF q = s THEN done ELSE did[q]
            /\ heldFor'[q] = IF q = s THEN c.key ELSE heldFor[q]
            /\ call'[q] = IF q = s THEN None ELSE call[q]
    BY <1>1, <1>3, <1>12
  <1>16. TypeOK' /\ HistoryTypeOK'
    BY <1>1, <1>3, <1>4, <1>11, <1>12, <1>13 DEF IInv, TypeOK, HistoryTypeOK
  <1>17. StorageInv'
    BY <1>1, <1>2, <1>4, <1>15, SchedulerConstants DEF IInv, StorageInv
  <1>18. CallInv'
    BY <1>1, <1>15 DEF IInv, CallInv
  <1>19. HistoryInv'
    BY <1>4, <1>11, <1>15, SchedulerConstants DEF IInv, HistoryInv
  <1>20. StatsHaveAnOwner'
    <2>1. \A j \in Keys \ {c.key} : ds_stats_map'[j] # None =>
             /\ ds_stats_map[j] # None
             /\ ~(ds_state_map[s] # None /\ ds_state_map[s].stats_key = j)
      BY <1>2, <1>13 DEF st
    <2>2. QED
      BY <1>4, <1>11, <1>12, <2>1, OwnersStay
  <1>21. SteersByOneGeneration' /\ BackupsAreLast'
    BY <1>10, <1>15 DEF IInv, SteersByOneGeneration, BackupsAreLast
  <1>22. QED
    BY <1>16, <1>17, <1>18, <1>19, <1>20, <1>21 DEF IInv

LEMMA StepInv == IInv /\ [Next]_vars => IInv'
  <1> SUFFICES ASSUME IInv, [Next]_vars PROVE IInv'
    OBVIOUS
  <1>1. CASE UNCHANGED vars
    BY <1>1
    DEF vars, IInv, TypeOK, HistoryTypeOK, StorageInv, CallInv, HistoryInv,
        StatsHaveAnOwner, SteersByOneGeneration, BackupsAreLast
  <1>2. CASE \E k \in Tokens, v \in Policies \cup {None} : WritePolicy(k, v)
    BY <1>2, WriteInv
  <1>3. CASE \E k \in Tokens, p \in Pairs, v \in Paths \cup {None} : WritePath(k, p, v)
    BY <1>3, WriteInv
  <1>4. CASE \E s \in Sockets : ds_init(s) \/ ds_release(s)
    BY <1>4, InitSocketInv, ReleaseInv
  <1>5. CASE \E s \in Sockets, k \in Keys : SetToken(s, k)
    BY <1>5, SetTokenInv
  <1>6. CASE \E s \in Sockets, reinject \in BOOLEAN : BeginSchedule(s, reinject)
    BY <1>6, BeginInv
  <1>7. CASE \E s \in Sockets : Look(s) \/ Decide(s)
    BY <1>7, LookInv, DecideInv
  <1>8. QED
    BY <1>1, <1>2, <1>3, <1>4, <1>5, <1>6, <1>7 DEF Next
-----------------------------------------------------------------------------
\* The inductive invariant: calls, storages, statistics and decisions agree.
THEOREM SchedulerInvariant == Spec => []IInv
  BY InitInv, StepInv, PTL DEF Spec

\* The maps, the storages and the tokens keep their types.
THEOREM TypeCorrect == Spec => []TypeOK
  <1>1. IInv => TypeOK
    BY DEF IInv
  <1>2. QED
    BY SchedulerInvariant, <1>1, PTL

\* ds_release and the start of a call under another key delete what the
\* socket has counted under its old one: no entry is left without an owner.
THEOREM StatsAreOwned == Spec => []StatsHaveAnOwner
  <1>1. IInv => StatsHaveAnOwner
    BY DEF IInv
  <1>2. QED
    BY SchedulerInvariant, <1>1, PTL

\* Credits and the previous leg of one connection never influence another.
THEOREM HistoryStaysWithKey == Spec => []HistoryIsOfThisKey
  <1>1. IInv => HistoryIsOfThisKey
    <2> SUFFICES ASSUME IInv, NEW s \in Sockets, call[s] # None,
                        Fresh(call[s].policy, ds_state_map[s].selection)
                           = ds_state_map[s].selection
                 PROVE  heldFor[s] = call[s].key
      BY DEF HistoryIsOfThisKey
    <2>1. /\ GoodCall(call[s]) /\ ds_state_map[s] # None
          /\ ds_state_map[s].stats_key = call[s].key
      BY DEF IInv, CallInv
    <2>2. call[s].policy \in ds_policy /\ call[s].policy.generation # 0
      BY <2>1, SchedulerConstants DEF GoodCall, Calls, ds_policy_valid
    <2>3. ds_state_map[s].selection \in ds_state
      BY <2>1 DEF IInv, TypeOK, Storage
    <2>4. ds_state_map[s].selection.generation # 0
      BY <2>2, <2>3, FreshResult
    <2>5. QED
      BY <2>1, <2>4 DEF IInv, HistoryInv
  <1>2. QED
    BY SchedulerInvariant, <1>1, PTL

\* Two generations never mix in a decision, however the agent's writes fall
\* between the lookups of a call.
THEOREM DecisionsAreOfOneGeneration == Spec => []SteersByOneGeneration
  <1>1. IInv => SteersByOneGeneration
    BY DEF IInv
  <1>2. QED
    BY SchedulerInvariant, <1>1, PTL

\* A backup subflow never gets what an active one could have had.
THEOREM BackupsComeLast == Spec => []BackupsAreLast
  <1>1. IInv => BackupsAreLast
    BY DEF IInv
  <1>2. QED
    BY SchedulerInvariant, <1>1, PTL
=============================================================================
