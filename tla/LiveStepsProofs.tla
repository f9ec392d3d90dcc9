-------------------------- MODULE LiveStepsProofs ---------------------------
(***************************************************************************)
(* The map operations call by call implement the transactions of           *)
(* LiveTransactions, for every set of pairs, policies and generations.     *)
(*                                                                         *)
(* The invariant says, for each label, how far the maps are from those the *)
(* operation found: some wanted paths are staged (Staged), or the policy   *)
(* is committed and some entries that are not wanted are left (Swept), or  *)
(* some changed paths are updated (Updated).  Each of the three is what    *)
(* LiveMaps lists for an operation that ends there with an error, which    *)
(* is why a crash needs no outcomes of its own.                            *)
(***************************************************************************)
EXTENDS LiveSteps, TLAPS

LivePolicy == [gen : Gens, pol : Policies]

Labels == {"idle", "lookup", "list", "stage", "commit", "rollback", "sweep",
           "unpolicy", "dellist", "synclist", "update", "prune"}

StepsTypeOK ==
    /\ m \in Maps /\ m.policy \in LivePolicy \cup {None}
    /\ start \in Maps /\ start.policy \in LivePolicy \cup {None}
    /\ pc \in Labels /\ op \in {"apply", "sync", "delete"}
    /\ p \in LivePolicy \cup {None}
    /\ want \in PathMap /\ before \in PathMap
    /\ todo \in SUBSET Pairs /\ staged \in SUBSET Pairs /\ errs \in BOOLEAN

\* What each operation was asked for.
ArgsInv ==
    pc # "idle" =>
        /\ op = "apply"  => p \in LivePolicy /\ Keys(want) # {}
        /\ op = "sync"   => p \in LivePolicy /\ start.policy = p
        /\ op = "delete" => p = None /\ want = NoPaths

\* The label belongs to the operation.
LabelInv ==
    /\ pc \in {"lookup", "list", "stage", "commit", "rollback"} => op = "apply"
    /\ pc \in {"unpolicy", "dellist"} => op = "delete"
    /\ pc \in {"synclist", "update", "prune"} => op = "sync"
    /\ pc = "sweep" => op \in {"apply", "delete"}
    /\ op = "apply" /\ pc \notin {"idle", "lookup"} => Advances(start, p)
    /\ pc \notin {"idle", "sweep"} => errs = FALSE
    /\ pc \in {"stage", "rollback", "sweep", "update", "prune"} => todo # {}

\* Some of the wanted paths are written, and nothing else is.
Staged(n) ==
    /\ n \in Maps /\ n.policy = start.policy
    /\ \A k \in Pairs :
          \/ n.paths[k] = start.paths[k]
          \/ k \in Keys(want) /\ n.paths[k] = want[k]

\* Policy and wanted paths are there, and some of the others still are.
Swept(n) ==
    /\ n \in Maps /\ n.policy = p
    /\ \A k \in Pairs :
          IF k \in Keys(want) THEN n.paths[k] = want[k]
          ELSE n.paths[k] \in {None, start.paths[k]}

\* The paths that an update has to write.
Changed == {k \in Keys(want) : start.paths[k] # want[k]}

Updated(n, S) ==
    n = [start EXCEPT !.paths = Override(start.paths, want, S)]

\* What is still to be swept is as it was, and is not wanted.
ToSweep ==
    /\ todo \subseteq Keys(start.paths) \ Keys(want)
    /\ \A k \in todo : m.paths[k] = start.paths[k]

Remains(k) == k \notin Keys(want) /\ k \notin todo /\ m.paths[k] # None

PhaseInv ==
    /\ pc \in {"lookup", "list", "unpolicy", "synclist"} => m = start
    /\ pc \in {"lookup", "list"} => staged = {}
    /\ pc \in {"stage", "commit", "rollback"} => before = start.paths /\ Staged(m)
    /\ pc = "stage"  => todo \subseteq Keys(want) /\ Keys(want) \subseteq todo \cup staged
    /\ pc = "commit" => Keys(want) \subseteq staged
    /\ pc \in {"stage", "commit"} =>
          staged \subseteq Keys(want) /\ \A k \in staged : m.paths[k] = want[k]
    /\ pc = "dellist" => m = [start EXCEPT !.policy = None]
    /\ pc \in {"sweep", "prune"} => Swept(m) /\ ToSweep
    /\ pc = "sweep"  => errs = \E k \in Pairs : Remains(k)
    /\ pc = "prune"  => ~\E k \in Pairs : Remains(k)
    /\ pc = "update" => todo \subseteq Changed /\ Updated(m, Changed \ todo)

IInv == StepsTypeOK /\ ArgsInv /\ LabelInv /\ PhaseInv
-----------------------------------------------------------------------------
(* The maps *)

\* A wanted path map is one of the operation's generation, and not empty.
LEMMA PathsOfType ==
    ASSUME NEW plan \in Plans, NEW gen \in Nat \ {0}
    PROVE  PathsOf(plan, gen) \in PathMap /\ Keys(PathsOf(plan, gen)) # {}
  <1>1. plan \in [Pairs -> {LegA, LegB, None}]
    BY DEF Plans
  <1>2. PathsOf(plan, gen) \in PathMap
    BY <1>1 DEF PathsOf, PathMap, MapPath
  <1>3. PICK leg \in {LegA, LegB} : leg # None
    BY DEF LegA, LegB
  <1>4. PICK k \in Pairs : plan[k] = leg
    BY DEF Plans
  <1>5. PathsOf(plan, gen)[k] = [gen |-> gen, access |-> leg]
    BY <1>3, <1>4 DEF PathsOf
  <1>6. [gen |-> gen, access |-> leg] \in MapPath
    BY DEF MapPath
  <1>7. PathsOf(plan, gen)[k] # None
    BY <1>5, <1>6, NoneIsNoEntry
  <1>8. QED
    BY <1>2, <1>7 DEF Keys

LEMMA EmptyMapsType == EmptyMaps \in Maps /\ NoPaths \in PathMap
  BY DEF EmptyMaps, NoPaths, Maps, PathMap

LEMMA LivePolicyType == LivePolicy \subseteq MapPolicy /\ None \notin LivePolicy
  BY GensAssumption, NoneIsNoEntry DEF LivePolicy, MapPolicy

\* One path call.
LEMMA SetPathResult ==
    ASSUME NEW n \in Maps, NEW k \in Pairs, NEW v \in MapPath \cup {None}
    PROVE  LET w == [n EXCEPT !.paths[k] = v]
           IN /\ w \in Maps /\ w.policy = n.policy
              /\ \A j \in Pairs : w.paths[j] = IF j = k THEN v ELSE n.paths[j]
  BY DEF Maps, PathMap

\* One policy call.
LEMMA SetPolicyResult ==
    ASSUME NEW n \in Maps, NEW v \in MapPolicy \cup {None}
    PROVE  LET w == [n EXCEPT !.policy = v]
           IN w \in Maps /\ w.policy = v /\ w.paths = n.paths
  BY DEF Maps

\* Maps are their policy and their paths.
LEMMA MapsEqual ==
    ASSUME NEW n \in Maps, NEW w \in Maps, n.policy = w.policy,
           \A k \in Pairs : n.paths[k] = w.paths[k]
    PROVE  n = w
  <1>1. n.paths \in [Pairs -> MapPath \cup {None}] /\ w.paths \in [Pairs -> MapPath \cup {None}]
    BY DEF Maps, PathMap
  <1>2. n.paths = w.paths
    BY <1>1
  <1>3. QED
    BY <1>2 DEF Maps

LEMMA OverrideResult ==
    ASSUME NEW f \in PathMap, NEW g \in PathMap, NEW S
    PROVE  /\ Override(f, g, S) \in PathMap
           /\ \A k \in Pairs : Override(f, g, S)[k] = IF k \in S THEN g[k] ELSE f[k]
  BY DEF Override, PathMap
-----------------------------------------------------------------------------
(* What LiveMaps lists *)

OutcomesNow ==
    IF op = "apply" THEN ApplyLive(start, p, want, FALSE)
    ELSE IF op = "sync" THEN SyncPaths(start, want, FALSE)
    ELSE DeleteLive(start, FALSE)

\* Nothing was done.
LEMMA StartFails ==
    ASSUME IInv
    PROVE  Failed(start) \in OutcomesNow
  <1>1. CASE op = "apply"
    <2>1. CASE ~Advances(start, p)
      BY <1>1, <2>1 DEF OutcomesNow, ApplyLive
    <2>2. CASE Advances(start, p)
      <3>1. /\ Override(start.paths, want, {}) = start.paths
            /\ [start EXCEPT !.paths = start.paths] = start
        BY DEF IInv, StepsTypeOK, Maps, PathMap, Override
      <3>2. Failed([start EXCEPT !.paths = Override(start.paths, want, {})])
               \in ApplyLive(start, p, want, FALSE)
        BY <2>2 DEF ApplyLive
      <3>3. QED
        BY <1>1, <3>1, <3>2 DEF OutcomesNow
    <2>3. QED
      BY <2>1, <2>2
  <1>2. CASE op = "sync"
    BY <1>2 DEF OutcomesNow, SyncPaths
  <1>3. CASE op = "delete"
    BY <1>3 DEF OutcomesNow, DeleteLive
  <1>4. QED
    BY <1>1, <1>2, <1>3 DEF IInv, StepsTypeOK

\* ApplyLive with some of its paths staged or not rolled back.
LEMMA StagedFails ==
    ASSUME IInv, op = "apply", Advances(start, p), NEW n, Staged(n)
    PROVE  Failed(n) \in OutcomesNow
  <1> DEFINE R == {k \in Keys(want) : n.paths[k] = want[k]}
             w == [start EXCEPT !.paths = Override(start.paths, want, R)]
  <1>1. /\ start \in Maps /\ start.paths \in PathMap /\ want \in PathMap /\ n \in Maps
        /\ R \in SUBSET Keys(want)
    BY DEF IInv, StepsTypeOK, Maps, Staged
  <1>2. Failed(w) \in OutcomesNow
    BY <1>1, Zenon DEF OutcomesNow, ApplyLive
  <1>3. /\ w \in Maps /\ w.policy = start.policy
        /\ \A k \in Pairs : w.paths[k] = IF k \in R THEN want[k] ELSE start.paths[k]
    <2> HIDE DEF R
    <2>1. QED
      BY <1>1, OverrideResult DEF Maps
  <1> HIDE DEF w
  <1>4. \A k \in Pairs : n.paths[k] = w.paths[k]
    BY <1>3 DEF Staged, Keys
  <1>5. n = w
    BY <1>1, <1>3, <1>4, MapsEqual DEF Staged
  <1>6. QED
    BY <1>2, <1>5

\* Every operation that succeeds leaves its policy and its paths.
LEMMA WantedIsDone ==
    ASSUME IInv, pc # "idle", op = "apply" => Advances(start, p),
           NEW n \in Maps, n.policy = p, \A k \in Pairs : n.paths[k] = want[k]
    PROVE  Done(n) \in OutcomesNow
  <1>1. want \in PathMap /\ start \in Maps /\ n = [policy |-> n.policy, paths |-> n.paths]
    BY DEF IInv, StepsTypeOK, Maps
  <1>2. n.paths = want
    BY <1>1 DEF Maps, PathMap
  <1>3. CASE op = "apply"
    BY <1>1, <1>2, <1>3 DEF OutcomesNow, ApplyLive
  <1>4. CASE op = "sync"
    <2>1. n = [start EXCEPT !.paths = want]
      BY <1>1, <1>2, <1>4 DEF IInv, ArgsInv, Maps
    <2>2. QED
      BY <1>4, <2>1 DEF OutcomesNow, SyncPaths
  <1>5. CASE op = "delete"
    <2>1. n = EmptyMaps
      BY <1>1, <1>2, <1>5 DEF IInv, ArgsInv, EmptyMaps
    <2>2. QED
      BY <1>5, <2>1 DEF OutcomesNow, DeleteLive
  <1>6. QED
    BY <1>3, <1>4, <1>5 DEF IInv, StepsTypeOK

\* An operation that leaves something unwanted behind has failed.
LEMMA SweptFails ==
    ASSUME IInv, pc # "idle", op = "apply" => Advances(start, p),
           NEW n, Swept(n), NEW j \in Pairs, n.paths[j] # want[j]
    PROVE  Failed(n) \in OutcomesNow
  <1> DEFINE F == Keys(n.paths) \ Keys(want)
             v == Override(want, start.paths, F)
  <1>1. /\ start \in Maps /\ start.paths \in PathMap /\ want \in PathMap
        /\ n \in Maps /\ n.paths \in PathMap
        /\ n = [policy |-> n.policy, paths |-> n.paths]
    BY DEF IInv, StepsTypeOK, Maps, Swept
  <1>2. j \in F
    BY DEF Swept, Keys
  <1>3. F \in NonEmptySubsets(Keys(start.paths) \ Keys(want))
    BY <1>2 DEF Swept, Keys, NonEmptySubsets
  <1>4. \A k \in Pairs : n.paths[k] = v[k]
    <2> SUFFICES ASSUME NEW k \in Pairs PROVE n.paths[k] = v[k]
      OBVIOUS
    <2>1. v[k] = IF k \in F THEN start.paths[k] ELSE want[k]
      BY <1>1, OverrideResult
    <2>2. QED
      BY <2>1 DEF Swept, Keys
  <1>5. n.paths = v
    BY <1>1, <1>4, OverrideResult DEF PathMap
  <1>6. n = [policy |-> p, paths |-> v]
    BY <1>1, <1>5 DEF Swept
  <1> HIDE DEF F
  <1>7. CASE op = "apply"
    BY <1>3, <1>6, <1>7 DEF OutcomesNow, ApplyLive
  <1>8. CASE op = "sync"
    <2>1. [start EXCEPT !.paths = v] = n
      BY <1>1, <1>6, <1>8 DEF IInv, ArgsInv, Maps
    <2>2. QED
      BY <1>3, <1>8, <2>1 DEF OutcomesNow, SyncPaths
  <1>9. CASE op = "delete"
    <2>1. p = None /\ want = NoPaths
      BY <1>9 DEF IInv, ArgsInv
    <2>2. F \in NonEmptySubsets(Keys(start.paths))
      BY <1>3, <2>1 DEF NonEmptySubsets
    <2>3. QED
      BY <1>6, <1>9, <2>1, <2>2 DEF OutcomesNow, DeleteLive
  <1>10. QED
    BY <1>7, <1>8, <1>9 DEF IInv, StepsTypeOK

\* An update that has not written all its paths.
LEMMA UpdatedFails ==
    ASSUME IInv, op = "sync", NEW S, S \subseteq Changed, S # Changed, NEW n,
           Updated(n, S)
    PROVE  Failed(n) \in OutcomesNow
  <1>1. S \in (SUBSET Changed) \ {Changed}
    OBVIOUS
  <1>2. QED
    BY <1>1 DEF Updated, Changed, OutcomesNow, SyncPaths

\* DeleteLive that has deleted the policy and cannot list the paths.
LEMMA UnlistedFails ==
    ASSUME op = "delete" PROVE Failed([start EXCEPT !.policy = None]) \in OutcomesNow
  BY DEF OutcomesNow, DeleteLive
-----------------------------------------------------------------------------
(* The steps of LiveTransactions *)

Refines == [Transactions!Next]_(Transactions!transactionVars)

\* The outcomes are those of the transaction.
LEMMA SameOutcomes ==
    ASSUME IInv, pc # "idle"
    PROVE  Transactions!Outcomes(Asked) = OutcomesNow
  <1> USE DEF Asked, Transactions!Outcomes, OutcomesNow
  <1>1. CASE op = "apply"
    BY <1>1
    DEF ApplyLive, Transactions!ApplyLive, Advances, Transactions!Advances,
        Failed, Transactions!Failed, Done, Transactions!Done, Keys, Transactions!Keys,
        Override, Transactions!Override, NonEmptySubsets, Transactions!NonEmptySubsets
  <1>2. CASE op = "sync"
    BY <1>2
    DEF SyncPaths, Transactions!SyncPaths,
        Failed, Transactions!Failed, Done, Transactions!Done, Keys, Transactions!Keys,
        Override, Transactions!Override, NonEmptySubsets, Transactions!NonEmptySubsets
  <1>3. CASE op = "delete"
    BY <1>3
    DEF DeleteLive, Transactions!DeleteLive, EmptyMaps, Transactions!EmptyMaps,
        NoPaths, Transactions!NoPaths,
        Failed, Transactions!Failed, Done, Transactions!Done, Keys, Transactions!Keys,
        Override, Transactions!Override, NonEmptySubsets, Transactions!NonEmptySubsets
  <1>4. QED
    BY <1>1, <1>2, <1>3 DEF IInv, StepsTypeOK

LEMMA AskedIsOperation ==
    ASSUME IInv, pc # "idle"
    PROVE  Asked \in Transactions!Operations /\ Asked # None
  <1>1. Asked \in Transactions!Operations
    BY DEF Asked, Transactions!Operations, Transactions!PathMap, Transactions!MapPath,
           IInv, StepsTypeOK, ArgsInv, PathMap, MapPath, LivePolicy,
           Transactions!LegA, Transactions!LegB, LegA, LegB
  <1>2. QED
    BY <1>1, NoneIsNoOperation

\* An operation that has begun is what was asked for.
LEMMA BeginRefines ==
    ASSUME IInv', NEW kind, NEW first, Begin(kind, first), pc' # "idle",
           op' = "sync" => m.policy = p'
    PROVE  Refines
  <1>1. Asked' \in Transactions!Operations
    BY DEF Asked, Transactions!Operations, Transactions!PathMap, Transactions!MapPath,
           IInv, StepsTypeOK, ArgsInv, PathMap, MapPath, LivePolicy,
           Transactions!LegA, Transactions!LegB, LegA, LegB
  <1>2. Asked'.op = "sync" => m.policy = Asked'.policy
    BY DEF Asked
  <1>3. Asked = None /\ pc = "idle" /\ start' = m /\ result' = "none"
    BY DEF Begin, Asked
  <1>4. Transactions!Ask
    BY <1>1, <1>2, <1>3 DEF Transactions!Ask
  <1>5. QED
    BY <1>4 DEF Refines, Transactions!Next

\* A call in the middle of an operation is not seen by its caller.
LEMMA MiddleRefines ==
    ASSUME pc # "idle", pc' # "idle", UNCHANGED <<result, args>>
    PROVE  Refines
  <1>1. Asked' = Asked /\ start' = start
    BY DEF args, Asked
  <1>2. QED
    BY <1>1 DEF Refines, Transactions!transactionVars

\* The last call of an operation leaves one of the listed outcomes.
LEMMA ReturnRefines ==
    ASSUME IInv, pc # "idle", NEW ok \in BOOLEAN, Return(ok),
           [maps |-> m', ok |-> ok] \in OutcomesNow
    PROVE  Refines
  <1> DEFINE r == [maps |-> m', ok |-> ok]
  <1>1. r \in Transactions!Outcomes(Asked) /\ Asked # None
    BY SameOutcomes, AskedIsOperation
  <1>2. Transactions!Return(r)
    BY DEF Transactions!Return, Return, Asked
  <1>3. QED
    BY <1>1, <1>2 DEF Refines, Transactions!Next

\* A returned operation has no obligations.
LEMMA ReturnInv ==
    ASSUME IInv, m' \in Maps, m'.policy \in LivePolicy \cup {None},
           NEW ok \in BOOLEAN, Return(ok)
    PROVE  IInv'
  <1>1. /\ pc' = "idle" /\ todo' = {}
        /\ UNCHANGED <<before, staged, errs, op, p, want, start>>
    BY DEF Return, args
  <1>2. StepsTypeOK'
    BY <1>1 DEF IInv, StepsTypeOK, Labels
  <1>3. QED
    BY <1>1, <1>2 DEF IInv, ArgsInv, LabelInv, PhaseInv

\* Both for a return.
LEMMA Returns ==
    ASSUME IInv, pc # "idle", m' \in Maps, m'.policy \in LivePolicy \cup {None},
           NEW ok \in BOOLEAN, Return(ok), [maps |-> m', ok |-> ok] \in OutcomesNow
    PROVE  IInv' /\ Refines
  BY ReturnInv, ReturnRefines

LEMMA FailsUnchanged ==
    ASSUME IInv, pc # "idle", UNCHANGED m, Return(FALSE), Failed(m) \in OutcomesNow
    PROVE  IInv' /\ Refines
  <1>1. m' \in Maps /\ m'.policy \in LivePolicy \cup {None}
    BY DEF IInv, StepsTypeOK
  <1>2. [maps |-> m', ok |-> FALSE] \in OutcomesNow
    BY DEF Failed
  <1>3. QED
    BY <1>1, <1>2, Returns
-----------------------------------------------------------------------------
(* The steps *)

LEMMA InitInv == Init => IInv /\ Transactions!Init
  <1> SUFFICES ASSUME Init PROVE IInv /\ Transactions!Init
    OBVIOUS
  <1>1. IInv
    BY EmptyMapsType
    DEF Init, IInv, StepsTypeOK, ArgsInv, LabelInv, PhaseInv, Labels, EmptyMaps
  <1>2. Transactions!Init
    BY DEF Init, Transactions!Init, Asked, EmptyMaps, Transactions!EmptyMaps,
           NoPaths, Transactions!NoPaths
  <1>3. QED
    BY <1>1, <1>2

\* Whatever is asked for, the operation begins at the maps as they are.
LEMMA BeginInv ==
    ASSUME IInv, NEW kind \in {"apply", "sync", "delete"},
           NEW first \in {"lookup", "synclist", "unpolicy"}, Begin(kind, first),
           p' \in LivePolicy \cup {None}, want' \in PathMap,
           kind = "apply"  => first = "lookup" /\ p' \in LivePolicy /\ Keys(want)' # {},
           kind = "sync"   => first = "synclist" /\ p' \in LivePolicy /\ m.policy = p',
           kind = "delete" => first = "unpolicy" /\ p' = None /\ want' = NoPaths
    PROVE  IInv' /\ Refines
  <1>1. /\ op' = kind /\ pc' = first /\ start' = m /\ m' = m
        /\ before' = NoPaths /\ todo' = {} /\ staged' = {} /\ errs' = FALSE
    BY DEF Begin
  <1>2. StepsTypeOK'
    BY <1>1, EmptyMapsType DEF IInv, StepsTypeOK, Labels
  <1>3. ArgsInv' /\ LabelInv' /\ PhaseInv'
    BY <1>1 DEF ArgsInv, LabelInv, PhaseInv
  <1>4. IInv'
    BY <1>2, <1>3 DEF IInv
  <1>5. QED
    BY <1>1, <1>4, BeginRefines

LEMMA BeginApplyInv ==
    ASSUME IInv, NEW plan \in Plans, NEW gen \in Gens, NEW pol \in Policies,
           BeginApply(plan, gen, pol)
    PROVE  IInv' /\ Refines
  <1>1. PathsOf(plan, gen) \in PathMap /\ Keys(PathsOf(plan, gen)) # {}
    BY PathsOfType, GensAssumption
  <1>2. /\ Begin("apply", "lookup") /\ p' \in LivePolicy
        /\ want' \in PathMap /\ Keys(want)' # {}
    BY <1>1 DEF BeginApply, LivePolicy, Keys
  <1>3. QED
    BY <1>2, BeginInv

LEMMA BeginDeleteInv ==
    ASSUME IInv, BeginDelete PROVE IInv' /\ Refines
  BY BeginInv, EmptyMapsType DEF BeginDelete

LEMMA BeginSyncInv ==
    ASSUME IInv, NEW plan \in Plans, BeginSync(plan)
    PROVE  IInv' /\ Refines
  <1>1. m.policy \in LivePolicy
    BY DEF IInv, StepsTypeOK, BeginSync
  <1>2. PathsOf(plan, m.policy.gen) \in PathMap
    BY <1>1, PathsOfType, GensAssumption DEF LivePolicy
  <1>3. QED
    BY <1>1, <1>2, BeginInv DEF BeginSync

LEMMA LookupInv ==
    ASSUME IInv, LookupPolicy PROVE IInv' /\ Refines
  <1>1. pc = "lookup" /\ op = "apply" /\ m = start /\ UNCHANGED m
    BY DEF LookupPolicy, IInv, LabelInv, PhaseInv
  <1>2. CASE Return(FALSE)
    BY <1>1, <1>2, StartFails, FailsUnchanged
  <1>3. CASE Advances(m, p) /\ Goto("list", {})
    <2>1. /\ pc' = "list" /\ todo' = {}
          /\ UNCHANGED <<m, before, staged, errs, result, op, p, want, start>>
      BY <1>1, <1>3 DEF Goto, args
    <2>2. StepsTypeOK'
      BY <2>1 DEF IInv, StepsTypeOK, Labels
    <2>3. ArgsInv' /\ LabelInv' /\ PhaseInv'
      BY <1>1, <1>3, <2>1 DEF IInv, ArgsInv, LabelInv, PhaseInv, Advances
    <2>4. Refines
      BY <1>1, <2>1, MiddleRefines DEF args
    <2>5. QED
      BY <2>2, <2>3, <2>4 DEF IInv
  <1>4. QED
    BY <1>2, <1>3 DEF LookupPolicy

LEMMA ListBeforeInv ==
    ASSUME IInv, ListBefore PROVE IInv' /\ Refines
  <1>1. pc = "list" /\ op = "apply" /\ m = start /\ UNCHANGED m
    BY DEF ListBefore, IInv, LabelInv, PhaseInv
  <1>2. CASE Return(FALSE)
    BY <1>1, <1>2, StartFails, FailsUnchanged
  <1>3. CASE /\ before' = m.paths /\ pc' = "stage" /\ todo' = Keys(want)
             /\ UNCHANGED <<staged, errs, result, args>>
    <2>1. UNCHANGED <<m, staged, errs, result, op, p, want, start>>
      BY <1>1, <1>3 DEF args
    <2>2. StepsTypeOK'
      BY <1>3, <2>1 DEF IInv, StepsTypeOK, Labels, Maps, Keys
    <2>3. ArgsInv' /\ LabelInv'
      BY <1>1, <1>3, <2>1 DEF IInv, ArgsInv, LabelInv, Advances, Keys
    <2>4. staged = {}
      BY <1>1 DEF IInv, PhaseInv
    <2>5. PhaseInv'
      BY <1>1, <1>3, <2>1, <2>4 DEF IInv, StepsTypeOK, PhaseInv, Staged, Keys
    <2>6. Refines
      BY <1>1, <1>3, <2>1, MiddleRefines
    <2>7. QED
      BY <2>2, <2>3, <2>5, <2>6 DEF IInv
  <1>4. QED
    BY <1>2, <1>3 DEF ListBefore

\* Something failed before the commit took effect: nothing is staged, or
\* the rollback begins.
LEMMA StartRollbackInv ==
    ASSUME IInv, pc \in {"stage", "commit"}, UNCHANGED m, StartRollback
    PROVE  IInv' /\ Refines
  <1>1. op = "apply" /\ Advances(start, p) /\ Staged(m) /\ before = start.paths
    BY DEF IInv, LabelInv, PhaseInv
  <1>2. CASE Return(FALSE)
    BY <1>1, <1>2, StagedFails, FailsUnchanged
  <1>3. CASE staged # {} /\ Goto("rollback", staged)
    <2>1. /\ pc' = "rollback" /\ todo' = staged
          /\ UNCHANGED <<m, before, staged, errs, result, op, p, want, start>>
      BY <1>3 DEF Goto, args
    <2>2. StepsTypeOK'
      BY <2>1 DEF IInv, StepsTypeOK, Labels
    <2>3. ArgsInv' /\ LabelInv'
      BY <1>1, <1>3, <2>1 DEF IInv, ArgsInv, LabelInv, Advances, Keys
    <2>4. PhaseInv'
      BY <1>1, <2>1 DEF PhaseInv, Staged, Keys
    <2>5. Refines
      BY <2>1, MiddleRefines DEF args
    <2>6. QED
      BY <2>2, <2>3, <2>4, <2>5 DEF IInv
  <1>4. QED
    BY <1>2, <1>3 DEF StartRollback

LEMMA StagePathInv ==
    ASSUME IInv, NEW k \in Pairs, StagePath(k) PROVE IInv' /\ Refines
  <1>1. /\ pc = "stage" /\ k \in todo /\ op = "apply" /\ todo \subseteq Keys(want)
        /\ Staged(m) /\ before = start.paths /\ want \in PathMap
    BY DEF StagePath, IInv, LabelInv, PhaseInv, StepsTypeOK
  <1>2. CASE /\ SetPath(k, want[k])
             /\ staged' = staged \cup {k} /\ todo' = todo \ {k}
             /\ pc' = IF todo = {k} THEN "commit" ELSE "stage"
             /\ UNCHANGED <<before, errs, result, args>>
    <2>1. UNCHANGED <<before, errs, result, op, p, want, start>>
      BY <1>2 DEF args
    <2>2. /\ m' \in Maps /\ m'.policy = m.policy
          /\ \A j \in Pairs : m'.paths[j] = IF j = k THEN want[k] ELSE m.paths[j]
      <3>1. m \in Maps /\ want[k] \in MapPath \cup {None}
        BY <1>1 DEF IInv, StepsTypeOK, PathMap
      <3>2. QED
        BY <1>2, <3>1, SetPathResult DEF SetPath
    <2>3. StepsTypeOK'
      BY <1>2, <2>1, <2>2 DEF IInv, StepsTypeOK, Labels
    <2>4. ArgsInv' /\ LabelInv'
      BY <1>1, <1>2, <2>1 DEF IInv, ArgsInv, LabelInv, Advances, Keys
    <2>5. Staged(m)'
      BY <1>1, <2>1, <2>2 DEF Staged, Keys
    <2>6. PhaseInv'
      <3>1. /\ todo' \subseteq Keys(want)' /\ Keys(want)' \subseteq todo' \cup staged'
            /\ staged' \subseteq Keys(want)'
        BY <1>1, <1>2, <2>1 DEF IInv, PhaseInv, Keys
      <3>2. \A j \in staged' : m'.paths[j] = want'[j]
        BY <1>1, <1>2, <2>1, <2>2 DEF IInv, StepsTypeOK, PhaseInv
      <3>3. pc' = "commit" => todo' = {}
        BY <1>2
      <3>4. QED
        BY <1>1, <1>2, <2>1, <2>5, <3>1, <3>2, <3>3 DEF PhaseInv
    <2>7. Refines
      BY <1>1, <1>2, MiddleRefines
    <2>8. QED
      BY <2>3, <2>4, <2>6, <2>7 DEF IInv
  <1>3. CASE UNCHANGED m /\ StartRollback
    BY <1>1, <1>3, StartRollbackInv
  <1>4. QED
    BY <1>2, <1>3 DEF StagePath

\* Policy and wanted paths are written: what is not wanted is swept next, if
\* there is any.
LEMMA SweepBegins ==
    ASSUME IInv, pc # "idle", NEW label \in {"sweep", "prune"},
           op = "sync" <=> label = "prune",
           op = "apply" => Advances(start, p), errs = FALSE,
           m' \in Maps, m'.policy = p,
           \A k \in Pairs : m'.paths[k] =
              IF k \in Keys(want) THEN want[k] ELSE start.paths[k],
           NEW S, S = Keys(start.paths) \ Keys(want),
           IF S = {} THEN Return(TRUE) ELSE Goto(label, S)
    PROVE  IInv' /\ Refines
  <1>1. CASE S = {}
    <2>1. \A k \in Pairs : m'.paths[k] = want[k]
      BY <1>1 DEF Keys
    <2>2. Done(m') \in OutcomesNow
      BY <2>1, WantedIsDone
    <2>3. m'.policy \in LivePolicy \cup {None} /\ [maps |-> m', ok |-> TRUE] \in OutcomesNow
      BY <2>2 DEF Done, IInv, StepsTypeOK
    <2>4. QED
      BY <1>1, <2>3, Returns
  <1>2. CASE S # {}
    <2>1. /\ pc' = label /\ todo' = S
          /\ UNCHANGED <<before, staged, errs, result, op, p, want, start>>
      BY <1>2 DEF Goto, args
    <2>2. StepsTypeOK'
      BY <2>1 DEF IInv, StepsTypeOK, Labels, Keys
    <2>3. ArgsInv' /\ LabelInv'
      BY <1>2, <2>1 DEF IInv, StepsTypeOK, ArgsInv, LabelInv, Advances, Keys
    <2>4. Swept(m)' /\ ToSweep'
      BY <2>1 DEF Swept, ToSweep, Keys
    <2>5. ~\E k \in Pairs : Remains(k)'
      BY <2>1 DEF Remains, Keys
    <2>6. PhaseInv'
      BY <2>1, <2>4, <2>5 DEF PhaseInv
    <2>7. Refines
      BY <2>1, MiddleRefines DEF args
    <2>8. QED
      BY <2>2, <2>3, <2>6, <2>7 DEF IInv
  <1>3. QED
    BY <1>1, <1>2

LEMMA CommitInv ==
    ASSUME IInv, Commit PROVE IInv' /\ Refines
  <1>1. /\ pc = "commit" /\ op = "apply" /\ Advances(start, p) /\ errs = FALSE
        /\ Staged(m) /\ before = start.paths
        /\ \A k \in Keys(want) : m.paths[k] = want[k]
    BY DEF Commit, IInv, LabelInv, PhaseInv
  <1>2. CASE /\ m' = [m EXCEPT !.policy = p]
             /\ StartSweep(Keys(before) \ Keys(want))
    <2>1. m \in Maps /\ p \in MapPolicy
      BY <1>1, LivePolicyType DEF IInv, StepsTypeOK, ArgsInv
    <2>2. m' \in Maps /\ m'.policy = p /\ m'.paths = m.paths
      BY <1>2, <2>1, SetPolicyResult
    <2>3. \A k \in Pairs : m'.paths[k] =
             IF k \in Keys(want) THEN want[k] ELSE start.paths[k]
      BY <1>1, <2>2 DEF Staged
    <2>4. QED
      BY <1>1, <1>2, <2>2, <2>3, SweepBegins DEF StartSweep
  <1>3. CASE UNCHANGED m /\ StartRollback
    BY <1>1, <1>3, StartRollbackInv
  <1>4. QED
    BY <1>2, <1>3 DEF Commit

LEMMA RollbackPathInv ==
    ASSUME IInv, NEW k \in Pairs, RollbackPath(k) PROVE IInv' /\ Refines
  <1>1. /\ pc = "rollback" /\ k \in todo /\ op = "apply" /\ Advances(start, p)
        /\ Staged(m) /\ before = start.paths /\ start.paths \in PathMap
    BY DEF RollbackPath, IInv, LabelInv, PhaseInv, StepsTypeOK, Maps
  <1>2. /\ m' \in Maps /\ m'.policy = m.policy
        /\ \A j \in Pairs : m'.paths[j] = m.paths[j] \/ m'.paths[j] = start.paths[j]
    <2>1. m \in Maps /\ before[k] \in MapPath \cup {None}
      BY <1>1 DEF IInv, StepsTypeOK, PathMap
    <2>2. CASE SetPath(k, before[k])
      BY <1>1, <2>1, <2>2, SetPathResult DEF SetPath
    <2>3. CASE UNCHANGED m
      BY <2>1, <2>3
    <2>4. QED
      BY <2>2, <2>3 DEF RollbackPath
  <1>3. Staged(m')
    BY <1>1, <1>2 DEF Staged
  <1>4. CASE todo = {k}
    <2>1. Return(FALSE)
      BY <1>4 DEF RollbackPath, Visited
    <2>2. Failed(m') \in OutcomesNow
      BY <1>1, <1>3, StagedFails
    <2>3. QED
      BY <1>1, <1>2, <2>1, <2>2, Returns DEF Failed, IInv, StepsTypeOK
  <1>5. CASE todo # {k}
    <2>1. /\ todo' = todo \ {k} /\ pc' = pc
          /\ UNCHANGED <<before, staged, errs, result, op, p, want, start>>
      BY <1>5 DEF RollbackPath, Visited, args
    <2>2. StepsTypeOK'
      BY <1>2, <2>1 DEF IInv, StepsTypeOK
    <2>3. ArgsInv' /\ LabelInv'
      BY <1>1, <1>5, <2>1 DEF IInv, ArgsInv, LabelInv, Advances, Keys
    <2>4. Staged(m)'
      BY <1>3, <2>1 DEF Staged, Keys
    <2>5. PhaseInv'
      BY <1>1, <2>1, <2>4 DEF PhaseInv
    <2>6. Refines
      BY <1>1, <2>1, MiddleRefines DEF args
    <2>7. QED
      BY <2>2, <2>3, <2>5, <2>6 DEF IInv
  <1>6. QED
    BY <1>4, <1>5

LEMMA SweepPathInv ==
    ASSUME IInv, NEW k \in Pairs, SweepPath(k) PROVE IInv' /\ Refines
  <1>1. /\ pc = "sweep" /\ k \in todo /\ op \in {"apply", "delete"}
        /\ op = "apply" => Advances(start, p)
        /\ Swept(m) /\ ToSweep /\ errs = \E j \in Pairs : Remains(j)
    BY DEF SweepPath, IInv, LabelInv, PhaseInv
  <1>2. /\ k \notin Keys(want) /\ want[k] = None
        /\ m.paths[k] = start.paths[k] /\ m.paths[k] # None
    BY <1>1 DEF ToSweep, Keys
  <1>3. CASE SetPath(k, None) /\ Visited(k, Return(~errs))
    <2>1. /\ m' \in Maps /\ m'.policy = m.policy
          /\ \A j \in Pairs : m'.paths[j] = IF j = k THEN None ELSE m.paths[j]
      BY <1>1, <1>3, SetPathResult DEF SetPath, Swept
    <2>2. Swept(m')
      BY <1>1, <1>2, <2>1 DEF Swept
    <2>3. m'.policy \in LivePolicy \cup {None}
      BY <2>1 DEF IInv, StepsTypeOK
    <2>4. CASE todo = {k} /\ errs
      <3>1. PICK j \in Pairs : Remains(j)
        BY <1>1, <2>4
      <3>2. m'.paths[j] # want[j]
        BY <1>1, <2>1, <3>1 DEF Remains, Keys
      <3>3. Failed(m') \in OutcomesNow
        BY <1>1, <2>2, <3>2, SweptFails
      <3>4. Return(FALSE)
        BY <1>3, <2>4 DEF Visited
      <3>5. QED
        BY <1>1, <2>1, <2>3, <3>3, <3>4, Returns DEF Failed
    <2>5. CASE todo = {k} /\ ~errs
      <3>1. \A j \in Pairs : m'.paths[j] = want[j]
        BY <1>1, <2>1, <2>2, <2>5 DEF Remains, Keys, Swept
      <3>2. Done(m') \in OutcomesNow
        BY <1>1, <2>1, <3>1, WantedIsDone DEF Swept
      <3>3. Return(TRUE)
        BY <1>3, <2>5 DEF Visited
      <3>4. QED
        BY <1>1, <2>1, <2>3, <3>2, <3>3, Returns DEF Done
    <2>6. CASE todo # {k}
      <3>1. /\ todo' = todo \ {k} /\ pc' = pc
            /\ UNCHANGED <<before, staged, errs, result, op, p, want, start>>
        BY <1>3, <2>6 DEF Visited, args
      <3>2. StepsTypeOK'
        BY <2>1, <2>3, <3>1 DEF IInv, StepsTypeOK
      <3>3. ArgsInv' /\ LabelInv'
        BY <1>1, <2>6, <3>1 DEF IInv, ArgsInv, LabelInv, Advances, Keys
      <3>4. Swept(m)' /\ ToSweep'
        BY <1>1, <2>1, <2>2, <3>1 DEF Swept, ToSweep, Keys
      <3>5. \A j \in Pairs : Remains(j)' <=> Remains(j)
        BY <1>1, <2>1, <3>1 DEF Remains, Keys
      <3>6. errs' = \E j \in Pairs : Remains(j)'
        BY <1>1, <3>1, <3>5
      <3>7. PhaseInv'
        BY <1>1, <3>1, <3>4, <3>6 DEF PhaseInv
      <3>8. Refines
        BY <1>1, <3>1, MiddleRefines DEF args
      <3>9. QED
        BY <3>2, <3>3, <3>7, <3>8 DEF IInv
    <2>7. QED
      BY <2>4, <2>5, <2>6 DEF IInv, StepsTypeOK
  <1>4. CASE UNCHANGED m /\ todo = {k} /\ Return(FALSE)
    <2>1. Failed(m) \in OutcomesNow
      BY <1>1, <1>2, SweptFails
    <2>2. QED
      BY <1>1, <1>4, <2>1, FailsUnchanged
  <1>5. CASE /\ UNCHANGED m /\ todo # {k}
             /\ todo' = todo \ {k} /\ errs' = TRUE
             /\ UNCHANGED <<pc, before, staged, result, args>>
    <2>1. UNCHANGED <<m, pc, before, staged, result, op, p, want, start>>
      BY <1>5 DEF args
    <2>2. StepsTypeOK'
      BY <1>5, <2>1 DEF IInv, StepsTypeOK
    <2>3. ArgsInv' /\ LabelInv'
      BY <1>1, <1>5, <2>1 DEF IInv, ArgsInv, LabelInv, Advances, Keys
    <2>4. Swept(m)' /\ ToSweep'
      BY <1>1, <1>5, <2>1 DEF Swept, ToSweep, Keys
    <2>5. Remains(k)'
      BY <1>2, <1>5, <2>1 DEF Remains, Keys
    <2>6. PhaseInv'
      BY <1>1, <1>5, <2>1, <2>4, <2>5 DEF PhaseInv
    <2>7. Refines
      BY <1>1, <1>5, <2>1, MiddleRefines
    <2>8. QED
      BY <2>2, <2>3, <2>6, <2>7 DEF IInv
  <1>6. QED
    BY <1>3, <1>4, <1>5 DEF SweepPath

LEMMA DeletePolicyInv ==
    ASSUME IInv, DeletePolicy PROVE IInv' /\ Refines
  <1>1. pc = "unpolicy" /\ op = "delete" /\ m = start
    BY DEF DeletePolicy, IInv, LabelInv, PhaseInv
  <1>2. CASE UNCHANGED m /\ Return(FALSE)
    BY <1>1, <1>2, StartFails, FailsUnchanged
  <1>3. CASE m' = [m EXCEPT !.policy = None] /\ Goto("dellist", {})
    <2>1. /\ pc' = "dellist" /\ todo' = {}
          /\ UNCHANGED <<before, staged, errs, result, op, p, want, start>>
      BY <1>3 DEF Goto, args
    <2>2. m' \in Maps /\ m'.policy = None
      BY <1>3, SetPolicyResult DEF IInv, StepsTypeOK
    <2>3. StepsTypeOK'
      BY <2>1, <2>2 DEF IInv, StepsTypeOK, Labels
    <2>4. ArgsInv' /\ LabelInv' /\ PhaseInv'
      BY <1>1, <1>3, <2>1 DEF IInv, ArgsInv, LabelInv, PhaseInv
    <2>5. Refines
      BY <1>1, <2>1, MiddleRefines DEF args
    <2>6. QED
      BY <2>3, <2>4, <2>5 DEF IInv
  <1>4. QED
    BY <1>2, <1>3 DEF DeletePolicy

LEMMA ListForDeleteInv ==
    ASSUME IInv, ListForDelete PROVE IInv' /\ Refines
  <1>1. /\ pc = "dellist" /\ op = "delete" /\ errs = FALSE
        /\ m = [start EXCEPT !.policy = None] /\ UNCHANGED m
    BY DEF ListForDelete, IInv, LabelInv, PhaseInv
  <1>2. CASE Return(FALSE)
    BY <1>1, <1>2, UnlistedFails, FailsUnchanged
  <1>3. CASE StartSweep(Keys(m.paths))
    <2>1. p = None /\ want = NoPaths
      BY <1>1 DEF IInv, ArgsInv
    <2>2. /\ m' \in Maps /\ m'.policy = p /\ m'.paths = start.paths
          /\ m.paths = start.paths
      BY <1>1, <2>1, SetPolicyResult DEF IInv, StepsTypeOK
    <2>3. Keys(want) = {}
      BY <2>1 DEF Keys, NoPaths
    <2> DEFINE S == Keys(start.paths) \ Keys(want)
    <2>4. S = Keys(m.paths)
      BY <2>2, <2>3
    <2>5. IF S = {} THEN Return(TRUE) ELSE Goto("sweep", S)
      BY <1>3, <2>4 DEF StartSweep
    <2>6. \A k \in Pairs : m'.paths[k] =
             IF k \in Keys(want) THEN want[k] ELSE start.paths[k]
      BY <2>2, <2>3
    <2>7. QED
      BY <1>1, <2>2, <2>5, <2>6, SweepBegins
  <1>4. QED
    BY <1>2, <1>3 DEF ListForDelete

LEMMA ListForSyncInv ==
    ASSUME IInv, ListForSync PROVE IInv' /\ Refines
  <1>1. /\ pc = "synclist" /\ op = "sync" /\ errs = FALSE
        /\ m = start /\ UNCHANGED m /\ start \in Maps
        /\ start.policy = p /\ p \in LivePolicy
    BY DEF ListForSync, IInv, LabelInv, PhaseInv, StepsTypeOK, ArgsInv
  <1>2. ChangedKeys = Changed
    BY <1>1 DEF ChangedKeys, Changed
  <1>3. CASE Return(FALSE)
    BY <1>1, <1>3, StartFails, FailsUnchanged
  <1>4. CASE Changed # {} /\ Goto("update", Changed)
    <2>1. /\ pc' = "update" /\ todo' = Changed
          /\ UNCHANGED <<before, staged, errs, result, op, p, want, start>>
      BY <1>4 DEF Goto, args
    <2>2. StepsTypeOK'
      BY <1>1, <2>1 DEF IInv, StepsTypeOK, Labels, Changed, Keys
    <2>3. ArgsInv' /\ LabelInv'
      BY <1>1, <1>4, <2>1 DEF IInv, ArgsInv, LabelInv
    <2>4. Changed' = Changed
      BY <2>1 DEF Changed, Keys
    <2>5. Updated(m, Changed \ todo)'
      <3>1. Override(start.paths, want, {}) = start.paths
        BY <1>1 DEF Override, Maps, PathMap
      <3>2. Changed' \ todo' = {}
        BY <2>1, <2>4
      <3>3. m' = [start EXCEPT !.paths = Override(start.paths, want, {})]
        BY <1>1, <3>1 DEF Maps
      <3>4. QED
        BY <2>1, <3>2, <3>3 DEF Updated, Override
    <2>6. PhaseInv'
      BY <2>1, <2>4, <2>5 DEF PhaseInv
    <2>7. Refines
      BY <1>1, <2>1, MiddleRefines DEF args
    <2>8. QED
      BY <2>2, <2>3, <2>6, <2>7 DEF IInv
  <1>5. CASE Changed = {} /\ StartPrune(Keys(m.paths) \ Keys(want))
    <2>1. \A k \in Pairs : m'.paths[k] =
             IF k \in Keys(want) THEN want[k] ELSE start.paths[k]
      BY <1>1, <1>5 DEF Changed
    <2>2. QED
      BY <1>1, <1>5, <2>1, SweepBegins DEF StartPrune
  <1>6. QED
    BY <1>2, <1>3, <1>4, <1>5 DEF ListForSync

LEMMA UpdatePathInv ==
    ASSUME IInv, NEW k \in Pairs, UpdatePath(k) PROVE IInv' /\ Refines
  <1>1. /\ pc = "update" /\ k \in todo /\ op = "sync" /\ errs = FALSE
        /\ todo \subseteq Changed /\ Updated(m, Changed \ todo)
        /\ start \in Maps /\ start.paths \in PathMap /\ want \in PathMap /\ m \in Maps
        /\ start.policy = p /\ p \in LivePolicy
    BY DEF UpdatePath, IInv, LabelInv, PhaseInv, StepsTypeOK, ArgsInv, Maps
  <1>2. /\ m.policy = p
        /\ \A j \in Pairs : m.paths[j] =
              IF j \in Changed \ todo THEN want[j] ELSE start.paths[j]
    BY <1>1, OverrideResult DEF Updated, Maps
  <1>3. k \in Keys(want)
    BY <1>1 DEF Changed
  <1>4. CASE UNCHANGED m /\ Return(FALSE)
    <2>1. Changed \ todo # Changed
      BY <1>1
    <2>2. Failed(m) \in OutcomesNow
      BY <1>1, <2>1, UpdatedFails
    <2>3. QED
      BY <1>1, <1>4, <2>2, FailsUnchanged
  <1>5. CASE SetPath(k, want[k]) /\ Visited(k, StartPrune(Keys(m.paths) \ Keys(want)))
    <2>1. /\ m' \in Maps /\ m'.policy = m.policy
          /\ \A j \in Pairs : m'.paths[j] = IF j = k THEN want[k] ELSE m.paths[j]
      <3>1. want[k] \in MapPath \cup {None}
        BY <1>1 DEF PathMap
      <3>2. QED
        BY <1>1, <1>5, <3>1, SetPathResult DEF SetPath
    <2>2. CASE todo = {k}
      <3>1. \A j \in Pairs : m'.paths[j] =
               IF j \in Keys(want) THEN want[j] ELSE start.paths[j]
        BY <1>2, <1>3, <2>1, <2>2 DEF Changed
      <3>2. Keys(m.paths) \ Keys(want) = Keys(start.paths) \ Keys(want)
        BY <1>2 DEF Keys, Changed
      <3>3. StartPrune(Keys(start.paths) \ Keys(want))
        BY <1>5, <2>2, <3>2 DEF Visited
      <3>4. QED
        BY <1>1, <1>2, <2>1, <3>1, <3>3, SweepBegins DEF StartPrune
    <2>3. CASE todo # {k}
      <3>1. /\ todo' = todo \ {k} /\ pc' = pc
            /\ UNCHANGED <<before, staged, errs, result, op, p, want, start>>
        BY <1>5, <2>3 DEF Visited, args
      <3>2. StepsTypeOK'
        BY <1>2, <2>1, <3>1 DEF IInv, StepsTypeOK
      <3>3. ArgsInv' /\ LabelInv'
        BY <1>1, <2>3, <3>1 DEF IInv, ArgsInv, LabelInv
      <3>4. Changed' = Changed
        BY <3>1 DEF Changed, Keys
      <3>5. Updated(m, Changed \ todo)'
        <4> DEFINE S == Changed \ (todo \ {k})
                   w == [start EXCEPT !.paths = Override(start.paths, want, S)]
        <4>1. /\ w \in Maps /\ w.policy = start.policy
              /\ \A j \in Pairs : w.paths[j] = IF j \in S THEN want[j] ELSE start.paths[j]
          <5> HIDE DEF S
          <5>1. QED
            BY <1>1, OverrideResult DEF Maps
        <4> HIDE DEF w
        <4>2. \A j \in Pairs : m'.paths[j] = w.paths[j]
          BY <1>1, <1>2, <2>1, <4>1
        <4>3. m' = w
          BY <1>1, <1>2, <2>1, <4>1, <4>2, MapsEqual
        <4>4. QED
          BY <3>1, <3>4, <4>3 DEF Updated, Override, w
      <3>6. PhaseInv'
        BY <1>1, <3>1, <3>4, <3>5 DEF PhaseInv
      <3>7. Refines
        BY <1>1, <3>1, MiddleRefines DEF args
      <3>8. QED
        BY <3>2, <3>3, <3>6, <3>7 DEF IInv
    <2>4. QED
      BY <2>2, <2>3
  <1>6. QED
    BY <1>4, <1>5 DEF UpdatePath

LEMMA PrunePathInv ==
    ASSUME IInv, NEW k \in Pairs, PrunePath(k) PROVE IInv' /\ Refines
  <1>1. /\ pc = "prune" /\ k \in todo /\ op = "sync" /\ errs = FALSE
        /\ Swept(m) /\ ToSweep /\ ~\E j \in Pairs : Remains(j)
    BY DEF PrunePath, IInv, LabelInv, PhaseInv
  <1>2. /\ k \notin Keys(want) /\ want[k] = None
        /\ m.paths[k] = start.paths[k] /\ m.paths[k] # None
    BY <1>1 DEF ToSweep, Keys
  <1>3. CASE UNCHANGED m /\ Return(FALSE)
    <2>1. Failed(m) \in OutcomesNow
      BY <1>1, <1>2, SweptFails
    <2>2. QED
      BY <1>1, <1>3, <2>1, FailsUnchanged
  <1>4. CASE SetPath(k, None) /\ Visited(k, Return(TRUE))
    <2>1. /\ m' \in Maps /\ m'.policy = m.policy
          /\ \A j \in Pairs : m'.paths[j] = IF j = k THEN None ELSE m.paths[j]
      BY <1>1, <1>4, SetPathResult DEF SetPath, Swept
    <2>2. Swept(m') /\ m'.policy \in LivePolicy \cup {None}
      BY <1>1, <1>2, <2>1 DEF Swept, IInv, StepsTypeOK
    <2>3. CASE todo = {k}
      <3>1. \A j \in Pairs : m'.paths[j] = want[j]
        BY <1>1, <2>1, <2>2, <2>3 DEF Remains, Keys, Swept
      <3>2. Done(m') \in OutcomesNow
        BY <1>1, <2>1, <3>1, WantedIsDone DEF Swept
      <3>3. Return(TRUE)
        BY <1>4, <2>3 DEF Visited
      <3>4. QED
        BY <1>1, <2>1, <2>2, <3>2, <3>3, Returns DEF Done
    <2>4. CASE todo # {k}
      <3>1. /\ todo' = todo \ {k} /\ pc' = pc
            /\ UNCHANGED <<before, staged, errs, result, op, p, want, start>>
        BY <1>4, <2>4 DEF Visited, args
      <3>2. StepsTypeOK'
        BY <2>1, <2>2, <3>1 DEF IInv, StepsTypeOK
      <3>3. ArgsInv' /\ LabelInv'
        BY <1>1, <2>4, <3>1 DEF IInv, ArgsInv, LabelInv
      <3>4. Swept(m)' /\ ToSweep'
        BY <1>1, <2>1, <2>2, <3>1 DEF Swept, ToSweep, Keys
      <3>5. ~\E j \in Pairs : Remains(j)'
        BY <1>1, <2>1, <3>1 DEF Remains, Keys
      <3>6. PhaseInv'
        BY <1>1, <3>1, <3>4, <3>5 DEF PhaseInv
      <3>7. Refines
        BY <1>1, <3>1, MiddleRefines DEF args
      <3>8. QED
        BY <3>2, <3>3, <3>6, <3>7 DEF IInv
    <2>5. QED
      BY <2>3, <2>4
  <1>5. QED
    BY <1>3, <1>4 DEF PrunePath

\* A killed process leaves what a failing store could have left: whatever the
\* label, the maps are one of the outcomes.
LEMMA AlwaysAnOutcome ==
    ASSUME IInv, pc # "idle"
    PROVE  \E r \in OutcomesNow : r.maps = m
  <1>1. m \in Maps /\ pc \in Labels
    BY DEF IInv, StepsTypeOK
  <1>2. SUFFICES Failed(m) \in OutcomesNow \/ Done(m) \in OutcomesNow
    BY DEF Failed, Done
  <1>3. CASE pc \in {"lookup", "list", "unpolicy", "synclist"}
    BY <1>3, StartFails DEF IInv, PhaseInv
  <1>4. CASE pc \in {"stage", "commit", "rollback"}
    BY <1>4, StagedFails DEF IInv, PhaseInv, LabelInv
  <1>5. CASE pc \in {"sweep", "prune"}
    <2>1. Swept(m) /\ (op = "apply" => Advances(start, p))
      BY <1>5 DEF IInv, PhaseInv, LabelInv
    <2>2. CASE \A k \in Pairs : m.paths[k] = want[k]
      BY <1>1, <2>1, <2>2, WantedIsDone DEF Swept
    <2>3. CASE \E k \in Pairs : m.paths[k] # want[k]
      BY <2>1, <2>3, SweptFails
    <2>4. QED
      BY <2>2, <2>3
  <1>6. CASE pc = "dellist"
    BY <1>6, UnlistedFails DEF IInv, PhaseInv, LabelInv
  <1>7. CASE pc = "update"
    <2>1. /\ op = "sync" /\ todo # {} /\ todo \subseteq Changed
          /\ Updated(m, Changed \ todo)
      BY <1>7 DEF IInv, PhaseInv, LabelInv
    <2>2. Changed \ todo # Changed
      BY <2>1
    <2>3. QED
      BY <2>1, <2>2, UpdatedFails
  <1>8. QED
    BY <1>1, <1>3, <1>4, <1>5, <1>6, <1>7 DEF Labels

LEMMA CrashInv ==
    ASSUME IInv, Crash PROVE IInv' /\ Refines
  <1>1. /\ pc # "idle" /\ pc' = "idle" /\ result' = "none" /\ todo' = {}
        /\ UNCHANGED <<m, before, staged, errs, op, p, want, start>>
    BY DEF Crash, args
  <1>2. IInv'
    <2>1. StepsTypeOK'
      BY <1>1 DEF IInv, StepsTypeOK, Labels
    <2>2. QED
      BY <1>1, <2>1 DEF IInv, ArgsInv, LabelInv, PhaseInv
  <1>3. PICK r \in OutcomesNow : r.maps = m
    BY <1>1, AlwaysAnOutcome
  <1>4. r \in Transactions!Outcomes(Asked) /\ Asked # None
    BY <1>1, SameOutcomes, AskedIsOperation
  <1>5. Transactions!Killed(r)
    BY <1>1, <1>3 DEF Transactions!Killed, Asked
  <1>6. QED
    BY <1>2, <1>4, <1>5 DEF Refines, Transactions!Next

LEMMA StutterInv ==
    ASSUME IInv, UNCHANGED vars PROVE IInv' /\ Refines
  <1>1. UNCHANGED <<m, pc, op, p, want, before, todo, staged, errs, start, result>>
    BY DEF vars
  <1>2. IInv'
    <2>1. StepsTypeOK' /\ ArgsInv' /\ LabelInv'
      BY <1>1 DEF IInv, StepsTypeOK, ArgsInv, LabelInv, Advances, Keys
    <2>2. Changed' = Changed /\ Keys(want)' = Keys(want)
      BY <1>1 DEF Changed, Keys
    <2>3. /\ Staged(m)' <=> Staged(m)
          /\ Swept(m)' <=> Swept(m)
          /\ ToSweep' <=> ToSweep
          /\ Updated(m, Changed \ todo)' <=> Updated(m, Changed \ todo)
          /\ \A k \in Pairs : Remains(k)' <=> Remains(k)
      BY <1>1, <2>2 DEF Staged, Swept, ToSweep, Updated, Remains, Keys, Override
    <2>4. PhaseInv'
      BY <1>1, <2>2, <2>3 DEF IInv, PhaseInv
    <2>5. QED
      BY <2>1, <2>4 DEF IInv
  <1>3. Refines
    BY <1>1 DEF Refines, Transactions!transactionVars, Asked
  <1>4. QED
    BY <1>2, <1>3

LEMMA StepInv == IInv /\ [Next]_vars => IInv' /\ Refines
  <1> SUFFICES ASSUME IInv, [Next]_vars PROVE IInv' /\ Refines
    OBVIOUS
  <1>1. CASE UNCHANGED vars
    BY <1>1, StutterInv
  <1>2. CASE \E plan \in Plans, gen \in Gens, pol \in Policies : BeginApply(plan, gen, pol)
    BY <1>2, BeginApplyInv
  <1>3. CASE BeginDelete \/ \E plan \in Plans : BeginSync(plan)
    BY <1>3, BeginDeleteInv, BeginSyncInv
  <1>4. CASE LookupPolicy \/ ListBefore \/ Commit
    BY <1>4, LookupInv, ListBeforeInv, CommitInv
  <1>5. CASE DeletePolicy \/ ListForDelete \/ ListForSync
    BY <1>5, DeletePolicyInv, ListForDeleteInv, ListForSyncInv
  <1>6. CASE \E k \in Pairs : StagePath(k) \/ RollbackPath(k) \/ SweepPath(k)
    BY <1>6, StagePathInv, RollbackPathInv, SweepPathInv
  <1>7. CASE \E k \in Pairs : UpdatePath(k) \/ PrunePath(k)
    BY <1>7, UpdatePathInv, PrunePathInv
  <1>8. CASE Crash
    BY <1>8, CrashInv
  <1>9. QED
    BY <1>1, <1>2, <1>3, <1>4, <1>5, <1>6, <1>7, <1>8 DEF Next
-----------------------------------------------------------------------------
\* How far the maps are from those the running operation found.
THEOREM LiveStepsInvariant == Spec => []IInv
  BY InitInv, StepInv, PTL DEF Spec

(***************************************************************************)
(* The operations of live.go, call by call, with an error at any call and  *)
(* a kill between any two, implement the transactions the daemon is built  *)
(* on: each has one of the listed outcomes, and nothing else is ever left. *)
(***************************************************************************)
THEOREM StepsImplementTransactions == Spec => ImplementsTransactions
  <1>1. IInv /\ [Next]_vars => IInv' /\ [Transactions!Next]_(Transactions!transactionVars)
    BY StepInv DEF Refines
  <1>2. QED
    BY <1>1, InitInv, PTL DEF Spec, ImplementsTransactions, Transactions!Spec

\* ApplyLive commits the policy when all its paths are there, and deletes
\* none of them afterwards.
THEOREM CommitsAreComplete == Spec => []CommittedIsComplete
  <1>1. IInv => CommittedIsComplete
    BY DEF IInv, PhaseInv, Swept, CommittedIsComplete, Keys
  <1>2. QED
    BY LiveStepsInvariant, <1>1, PTL

\* Only ApplyLive writes a policy, and it has read an older one.
THEOREM NeverRollsBack == Spec => GenerationAdvances
  <1> DEFINE Step == m.policy # None /\ m'.policy \notin {None, m.policy}
                        => m'.policy.gen > m.policy.gen
  <1>1. IInv /\ [Next]_vars => [Step]_vars
    <2> SUFFICES ASSUME IInv, [Next]_vars,
                        m.policy # None, m'.policy \notin {None, m.policy}
                 PROVE  m'.policy.gen > m.policy.gen
      OBVIOUS
    <2>1. m \in Maps
      BY DEF IInv, StepsTypeOK
    <2>2. CASE UNCHANGED m
      BY <2>2
    <2>3. CASE \E k \in Pairs : \E v : m' = [m EXCEPT !.paths[k] = v]
      BY <2>1, <2>3 DEF Maps
    <2>4. CASE DeletePolicy
      BY <2>1, <2>4 DEF DeletePolicy, Maps
    <2>5. CASE Commit
      <3>1. /\ m.policy = start.policy /\ Advances(start, p) /\ p \in LivePolicy
            /\ start.policy \in LivePolicy \cup {None}
        BY <2>5 DEF Commit, IInv, LabelInv, PhaseInv, ArgsInv, Staged, StepsTypeOK
      <3>2. m' = [m EXCEPT !.policy = p] \/ m' = m
        BY <2>5 DEF Commit
      <3>3. p.gen \in Nat /\ m.policy.gen \in Nat
        BY <3>1, GensAssumption DEF LivePolicy
      <3>4. QED
        BY <2>1, <3>1, <3>2, <3>3 DEF Advances, Maps
    <2>6. CASE \E k \in Pairs : StagePath(k) \/ RollbackPath(k) \/ SweepPath(k)
                                \/ UpdatePath(k) \/ PrunePath(k)
      BY <2>2, <2>3, <2>6
      DEF StagePath, RollbackPath, SweepPath, UpdatePath, PrunePath, SetPath
    <2>7. QED
      BY <2>2, <2>4, <2>5, <2>6
      DEF Next, vars, BeginApply, BeginDelete, BeginSync, Begin, LookupPolicy,
          ListBefore, ListForDelete, ListForSync, Crash
  <1>2. QED
    BY LiveStepsInvariant, <1>1, PTL DEF Spec, GenerationAdvances

(***************************************************************************)
(* While DeleteLive deletes paths nothing steers by those that are left:   *)
(* its policy is gone before, and no writer can bring one back.            *)
(***************************************************************************)
THEOREM RemainsNeverSteer == Spec => DeleteNeverSteersByRemains
  <1> DEFINE Step == op = "delete" /\ m'.paths # m.paths
                        => VisibleLegs(m) = {} /\ VisibleLegs(m') = {}
  <1>1. IInv /\ [Next]_vars => [Step]_vars
    <2> SUFFICES ASSUME IInv, [Next]_vars, op = "delete", m'.paths # m.paths
                 PROVE  VisibleLegs(m) = {} /\ VisibleLegs(m') = {}
      OBVIOUS
    <2>1. m \in Maps
      BY DEF IInv, StepsTypeOK
    <2>2. UNCHANGED m \/ pc \notin {"idle", "unpolicy", "dellist"}
      BY <2>1
      DEF Next, vars, BeginApply, BeginDelete, BeginSync, Begin, DeletePolicy,
          ListForDelete, LookupPolicy, ListBefore, ListForSync, Commit, Crash, Maps,
          StagePath, RollbackPath, SweepPath, UpdatePath, PrunePath
    <2>3. pc = "sweep"
      BY <2>2 DEF IInv, LabelInv, StepsTypeOK, Labels
    <2>4. m.policy = None
      BY <2>3 DEF IInv, ArgsInv, PhaseInv, Swept
    <2>5. PICK k \in Pairs : SweepPath(k)
      BY <2>3
      DEF Next, vars, BeginApply, BeginDelete, BeginSync, Begin, DeletePolicy,
          ListForDelete, LookupPolicy, ListBefore, ListForSync, Commit, Crash,
          StagePath, RollbackPath, UpdatePath, PrunePath
    <2>6. m'.policy = None
      BY <2>1, <2>4, <2>5 DEF SweepPath, SetPath, Maps
    <2>7. QED
      BY <2>4, <2>6 DEF VisibleLegs
  <1>2. QED
    BY LiveStepsInvariant, <1>1, PTL DEF Spec, DeleteNeverSteersByRemains
=============================================================================
