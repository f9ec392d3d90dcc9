------------------------------ MODULE LiveSteps -----------------------------
(***************************************************************************)
(* The map operations call by call: ApplyLive, DeleteLive and the          *)
(* incremental branch of applyConnection, with an error possible at every  *)
(* MapStore call and the process killed between any two.  Writers are      *)
(* serialized (d.mu in the daemon, the process-shared lock for the CLI),   *)
(* so there is one operation at a time; the kernel's scheduler looks at    *)
(* the maps at every moment in between.  Definitions marked "slip" are     *)
(* mistakes the properties must notice; nothing uses them.                 *)
(***************************************************************************)
EXTENDS LiveMaps, FiniteSets

CONSTANT Gens   \* generations that may be asked for (bound of the model)

ASSUME GensAssumption == Gens \subseteq Nat \ {0}

\* The classifications a plan may ask for: some pair on each leg.
Plans == {a \in [Pairs -> {LegA, LegB, None}] :
             \A leg \in {LegA, LegB} : \E k \in Pairs : a[k] = leg}

PathsOf(plan, gen) ==
    [k \in Pairs |-> IF plan[k] = None THEN None
                     ELSE [gen |-> gen, access |-> plan[k]]]

VARIABLES
    m,       \* the maps
    pc,      \* the next MapStore call of the running operation, or "idle"
    op,      \* the operation: "apply", "delete" or "sync"
    p,       \* policy to commit
    want,    \* desired paths
    before,  \* paths listed before staging
    todo,    \* keys still to be visited by the current loop
    staged,  \* keys written so far
    errs,    \* an error has been collected
    start,   \* history: the maps when the operation began
    result   \* history: what the last finished operation returned

vars == <<m, pc, op, p, want, before, todo, staged, errs, start, result>>
args == <<op, p, want, start>>

Init ==
    /\ m = EmptyMaps /\ start = EmptyMaps
    /\ pc = "idle" /\ op = "delete"
    /\ p = None /\ want = NoPaths /\ before = NoPaths
    /\ todo = {} /\ staged = {} /\ errs = FALSE
    /\ result = "none"
-----------------------------------------------------------------------------
Begin(kind, first) ==
    /\ pc = "idle"
    /\ op' = kind /\ pc' = first
    /\ start' = m /\ result' = "none"
    /\ before' = NoPaths /\ todo' = {} /\ staged' = {} /\ errs' = FALSE
    /\ UNCHANGED m

BeginApply(plan, gen, pol) ==
    /\ Begin("apply", "lookup")
    /\ p' = [gen |-> gen, pol |-> pol] /\ want' = PathsOf(plan, gen)

BeginDelete ==
    /\ Begin("delete", "unpolicy")
    /\ p' = None /\ want' = NoPaths

\* applyConnection found the live policy to be the wanted one already.
BeginSync(plan) ==
    /\ m.policy # None
    /\ Begin("sync", "synclist")
    /\ p' = m.policy /\ want' = PathsOf(plan, m.policy.gen)

Return(ok) ==
    /\ pc' = "idle" /\ result' = (IF ok THEN "ok" ELSE "error")
    /\ todo' = {} /\ UNCHANGED <<before, staged, errs, args>>

Goto(label, keys) ==
    /\ pc' = label /\ todo' = keys
    /\ UNCHANGED <<before, staged, errs, result, args>>

\* Next turn of a loop that has just visited k, or what follows it.
Visited(k, After) ==
    IF todo = {k} THEN After
    ELSE /\ todo' = todo \ {k}
         /\ UNCHANGED <<pc, before, staged, errs, result, args>>

SetPath(k, v) == m' = [m EXCEPT !.paths[k] = v]
-----------------------------------------------------------------------------
(* ApplyLive *)

LookupPolicy ==
    /\ pc = "lookup"
    /\ UNCHANGED m
    /\ \/ Return(FALSE)               \* the lookup failed, or stale generation
       \/ Advances(m, p) /\ Goto("list", {})

ListBefore ==
    /\ pc = "list"
    /\ UNCHANGED m
    /\ \/ Return(FALSE)
       \/ /\ before' = m.paths /\ pc' = "stage" /\ todo' = Keys(want)
          /\ UNCHANGED <<staged, errs, result, args>>

\* Something failed before the commit took effect.
StartRollback ==
    IF staged = {} THEN Return(FALSE) ELSE Goto("rollback", staged)

\* Slip: a path that cannot be staged is passed over.
StagePathAnyway(k) ==
    /\ pc = "stage" /\ k \in todo
    /\ SetPath(k, want[k]) \/ UNCHANGED m
    /\ staged' = staged \cup {k} /\ todo' = todo \ {k}
    /\ pc' = IF todo = {k} THEN "commit" ELSE "stage"
    /\ UNCHANGED <<before, errs, result, args>>

StagePath(k) ==
    /\ pc = "stage" /\ k \in todo
    /\ \/ /\ SetPath(k, want[k])
          /\ staged' = staged \cup {k} /\ todo' = todo \ {k}
          /\ pc' = IF todo = {k} THEN "commit" ELSE "stage"
          /\ UNCHANGED <<before, errs, result, args>>
       \/ UNCHANGED m /\ StartRollback

\* Delete the entries that are not wanted any more, or report.
StartSweep(keys) ==
    IF keys = {} THEN Return(TRUE) ELSE Goto("sweep", keys)

Commit ==
    /\ pc = "commit"
    /\ \/ /\ m' = [m EXCEPT !.policy = p]
          /\ StartSweep(Keys(before) \ Keys(want))
       \/ UNCHANGED m /\ StartRollback

RollbackPath(k) ==
    /\ pc = "rollback" /\ k \in todo
    /\ SetPath(k, before[k]) \/ UNCHANGED m
    /\ Visited(k, Return(FALSE))

\* Slip: errors of the last loop are dropped.
SweepQuietly(k) ==
    /\ pc = "sweep" /\ k \in todo
    /\ SetPath(k, None) \/ UNCHANGED m
    /\ Visited(k, Return(TRUE))

\* The last loop of ApplyLive and of DeleteLive: errors are collected.
SweepPath(k) ==
    /\ pc = "sweep" /\ k \in todo
    /\ \/ /\ SetPath(k, None)
          /\ Visited(k, Return(~errs))
       \/ /\ UNCHANGED m
          /\ IF todo = {k} THEN Return(FALSE)
             ELSE /\ todo' = todo \ {k} /\ errs' = TRUE
                  /\ UNCHANGED <<pc, before, staged, result, args>>
-----------------------------------------------------------------------------
(* DeleteLive *)

\* Slip: the paths are deleted even if the policy could not be.
DeletePolicyAnyway ==
    /\ pc = "unpolicy"
    /\ UNCHANGED m \/ m' = [m EXCEPT !.policy = None]
    /\ Goto("dellist", {})

DeletePolicy ==
    /\ pc = "unpolicy"
    /\ \/ UNCHANGED m /\ Return(FALSE)
       \/ m' = [m EXCEPT !.policy = None] /\ Goto("dellist", {})

ListForDelete ==
    /\ pc = "dellist"
    /\ UNCHANGED m
    /\ Return(FALSE) \/ StartSweep(Keys(m.paths))
-----------------------------------------------------------------------------
(* The incremental branch of applyConnection: the first error ends it *)

ChangedKeys == {k \in Keys(want) : m.paths[k] # want[k]}

StartPrune(keys) ==
    IF keys = {} THEN Return(TRUE) ELSE Goto("prune", keys)

ListForSync ==
    /\ pc = "synclist"
    /\ UNCHANGED m
    /\ \/ Return(FALSE)
       \/ IF ChangedKeys # {} THEN Goto("update", ChangedKeys)
          ELSE StartPrune(Keys(m.paths) \ Keys(want))

UpdatePath(k) ==
    /\ pc = "update" /\ k \in todo
    /\ \/ UNCHANGED m /\ Return(FALSE)
       \/ SetPath(k, want[k]) /\ Visited(k, StartPrune(Keys(m.paths) \ Keys(want)))

PrunePath(k) ==
    /\ pc = "prune" /\ k \in todo
    /\ \/ UNCHANGED m /\ Return(FALSE)
       \/ SetPath(k, None) /\ Visited(k, Return(TRUE))
-----------------------------------------------------------------------------
\* The process is killed; the maps are pinned in the kernel and stay.
Crash ==
    /\ pc # "idle"
    /\ pc' = "idle" /\ result' = "none" /\ todo' = {}
    /\ UNCHANGED <<m, before, staged, errs, args>>

Next ==
    \/ \E plan \in Plans, gen \in Gens, pol \in Policies : BeginApply(plan, gen, pol)
    \/ BeginDelete
    \/ \E plan \in Plans : BeginSync(plan)
    \/ LookupPolicy \/ ListBefore \/ Commit
    \/ DeletePolicy \/ ListForDelete \/ ListForSync
    \/ \E k \in Pairs : StagePath(k) \/ RollbackPath(k) \/ SweepPath(k)
                        \/ UpdatePath(k) \/ PrunePath(k)
    \/ Crash

Spec == Init /\ [][Next]_vars
-----------------------------------------------------------------------------
(* Properties *)

\* The running operation, as it was asked for.
Asked ==
    IF pc = "idle" THEN None
    ELSE IF op = "delete" THEN [op |-> op]
    ELSE [op |-> op, policy |-> p, paths |-> want]

Transactions == INSTANCE LiveTransactions
    WITH maps <- IF pc = "idle" THEN m ELSE start, asked <- Asked

ASSUME NoneIsNoOperation == None \notin Transactions!Operations

(***************************************************************************)
(* The operations implement the transactions of LiveMaps: what one returns *)
(* is what LiveMaps says it may return, success with the wanted entries    *)
(* and nothing else, an error with one of the listed remains.  A process   *)
(* killed between two calls leaves nothing behind that a failing store     *)
(* could not have left as well: recovery need not tell them apart.         *)
(***************************************************************************)
ImplementsTransactions == Transactions!Spec

\* Once the policy is committed every path of its own generation is there.
CommittedIsComplete ==
    op = "apply" /\ pc = "sweep" =>
        m.policy = p /\ \A k \in Keys(want) : m.paths[k] = want[k]

\* The legs the scheduler can steer to under the live policy.
VisibleLegs(mm) ==
    {mm.paths[k].access : k \in {j \in Keys(mm.paths) :
                                    mm.policy # None /\ mm.paths[j].gen = mm.policy.gen}}

\* While DeleteLive runs, no scheduling decision is steered by what is left:
\* the policy is gone before the first path is.
DeleteNeverSteersByRemains ==
    [][op = "delete" /\ m'.paths # m.paths
       => VisibleLegs(m) = {} /\ VisibleLegs(m') = {}]_vars

\* A live policy is replaced by a later generation only, also by a caller
\* that asks for an older one: ApplyLive reads before it writes.
GenerationAdvances ==
    [][m.policy # None /\ m'.policy \notin {None, m.policy}
       => m'.policy.gen > m.policy.gen]_vars

(***************************************************************************)
(* README: "The generation check makes partially staged bindings fall back *)
(* to the default scheduler".  While some but not all paths are staged the *)
(* scheduler has no leg to steer to, or still both.                        *)
(***************************************************************************)
PartialStagingFallsBack ==
    pc = "stage" /\ staged # {} /\ VisibleLegs(start) = {LegA, LegB} =>
        VisibleLegs(m) \in {{}, {LegA, LegB}}
=============================================================================
