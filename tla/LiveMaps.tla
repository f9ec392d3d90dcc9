------------------------------ MODULE LiveMaps ------------------------------
(***************************************************************************)
(* The two BPF maps as the agent writes them, for ONE connection key: the  *)
(* policy entry and the path entries, one per (local id, remote id) pair.  *)
(* An entry that is not in the map is None.                                *)
(*                                                                         *)
(* Each operator below is one function of the agent taken as a whole: the  *)
(* set of results it can have.  `up' says whether the map store works; if  *)
(* it does not, any single MapStore call may return an error, and the set  *)
(* holds the result of every combination of failing calls.  ErrNotFound on *)
(* a delete is success, as in the code.  LiveSteps has the same functions  *)
(* call by call.                                                           *)
(*                                                                         *)
(* A definition marked "slip" is a plausible mistake in the definition     *)
(* that follows it.  No specification uses it: it is put in the place of   *)
(* the right one to see that a property notices.                           *)
(***************************************************************************)
EXTENDS Integers

CONSTANTS
    Pairs,      \* endpoint pairs (local id, remote id) of one connection
    Policies,   \* steering policies: enabled, mode, weights, RTT delta
    None        \* the absent map entry, record or owner

LegA == 0
LegB == 1

MapPolicy == [gen : Nat \ {0}, pol : Policies]
MapPath   == [gen : Nat \ {0}, access : {LegA, LegB}]
PathMap   == [Pairs -> MapPath \cup {None}]
Maps      == [policy : MapPolicy \cup {None}, paths : PathMap]

ASSUME NoneIsNoEntry == None \notin MapPolicy /\ None \notin MapPath

NoPaths   == [k \in Pairs |-> None]
EmptyMaps == [policy |-> None, paths |-> NoPaths]

\* MapStore.Paths: the keys present for this connection.
Keys(paths) == {k \in Pairs : paths[k] # None}

\* f with the entries of S taken from g.
Override(f, g, S) == [k \in Pairs |-> IF k \in S THEN g[k] ELSE f[k]]

Done(m)   == [maps |-> m, ok |-> TRUE]
Failed(m) == [maps |-> m, ok |-> FALSE]
Results   == [maps : Maps, ok : BOOLEAN]

NonEmptySubsets(S) == (SUBSET S) \ {{}}
-----------------------------------------------------------------------------
(***************************************************************************)
(* DeleteLive: the policy goes first; then every path that is listed is    *)
(* deleted, failures are collected and the rest is still deleted.  An      *)
(* error in the policy delete stops before any path is touched, an error   *)
(* in the listing after the policy is gone.                                *)
(***************************************************************************)
DeleteLive(m, up) ==
    {Done(EmptyMaps)} \cup
    IF up THEN {}
    ELSE {Failed(m), Failed([m EXCEPT !.policy = None])} \cup
         {Failed([policy |-> None, paths |-> Override(NoPaths, m.paths, F)]) :
             F \in NonEmptySubsets(Keys(m.paths))}

(***************************************************************************)
(* ApplyLive: refuse a generation that does not advance, stage the wanted  *)
(* paths, commit the policy, delete what is no longer wanted.  A failure   *)
(* before or at the commit rolls the staged paths back; R is the set of    *)
(* staged keys whose rollback failed too.  A failure after the commit      *)
(* leaves the stale entries F behind and still reports an error.           *)
(***************************************************************************)
AlwaysAdvances(m, p) == TRUE    \* slip: no stale-generation check

Advances(m, p) == m.policy # None => m.policy.gen < p.gen

ApplyLive(m, p, want, up) ==
    IF ~Advances(m, p) THEN {Failed(m)}
    ELSE {Done([policy |-> p, paths |-> want])} \cup
         IF up THEN {}
         ELSE {Failed([m EXCEPT !.paths = Override(m.paths, want, R)]) :
                  R \in SUBSET Keys(want)} \cup
              {Failed([policy |-> p, paths |-> Override(want, m.paths, F)]) :
                  F \in NonEmptySubsets(Keys(m.paths) \ Keys(want))}

(***************************************************************************)
(* The incremental branch of applyConnection, taken when the live policy   *)
(* already is the wanted one: update the paths that differ, then delete    *)
(* the unwanted ones, and return at the first error.                       *)
(***************************************************************************)
\* Slip: the unwanted paths are not deleted.
SyncOnlyUpdates(m, want, up) ==
    {Done([m EXCEPT !.paths = Override(m.paths, want, Keys(want))])}

SyncPaths(m, want, up) ==
    LET changed == {k \in Keys(want) : m.paths[k] # want[k]}
        stale   == Keys(m.paths) \ Keys(want)
    IN {Done([m EXCEPT !.paths = want])} \cup
       IF up THEN {}
       ELSE {Failed(m)} \cup
            {Failed([m EXCEPT !.paths = Override(m.paths, want, S)]) :
                S \in (SUBSET changed) \ {changed}} \cup
            {Failed([m EXCEPT !.paths = Override(want, m.paths, F)]) :
                F \in NonEmptySubsets(stale)}

=============================================================================
