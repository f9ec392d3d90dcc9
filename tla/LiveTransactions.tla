-------------------------- MODULE LiveTransactions --------------------------
(***************************************************************************)
(* What the map operations promise their callers: each is asked for, and   *)
(* then has one of the outcomes LiveMaps lists for it at once, or its      *)
(* process is killed and the maps are those of one of these outcomes all   *)
(* the same.  Daemon is built on this, LiveSteps implements it.            *)
(***************************************************************************)
EXTENDS LiveMaps

CONSTANT Gens   \* generations that may be asked for

VARIABLES
    maps,    \* the maps before the running operation, or now
    asked,   \* the running operation, or None
    result   \* what the last operation returned

transactionVars == <<maps, asked, result>>

Operations ==
    [op : {"apply", "sync"}, policy : [gen : Gens, pol : Policies], paths : PathMap]
        \cup [op : {"delete"}]

Init == maps = EmptyMaps /\ asked = None /\ result = "none"

Outcomes(o) ==
    CASE o.op = "apply"  -> ApplyLive(maps, o.policy, o.paths, FALSE)
      [] o.op = "sync"   -> SyncPaths(maps, o.paths, FALSE)
      [] o.op = "delete" -> DeleteLive(maps, FALSE)

\* The incremental operation is for a policy that is live already.
Ask ==
    /\ asked = None
    /\ asked' \in Operations
    /\ asked'.op = "sync" => maps.policy = asked'.policy
    /\ result' = "none"
    /\ UNCHANGED maps

Return(r) ==
    /\ maps' = r.maps
    /\ asked' = None /\ result' = IF r.ok THEN "ok" ELSE "error"

Killed(r) ==
    /\ maps' = r.maps
    /\ asked' = None /\ result' = "none"

Next ==
    \/ Ask
    \/ asked # None /\ \E r \in Outcomes(asked) : Return(r) \/ Killed(r)

Spec == Init /\ [][Next]_transactionVars
=============================================================================
