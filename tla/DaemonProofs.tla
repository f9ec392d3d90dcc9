---------------------------- MODULE DaemonProofs ----------------------------
(***************************************************************************)
(* The safety invariants of Daemon, for every number of contexts,          *)
(* connections, subflows and generations.                                  *)
(*                                                                         *)
(* reconcileLocked treats one connection at a time, so the argument is one *)
(* lemma about a single turn of its first loop (TurnInv), stated with      *)
(* predicates on one connection c, its map entries m and the contexts,     *)
(* and one lemma that lifts it to the whole pass (ReconcileInv).  Each     *)
(* action then only has to show that what it hands to reconcileLocked      *)
(* satisfies the lemma's hypothesis.                                       *)
(***************************************************************************)
EXTENDS Daemon, TLAPS

CtxType  == [Ids -> DesiredContext \cup {None}]
ConnType == [Tokens -> ObservedConnection \cup {None}]

HasOwner(c) == c # None /\ c.owner # None

\* EntriesAreOwned, OwnersExist, LivePolicyIsAssigned and PathsAreAssigned
\* for one connection: what a turn needs.
Bound(c, m, ctxs) ==
    /\ m # EmptyMaps => HasOwner(c)
    /\ HasOwner(c) =>
          /\ ctxs[c.owner] # None
          /\ c.initial # None
          /\ Matches(ctxs[c.owner].spec, c.initial)
          /\ m.policy # None =>
                \/ m.policy.gen < ctxs[c.owner].gen
                \/ m.policy = AssignedPolicy(ctxs[c.owner])
          /\ \A k \in Pairs : m.paths[k] # None =>
                m.paths[k].gen <= ctxs[c.owner].gen

\* NoErrorMeansInstalled and PendingHasError for one connection: what a
\* turn establishes whatever came before.
Exact(c, m, d) ==
    m = IF BothLegs(c, d.spec)
        THEN [policy |-> AssignedPolicy(d), paths |-> DesiredPaths(c, d.spec, d.gen)]
        ELSE EmptyMaps

Installed(c, m, ctxs) ==
    HasOwner(c) /\ ~c.err => Exact(c, m, ctxs[c.owner])

Pending(c, ctxs) ==
    /\ c # None /\ c.closed => HasOwner(c) /\ c.err
    /\ HasOwner(c) /\ ctxs[c.owner].deleting => c.err

\* A live policy is replaced by a later generation only.
PolicyStep(m, n) ==
    m.policy # None /\ n.policy \notin {None, m.policy} => n.policy.gen > m.policy.gen
-----------------------------------------------------------------------------
(* What the map operations of LiveMaps return, whatever fails *)

\* Mixing two path maps gives a path map.
LEMMA OverrideType ==
    ASSUME NEW f \in PathMap, NEW g \in PathMap, NEW S
    PROVE  Override(f, g, S) \in PathMap
  BY DEF Override, PathMap

\* The empty maps are maps.
LEMMA EmptyMapsType == EmptyMaps \in Maps /\ NoPaths \in PathMap
  BY DEF EmptyMaps, NoPaths, Maps, PathMap

\* DeleteLive returns well-formed maps, and success means both maps hold
\* nothing for the connection.
LEMMA DeleteLiveResult ==
    ASSUME NEW m \in Maps, NEW up \in BOOLEAN, NEW r \in DeleteLive(m, up)
    PROVE  /\ r.maps \in Maps
           /\ r.ok \in BOOLEAN
           /\ r.ok => r.maps = EmptyMaps
           /\ r.maps.policy \in {None, m.policy}
           /\ \A k \in Pairs : r.maps.paths[k] \in {None, m.paths[k]}
  <1>1. m.policy \in MapPolicy \cup {None} /\ m.paths \in PathMap
    BY DEF Maps
  <1>2. CASE r = Done(EmptyMaps)
    BY <1>2, EmptyMapsType DEF Done, EmptyMaps, NoPaths
  <1>3. CASE r = Failed(m)
    BY <1>3, <1>1 DEF Failed
  <1>4. CASE r = Failed([m EXCEPT !.policy = None])
    BY <1>4, <1>1 DEF Failed, Maps
  <1>5. ASSUME NEW F \in NonEmptySubsets(Keys(m.paths)),
               r = Failed([policy |-> None, paths |-> Override(NoPaths, m.paths, F)])
        PROVE  /\ r.maps \in Maps
               /\ r.ok = FALSE
               /\ r.maps.policy = None
               /\ \A k \in Pairs : r.maps.paths[k] \in {None, m.paths[k]}
    <2>1. Override(NoPaths, m.paths, F) \in PathMap
      BY <1>1, EmptyMapsType, OverrideType
    <2>2. \A k \in Pairs : Override(NoPaths, m.paths, F)[k] \in {None, m.paths[k]}
      BY DEF Override, NoPaths
    <2>3. QED
      BY <1>5, <2>1, <2>2 DEF Failed, Maps
  <1>6. QED
    BY <1>2, <1>3, <1>4, <1>5 DEF DeleteLive

(***************************************************************************)
(* ApplyLive returns well-formed maps; success means exactly the wanted    *)
(* entries; and whatever failed, the live policy is the old one or the new *)
(* one, the new one only if its generation advances.                       *)
(***************************************************************************)
LEMMA ApplyLiveResult ==
    ASSUME NEW m \in Maps, NEW p \in MapPolicy, NEW want \in PathMap,
           NEW up \in BOOLEAN, NEW r \in ApplyLive(m, p, want, up)
    PROVE  /\ r.maps \in Maps
           /\ r.ok \in BOOLEAN
           /\ r.ok => r.maps = [policy |-> p, paths |-> want]
           /\ \/ r.maps.policy = m.policy
              \/ r.maps.policy = p /\ Advances(m, p)
           /\ \A k \in Pairs : r.maps.paths[k] \in {m.paths[k], want[k]}
  <1>1. m.policy \in MapPolicy \cup {None} /\ m.paths \in PathMap
    BY DEF Maps
  <1>2. CASE r = Failed(m)
    BY <1>2, <1>1 DEF Failed
  <1>3. CASE r = Done([policy |-> p, paths |-> want]) /\ Advances(m, p)
    BY <1>3 DEF Done, Maps
  <1>4. ASSUME NEW R, r = Failed([m EXCEPT !.paths = Override(m.paths, want, R)])
        PROVE  /\ r.maps \in Maps
               /\ r.ok = FALSE
               /\ r.maps.policy = m.policy
               /\ \A k \in Pairs : r.maps.paths[k] \in {m.paths[k], want[k]}
    <2>1. Override(m.paths, want, R) \in PathMap
      BY <1>1, OverrideType
    <2>2. \A k \in Pairs : Override(m.paths, want, R)[k] \in {m.paths[k], want[k]}
      BY DEF Override
    <2>3. QED
      BY <1>1, <1>4, <2>1, <2>2 DEF Failed, Maps
  <1>5. ASSUME NEW F, Advances(m, p),
               r = Failed([policy |-> p, paths |-> Override(want, m.paths, F)])
        PROVE  /\ r.maps \in Maps
               /\ r.ok = FALSE
               /\ r.maps.policy = p
               /\ \A k \in Pairs : r.maps.paths[k] \in {m.paths[k], want[k]}
    <2>1. Override(want, m.paths, F) \in PathMap
      BY <1>1, OverrideType
    <2>2. \A k \in Pairs : Override(want, m.paths, F)[k] \in {m.paths[k], want[k]}
      BY DEF Override
    <2>3. QED
      BY <1>5, <2>1, <2>2 DEF Failed, Maps
  <1>6. QED
    BY <1>2, <1>3, <1>4, <1>5 DEF ApplyLive

\* The incremental branch keeps the policy, returns well-formed maps, and
\* success means exactly the wanted paths.
LEMMA SyncPathsResult ==
    ASSUME NEW m \in Maps, NEW want \in PathMap,
           NEW up \in BOOLEAN, NEW r \in SyncPaths(m, want, up)
    PROVE  /\ r.maps \in Maps
           /\ r.ok \in BOOLEAN
           /\ r.ok => r.maps = [policy |-> m.policy, paths |-> want]
           /\ r.maps.policy = m.policy
           /\ \A k \in Pairs : r.maps.paths[k] \in {m.paths[k], want[k]}
  <1>1. m.policy \in MapPolicy \cup {None} /\ m.paths \in PathMap
    BY DEF Maps
  <1>2. CASE r = Failed(m)
    BY <1>2, <1>1 DEF Failed
  <1>3. CASE r = Done([m EXCEPT !.paths = want])
    BY <1>3, <1>1 DEF Done, Maps
  <1>4. ASSUME NEW S, r = Failed([m EXCEPT !.paths = Override(m.paths, want, S)])
        PROVE  /\ r.maps \in Maps
               /\ r.ok = FALSE
               /\ r.maps.policy = m.policy
               /\ \A k \in Pairs : r.maps.paths[k] \in {m.paths[k], want[k]}
    <2>1. Override(m.paths, want, S) \in PathMap
      BY <1>1, OverrideType
    <2>2. \A k \in Pairs : Override(m.paths, want, S)[k] \in {m.paths[k], want[k]}
      BY DEF Override
    <2>3. QED
      BY <1>1, <1>4, <2>1, <2>2 DEF Failed, Maps
  <1>5. ASSUME NEW F, r = Failed([m EXCEPT !.paths = Override(want, m.paths, F)])
        PROVE  /\ r.maps \in Maps
               /\ r.ok = FALSE
               /\ r.maps.policy = m.policy
               /\ \A k \in Pairs : r.maps.paths[k] \in {m.paths[k], want[k]}
    <2>1. Override(want, m.paths, F) \in PathMap
      BY <1>1, OverrideType
    <2>2. \A k \in Pairs : Override(want, m.paths, F)[k] \in {m.paths[k], want[k]}
      BY DEF Override
    <2>3. QED
      BY <1>1, <1>5, <2>1, <2>2 DEF Failed, Maps
  <1>6. QED
    BY <1>2, <1>3, <1>4, <1>5 DEF SyncPaths
-----------------------------------------------------------------------------
(* One turn of reconcileLocked *)

\* What a plan wants is a path map of the assigned generation.
LEMMA DesiredPathsType ==
    ASSUME NEW c, NEW spec, NEW gen \in Gens
    PROVE  /\ DesiredPaths(c, spec, gen) \in PathMap
           /\ \A k \in Pairs : DesiredPaths(c, spec, gen)[k] # None =>
                  DesiredPaths(c, spec, gen)[k].gen = gen
  <1>1. gen \in Nat \ {0}
    BY DaemonConstants
  <1>2. QED
    BY <1>1 DEF DesiredPaths, PathMap, MapPath, LegA, LegB

\* One call of applyConnection.
LEMMA ApplyConnectionResult ==
    ASSUME NEW m \in Maps, NEW c \in ObservedConnection, NEW d \in DesiredContext,
           storeUp \in BOOLEAN,
           m.policy # None => m.policy.gen < d.gen \/ m.policy = AssignedPolicy(d),
           \A k \in Pairs : m.paths[k] # None => m.paths[k].gen <= d.gen,
           NEW r \in ApplyConnection(m, c, d)
    PROVE  /\ r.maps \in Maps
           /\ r.ok \in BOOLEAN
           /\ r.ok => Exact(c, r.maps, d)
           /\ r.maps.policy # None =>
                 r.maps.policy.gen < d.gen \/ r.maps.policy = AssignedPolicy(d)
           /\ \A k \in Pairs : r.maps.paths[k] # None => r.maps.paths[k].gen <= d.gen
           /\ PolicyStep(m, r.maps)
  <1> DEFINE want == DesiredPaths(c, d.spec, d.gen)
  <1>1. /\ d.gen \in Gens /\ d.gen \in Nat \ {0}
        /\ AssignedPolicy(d) \in MapPolicy
        /\ AssignedPolicy(d).gen = d.gen
    BY DaemonConstants DEF DesiredContext, AssignedPolicy, MapPolicy
  <1>2. want \in PathMap /\ \A k \in Pairs : want[k] # None => want[k].gen = d.gen
    BY <1>1, DesiredPathsType
  <1>3. m.policy \in MapPolicy \cup {None} /\ m.paths \in PathMap
    BY DEF Maps
  <1>4. CASE ~PlanOk(c, d.spec)
    <2>1. PICK q \in DeleteLive(m, storeUp) : r = Failed(q.maps)
      BY <1>4 DEF ApplyConnection
    <2>2. r.maps = q.maps /\ r.ok = FALSE
      BY <2>1 DEF Failed
    <2>3. /\ q.maps \in Maps
          /\ q.maps.policy \in {None, m.policy}
          /\ \A k \in Pairs : q.maps.paths[k] \in {None, m.paths[k]}
      BY DeleteLiveResult
    <2>4. QED
      BY <2>2, <2>3 DEF PolicyStep
  <1>5. CASE PlanOk(c, d.spec) /\ ~BothLegs(c, d.spec)
    <2>1. r \in DeleteLive(m, storeUp)
      BY <1>5 DEF ApplyConnection
    <2>2. /\ r.maps \in Maps
          /\ r.ok \in BOOLEAN
          /\ r.ok => r.maps = EmptyMaps
          /\ r.maps.policy \in {None, m.policy}
          /\ \A k \in Pairs : r.maps.paths[k] \in {None, m.paths[k]}
      BY <2>1, DeleteLiveResult
    <2>3. QED
      BY <2>2, <1>5 DEF PolicyStep, Exact
  <1>6. CASE PlanOk(c, d.spec) /\ BothLegs(c, d.spec) /\ m.policy = AssignedPolicy(d)
    <2>1. r \in SyncPaths(m, want, storeUp)
      BY <1>6 DEF ApplyConnection
    <2> HIDE DEF want
    <2>2. /\ r.maps \in Maps /\ r.ok \in BOOLEAN
          /\ r.ok => r.maps = [policy |-> m.policy, paths |-> want]
          /\ r.maps.policy = m.policy
          /\ \A k \in Pairs : r.maps.paths[k] \in {m.paths[k], want[k]}
      BY <2>1, <1>2, SyncPathsResult
    <2>3. r.ok => Exact(c, r.maps, d)
      BY <2>2, <1>6 DEF Exact, want
    <2>4. \A k \in Pairs : r.maps.paths[k] # None => r.maps.paths[k].gen <= d.gen
      BY <2>2, <1>2, <1>1
    <2>5. QED
      BY <2>2, <2>3, <2>4, <1>6 DEF PolicyStep
  <1>7. CASE PlanOk(c, d.spec) /\ BothLegs(c, d.spec) /\ m.policy # AssignedPolicy(d)
    <2>1. r \in ApplyLive(m, AssignedPolicy(d), want, storeUp)
      BY <1>7 DEF ApplyConnection
    <2> HIDE DEF want
    <2>2. /\ r.maps \in Maps /\ r.ok \in BOOLEAN
          /\ r.ok => r.maps = [policy |-> AssignedPolicy(d), paths |-> want]
          /\ \/ r.maps.policy = m.policy
             \/ r.maps.policy = AssignedPolicy(d) /\ Advances(m, AssignedPolicy(d))
          /\ \A k \in Pairs : r.maps.paths[k] \in {m.paths[k], want[k]}
      BY <2>1, <1>1, <1>2, ApplyLiveResult
    <2>3. r.ok => Exact(c, r.maps, d)
      BY <2>2, <1>7 DEF Exact, want
    <2>4. \A k \in Pairs : r.maps.paths[k] # None => r.maps.paths[k].gen <= d.gen
      BY <2>2, <1>2, <1>1
    <2>5. PolicyStep(m, r.maps)
      BY <2>2 DEF PolicyStep, Advances
    <2>6. QED
      BY <2>2, <2>3, <2>4, <2>5
  <1>8. QED
    BY <1>4, <1>5, <1>6, <1>7

\* A failed or successful turn that gives up the entries of a connection.
LEMMA RetireInv ==
    ASSUME NEW ctxs \in CtxType, NEW c \in ObservedConnection, NEW m \in Maps,
           storeUp \in BOOLEAN, Bound(c, m, ctxs), Retiring(c, ctxs),
           NEW o \in Retire(c, m)
    PROVE  /\ o.conn \in ObservedConnection \cup {None}
           /\ o.maps \in Maps
           /\ Bound(o.conn, o.maps, ctxs)
           /\ Installed(o.conn, o.maps, ctxs)
           /\ Pending(o.conn, ctxs)
           /\ PolicyStep(m, o.maps)
  <1>1. CASE c.owner = None
    <2>1. m = EmptyMaps /\ o = Result(None, m)
      BY <1>1 DEF Bound, HasOwner, Retire
    <2>2. QED
      BY <2>1, EmptyMapsType
      DEF Result, Bound, Installed, Pending, PolicyStep, HasOwner, EmptyMaps
  <1>2. CASE c.owner # None
    <2>1. PICK r \in DeleteLive(m, storeUp) :
             o = Result(IF r.ok THEN Released(c) ELSE Kept(c), r.maps)
      BY <1>2 DEF Retire
    <2>2. /\ r.maps \in Maps
          /\ r.ok \in BOOLEAN
          /\ r.ok => r.maps = EmptyMaps
          /\ r.maps.policy \in {None, m.policy}
          /\ \A k \in Pairs : r.maps.paths[k] \in {None, m.paths[k]}
      BY DeleteLiveResult
    <2>3. c # None
      BY DaemonConstants
    <2>4. CASE ~r.ok
      <3> DEFINE e == [c EXCEPT !.err = TRUE]
      <3>1. o.conn = e /\ o.maps = r.maps
        BY <2>1, <2>4 DEF Result, Kept
      <3>2. /\ e \in ObservedConnection
            /\ e.owner = c.owner /\ e.initial = c.initial
            /\ e.err = TRUE /\ e.closed = c.closed
        BY DEF ObservedConnection
      <3> HIDE DEF e
      <3>3. e # None /\ HasOwner(e) /\ HasOwner(c)
        BY <3>2, <1>2, <2>3, DaemonConstants DEF HasOwner
      <3>4. Bound(e, r.maps, ctxs)
        BY <3>2, <3>3, <2>2 DEF Bound
      <3>5. QED
        BY <3>1, <3>2, <3>3, <3>4, <2>2 DEF Installed, Pending, PolicyStep
    <2>5. CASE r.ok /\ c.closed
      <3>1. o.conn = None /\ o.maps = EmptyMaps
        BY <2>1, <2>2, <2>5 DEF Result, Released
      <3>2. QED
        BY <3>1, EmptyMapsType
        DEF Bound, Installed, Pending, PolicyStep, HasOwner, EmptyMaps
    <2>6. CASE r.ok /\ ~c.closed
      <3> DEFINE e == [c EXCEPT !.owner = None, !.err = FALSE]
      <3>1. o.conn = e /\ o.maps = EmptyMaps
        BY <2>1, <2>2, <2>6 DEF Result, Released
      <3>2. e \in ObservedConnection /\ e.owner = None /\ e.closed = c.closed
        BY DEF ObservedConnection
      <3> HIDE DEF e
      <3>3. QED
        BY <3>1, <3>2, <2>6, EmptyMapsType
        DEF Bound, Installed, Pending, PolicyStep, HasOwner, EmptyMaps
    <2>7. QED
      BY <2>4, <2>5, <2>6, <2>2
  <1>3. QED
    BY <1>1, <1>2

\* A turn that binds or refreshes a connection.
LEMMA InstallInv ==
    ASSUME NEW ctxs \in CtxType, NEW c \in ObservedConnection, NEW m \in Maps,
           storeUp \in BOOLEAN, Bound(c, m, ctxs), ~Retiring(c, ctxs),
           NEW i \in OwnerChoices(c, ctxs), NEW o \in Install(c, m, i, ctxs)
    PROVE  /\ o.conn \in ObservedConnection \cup {None}
           /\ o.maps \in Maps
           /\ Bound(o.conn, o.maps, ctxs)
           /\ Installed(o.conn, o.maps, ctxs)
           /\ Pending(o.conn, ctxs)
           /\ PolicyStep(m, o.maps)
  <1>1. c # None /\ ~c.closed
    BY DaemonConstants DEF Retiring
  <1>2. CASE i = None
    <2>1. c.owner = None
      BY <1>2, DaemonConstants DEF OwnerChoices, Candidates
    <2>2. o.conn = c /\ o.maps = m
      BY <1>2 DEF Install, Result
    <2>3. QED
      BY <2>1, <2>2, <1>1 DEF Bound, Installed, Pending, PolicyStep, HasOwner
  <1>3. CASE i # None
    <2>1. /\ i \in Ids
          /\ ctxs[i] # None
          /\ ctxs[i] \in DesiredContext
          /\ ~ctxs[i].deleting
          /\ c.initial # None
          /\ Matches(ctxs[i].spec, c.initial)
      <3>1. CASE c.owner # None
        <4>1. i = c.owner /\ HasOwner(c)
          BY <3>1, <1>1 DEF OwnerChoices, HasOwner
        <4>2. i \in Ids
          BY <4>1, <3>1 DEF ObservedConnection
        <4>3. QED
          BY <4>1, <4>2, <3>1 DEF Bound, Retiring, CtxType
      <3>2. CASE c.owner = None
        <4>1. i \in Candidates(c, ctxs)
          BY <3>2, <1>3 DEF OwnerChoices
        <4>2. QED
          BY <4>1 DEF Candidates, CtxType
      <3>3. QED
        BY <3>1, <3>2
    <2>2. c.owner # None => i = c.owner
      BY DEF OwnerChoices
    <2>3. /\ m.policy # None =>
                m.policy.gen < ctxs[i].gen \/ m.policy = AssignedPolicy(ctxs[i])
          /\ \A k \in Pairs : m.paths[k] # None => m.paths[k].gen <= ctxs[i].gen
      <3>1. CASE HasOwner(c)
        BY <3>1, <2>2 DEF Bound, HasOwner
      <3>2. CASE ~HasOwner(c)
        BY <3>2 DEF Bound, EmptyMaps, NoPaths
      <3>3. QED
        BY <3>1, <3>2
    <2>4. PICK r \in ApplyConnection(m, c, ctxs[i]) :
             o = Result([c EXCEPT !.owner = i, !.err = ~r.ok], r.maps)
      BY <1>3, <2>1 DEF Install
    <2>5. /\ r.maps \in Maps
          /\ r.ok \in BOOLEAN
          /\ r.ok => Exact(c, r.maps, ctxs[i])
          /\ r.maps.policy # None =>
                r.maps.policy.gen < ctxs[i].gen
                \/ r.maps.policy = AssignedPolicy(ctxs[i])
          /\ \A k \in Pairs : r.maps.paths[k] # None =>
                r.maps.paths[k].gen <= ctxs[i].gen
          /\ PolicyStep(m, r.maps)
      BY <2>1, <2>3, ApplyConnectionResult
    <2> DEFINE e == [c EXCEPT !.owner = i, !.err = ~r.ok]
    <2>6. o.conn = e /\ o.maps = r.maps
      BY <2>4 DEF Result
    <2>7. /\ e \in ObservedConnection
          /\ e.owner = i /\ e.err = ~r.ok /\ e.closed = c.closed
          /\ e.initial = c.initial /\ e.flows = c.flows
      BY <2>1, <2>5 DEF ObservedConnection
    <2> HIDE DEF e
    <2>8. e # None /\ HasOwner(e)
      BY <2>7, <1>3, DaemonConstants DEF HasOwner
    <2>9. Exact(c, r.maps, ctxs[i]) = Exact(e, r.maps, ctxs[i])
      BY <2>7 DEF Exact, BothLegs, DesiredPaths, OnLeg, Observed
    <2>10. Bound(e, r.maps, ctxs)
      BY <2>1, <2>5, <2>7, <2>8 DEF Bound
    <2>11. Installed(e, r.maps, ctxs)
      BY <2>5, <2>7, <2>8, <2>9 DEF Installed
    <2>12. Pending(e, ctxs)
      BY <2>1, <2>7, <1>1 DEF Pending
    <2>13. QED
      BY <2>5, <2>6, <2>7, <2>10, <2>11, <2>12
  <1>4. QED
    BY <1>2, <1>3

\* One turn of the first loop of reconcileLocked.
LEMMA TurnInv ==
    ASSUME NEW ctxs \in CtxType, NEW c \in ObservedConnection \cup {None},
           NEW m \in Maps, storeUp \in BOOLEAN, Bound(c, m, ctxs),
           NEW o \in ReconcileConnection(c, m, ctxs)
    PROVE  /\ o.conn \in ObservedConnection \cup {None}
           /\ o.maps \in Maps
           /\ Bound(o.conn, o.maps, ctxs)
           /\ Installed(o.conn, o.maps, ctxs)
           /\ Pending(o.conn, ctxs)
           /\ PolicyStep(m, o.maps)
  <1>1. CASE c = None
    <2>1. m = EmptyMaps /\ o.conn = None /\ o.maps = m
      BY <1>1 DEF Bound, HasOwner, ReconcileConnection, Result
    <2>2. QED
      BY <2>1, EmptyMapsType
      DEF Bound, Installed, Pending, PolicyStep, HasOwner, EmptyMaps
  <1>2. CASE c # None /\ Retiring(c, ctxs)
    <2>1. c \in ObservedConnection /\ o \in Retire(c, m)
      BY <1>2 DEF ReconcileConnection
    <2>2. QED
      BY <2>1, <1>2, RetireInv
  <1>3. CASE c # None /\ ~Retiring(c, ctxs)
    <2>1. c \in ObservedConnection
      BY <1>3
    <2>2. PICK i \in OwnerChoices(c, ctxs) : o \in Install(c, m, i, ctxs)
      BY <1>3 DEF ReconcileConnection
    <2>3. QED
      BY <2>1, <2>2, <1>3, InstallInv
  <1>4. QED
    BY <1>1, <1>2, <1>3
-----------------------------------------------------------------------------
(* The inductive invariant *)

ConnectionInv(t) ==
    /\ Bound(connections[t], maps[t], contexts)
    /\ Installed(connections[t], maps[t], contexts)
    /\ Pending(connections[t], contexts)

DeletingIsOwned ==
    \A i \in Ids :
        contexts[i] # None /\ contexts[i].deleting => Owns(connections, i)

IInv ==
    /\ TypeOK
    /\ SelectorsAreUnique
    /\ DeletingIsOwned
    /\ \A t \in Tokens : ConnectionInv(t)

(***************************************************************************)
(* What HTTP requests need to establish all of IInv: reconcileLocked looks *)
(* at every connection again, whatever has become of its entries.          *)
(***************************************************************************)
Coherent ==
    /\ TypeOK
    /\ SelectorsAreUnique
    /\ \A t \in Tokens : Bound(connections[t], maps[t], contexts)

LEMMA IInvIsCoherent == IInv => Coherent
  BY DEF IInv, ConnectionInv, Coherent

\* Selectors are unique in the contexts ctxs.
UniqueIn(ctxs) ==
    \A i, j \in Ids :
        i # j /\ ctxs[i] # None /\ ctxs[j] # None => ctxs[i].spec.dest # ctxs[j].spec.dest

(***************************************************************************)
(* The whole of reconcileLocked, from any contexts and connections that    *)
(* are bound to each other.                                                *)
(***************************************************************************)
LEMMA ReconcileInv ==
    ASSUME NEW ctxs \in CtxType, NEW conns \in ConnType, TypeOK,
           UniqueIn(ctxs),
           \A t \in Tokens : Bound(conns[t], maps[t], ctxs),
           ReconcileLocked(ctxs, conns),
           UNCHANGED <<fatal, streaming, env>>
    PROVE  IInv' /\ \A t \in Tokens : PolicyStep(maps[t], maps'[t])
  <1> DEFINE turn == [t \in Tokens |-> ReconcileConnection(conns[t], maps[t], ctxs)]
  <1>1. PICK out \in [Tokens -> UNION {turn[t] : t \in Tokens}] :
           /\ \A t \in Tokens : out[t] \in turn[t]
           /\ connections' = [t \in Tokens |-> out[t].conn]
           /\ maps'        = [t \in Tokens |-> out[t].maps]
           /\ contexts'    = PruneContexts(ctxs, connections')
    BY DEF ReconcileLocked
  <1>2. ASSUME NEW t \in Tokens
        PROVE  /\ connections'[t] \in ObservedConnection \cup {None}
               /\ maps'[t] \in Maps
               /\ Bound(connections'[t], maps'[t], ctxs)
               /\ Installed(connections'[t], maps'[t], ctxs)
               /\ Pending(connections'[t], ctxs)
               /\ PolicyStep(maps[t], maps'[t])
    <2>1. out[t] \in ReconcileConnection(conns[t], maps[t], ctxs)
      BY <1>1
    <2>2. /\ conns[t] \in ObservedConnection \cup {None}
          /\ maps[t] \in Maps
          /\ storeUp \in BOOLEAN
          /\ Bound(conns[t], maps[t], ctxs)
      BY DEF ConnType, TypeOK
    <2>3. connections'[t] = out[t].conn /\ maps'[t] = out[t].maps
      BY <1>1
    <2>4. QED
      BY <2>1, <2>2, <2>3, TurnInv
  <1>3. contexts' \in CtxType
    BY <1>1 DEF PruneContexts, CtxType
  <1>4. TypeOK'
    <2>1. connections' \in ConnType /\ maps' \in [Tokens -> Maps]
      BY <1>1, <1>2 DEF ConnType
    <2>2. QED
      BY <2>1, <1>3 DEF TypeOK, CtxType, ConnType, env
  <1>5. \A i \in Ids : contexts'[i] \in {None, ctxs[i]}
    BY <1>1 DEF PruneContexts
  <1>6. SelectorsAreUnique'
    BY <1>5 DEF SelectorsAreUnique, UniqueIn
  <1>7. DeletingIsOwned'
    BY <1>1 DEF DeletingIsOwned, PruneContexts
  <1>8. ASSUME NEW t \in Tokens PROVE ConnectionInv(t)'
    <2>1. CASE ~HasOwner(connections'[t])
      BY <2>1, <1>2 DEF ConnectionInv, Bound, Installed, Pending
    <2>2. CASE HasOwner(connections'[t])
      <3>1. connections'[t].owner \in Ids
        BY <2>2, <1>2 DEF HasOwner, ObservedConnection
      <3>2. Owns(connections', connections'[t].owner)
        BY <2>2 DEF Owns, HasOwner
      <3>3. contexts'[connections'[t].owner] = ctxs[connections'[t].owner]
        BY <3>1, <3>2, <1>1 DEF PruneContexts
      <3>4. Bound(connections'[t], maps'[t], contexts')
        BY <3>3, <1>2, <2>2 DEF Bound
      <3>5. Installed(connections'[t], maps'[t], contexts')
        BY <3>3, <1>2, <2>2 DEF Installed
      <3>6. Pending(connections'[t], contexts')
        BY <3>3, <1>2, <2>2 DEF Pending
      <3>7. QED
        BY <3>4, <3>5, <3>6 DEF ConnectionInv
    <2>3. QED
      BY <2>1, <2>2
  <1>9. QED
    BY <1>2, <1>4, <1>6, <1>7, <1>8 DEF IInv
-----------------------------------------------------------------------------
\* A fresh daemon satisfies the invariant: it knows and has installed nothing.
LEMMA InitInv == Init => IInv
  <1> SUFFICES ASSUME Init PROVE IInv
    OBVIOUS
  <1>1. TypeOK
    BY EmptyMapsType DEF Init, TypeOK
  <1>2. SelectorsAreUnique /\ DeletingIsOwned
    BY DEF Init, SelectorsAreUnique, DeletingIsOwned
  <1>3. \A t \in Tokens : ConnectionInv(t)
    BY DEF Init, ConnectionInv, Bound, Installed, Pending, HasOwner
  <1>4. QED
    BY <1>1, <1>2, <1>3 DEF IInv

\* What a method that changes only connections hands to reconcileLocked.
LEMMA BoundIsFrame ==
    ASSUME IInv, NEW t \in Tokens, NEW e \in ObservedConnection,
           HasOwner(connections[t]) =>
              /\ e.owner = connections[t].owner
              /\ e.initial = connections[t].initial,
           ~HasOwner(connections[t]) => e.owner = None
    PROVE  /\ Bound(e, maps[t], contexts)
           /\ [connections EXCEPT ![t] = e] \in ConnType
  <1>1. Bound(connections[t], maps[t], contexts)
    BY DEF IInv, ConnectionInv
  <1>2. e # None
    BY DaemonConstants
  <1>3. Bound(e, maps[t], contexts)
    <2>1. CASE HasOwner(connections[t])
      <3>1. HasOwner(e)
        BY <2>1, <1>2 DEF HasOwner
      <3>2. QED
        BY <1>1, <2>1, <3>1 DEF Bound
    <2>2. CASE ~HasOwner(connections[t])
      <3>1. maps[t] = EmptyMaps /\ ~HasOwner(e)
        BY <1>1, <2>2 DEF Bound, HasOwner
      <3>2. QED
        BY <3>1 DEF Bound
    <2>3. QED
      BY <2>1, <2>2
  <1>4. QED
    BY <1>3 DEF IInv, TypeOK, ConnType

\* Steps that reconcile after changing one connection, and keep its binding.
LEMMA ObserveInv ==
    ASSUME IInv, NEW t \in Tokens, NEW e \in ObservedConnection,
           HasOwner(connections[t]) =>
              /\ e.owner = connections[t].owner
              /\ e.initial = connections[t].initial,
           ~HasOwner(connections[t]) => e.owner = None,
           ReconcileLocked(contexts, [connections EXCEPT ![t] = e]),
           UNCHANGED <<fatal, streaming, env>>
    PROVE  IInv' /\ \A s \in Tokens : PolicyStep(maps[s], maps'[s])
  <1> DEFINE conns == [connections EXCEPT ![t] = e]
  <1>1. conns \in ConnType /\ Bound(e, maps[t], contexts)
    BY BoundIsFrame
  <1>2. \A s \in Tokens : Bound(conns[s], maps[s], contexts)
    BY <1>1 DEF IInv, ConnectionInv, TypeOK
  <1>3. TypeOK /\ contexts \in CtxType /\ UniqueIn(contexts)
    BY DEF IInv, TypeOK, CtxType, SelectorsAreUnique, UniqueIn
  <1> HIDE DEF conns
  <1>4. ReconcileLocked(contexts, conns)
    BY DEF conns
  <1>5. QED
    BY <1>1, <1>2, <1>3, <1>4, ReconcileInv

\* Steps that reconcile what is there.
LEMMA RetryInv ==
    ASSUME Coherent, ReconcileLocked(contexts, connections),
           UNCHANGED <<fatal, streaming, env>>
    PROVE  IInv' /\ \A s \in Tokens : PolicyStep(maps[s], maps'[s])
  <1>1. TypeOK /\ contexts \in CtxType /\ connections \in ConnType /\ UniqueIn(contexts)
    BY DEF Coherent, TypeOK, CtxType, ConnType, SelectorsAreUnique, UniqueIn
  <1>2. \A t \in Tokens : Bound(connections[t], maps[t], contexts)
    BY DEF Coherent
  <1>3. QED
    BY <1>1, <1>2, ReconcileInv

\* An accepted assignment, new or updated, preserves the invariant.
LEMMA PutInv ==
    ASSUME Coherent, NEW id \in Ids, NEW spec \in Specs, NEW gen \in Gens,
           NEW pol \in Policies, Put(id, spec, gen, pol)
    PROVE  IInv' /\ \A s \in Tokens : PolicyStep(maps[s], maps'[s])
  <1> DEFINE new  == [spec |-> spec, gen |-> gen, pol |-> pol, deleting |-> FALSE]
             ctxs == [contexts EXCEPT ![id] = new]
  <1>1. new \in DesiredContext /\ new # None
    <2>1. new \in DesiredContext
      BY DEF DesiredContext
    <2> HIDE DEF new
    <2>2. QED
      BY <2>1, DaemonConstants
  <1>2. contexts \in CtxType /\ connections \in ConnType /\ TypeOK
    BY DEF Coherent, TypeOK, CtxType, ConnType
  <1>3. ctxs \in CtxType /\ ctxs[id] = new
    BY <1>1, <1>2 DEF CtxType
  <1>4. \A i \in Ids : i # id => ctxs[i] = contexts[i]
    BY <1>2 DEF CtxType
  <1>5. CASE contexts[id] = None
    <2>1. AdmitNew(spec)
      BY <1>5 DEF Put
    <2>2. UniqueIn(ctxs)
      BY <2>1, <1>3, <1>4 DEF Coherent, SelectorsAreUnique, UniqueIn, AdmitNew
    <2>3. ASSUME NEW t \in Tokens PROVE Bound(connections[t], maps[t], ctxs)
      <3>1. Bound(connections[t], maps[t], contexts)
        BY DEF Coherent
      <3>2. HasOwner(connections[t]) =>
               ctxs[connections[t].owner] = contexts[connections[t].owner]
        BY <3>1, <1>2, <1>4, <1>5 DEF Bound, HasOwner, ConnType, ObservedConnection
      <3>3. QED
        BY <3>1, <3>2 DEF Bound
    <2>4. QED
      BY <2>2, <2>3, <1>2, <1>3, ReconcileInv DEF Put
  <1>6. CASE contexts[id] # None
    <2> DEFINE old == contexts[id]
    <2>1. old \in DesiredContext
      BY <1>2, <1>6 DEF CtxType
    <2>2. /\ old.spec = spec
          /\ gen > old.gen \/ (gen = old.gen /\ pol = old.pol)
      BY <1>6 DEF Put, AdmitUpdate
    <2>3. old.gen \in Nat /\ gen \in Nat
      BY <2>1, DaemonConstants DEF DesiredContext
    <2>4. /\ new.spec = old.spec
          /\ \/ new.gen > old.gen
             \/ new.gen = old.gen /\ AssignedPolicy(new) = AssignedPolicy(old)
          /\ AssignedPolicy(old).gen = old.gen
      BY <2>2 DEF AssignedPolicy
    <2>5. UniqueIn(ctxs)
      <3>1. \A i \in Ids : (ctxs[i] # None <=> contexts[i] # None)
                           /\ (ctxs[i] # None => ctxs[i].spec = contexts[i].spec)
        BY <1>1, <1>3, <1>4, <1>6, <2>4
      <3> HIDE DEF ctxs
      <3>2. QED
        BY <3>1 DEF Coherent, SelectorsAreUnique, UniqueIn
    <2>6. ASSUME NEW t \in Tokens PROVE Bound(connections[t], maps[t], ctxs)
      <3>1. Bound(connections[t], maps[t], contexts)
        BY DEF Coherent
      <3>2. maps[t] \in Maps /\ connections[t] \in ObservedConnection \cup {None}
        BY <1>2 DEF TypeOK, ConnType
      <3>3. CASE HasOwner(connections[t]) /\ connections[t].owner = id
        <4>1. ctxs[connections[t].owner] = new /\ contexts[connections[t].owner] = old
          BY <3>3, <1>3
        <4>2. \A p \in MapPolicy : p.gen \in Nat
          BY DEF MapPolicy
        <4>3. \A k \in Pairs : maps[t].paths[k] # None => maps[t].paths[k].gen \in Nat
          BY <3>2 DEF Maps, PathMap, MapPath
        <4>4. maps[t].policy # None => maps[t].policy.gen \in Nat
          BY <3>2, <4>2 DEF Maps
        <4>5. new.gen = gen
          OBVIOUS
        <4> HIDE DEF new, old, ctxs
        <4>6. new # None
          BY <1>1
        <4>7. maps[t].policy # None =>
                 maps[t].policy.gen < new.gen \/ maps[t].policy = AssignedPolicy(new)
          BY <3>1, <3>3, <4>1, <4>4, <4>5, <2>3, <2>4 DEF Bound
        <4>8. \A k \in Pairs : maps[t].paths[k] # None => maps[t].paths[k].gen <= new.gen
          BY <3>1, <3>3, <4>1, <4>3, <4>5, <2>3, <2>4 DEF Bound
        <4>9. QED
          BY <3>1, <3>3, <4>1, <4>6, <4>7, <4>8, <2>4 DEF Bound
      <3>4. CASE HasOwner(connections[t]) /\ connections[t].owner # id
        <4>1. connections[t].owner \in Ids
          BY <3>2, <3>4 DEF HasOwner, ObservedConnection
        <4>2. ctxs[connections[t].owner] = contexts[connections[t].owner]
          BY <3>4, <4>1, <1>4
        <4> HIDE DEF ctxs
        <4>3. QED
          BY <3>1, <4>2 DEF Bound
      <3>5. CASE ~HasOwner(connections[t])
        BY <3>1, <3>5 DEF Bound
      <3>6. QED
        BY <3>3, <3>4, <3>5
    <2>7. QED
      BY <2>5, <2>6, <1>2, <1>3, ReconcileInv DEF Put
  <1>7. QED
    BY <1>5, <1>6

\* Marking a context as deleting preserves the invariant.
LEMMA DeleteInv ==
    ASSUME Coherent, NEW id \in Ids, Delete(id)
    PROVE  IInv' /\ \A s \in Tokens : PolicyStep(maps[s], maps'[s])
  <1>1. CASE contexts[id] = None
    BY <1>1, RetryInv DEF Delete
  <1>2. CASE contexts[id] # None
    <2> DEFINE old  == contexts[id]
               new  == [old EXCEPT !.deleting = TRUE]
               ctxs == [contexts EXCEPT ![id].deleting = TRUE]
    <2>1. contexts \in CtxType /\ connections \in ConnType /\ TypeOK
      BY DEF Coherent, TypeOK, CtxType, ConnType
    <2>2. old \in DesiredContext
      BY <2>1, <1>2 DEF CtxType
    <2>3. /\ new \in DesiredContext
          /\ new.spec = old.spec /\ new.gen = old.gen /\ new.pol = old.pol
      BY <2>2 DEF DesiredContext
    <2>4. new # None /\ AssignedPolicy(new) = AssignedPolicy(old)
      BY <2>3, DaemonConstants DEF AssignedPolicy
    <2>5. ctxs \in CtxType /\ \A i \in Ids : ctxs[i] = IF i = id THEN new ELSE contexts[i]
      BY <2>1, <2>3 DEF CtxType
    <2>6. ReconcileLocked(ctxs, connections) /\ UNCHANGED <<fatal, streaming, env>>
      BY <1>2 DEF Delete
    <2> HIDE DEF ctxs, new
    <2>7. UniqueIn(ctxs)
      BY <2>3, <2>5, <1>2 DEF Coherent, SelectorsAreUnique, UniqueIn
    <2>8. ASSUME NEW t \in Tokens PROVE Bound(connections[t], maps[t], ctxs)
      <3>1. Bound(connections[t], maps[t], contexts)
        BY DEF Coherent
      <3>2. HasOwner(connections[t]) => connections[t].owner \in Ids
        BY <2>1 DEF HasOwner, ObservedConnection, ConnType
      <3>3. HasOwner(connections[t]) =>
               LET d == contexts[connections[t].owner]
                   e == ctxs[connections[t].owner]
               IN /\ d # None => e # None
                  /\ e.spec = d.spec /\ e.gen = d.gen
                  /\ AssignedPolicy(e) = AssignedPolicy(d)
        BY <3>2, <2>3, <2>4, <2>5
      <3>4. QED
        BY <3>1, <3>3 DEF Bound
    <2>9. QED
      BY <2>1, <2>5, <2>6, <2>7, <2>8, ReconcileInv
  <1>3. QED
    BY <1>1, <1>2

\* A CLOSED event, known token or not, preserves the invariant.
LEMMA ObserveClosedInv ==
    ASSUME IInv, NEW t \in Tokens, ObserveClosed(t)
    PROVE  IInv' /\ \A s \in Tokens : PolicyStep(maps[s], maps'[s])
  <1>1. CASE ~Known(t)
    BY <1>1, RetryInv, IInvIsCoherent DEF ObserveClosed
  <1>2. CASE Known(t)
    <2> DEFINE e == [connections[t] EXCEPT !.closed = TRUE]
    <2>1. connections[t] \in ObservedConnection
      BY <1>2 DEF IInv, TypeOK, Known
    <2>2. /\ e \in ObservedConnection
          /\ e.owner = connections[t].owner /\ e.initial = connections[t].initial
      BY <2>1 DEF ObservedConnection
    <2>3. connections[t] # None
      BY <1>2 DEF Known
    <2>4. ReconcileLocked(contexts, [connections EXCEPT ![t] = e])
      BY <1>2 DEF ObserveClosed
    <2> HIDE DEF e
    <2>5. UNCHANGED <<fatal, streaming, env>>
      BY DEF ObserveClosed
    <2>6. QED
      BY <2>2, <2>3, <2>4, <2>5, ObserveInv DEF HasOwner
  <1>3. QED
    BY <1>1, <1>2

\* Forgetting a subflow preserves the invariant.
LEMMA ObserveSubClosedInv ==
    ASSUME IInv, NEW t \in Tokens, NEW f \in Flows, ObserveSubClosed(t, f)
    PROVE  IInv' /\ \A s \in Tokens : PolicyStep(maps[s], maps'[s])
  <1> DEFINE e == [connections[t] EXCEPT !.flows[f] = NotObserved]
  <1>1. connections[t] \in ObservedConnection /\ connections[t] # None
    BY DEF ObserveSubClosed, IInv, TypeOK, Known
  <1>2. /\ e \in ObservedConnection
        /\ e.owner = connections[t].owner /\ e.initial = connections[t].initial
    BY <1>1 DEF ObservedConnection
  <1>3. ReconcileLocked(contexts, [connections EXCEPT ![t] = e])
    BY DEF ObserveSubClosed
  <1> HIDE DEF e
  <1>4. UNCHANGED <<fatal, streaming, env>>
    BY DEF ObserveSubClosed
  <1>5. QED
    BY <1>1, <1>2, <1>3, <1>4, ObserveInv DEF HasOwner

\* A new or repeated subflow preserves the invariant.
LEMMA ObserveEstablishedInv ==
    ASSUME IInv, NEW t \in Tokens, NEW f \in Flows, NEW ix \in EventIndexes,
           NEW b \in BOOLEAN, ObserveEstablished(t, f, ix, b)
    PROVE  IInv' /\ \A s \in Tokens : PolicyStep(maps[s], maps'[s])
  <1> DEFINE w == WithInitial(Entry(t), f, b)
             e == [w EXCEPT !.flows[f] = ix]
  <1>1. NewConnection \in ObservedConnection /\ NewConnection.owner = None
    BY DEF NewConnection, ObservedConnection
  <1>2. Entry(t) \in ObservedConnection
    BY <1>1 DEF Entry, Known, IInv, TypeOK
  <1>3. /\ w \in ObservedConnection
        /\ w.owner = Entry(t).owner
        /\ w.initial = IF b THEN f ELSE Entry(t).initial
    BY <1>2 DEF WithInitial, ObservedConnection
  <1> HIDE DEF w
  <1>4. /\ e \in ObservedConnection
        /\ e.owner = w.owner /\ e.initial = w.initial
    BY <1>3 DEF ObservedConnection
  <1>5. ReconcileLocked(contexts, [connections EXCEPT ![t] = e])
    BY DEF ObserveEstablished, w
  <1>6. UNCHANGED <<fatal, streaming, env>>
    BY DEF ObserveEstablished
  <1> HIDE DEF e
  <1>7. HasOwner(connections[t]) =>
           /\ Entry(t) = connections[t]
           /\ connections[t].initial # None
           /\ b => connections[t].initial = f
    BY DEF HasOwner, Entry, Known, IInv, ConnectionInv, Bound,
           ObserveEstablished, SameInitial
  <1>8. ~HasOwner(connections[t]) => Entry(t).owner = None
    BY <1>1 DEF HasOwner, Entry, Known
  <1>9. QED
    BY <1>3, <1>4, <1>5, <1>6, <1>7, <1>8, ObserveInv

\* An overflow may set initial, of a connection that had none.
LEMMA ObserveOverflowInv ==
    ASSUME IInv, NEW t \in Tokens, NEW f \in Flows, NEW b \in BOOLEAN,
           ObserveOverflow(t, f, b)
    PROVE  IInv' /\ \A s \in Tokens : PolicyStep(maps[s], maps'[s])
  <1> DEFINE c == connections[t]
             e == WithInitial(c, f, b)
  <1>1. c \in ObservedConnection /\ c # None /\ Entry(t) = c
    BY DEF ObserveOverflow, IInv, TypeOK, Known, Entry
  <1>2. /\ e \in ObservedConnection
        /\ e.owner = c.owner /\ e.flows = c.flows /\ e.err = c.err
        /\ e.closed = c.closed
        /\ e.initial = IF b THEN f ELSE c.initial
    BY <1>1 DEF WithInitial, ObservedConnection
  <1>3. connections' = [connections EXCEPT ![t] = e]
    BY DEF ObserveOverflow
  <1>4. UNCHANGED <<contexts, maps, fatal, env>> /\ streaming' = FALSE
    BY DEF ObserveOverflow, LoseStream
  <1> HIDE DEF e
  <1>5. HasOwner(c) /\ b => c.initial = f
    BY <1>1 DEF HasOwner, IInv, ConnectionInv, Bound, ObserveOverflow, SameInitial
  <1>6. e # None
    BY <1>2, DaemonConstants
  <1>7. HasOwner(e) <=> HasOwner(c)
    BY <1>1, <1>2, <1>6 DEF HasOwner
  <1>8. HasOwner(c) => e.initial = c.initial
    BY <1>5, <1>2
  <1>9. connections'[t] = e /\ \A s \in Tokens : s # t => connections'[s] = connections[s]
    BY <1>3 DEF IInv, TypeOK
  <1>10. TypeOK'
    BY <1>2, <1>3, <1>4 DEF IInv, TypeOK, env
  <1>11. SelectorsAreUnique'
    BY <1>4 DEF IInv, SelectorsAreUnique
  <1>12. DeletingIsOwned'
    <2>1. \A i \in Ids : Owns(connections, i) => Owns(connections', i)
      BY <1>1, <1>2, <1>6, <1>9 DEF Owns
    <2>2. QED
      BY <2>1, <1>4 DEF IInv, DeletingIsOwned
  <1>13. ConnectionInv(t)'
    <2>1. Bound(c, maps[t], contexts) /\ Installed(c, maps[t], contexts) /\ Pending(c, contexts)
      BY DEF IInv, ConnectionInv
    <2>2. Bound(e, maps[t], contexts)
      BY <2>1, <1>2, <1>7, <1>8 DEF Bound
    <2>3. \A d : Exact(e, maps[t], d) <=> Exact(c, maps[t], d)
      BY <1>2 DEF Exact, BothLegs, DesiredPaths, OnLeg, Observed
    <2>4. Installed(e, maps[t], contexts)
      BY <2>1, <2>3, <1>2, <1>7 DEF Installed
    <2>5. Pending(e, contexts)
      BY <2>1, <1>1, <1>2, <1>7 DEF Pending
    <2>6. QED
      BY <2>2, <2>4, <2>5, <1>4, <1>9 DEF ConnectionInv
  <1>14. ASSUME NEW s \in Tokens, s # t PROVE ConnectionInv(s)'
    BY <1>4, <1>9, <1>14 DEF IInv, ConnectionInv
  <1>15. \A s \in Tokens : PolicyStep(maps[s], maps'[s])
    BY <1>4 DEF PolicyStep
  <1>16. QED
    BY <1>10, <1>11, <1>12, <1>13, <1>14, <1>15 DEF IInv

\* Steps that leave contexts, connections and maps alone.
LEMMA FrameInv ==
    ASSUME IInv, UNCHANGED <<contexts, connections, maps>>, TypeOK'
    PROVE  IInv' /\ \A s \in Tokens : PolicyStep(maps[s], maps'[s])
  BY DEF IInv, SelectorsAreUnique, DeletingIsOwned, ConnectionInv, PolicyStep

\* Every step of the daemon and of its host preserves the invariant.
LEMMA StepInv ==
    ASSUME IInv, [Next]_vars
    PROVE  IInv' /\ \A s \in Tokens : PolicyStep(maps[s], maps'[s])
  <1>0. Coherent
    BY IInvIsCoherent
  <1>1. ASSUME NEW id \in Ids, NEW spec \in Specs, NEW gen \in Gens,
               NEW pol \in Policies, Put(id, spec, gen, pol)
        PROVE  IInv' /\ \A s \in Tokens : PolicyStep(maps[s], maps'[s])
    BY <1>0, <1>1, PutInv
  <1>2. ASSUME NEW id \in Ids, Delete(id)
        PROVE  IInv' /\ \A s \in Tokens : PolicyStep(maps[s], maps'[s])
    BY <1>0, <1>2, DeleteInv
  <1>3. CASE Retry
    BY <1>0, <1>3, RetryInv DEF Retry
  <1>4. ASSUME NEW t \in Tokens, ObserveClosed(t)
        PROVE  IInv' /\ \A s \in Tokens : PolicyStep(maps[s], maps'[s])
    BY <1>4, ObserveClosedInv
  <1>5. ASSUME NEW t \in Tokens, NEW f \in Flows, ObserveSubClosed(t, f)
        PROVE  IInv' /\ \A s \in Tokens : PolicyStep(maps[s], maps'[s])
    BY <1>5, ObserveSubClosedInv
  <1>6. ASSUME NEW t \in Tokens, NEW f \in Flows, NEW ix \in EventIndexes,
               NEW b \in BOOLEAN, ObserveEstablished(t, f, ix, b)
        PROVE  IInv' /\ \A s \in Tokens : PolicyStep(maps[s], maps'[s])
    BY <1>6, ObserveEstablishedInv
  <1>7. ASSUME NEW t \in Tokens, NEW f \in Flows, NEW b \in BOOLEAN,
               ObserveRefused(t, f, b)
        PROVE  IInv' /\ \A s \in Tokens : PolicyStep(maps[s], maps'[s])
    BY <1>7, FrameInv DEF ObserveRefused, LoseStream, IInv, TypeOK, env
  <1>8. ASSUME NEW t \in Tokens, NEW f \in Flows, NEW b \in BOOLEAN,
               ObserveOverflow(t, f, b)
        PROVE  IInv' /\ \A s \in Tokens : PolicyStep(maps[s], maps'[s])
    BY <1>8, ObserveOverflowInv
  <1>9. CASE StreamLost
    BY <1>9, FrameInv DEF StreamLost, LoseStream, IInv, TypeOK, env
  <1>10. CASE Fail
    BY <1>10, FrameInv DEF Fail, IInv, TypeOK, env
  <1>11. ASSUME NEW a \in Moving, LegChange(a)
         PROVE  IInv' /\ \A s \in Tokens : PolicyStep(maps[s], maps'[s])
    <2>1. PICK ix \in IfIndexes \cup {0} : legIndex' = [legIndex EXCEPT ![a] = ix]
      BY <1>11 DEF LegChange
    <2>2. legIndex' \in [Addrs -> IfIndexes \cup {0}]
      BY <2>1 DEF IInv, TypeOK
    <2>3. TypeOK'
      BY <1>11, <2>2 DEF LegChange, IInv, TypeOK
    <2>4. QED
      BY <1>11, <2>3, FrameInv DEF LegChange
  <1>12. CASE StoreFlip
    BY <1>12, FrameInv DEF StoreFlip, IInv, TypeOK
  <1>13. CASE UNCHANGED vars
    BY <1>13, FrameInv DEF vars, IInv, TypeOK
  <1>14. QED
    BY <1>1, <1>2, <1>3, <1>4, <1>5, <1>6, <1>7, <1>8, <1>9, <1>10, <1>11,
       <1>12, <1>13 DEF Next

\* IInv is an invariant of the daemon.
THEOREM DaemonInvariant == Spec => []IInv
  <1>1. IInv /\ [Next]_vars => IInv'
    BY StepInv
  <1>2. QED
    BY InitInv, <1>1, PTL DEF Spec

\* The safety properties follow from the invariant.
LEMMA Consequences ==
    ASSUME IInv
    PROVE  /\ TypeOK /\ EntriesAreOwned /\ OwnersExist /\ SelectorsAreUnique
           /\ NoErrorMeansInstalled /\ PendingHasError
           /\ LivePolicyIsAssigned /\ PathsAreAssigned
  <1>1. ASSUME NEW t \in Tokens
        PROVE  /\ Owned(t) <=> HasOwner(connections[t])
               /\ Bound(connections[t], maps[t], contexts)
               /\ Installed(connections[t], maps[t], contexts)
               /\ Pending(connections[t], contexts)
    BY DEF IInv, ConnectionInv, Owned, Known, HasOwner
  <1>2. EntriesAreOwned
    BY <1>1 DEF EntriesAreOwned, Bound
  <1>3. OwnersExist
    BY <1>1 DEF OwnersExist, OwnerOf, Bound
  <1>4. NoErrorMeansInstalled
    BY <1>1 DEF NoErrorMeansInstalled, OwnerOf, Installed, Exact
  <1>5. PendingHasError
    <2>1. ASSUME NEW t \in Tokens, Known(t), connections[t].closed
          PROVE  Owned(t) /\ connections[t].err
      BY <1>1, <2>1 DEF Pending, Known
    <2>2. ASSUME NEW i \in Ids, contexts[i] # None, contexts[i].deleting
          PROVE  \E t \in Tokens :
                    Owned(t) /\ connections[t].owner = i /\ connections[t].err
      <3>1. PICK t \in Tokens : connections[t] # None /\ connections[t].owner = i
        BY <2>2 DEF IInv, DeletingIsOwned, Owns
      <3>2. Owned(t)
        BY <3>1, DaemonConstants DEF Owned, Known
      <3>3. QED
        BY <3>1, <3>2, <2>2, <1>1 DEF Pending
    <2>3. QED
      BY <2>1, <2>2 DEF PendingHasError
  <1>6. LivePolicyIsAssigned
    BY <1>1 DEF LivePolicyIsAssigned, OwnerOf, Bound
  <1>7. PathsAreAssigned
    BY <1>1 DEF PathsAreAssigned, OwnerOf, Bound
  <1>8. QED
    BY <1>2, <1>3, <1>4, <1>5, <1>6, <1>7 DEF IInv

\* Every variable of the daemon keeps its type.
THEOREM TypeCorrect == Spec => []TypeOK
  <1>1. IInv => TypeOK
    BY Consequences
  <1>2. QED
    BY DaemonInvariant, <1>1, PTL

\* No map entry is ever left without an owner that will remove it, and
\* every owner exists and selects the connection.
THEOREM NoOrphans == Spec => [](EntriesAreOwned /\ OwnersExist)
  <1>1. IInv => EntriesAreOwned /\ OwnersExist
    BY Consequences
  <1>2. QED
    BY DaemonInvariant, <1>1, PTL

\* Two contexts never claim the same destination.
THEOREM UniqueSelectors == Spec => []SelectorsAreUnique
  <1>1. IInv => SelectorsAreUnique
    BY Consequences
  <1>2. QED
    BY DaemonInvariant, <1>1, PTL

\* A binding that reports no error is installed exactly.
THEOREM InstalledExactly == Spec => []NoErrorMeansInstalled
  <1>1. IInv => NoErrorMeansInstalled
    BY Consequences
  <1>2. QED
    BY DaemonInvariant, <1>1, PTL

\* Whatever is still waiting for cleanup reports an error.
THEOREM PendingIsReported == Spec => []PendingHasError
  <1>1. IInv => PendingHasError
    BY Consequences
  <1>2. QED
    BY DaemonInvariant, <1>1, PTL

\* Live policies and paths come from generations the owner has reached.
THEOREM LiveIsAssigned == Spec => [](LivePolicyIsAssigned /\ PathsAreAssigned)
  <1>1. IInv => LivePolicyIsAssigned /\ PathsAreAssigned
    BY Consequences
  <1>2. QED
    BY DaemonInvariant, <1>1, PTL

\* A live policy is replaced only by a later generation.
THEOREM NeverRollsBack == Spec => GenerationAdvances
  <1> DEFINE Advance ==
        \A t \in Tokens :
          /\ maps[t].policy # None
          /\ maps'[t].policy \notin {None, maps[t].policy}
          => maps'[t].policy.gen > maps[t].policy.gen
  <1>1. IInv /\ [Next]_vars => [Advance]_vars
    BY StepInv DEF PolicyStep
  <1> HIDE DEF Advance
  <1>2. Spec => [][Advance]_vars
    BY DaemonInvariant, <1>1, PTL DEF Spec
  <1>3. QED
    BY <1>2 DEF GenerationAdvances, Advance
=============================================================================
