-------------------------- MODULE DaemonTableProofs --------------------------
(***************************************************************************)
(* What the agent's callers rely on: the daemon implements AgentTable, on  *)
(* which ControlPlane is built, and Status tells the truth.                *)
(*                                                                         *)
(* Every action either hands reconcileLocked the contexts it has just      *)
(* updated, or leaves them alone.  Both are a Pass of the table, because   *)
(* PendingHasError holds after it: a deletion that is still pending has a  *)
(* binding with an error, so that the pass was not healthy.                *)
(***************************************************************************)
EXTENDS DaemonProofs

\* A pass without an error leaves no context whose deletion is pending.
LEMMA HealthyForgets ==
    ASSUME PendingHasError', Healthy', NEW i \in Ids
    PROVE  ~Table!Forgets(contexts', i)
  BY DEF PendingHasError, Healthy, Table!Forgets

\* reconcileLocked is a pass over the contexts it is given.
LEMMA ReconcilePasses ==
    ASSUME NEW ctxs, NEW conns, ReconcileLocked(ctxs, conns), PendingHasError'
    PROVE  Table!Pass(ctxs)
  <1> DEFINE gone == {i \in Ids : ctxs[i] # None /\ ctxs[i].deleting
                                  /\ ~Owns(connections', i)}
  <1>1. contexts' = [i \in Ids |-> IF i \in gone THEN None ELSE ctxs[i]]
    BY DEF ReconcileLocked, PruneContexts
  <1>2. gone \in SUBSET {i \in Ids : Table!Forgets(ctxs, i)}
    BY DEF Table!Forgets
  <1> HIDE DEF gone
  <1>3. Healthy' \in BOOLEAN
    BY DEF Healthy
  <1>4. QED
    BY <1>1, <1>2, <1>3, HealthyForgets DEF Table!Pass

\* Contexts that nobody touches are a pass that forgets nothing.
LEMMA NothingHappens ==
    ASSUME TypeOK, contexts' = contexts, PendingHasError'
    PROVE  Table!Upkeep
  <1>1. contexts' = [i \in Ids |-> IF i \in {} THEN None ELSE contexts[i]]
    BY DEF TypeOK
  <1>2. {} \in SUBSET {i \in Ids : Table!Forgets(contexts, i)}
    OBVIOUS
  <1>3. Healthy' \in BOOLEAN
    BY DEF Healthy
  <1>4. QED
    BY <1>1, <1>2, <1>3, HealthyForgets DEF Table!Upkeep, Table!Pass

\* The table counts as the daemon does.
LEMMA SameCardinality ==
    ASSUME NEW S PROVE Table!Cardinality(S) = Cardinality(S)
  BY DEF Cardinality, Table!Cardinality

\* Put accepts by the table's rules; a repeated generation is the same context.
LEMMA PutIsPut ==
    ASSUME TypeOK, PendingHasError',
           NEW id \in Ids, NEW spec \in Specs, NEW gen \in Gens, NEW pol \in Policies,
           Put(id, spec, gen, pol)
    PROVE  Table!Put(id, spec, gen, pol)
  <1> DEFINE new == [spec |-> spec, gen |-> gen, pol |-> pol, deleting |-> FALSE]
  <1>1. Table!Accepts(id, new)
    <2>1. CASE contexts[id] = None
      <3>1. AdmitNew(spec)
        BY <2>1 DEF Put
      <3>2. new.spec = spec
        OBVIOUS
      <3> HIDE DEF new
      <3>3. Table!Used = {i \in Ids : contexts[i] # None}
        BY DEF Table!Used
      <3>4. QED
        BY <2>1, <3>1, <3>2, <3>3, SameCardinality DEF AdmitNew, Table!Accepts
    <2>2. CASE contexts[id] # None
      <3>1. contexts[id] \in DesiredContext
        BY <2>2 DEF TypeOK
      <3>2. AdmitUpdate(contexts[id], spec, gen, pol)
        BY <2>2 DEF Put
      <3>3. gen = contexts[id].gen /\ pol = contexts[id].pol => new = contexts[id]
        BY <3>1, <3>2 DEF DesiredContext, AdmitUpdate
      <3>4. QED
        BY <2>2, <3>2, <3>3 DEF AdmitUpdate, Table!Accepts
    <2>3. QED
      BY <2>1, <2>2
  <1>2. ReconcileLocked([contexts EXCEPT ![id] = new], connections)
    BY DEF Put
  <1>3. Table!Pass([contexts EXCEPT ![id] = new])
    BY <1>2, ReconcilePasses
  <1>4. QED
    BY <1>1, <1>3 DEF Table!Put, Table!Context

\* Delete marks the context, if there is one.
LEMMA DeleteIsDelete ==
    ASSUME PendingHasError', NEW id \in Ids, Delete(id)
    PROVE  Table!Delete(id)
  BY ReconcilePasses DEF Delete, Table!Delete

\* Everything else is upkeep.
LEMMA StepImplements ==
    ASSUME TypeOK, PendingHasError', [Next]_vars
    PROVE  Table!Next
  <1>1. ASSUME NEW conns, ReconcileLocked(contexts, conns) PROVE Table!Upkeep
    BY <1>1, ReconcilePasses DEF Table!Upkeep
  <1>2. ASSUME NEW id \in Ids, NEW spec \in Specs, NEW gen \in Gens,
               NEW pol \in Policies, Put(id, spec, gen, pol)
        PROVE  Table!Next
    BY <1>2, PutIsPut DEF Table!Next
  <1>3. ASSUME NEW id \in Ids, Delete(id) PROVE Table!Next
    BY <1>3, DeleteIsDelete DEF Table!Next
  <1>4. CASE Retry
    BY <1>1, <1>4 DEF Retry, Table!Next
  <1>5. ASSUME NEW t \in Tokens, ObserveClosed(t) PROVE Table!Next
    BY <1>1, <1>5 DEF ObserveClosed, Table!Next
  <1>6. ASSUME NEW t \in Tokens, NEW f \in Flows, ObserveSubClosed(t, f)
        PROVE  Table!Next
    BY <1>1, <1>6 DEF ObserveSubClosed, Table!Next
  <1>7. ASSUME NEW t \in Tokens, NEW f \in Flows, NEW ix \in EventIndexes,
               NEW e \in BOOLEAN, ObserveEstablished(t, f, ix, e)
        PROVE  Table!Next
    BY <1>1, <1>7 DEF ObserveEstablished, Table!Next
  <1>8. CASE contexts' = contexts
    BY <1>8, NothingHappens DEF Table!Next
  <1>9. ASSUME NEW t \in Tokens, NEW f \in Flows, NEW e \in BOOLEAN,
               ObserveRefused(t, f, e) \/ ObserveOverflow(t, f, e)
        PROVE  contexts' = contexts
    BY <1>9 DEF ObserveRefused, ObserveOverflow, LoseStream
  <1>10. StreamLost \/ Fail \/ StoreFlip \/ (\E a \in Moving : LegChange(a))
            \/ UNCHANGED vars
         => contexts' = contexts
    BY DEF StreamLost, LoseStream, Fail, StoreFlip, LegChange, vars
  <1>11. QED
    BY <1>2, <1>3, <1>4, <1>5, <1>6, <1>7, <1>8, <1>9, <1>10 DEF Next

(***************************************************************************)
(* The daemon implements the table its callers see, whatever the network,  *)
(* the map store and the host do: an answer without an error means that    *)
(* nothing is left of what was deleted.                                    *)
(***************************************************************************)
THEOREM DaemonImplementsTable == Spec => ImplementsTable
  <1>1. Init => Table!Init
    <2> SUFFICES ASSUME Init PROVE Table!Init
      OBVIOUS
    <2>1. Healthy
      BY DEF Init, Healthy, Owned, Known
    <2>2. QED
      BY <2>1 DEF Init, Table!Init
  <1>2. TypeOK /\ PendingHasError' /\ [Next]_vars => [Table!Next]_(Table!tableVars)
    BY StepImplements
  <1>3. QED
    BY <1>1, <1>2, TypeCorrect, PendingIsReported, PTL DEF Spec, ImplementsTable, Table!Spec

\* What Status computes follows from what it does not look at.
LEMMA ReadyFollows ==
    ASSUME NoErrorMeansInstalled, PendingHasError
    PROVE  ReadyIsInstalled
  <1>1. ASSUME NEW t \in Tokens, BindingReady(t)
        PROVE  LET c == connections[t]
                   d == OwnerOf(t)
               IN /\ BothLegs(c, d.spec)
                  /\ maps[t] = [policy |-> AssignedPolicy(d),
                                paths  |-> DesiredPaths(c, d.spec, d.gen)]
    BY <1>1 DEF BindingReady, NoErrorMeansInstalled, EmptyMaps
  <1>2. Ready => /\ \A t \in Tokens : Known(t) => ~connections[t].closed
                 /\ \A i \in Ids : contexts[i] # None => ~contexts[i].deleting
    BY DEF Ready, Healthy, PendingHasError
  <1>3. QED
    BY <1>1, <1>2 DEF ReadyIsInstalled

(***************************************************************************)
(* A binding Status calls ready is installed on both legs exactly as       *)
(* assigned, and a daemon it calls ready has nothing left to clean up.     *)
(***************************************************************************)
THEOREM StatusIsTruthful == Spec => []ReadyIsInstalled
  <1>1. NoErrorMeansInstalled /\ PendingHasError => ReadyIsInstalled
    BY ReadyFollows
  <1>2. QED
    BY <1>1, InstalledExactly, PendingIsReported, PTL

\* Every owner is a context that still exists and selects the connection.
THEOREM OwnersAreThere == Spec => []OwnersExist
  BY NoOrphans, PTL
=============================================================================
