------------------------------- MODULE Daemon -------------------------------
(***************************************************************************)
(* The agent's Daemon: desired contexts from the SMF, MPTCP connections    *)
(* observed from path-manager events, and the map entries it installs for  *)
(* them.  Every method runs under d.mu from its first read to the end of   *)
(* reconcileLocked, so every method is one action; what interleaves is the *)
(* order of HTTP requests, PM events, retry ticks, map failures and        *)
(* changes of the host's addresses.                                        *)
(*                                                                         *)
(* A Go map is a total function whose absent keys are None; an error text  *)
(* is the Boolean "there is one".                                          *)
(***************************************************************************)
EXTENDS LiveMaps, FiniteSets

CONSTANTS
    Ids,            \* context ids
    Tokens,         \* MPTCP connection tokens
    Addrs,          \* local addresses; a leg is named by its address
    Dests,          \* destination address and port
    Flows,          \* subflow 5-tuples with their endpoint pair
    Specs,          \* ContextSpecs the SMF may send
    Gens,           \* generations the SMF may send (bound of the model)
    IfIndexes,      \* interface indexes of the host
    EventIndexes,   \* interface indexes PM events carry; 0 is "none"
    Moving,         \* addresses that may move in this instance
    MaxContexts,    \* 1024 in the code
    MaxConnections, \* 4096 in the code
    MaxSubflows,    \* 256 in the code
    MapFaults       \* whether map calls may fail in this instance

NotObserved == -1   \* no entry in observedConnection.flows

\* observedFlow and eventFlow: the fields that name a subflow.
ObservedFlow == [local : Addrs, dest : Dests, pair : Pairs]

\* A validated ContextSpec: two legs with different addresses and a selector.
ContextSpec == [legA : Addrs, legB : Addrs, dest : Dests]

DesiredContext ==
    [spec : Specs, gen : Gens, pol : Policies, deleting : BOOLEAN]

ObservedConnection ==
    [initial : Flows \cup {None},
     flows   : [Flows -> EventIndexes \cup {NotObserved}],
     owner   : Ids \cup {None},
     closed  : BOOLEAN,
     err     : BOOLEAN]

ASSUME DaemonConstants ==
    /\ Flows \subseteq ObservedFlow
    /\ Specs \subseteq {s \in ContextSpec : s.legA # s.legB}
    /\ Gens \subseteq Nat \ {0}
    /\ IfIndexes \subseteq Nat \ {0}
    /\ EventIndexes \subseteq Nat
    /\ Moving \subseteq Addrs
    /\ None \notin Ids \cup Flows
    /\ None \notin DesiredContext
    /\ None \notin ObservedConnection
    /\ MaxContexts \in Nat /\ MaxConnections \in Nat /\ MaxSubflows \in Nat
    /\ MapFaults \in BOOLEAN

VARIABLES
    contexts,     \* d.contexts
    connections,  \* d.connections
    maps,         \* the BPF maps, by token
    fatal,        \* d.fatal # nil
    streaming,    \* the PM subscription still delivers events
    legIndex,     \* the host: index of the interface that has the address, or 0
    storeUp       \* the map store answers every call

vars == <<contexts, connections, maps, fatal, streaming, legIndex, storeUp>>
env  == <<legIndex, storeUp>>
-----------------------------------------------------------------------------
NewConnection ==
    [initial |-> None, flows |-> [f \in Flows |-> NotObserved],
     owner |-> None, closed |-> FALSE, err |-> FALSE]

Observed(c)   == {f \in Flows : c.flows[f] # NotObserved}
OnLeg(c, leg) == {f \in Observed(c) : f.local = leg}
PairsOf(fs)   == {f.pair : f \in fs}

Init ==
    /\ contexts    = [i \in Ids |-> None]
    /\ connections = [t \in Tokens |-> None]
    /\ maps        = [t \in Tokens |-> EmptyMaps]
    /\ fatal       = FALSE
    /\ streaming   = TRUE
    /\ legIndex    \in [Addrs -> IfIndexes \cup {0}]
    /\ storeUp     = TRUE
-----------------------------------------------------------------------------
(* plan and applyConnection *)

\* ValidateLegAddress: the leg's address is on its interface.
ValidLeg(leg) == legIndex[leg] # 0

\* Every subflow of a leg is on the leg's interface, as far as PM told.
IndexAgrees(c, leg) ==
    \A f \in OnLeg(c, leg) : c.flows[f] \in {0, legIndex[leg]}

PlanOk(c, spec) ==
    /\ ValidLeg(spec.legA) /\ ValidLeg(spec.legB)
    /\ IndexAgrees(c, spec.legA) /\ IndexAgrees(c, spec.legB)
    /\ PairsOf(OnLeg(c, spec.legA)) \cap PairsOf(OnLeg(c, spec.legB)) = {}

BothLegs(c, spec) == OnLeg(c, spec.legA) # {} /\ OnLeg(c, spec.legB) # {}

\* Slip: the paths are of the generation before.
PreviousPaths(c, spec, gen) ==
    [k \in Pairs |->
        IF k \in PairsOf(OnLeg(c, spec.legA)) THEN [gen |-> gen - 1, access |-> LegA]
        ELSE IF k \in PairsOf(OnLeg(c, spec.legB)) THEN [gen |-> gen - 1, access |-> LegB]
        ELSE None]

\* DesiredPaths of the plan.
DesiredPaths(c, spec, gen) ==
    [k \in Pairs |->
        IF k \in PairsOf(OnLeg(c, spec.legA)) THEN [gen |-> gen, access |-> LegA]
        ELSE IF k \in PairsOf(OnLeg(c, spec.legB)) THEN [gen |-> gen, access |-> LegB]
        ELSE None]

AssignedPolicy(d) == [gen |-> d.gen, pol |-> d.pol]

\* Slip: no incremental branch; a committed generation is never finished.
AlwaysApplyLive(m, c, d) ==
    IF ~PlanOk(c, d.spec) THEN {Failed(r.maps) : r \in DeleteLive(m, storeUp)}
    ELSE IF ~BothLegs(c, d.spec) THEN DeleteLive(m, storeUp)
    ELSE ApplyLive(m, AssignedPolicy(d), DesiredPaths(c, d.spec, d.gen), storeUp)

ApplyConnection(m, c, d) ==
    IF ~PlanOk(c, d.spec) THEN {Failed(r.maps) : r \in DeleteLive(m, storeUp)}
    ELSE IF ~BothLegs(c, d.spec) THEN DeleteLive(m, storeUp)
    ELSE LET want == DesiredPaths(c, d.spec, d.gen)
         IN IF m.policy = AssignedPolicy(d)
            THEN SyncPaths(m, want, storeUp)
            ELSE ApplyLive(m, AssignedPolicy(d), want, storeUp)
-----------------------------------------------------------------------------
(* reconcileLocked *)

\* The selector of a context matches the connection's first subflow.
Matches(spec, f) == f.dest = spec.dest /\ f.local \in {spec.legA, spec.legB}

Candidates(c, ctxs) ==
    {i \in Ids : /\ c.initial # None
                 /\ ctxs[i] # None
                 /\ ~ctxs[i].deleting
                 /\ Matches(ctxs[i].spec, c.initial)}

\* The owner the first loop uses: the present one, or one it binds now.
OwnerChoices(c, ctxs) ==
    IF c.owner # None THEN {c.owner}
    ELSE IF Candidates(c, ctxs) = {} THEN {None}
    ELSE Candidates(c, ctxs)

\* Slip: after a failed cleanup the connection is not cleaned up again.
RetiringOnce(c, ctxs) ==
    /\ ~c.err
    /\ \/ c.closed
       \/ c.owner # None /\ ctxs[c.owner] # None /\ ctxs[c.owner].deleting

\* The connection must give up its map entries.
Retiring(c, ctxs) ==
    \/ c.closed
    \/ c.owner # None /\ ctxs[c.owner] # None /\ ctxs[c.owner].deleting

Result(c, m) == [conn |-> c, maps |-> m]

\* The connection once its entries are deleted: forgotten or unbound.
Released(c) ==
    IF c.closed THEN None ELSE [c EXCEPT !.owner = None, !.err = FALSE]

ReleasedAnyway(c) == Released(c)   \* slip: the error is ignored
SilentlyKept(c)   == c             \* slip: the error is not recorded

\* The connection if deleting them failed: kept for the next pass.
Kept(c) == [c EXCEPT !.err = TRUE]

Retire(c, m) ==
    IF c.owner = None THEN {Result(None, m)}
    ELSE {Result(IF r.ok THEN Released(c) ELSE Kept(c), r.maps) :
             r \in DeleteLive(m, storeUp)}

\* Slip: the error of the installation is dropped.
InstallQuietly(c, m, i, ctxs) ==
    IF i = None THEN {Result(c, m)}
    ELSE IF ctxs[i] = None THEN {Result(c, m)}
    ELSE {Result([c EXCEPT !.owner = i, !.err = FALSE], r.maps) :
             r \in ApplyConnection(m, c, ctxs[i])}

Install(c, m, i, ctxs) ==
    IF i = None THEN {Result(c, m)}
    ELSE IF ctxs[i] = None THEN {Result(c, m)}
    ELSE {Result([c EXCEPT !.owner = i, !.err = ~r.ok], r.maps) :
             r \in ApplyConnection(m, c, ctxs[i])}

\* One turn of the first loop.
ReconcileConnection(c, m, ctxs) ==
    IF c = None THEN {Result(None, m)}
    ELSE IF Retiring(c, ctxs) THEN Retire(c, m)
    ELSE UNION {Install(c, m, i, ctxs) : i \in OwnerChoices(c, ctxs)}

\* The second loop: forget deleting contexts that own nothing any more.
Owns(conns, i) == \E t \in Tokens : conns[t] # None /\ conns[t].owner = i

\* Slip: deleting contexts are forgotten at once.
PruneDeleting(ctxs, conns) ==
    [i \in Ids |-> IF ctxs[i] # None /\ ctxs[i].deleting THEN None ELSE ctxs[i]]

PruneContexts(ctxs, conns) ==
    [i \in Ids |-> IF ctxs[i] # None /\ ctxs[i].deleting /\ ~Owns(conns, i)
                   THEN None ELSE ctxs[i]]

(***************************************************************************)
(* reconcileLocked on the contexts and connections the caller has just     *)
(* updated.  The turns of the first loop do not influence each other, so   *)
(* the order Go iterates in is not modelled.                               *)
(***************************************************************************)
ReconcileLocked(ctxs, conns) ==
    LET turn == [t \in Tokens |-> ReconcileConnection(conns[t], maps[t], ctxs)]
    IN \E out \in [Tokens -> UNION {turn[t] : t \in Tokens}] :
          /\ \A t \in Tokens : out[t] \in turn[t]
          /\ connections' = [t \in Tokens |-> out[t].conn]
          /\ maps'        = [t \in Tokens |-> out[t].maps]
          /\ contexts'    = PruneContexts(ctxs, connections')
-----------------------------------------------------------------------------
(* HTTP requests *)

\* What Put refuses, once the daemon is not fatal and both legs are valid.
\* Slip: the selector may be taken already.
AdmitTaken(spec) == Cardinality({i \in Ids : contexts[i] # None}) < MaxContexts

AdmitNew(spec) ==
    /\ Cardinality({i \in Ids : contexts[i] # None}) < MaxContexts
    /\ \A i \in Ids : contexts[i] # None => contexts[i].spec.dest # spec.dest

\* Slip: a generation may go back.
AdmitOlder(old, spec, gen, pol) == ~old.deleting /\ old.spec = spec

AdmitUpdate(old, spec, gen, pol) ==
    /\ ~old.deleting
    /\ old.spec = spec
    /\ gen > old.gen \/ (gen = old.gen /\ pol = old.pol)

Put(id, spec, gen, pol) ==
    /\ ~fatal
    /\ ValidLeg(spec.legA) /\ ValidLeg(spec.legB)
    /\ IF contexts[id] = None THEN AdmitNew(spec)
       ELSE AdmitUpdate(contexts[id], spec, gen, pol)
    /\ ReconcileLocked(
          [contexts EXCEPT ![id] = [spec |-> spec, gen |-> gen, pol |-> pol,
                                    deleting |-> FALSE]],
          connections)
    /\ UNCHANGED <<fatal, streaming, env>>

\* Delete has no fatal check, and reconciles for an unknown id as well.
Delete(id) ==
    /\ ReconcileLocked(
          IF contexts[id] = None THEN contexts
          ELSE [contexts EXCEPT ![id].deleting = TRUE],
          connections)
    /\ UNCHANGED <<fatal, streaming, env>>

Retry ==
    /\ ReconcileLocked(contexts, connections)
    /\ UNCHANGED <<fatal, streaming, env>>
-----------------------------------------------------------------------------
(* PM events.  An error Observe returns ends the subscription's Run.       *)

Known(t) == connections[t] # None
Room     == Cardinality({t \in Tokens : Known(t)}) < MaxConnections

\* The connection as an event other than CLOSED finds it.
Entry(t) == IF Known(t) THEN connections[t] ELSE NewConnection

LoseStream == streaming' = FALSE /\ UNCHANGED <<contexts, maps, fatal, env>>

ObserveClosed(t) ==
    /\ streaming
    /\ ReconcileLocked(contexts,
          IF Known(t) THEN [connections EXCEPT ![t].closed = TRUE]
          ELSE connections)
    /\ UNCHANGED <<fatal, streaming, env>>

ObserveSubClosed(t, f) ==
    /\ streaming
    /\ Known(t) /\ ~connections[t].closed
    /\ ReconcileLocked(contexts,
          [connections EXCEPT ![t].flows[f] = NotObserved])
    /\ UNCHANGED <<fatal, streaming, env>>

\* Slip: a joining subflow counts as the first one.
WithAnyInitial(c, f, established) == [c EXCEPT !.initial = f]

\* Both kinds of establishment set flows; ESTABLISHED also sets initial.
WithInitial(c, f, established) ==
    IF established THEN [c EXCEPT !.initial = f] ELSE c

SubflowRoom(c, f) ==
    f \in Observed(c) \/ Cardinality(Observed(c)) < MaxSubflows

\* c.initial is nil or describes the same flow as an ESTABLISHED event.
SameInitial(c, f, established) == established => c.initial \in {None, f}

ObserveEstablished(t, f, ifindex, established) ==
    /\ streaming
    /\ Known(t) \/ Room
    /\ ~Entry(t).closed
    /\ SameInitial(Entry(t), f, established)
    /\ SubflowRoom(Entry(t), f)
    /\ ReconcileLocked(contexts,
          [connections EXCEPT ![t] =
              [WithInitial(Entry(t), f, established) EXCEPT !.flows[f] = ifindex]])
    /\ UNCHANGED <<fatal, streaming, env>>

\* Connection capacity reached, or the token came back too early.
ObserveRefused(t, f, established) ==
    /\ streaming
    /\ \/ ~Known(t) /\ ~Room
       \/ Entry(t).closed
       \/ ~SameInitial(Entry(t), f, established)
    /\ LoseStream
    /\ UNCHANGED connections

\* Subflow capacity reached: initial has already been assigned.
ObserveOverflow(t, f, established) ==
    /\ streaming
    /\ Known(t) /\ ~Entry(t).closed
    /\ SameInitial(Entry(t), f, established)
    /\ ~SubflowRoom(Entry(t), f)
    /\ LoseStream
    /\ connections' =
          [connections EXCEPT ![t] = WithInitial(@, f, established)]

\* Run ends for a reason of its own: ENOBUFS, truncation, a malformed event.
StreamLost ==
    /\ streaming
    /\ LoseStream
    /\ UNCHANGED connections

\* Serve's worker reports the end of the stream; d.mu was free in between.
Fail ==
    /\ ~streaming /\ ~fatal
    /\ fatal' = TRUE
    /\ UNCHANGED <<contexts, connections, maps, streaming, env>>
-----------------------------------------------------------------------------
(* The host *)

LegChange(a) ==
    /\ \E ix \in (IfIndexes \cup {0}) \ {legIndex[a]} :
          legIndex' = [legIndex EXCEPT ![a] = ix]
    /\ UNCHANGED <<contexts, connections, maps, fatal, streaming, storeUp>>

StoreFlip ==
    /\ MapFaults
    /\ storeUp' = ~storeUp
    /\ UNCHANGED <<contexts, connections, maps, fatal, streaming, legIndex>>

Next ==
    \/ \E id \in Ids, spec \in Specs, gen \in Gens, pol \in Policies :
          Put(id, spec, gen, pol)
    \/ \E id \in Ids : Delete(id)
    \/ Retry
    \/ \E t \in Tokens : ObserveClosed(t)
    \/ \E t \in Tokens, f \in Flows : ObserveSubClosed(t, f)
    \/ \E t \in Tokens, f \in Flows, ix \in EventIndexes, e \in BOOLEAN :
          ObserveEstablished(t, f, ix, e)
    \/ \E t \in Tokens, f \in Flows, e \in BOOLEAN : ObserveRefused(t, f, e)
    \/ \E t \in Tokens, f \in Flows, e \in BOOLEAN : ObserveOverflow(t, f, e)
    \/ StreamLost
    \/ Fail
    \/ \E a \in Moving : LegChange(a)
    \/ StoreFlip

Spec == Init /\ [][Next]_vars
-----------------------------------------------------------------------------
(* Properties *)

\* Every variable has its type.
TypeOK ==
    /\ contexts    \in [Ids -> DesiredContext \cup {None}]
    /\ connections \in [Tokens -> ObservedConnection \cup {None}]
    /\ maps        \in [Tokens -> Maps]
    /\ fatal       \in BOOLEAN
    /\ streaming   \in BOOLEAN
    /\ legIndex    \in [Addrs -> IfIndexes \cup {0}]
    /\ storeUp     \in BOOLEAN

Owned(t) == Known(t) /\ connections[t].owner # None
OwnerOf(t) == contexts[connections[t].owner]

(***************************************************************************)
(* A map entry exists only for a known connection that has an owner: only  *)
(* such entries are deleted by reconcileLocked and by Cleanup, so any      *)
(* other entry would stay in the kernel for ever and make the next start   *)
(* refuse the namespace.                                                   *)
(***************************************************************************)
EntriesAreOwned ==
    \A t \in Tokens : maps[t] # EmptyMaps => Owned(t)

(***************************************************************************)
(* An owner is a context that still exists, deleting or not, and whose     *)
(* selector matches the connection: the second loop of reconcileLocked     *)
(* never forgets a context too early, and Put never changes its selector.  *)
(***************************************************************************)
OwnersExist ==
    \A t \in Tokens : Owned(t) =>
        /\ OwnerOf(t) # None
        /\ connections[t].initial # None
        /\ Matches(OwnerOf(t).spec, connections[t].initial)

\* No two contexts select the same destination, so that the context a
\* connection is bound to does not depend on Go's map iteration order.
SelectorsAreUnique ==
    \A i, j \in Ids :
        /\ i # j /\ contexts[i] # None /\ contexts[j] # None
        => contexts[i].spec.dest # contexts[j].spec.dest

(***************************************************************************)
(* A binding without an error is what the assignment asks for: the exact   *)
(* paths of the observed subflows under the assigned policy, or nothing at *)
(* all while a leg is missing.  This is what Status calls Ready, and it    *)
(* holds after any history of partial failures.                            *)
(***************************************************************************)
NoErrorMeansInstalled ==
    \A t \in Tokens : Owned(t) /\ ~connections[t].err =>
        LET c == connections[t]
            d == OwnerOf(t)
        IN maps[t] =
             IF BothLegs(c, d.spec)
             THEN [policy |-> AssignedPolicy(d),
                   paths  |-> DesiredPaths(c, d.spec, d.gen)]
             ELSE EmptyMaps

(***************************************************************************)
(* A closed connection that is still known, and a context whose deletion   *)
(* is pending, have a cause: a connection whose cleanup failed and says    *)
(* so.  Nothing waits for a retry silently.                                *)
(***************************************************************************)
PendingHasError ==
    /\ \A t \in Tokens :
          Known(t) /\ connections[t].closed => Owned(t) /\ connections[t].err
    /\ \A i \in Ids :
          contexts[i] # None /\ contexts[i].deleting =>
             \E t \in Tokens :
                Owned(t) /\ connections[t].owner = i /\ connections[t].err

(***************************************************************************)
(* The live policy is one the present owner was assigned, never one from   *)
(* the future or from an earlier owner: its generation is at most the      *)
(* context's, and the same generation means the same policy.  Hence the    *)
(* stale-generation refusal of ApplyLive never stops the daemon itself.    *)
(***************************************************************************)
LivePolicyIsAssigned ==
    \A t \in Tokens :
        Owned(t) /\ maps[t].policy # None =>
            LET p == maps[t].policy
                d == OwnerOf(t)
            IN p.gen < d.gen \/ p = AssignedPolicy(d)

\* No path entry is of a generation its owner has not reached.
PathsAreAssigned ==
    \A t \in Tokens, k \in Pairs :
        Owned(t) /\ maps[t].paths[k] # None =>
            maps[t].paths[k].gen <= OwnerOf(t).gen

(***************************************************************************)
(* A step replaces a live policy only by one of a later generation; any    *)
(* other change goes through "no policy", i.e. the kernel's default.       *)
(***************************************************************************)
GenerationAdvances ==
    [][\A t \in Tokens :
          /\ maps[t].policy # None
          /\ maps'[t].policy \notin {None, maps[t].policy}
          => maps'[t].policy.gen > maps[t].policy.gen]_vars

(***************************************************************************)
(* Liveness, under Serve's fairness.  Once the map store works for good,   *)
(* closed connections and deleted contexts are forgotten, unless the       *)
(* daemon has become fatal and is being stopped.                           *)
(***************************************************************************)
CleanupCompletes ==
    (<>[]storeUp) =>
        /\ \A t \in Tokens :
              (Known(t) /\ connections[t].closed) ~> (~Known(t) \/ fatal)
        /\ \A i \in Ids :
              (contexts[i] # None /\ contexts[i].deleting)
                 ~> (contexts[i] = None \/ fatal)

(***************************************************************************)
(* Errors follow the plans.  Once the store works and every plan is valid  *)
(* for good, no binding keeps an error for ever: Retry alone repairs every *)
(* partial installation.  And a binding that has lost a leg for good, its  *)
(* address gone or on another interface than its subflows, reports it in   *)
(* the end, although no event and no request tells the daemon.             *)
(***************************************************************************)
PlansValid ==
    \A t \in Tokens : Owned(t) => PlanOk(connections[t], OwnerOf(t).spec)

LegLost(t) ==
    /\ Owned(t)
    /\ \E leg \in {OwnerOf(t).spec.legA, OwnerOf(t).spec.legB} :
          ~ValidLeg(leg) \/ ~IndexAgrees(connections[t], leg)

ErrorsFollowPlans ==
    /\ <>[](storeUp /\ PlansValid) =>
          []<>(fatal \/ \A t \in Tokens : Owned(t) => ~connections[t].err)
    /\ \A t \in Tokens :
          <>[]LegLost(t) => []<>(fatal \/ (Owned(t) /\ connections[t].err))
-----------------------------------------------------------------------------
(* Status *)

\* No binding has an error: what reconcileLocked returns to Put, Delete and
\* Observe.
Healthy == \A t \in Tokens : Owned(t) => ~connections[t].err

\* Slip: the generation alone makes a binding ready.
ReadyByGeneration(t) ==
    /\ Owned(t)
    /\ maps[t].policy # None
    /\ maps[t].policy.gen = OwnerOf(t).gen

BindingReady(t) ==
    /\ Owned(t)
    /\ maps[t].policy # None
    /\ maps[t].policy.gen = OwnerOf(t).gen
    /\ ~connections[t].err
    /\ ~connections[t].closed
    /\ ~OwnerOf(t).deleting

Ready == ~fatal /\ Healthy

(***************************************************************************)
(* Status tells the truth.  A binding it calls ready is installed exactly, *)
(* both legs and every path, although Status compares nothing but the      *)
(* generation; and if it calls the daemon ready, no closed connection and  *)
(* no deleted context is waiting for its cleanup.                          *)
(***************************************************************************)
ReadyIsInstalled ==
    /\ \A t \in Tokens : BindingReady(t) =>
          LET c == connections[t]
              d == OwnerOf(t)
          IN /\ BothLegs(c, d.spec)
             /\ maps[t] = [policy |-> AssignedPolicy(d),
                           paths  |-> DesiredPaths(c, d.spec, d.gen)]
    /\ Ready =>
          /\ \A t \in Tokens : Known(t) => ~connections[t].closed
          /\ \A i \in Ids : contexts[i] # None => ~contexts[i].deleting
-----------------------------------------------------------------------------
Table == INSTANCE AgentTable WITH healthy <- Healthy

(***************************************************************************)
(* The daemon implements AgentTable: whatever the connections, the store   *)
(* and the host do, an assignment is accepted by its rules alone, nothing  *)
(* but a deletion makes a context disappear, and a PUT or DELETE answered  *)
(* without an error leaves no context whose deletion is still pending.     *)
(***************************************************************************)
ImplementsTable == Table!Spec
=============================================================================
