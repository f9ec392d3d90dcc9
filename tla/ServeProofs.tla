---------------------------- MODULE ServeProofs -----------------------------
(***************************************************************************)
(* What the life of the agent process adds to the daemon's invariant, for  *)
(* any number of contexts, connections and processes one after the other.  *)
(*                                                                         *)
(* Up to Cleanup every step of the process is one of the Daemon, so IInv   *)
(* holds.  Cleanup deletes entries behind the back of the bindings, and    *)
(* what is left is Coherent: enough for a handler that is still running.   *)
(* Such a handler may install again, and then Serve returns an error,      *)
(* because Shutdown has timed out.                                         *)
(***************************************************************************)
EXTENDS Serve, DaemonTableProofs

\* Without a process there is no memory.
Fresh ==
    /\ contexts    = [i \in Ids |-> None]
    /\ connections = [t \in Tokens |-> None]

AllEmpty == \A t \in Tokens : maps[t] = EmptyMaps

ServeInv ==
    /\ ServeTypeOK
    /\ ~Alive => Fresh
    /\ Alive => Coherent
    /\ phase \in {"running", "draining", "drained"} => IInv
    /\ phase = "drained" /\ pending # None => errors
    /\ phase = "cleaned" /\ ~errors => pending = None /\ AllEmpty
    /\ phase = "down" /\ exit = "clean" => AllEmpty

\* A process that has just started, in an empty namespace.
LEMMA StartInv ==
    ASSUME TypeOK, Fresh, AllEmpty
    PROVE  IInv
  <1>1. SelectorsAreUnique /\ DeletingIsOwned
    BY DEF Fresh, SelectorsAreUnique, DeletingIsOwned
  <1>2. \A t \in Tokens : ConnectionInv(t)
    BY DEF Fresh, AllEmpty, ConnectionInv, Bound, Installed, Pending, HasOwner
  <1>3. QED
    BY <1>1, <1>2 DEF IInv

\* A request the handler executes, before or after Cleanup.
LEMMA ExecuteInv ==
    ASSUME Coherent, NEW r \in Requests, Execute(r)
    PROVE  IInv' /\ \A s \in Tokens : PolicyStep(maps[s], maps'[s])
  <1>1. CASE r \in Puts
    <2>1. /\ r.id \in Ids /\ r.spec \in Specs /\ r.gen \in Gens /\ r.pol \in Policies
          /\ Put(r.id, r.spec, r.gen, r.pol)
      BY <1>1 DEF Execute, Puts
    <2>2. QED
      BY <2>1, PutInv
  <1>2. CASE r \notin Puts
    <2>1. r.id \in Ids /\ Delete(r.id)
      BY <1>2 DEF Execute, Requests, Deletes
    <2>2. QED
      BY <2>1, DeleteInv
  <1>3. QED
    BY <1>1, <1>2

\* Cleanup removes what is owned, and nothing else is there.
LEMMA CleanupInv ==
    ASSUME IInv, Cleanup, errors \in BOOLEAN
    PROVE  /\ Coherent'
           /\ errors' \in BOOLEAN
           /\ ~errors' => ~errors /\ AllEmpty'
  <1>1. PICK out \in [Tokens -> UNION {CleanupConnection(t) : t \in Tokens}] :
          /\ \A t \in Tokens : out[t] \in CleanupConnection(t)
          /\ maps' = [t \in Tokens |-> out[t].maps]
          /\ errors' = (errors \/ \E t \in Tokens : ~out[t].ok)
    BY DEF Cleanup
  <1>2. ASSUME NEW t \in Tokens
        PROVE  /\ maps'[t] \in Maps
               /\ maps'[t] # EmptyMaps => ~out[t].ok
               /\ Bound(connections[t], maps'[t], contexts)
    <2>1. /\ maps[t] \in Maps /\ storeUp \in BOOLEAN
          /\ Bound(connections[t], maps[t], contexts)
          /\ maps'[t] = out[t].maps
          /\ Owned(t) <=> HasOwner(connections[t])
      BY <1>1 DEF IInv, TypeOK, ConnectionInv, Owned, Known, HasOwner
    <2>2. CASE Owned(t)
      <3>1. out[t] \in DeleteLive(maps[t], storeUp)
        BY <1>1, <2>2 DEF CleanupConnection
      <3>2. /\ out[t].maps \in Maps
            /\ out[t].ok => out[t].maps = EmptyMaps
            /\ out[t].maps.policy \in {None, maps[t].policy}
            /\ \A k \in Pairs : out[t].maps.paths[k] \in {None, maps[t].paths[k]}
        BY <2>1, <3>1, DeleteLiveResult
      <3>3. QED
        BY <2>1, <2>2, <3>2 DEF Bound
    <2>3. CASE ~Owned(t)
      <3>1. out[t] = Done(maps[t]) /\ maps[t] = EmptyMaps
        BY <1>1, <2>1, <2>3 DEF CleanupConnection, Bound
      <3>2. QED
        BY <2>1, <3>1, EmptyMapsType DEF Done
    <2>4. QED
      BY <2>2, <2>3
  <1>3. UNCHANGED <<contexts, connections, fatal, env>> /\ streaming' = FALSE
    BY DEF Cleanup
  <1>4. maps' \in [Tokens -> Maps]
    BY <1>1, <1>2
  <1>5. TypeOK'
    BY <1>3, <1>4 DEF IInv, TypeOK, env
  <1>6. SelectorsAreUnique'
    BY <1>3 DEF IInv, SelectorsAreUnique
  <1>7. Coherent'
    BY <1>2, <1>3, <1>5, <1>6 DEF Coherent
  <1>8. ~errors' => ~errors /\ AllEmpty'
    BY <1>1, <1>2 DEF AllEmpty
  <1>9. QED
    BY <1>1, <1>7, <1>8

LEMMA ApplyLiveAdvances ==
    ASSUME NEW m \in Maps, NEW p \in MapPolicy, NEW want \in PathMap,
           NEW up \in BOOLEAN, NEW r \in ApplyLive(m, p, want, up)
    PROVE  r.maps \in Maps /\ PolicyStep(m, r.maps)
  <1>1. /\ r.maps \in Maps
        /\ \/ r.maps.policy = m.policy
           \/ r.maps.policy = p /\ Advances(m, p)
    BY ApplyLiveResult
  <1>2. p.gen \in Nat /\ (m.policy # None => m.policy.gen \in Nat)
    BY DEF Maps, MapPolicy
  <1>3. QED
    BY <1>1, <1>2 DEF PolicyStep, Advances

\* The command line writes well-formed maps, and never an older policy.
LEMMA CliType ==
    ASSUME TypeOK, NEW t \in Tokens,
           \/ CliDelete(t)
           \/ \E gen \in Gens, pol \in Policies : CliApply(t, gen, pol)
    PROVE  TypeOK' /\ \A s \in Tokens : PolicyStep(maps[s], maps'[s])
  <1>1. maps[t] \in Maps /\ storeUp \in BOOLEAN /\ maps \in [Tokens -> Maps]
    BY DEF TypeOK
  <1>2. /\ UNCHANGED <<memory, env>>
        /\ \E m \in Maps : PolicyStep(maps[t], m) /\ maps' = [maps EXCEPT ![t] = m]
    <2>1. CASE CliDelete(t)
      <3>1. PICK r \in DeleteLive(maps[t], storeUp) : maps' = [maps EXCEPT ![t] = r.maps]
        BY <2>1 DEF CliDelete, CliResult
      <3>2. r.maps \in Maps /\ PolicyStep(maps[t], r.maps)
        BY <1>1, <3>1, DeleteLiveResult DEF PolicyStep
      <3>3. QED
        BY <2>1, <3>1, <3>2 DEF CliDelete, CliResult
    <2>2. ASSUME NEW gen \in Gens, NEW pol \in Policies, CliApply(t, gen, pol)
          PROVE  /\ UNCHANGED <<memory, env>>
                 /\ \E m \in Maps :
                       PolicyStep(maps[t], m) /\ maps' = [maps EXCEPT ![t] = m]
      <3>1. gen \in Nat \ {0} /\ [gen |-> gen, pol |-> pol] \in MapPolicy
        BY DaemonConstants DEF MapPolicy
      <3>2. PICK want \in CliPaths(gen) :
              CliResult(t, ApplyLive(maps[t], [gen |-> gen, pol |-> pol], want, storeUp))
        BY <2>2 DEF CliApply
      <3>3. want \in PathMap
        BY <3>1 DEF CliPaths, PathMap, MapPath
      <3>4. PICK r \in ApplyLive(maps[t], [gen |-> gen, pol |-> pol], want, storeUp) :
              maps' = [maps EXCEPT ![t] = r.maps]
        BY <3>2 DEF CliResult
      <3> DEFINE p == [gen |-> gen, pol |-> pol]
      <3> HIDE DEF p
      <3>5. p \in MapPolicy /\ r \in ApplyLive(maps[t], p, want, storeUp)
        BY <3>1, <3>4 DEF p
      <3>6. r.maps \in Maps /\ PolicyStep(maps[t], r.maps)
        BY <1>1, <3>3, <3>5, ApplyLiveAdvances
      <3>7. QED
        BY <3>2, <3>4, <3>6 DEF CliResult
    <2>3. QED
      BY <2>1, <2>2
  <1>3. maps' \in [Tokens -> Maps]
    BY <1>1, <1>2
  <1>4. \A s \in Tokens : PolicyStep(maps[s], maps'[s])
    BY <1>1, <1>2 DEF PolicyStep
  <1>5. QED
    BY <1>2, <1>3, <1>4 DEF TypeOK, memory, env

\* The process is gone: whatever it left in the maps, its memory is empty.
LEMMA ForgetInv ==
    ASSUME ServeInv, Forget, exit' \in {"error", "killed"} \/ (exit' = "clean" /\ AllEmpty)
    PROVE  ServeInv'
  <1>1. Fresh' /\ UNCHANGED <<maps, env>> /\ phase' = "down" /\ pending' = None
        /\ errors' = FALSE /\ fatal' = FALSE /\ streaming' = TRUE
    BY DEF Forget, Fresh
  <1>2. TypeOK'
    BY <1>1 DEF ServeInv, ServeTypeOK, TypeOK, Fresh, env
  <1>3. ServeTypeOK'
    BY <1>1, <1>2 DEF ServeTypeOK
  <1>4. exit' = "clean" => AllEmpty'
    BY <1>1 DEF AllEmpty
  <1>5. QED
    BY <1>1, <1>3, <1>4 DEF ServeInv, Alive

\* The process's memory and the maps are as they were.
LEMMA QuietInv ==
    ASSUME ServeInv, UNCHANGED vars
    PROVE  /\ TypeOK' /\ (Fresh' <=> Fresh) /\ (AllEmpty' <=> AllEmpty)
           /\ (Coherent => Coherent') /\ (IInv => IInv')
  <1>1. TypeOK' /\ UNCHANGED <<contexts, connections, maps>>
    BY DEF ServeInv, ServeTypeOK, TypeOK, vars
  <1>2. IInv => IInv'
    BY <1>1, FrameInv
  <1>3. Coherent => Coherent'
    BY <1>1 DEF Coherent, SelectorsAreUnique
  <1>4. QED
    BY <1>1, <1>2, <1>3 DEF Fresh, AllEmpty

LEMMA ServeStep ==
    ASSUME ServeInv, [ServeNext]_serveVars
    PROVE  ServeInv'
  <1> USE DEF Alive
  <1>0. /\ TypeOK /\ errors \in BOOLEAN
        /\ phase   \in {"down", "running", "draining", "drained", "cleaned"}
        /\ pending \in Requests \cup {None}
        /\ exit    \in {"none", "clean", "error", "killed"}
    BY DEF ServeInv, ServeTypeOK
  <1>1. CASE Start
    <2>1. /\ phase = "down" /\ AllEmpty /\ Fresh
          /\ phase' = "running" /\ exit' = "none" /\ UNCHANGED <<vars, pending, errors>>
      BY <1>1 DEF Start, LockFree, EmptyNamespace, AllEmpty, ServeInv
    <2>2. IInv
      BY <1>0, <2>1, StartInv
    <2>3. IInv' /\ TypeOK'
      BY <2>1, <2>2, QuietInv
    <2>4. Coherent'
      BY <2>3 DEF IInv, ConnectionInv, Coherent
    <2>5. ServeTypeOK'
      BY <1>0, <2>1, <2>3 DEF ServeTypeOK
    <2>6. QED
      BY <2>1, <2>3, <2>4, <2>5 DEF ServeInv
  <1>2. ASSUME UNCHANGED vars, phase \in {"running", "draining"}, exit' = exit,
               pending' \in Requests \cup {None}, errors' \in BOOLEAN,
               phase' \in {"running", "draining", "drained"},
               phase' = "drained" /\ pending' # None => errors'
        PROVE  ServeInv'
    <2>1. IInv' /\ TypeOK'
      BY <1>2, QuietInv DEF ServeInv
    <2>2. Coherent'
      BY <2>1 DEF IInv, ConnectionInv, Coherent
    <2>3. ServeTypeOK'
      BY <1>0, <1>2, <2>1 DEF ServeTypeOK
    <2>4. QED
      BY <1>2, <2>1, <2>2, <2>3 DEF ServeInv
  <1>3. ASSUME NEW r \in Requests, Accept(r) PROVE ServeInv'
    BY <1>0, <1>2, <1>3 DEF Accept
  <1>4. ASSUME NEW failed \in BOOLEAN, Stop(failed) PROVE ServeInv'
    BY <1>0, <1>2, <1>4 DEF Stop
  <1>5. CASE Shutdown \/ ShutdownTimeout
    BY <1>0, <1>2, <1>5 DEF Shutdown, ShutdownTimeout
  <1>6. CASE Handle
    <2>1. pending \in Requests /\ Execute(pending) /\ Coherent /\ phase # "down"
          /\ pending' = None /\ UNCHANGED <<phase, errors, exit>>
      BY <1>0, <1>6 DEF Handle, ServeInv
    <2>2. IInv'
      BY <2>1, ExecuteInv
    <2>3. Coherent' /\ TypeOK'
      BY <2>2 DEF IInv, ConnectionInv, Coherent
    <2>4. ServeTypeOK'
      BY <1>0, <2>1, <2>3 DEF ServeTypeOK
    <2>5. ~(phase = "cleaned" /\ ~errors)
      BY <1>6 DEF Handle, ServeInv
    <2>6. QED
      BY <2>1, <2>2, <2>3, <2>4, <2>5 DEF ServeInv
  <1>7. CASE Reject
    <2>1. UNCHANGED <<vars, phase, errors, exit>> /\ phase # "down" /\ pending' = None
      BY <1>7 DEF Reject
    <2>2. /\ TypeOK' /\ (Fresh' <=> Fresh) /\ (AllEmpty' <=> AllEmpty)
          /\ (Coherent => Coherent') /\ (IInv => IInv')
      BY <2>1, QuietInv
    <2>3. ServeTypeOK'
      BY <1>0, <2>1, <2>2 DEF ServeTypeOK
    <2>4. QED
      BY <2>1, <2>2, <2>3 DEF ServeInv
  <1>8. CASE Loop \/ Observe
    <2>1. phase \in {"running", "draining", "drained"} /\ IInv
          /\ UNCHANGED <<phase, pending, errors, exit>>
      BY <1>8 DEF Loop, Observe, ServeInv
    <2>2. Next
      BY <1>8 DEF Loop, Observe, Next
    <2>3. IInv'
      BY <2>1, <2>2, StepInv
    <2>4. Coherent' /\ TypeOK'
      BY <2>3 DEF IInv, ConnectionInv, Coherent
    <2>5. ServeTypeOK'
      BY <1>0, <2>1, <2>4 DEF ServeTypeOK
    <2>6. QED
      BY <2>1, <2>3, <2>4, <2>5 DEF ServeInv
  <1>9. CASE Cleanup
    <2>1. /\ phase = "drained" /\ phase' = "cleaned" /\ IInv
          /\ UNCHANGED <<pending, exit>>
      BY <1>9 DEF Cleanup, ServeInv
    <2>2. /\ Coherent' /\ errors' \in BOOLEAN
          /\ ~errors' => ~errors /\ AllEmpty'
      BY <1>0, <1>9, <2>1, CleanupInv
    <2>3. ServeTypeOK'
      BY <1>0, <2>1, <2>2 DEF ServeTypeOK, Coherent
    <2>4. QED
      BY <2>1, <2>2, <2>3 DEF ServeInv
  <1>10. CASE Exit
    <2>1. exit' = "error" \/ (exit' = "clean" /\ AllEmpty)
      BY <1>10 DEF Exit, ServeInv
    <2>2. QED
      BY <1>10, <2>1, ForgetInv DEF Exit
  <1>11. CASE Kill
    BY <1>11, ForgetInv DEF Kill
  <1>12. ASSUME NEW t \in Tokens,
                \/ CliDelete(t)
                \/ \E gen \in Gens, pol \in Policies : CliApply(t, gen, pol)
         PROVE  ServeInv'
    <2>1. TypeOK'
      BY <1>0, <1>12, CliType
    <2>2. /\ phase = "down" /\ exit' = "none"
          /\ UNCHANGED <<memory, env, phase, pending, errors>>
      BY <1>12 DEF CliDelete, CliApply, CliResult, LockFree
    <2>3. Fresh'
      BY <2>2 DEF ServeInv, Fresh, memory
    <2>4. ServeTypeOK'
      BY <1>0, <2>1, <2>2 DEF ServeTypeOK
    <2>5. QED
      BY <2>2, <2>3, <2>4 DEF ServeInv
  <1>13. CASE Host
    <2>1. UNCHANGED <<contexts, connections, maps, phase, pending, errors, exit>>
      BY <1>13 DEF Host, LegChange, StoreFlip
    <2>2. TypeOK'
      <3>1. CASE \E a \in Moving : LegChange(a)
        <4>1. PICK a \in Moving, ix \in IfIndexes \cup {0} :
                legIndex' = [legIndex EXCEPT ![a] = ix]
          BY <3>1 DEF LegChange
        <4>2. legIndex' \in [Addrs -> IfIndexes \cup {0}]
          BY <1>0, <4>1 DEF TypeOK
        <4>3. UNCHANGED <<contexts, connections, maps, fatal, streaming, storeUp>>
          BY <3>1 DEF LegChange
        <4>4. QED
          BY <1>0, <4>2, <4>3 DEF TypeOK
      <3>2. CASE StoreFlip
        BY <1>0, <3>2 DEF StoreFlip, TypeOK
      <3>3. QED
        BY <1>13, <3>1, <3>2 DEF Host
    <2>3. IInv => IInv'
      BY <2>1, <2>2, FrameInv
    <2>4. Coherent => Coherent'
      BY <2>1, <2>2 DEF Coherent, SelectorsAreUnique
    <2>5. ServeTypeOK'
      BY <1>0, <2>1, <2>2 DEF ServeTypeOK
    <2>6. QED
      BY <2>1, <2>3, <2>4, <2>5 DEF ServeInv, Fresh, AllEmpty
  <1>14. CASE UNCHANGED serveVars
    <2>1. UNCHANGED <<vars, phase, pending, errors, exit>>
      BY <1>14 DEF serveVars
    <2>2. /\ TypeOK' /\ (Fresh' <=> Fresh) /\ (AllEmpty' <=> AllEmpty)
          /\ (Coherent => Coherent') /\ (IInv => IInv')
      BY <2>1, QuietInv
    <2>3. ServeTypeOK'
      BY <1>0, <2>1, <2>2 DEF ServeTypeOK
    <2>4. QED
      BY <2>1, <2>2, <2>3 DEF ServeInv
  <1>15. QED
    BY <1>1, <1>3, <1>4, <1>5, <1>6, <1>7, <1>8, <1>9, <1>10, <1>11, <1>12, <1>13, <1>14
       DEF ServeNext

LEMMA ServeInitInv ==
    ASSUME ServeInit PROVE ServeInv
  <1>1. IInv
    BY InitInv DEF ServeInit
  <1>2. QED
    BY <1>1 DEF ServeInit, Init, ServeInv, ServeTypeOK, IInv, Fresh, AllEmpty, Alive

LEMMA ServeInvariant == ServeSpec => []ServeInv
  BY ServeInitInv, ServeStep, PTL DEF ServeSpec

\* The daemon's variables keep their types over any number of processes, with
\* apply and delete of the command line in between.
THEOREM ServeTypeCorrect == ServeSpec => []ServeTypeOK
  BY ServeInvariant, PTL DEF ServeInv

\* The README's promise of a clean stop: Serve without an error has removed
\* every entry, whatever requests and events came during the shutdown.
THEOREM CleanExitIsClean == ServeSpec => []CleanExitLeavesNothing
  <1>1. ServeInv => CleanExitLeavesNothing
    BY DEF ServeInv, AllEmpty, CleanExitLeavesNothing
  <1>2. QED
    BY <1>1, ServeInvariant, PTL

\* RequireEmptyNamespace and the lock: a daemon that serves owns every entry
\* in the maps, Cleanup and a late handler included.
THEOREM NothingIsAdopted == ServeSpec => []NothingAdopted
  <1>1. ServeInv => NothingAdopted
    BY DEF ServeInv, Coherent, Bound, HasOwner, NothingAdopted, EntriesAreOwned,
           Owned, Known
  <1>2. QED
    BY <1>1, ServeInvariant, PTL

\* Until Cleanup the daemon is what the theorems about it say.
THEOREM ServingIsExact ==
    ServeSpec => [](phase \in {"running", "draining", "drained"} =>
                       ReadyIsInstalled /\ NoErrorMeansInstalled /\ PendingHasError)
  <1>1. ServeInv => (phase \in {"running", "draining", "drained"} =>
                        ReadyIsInstalled /\ NoErrorMeansInstalled /\ PendingHasError)
    BY Consequences, ReadyFollows DEF ServeInv
  <1>2. QED
    BY <1>1, ServeInvariant, PTL

LEMMA CleanupPolicy ==
    ASSUME TypeOK, Cleanup, NEW t \in Tokens
    PROVE  PolicyStep(maps[t], maps'[t])
  <1>1. PICK out \in [Tokens -> UNION {CleanupConnection(s) : s \in Tokens}] :
          /\ \A s \in Tokens : out[s] \in CleanupConnection(s)
          /\ maps' = [s \in Tokens |-> out[s].maps]
    BY DEF Cleanup
  <1>2. out[t] \in CleanupConnection(t) /\ maps'[t] = out[t].maps
    BY <1>1
  <1>3. CASE Owned(t)
    <2>1. maps[t] \in Maps /\ storeUp \in BOOLEAN
      BY DEF TypeOK
    <2>2. out[t].maps.policy \in {None, maps[t].policy}
      BY <1>2, <1>3, <2>1, DeleteLiveResult DEF CleanupConnection
    <2>3. QED
      BY <1>2, <2>2 DEF PolicyStep
  <1>4. CASE ~Owned(t)
    BY <1>2, <1>4 DEF CleanupConnection, Done, PolicyStep
  <1>5. QED
    BY <1>3, <1>4

LEMMA ServePolicyStep ==
    ASSUME ServeInv, [ServeNext]_serveVars, NEW t \in Tokens
    PROVE  PolicyStep(maps[t], maps'[t])
  <1>0. TypeOK
    BY DEF ServeInv, ServeTypeOK
  <1>1. CASE UNCHANGED maps
    BY <1>1 DEF PolicyStep
  <1>2. CASE Handle
    <2>1. pending \in Requests /\ Execute(pending) /\ Coherent
      BY <1>2 DEF Handle, ServeInv, ServeTypeOK
    <2>2. QED
      BY <2>1, ExecuteInv
  <1>3. CASE Loop \/ Observe
    <2>1. IInv /\ Next
      BY <1>3 DEF Loop, Observe, ServeInv, Next
    <2>2. QED
      BY <2>1, StepInv
  <1>4. CASE Cleanup
    BY <1>0, <1>4, CleanupPolicy
  <1>5. ASSUME NEW s \in Tokens,
               \/ CliDelete(s)
               \/ \E gen \in Gens, pol \in Policies : CliApply(s, gen, pol)
        PROVE  PolicyStep(maps[t], maps'[t])
    BY <1>0, <1>5, CliType
  <1>6. \/ UNCHANGED maps
        \/ Handle \/ Loop \/ Observe \/ Cleanup
        \/ \E s \in Tokens, gen \in Gens, pol \in Policies : CliApply(s, gen, pol)
        \/ \E s \in Tokens : CliDelete(s)
    BY DEF ServeNext, Start, Accept, Reject, Stop, Shutdown, ShutdownTimeout, Exit,
           Kill, Forget, Host, LegChange, StoreFlip, serveVars, vars
  <1>7. QED
    BY <1>1, <1>2, <1>3, <1>4, <1>5, <1>6

(***************************************************************************)
(* Over any sequence of processes, kills, clean-ups and uses of the        *)
(* command line a live policy is replaced by one of a later generation     *)
(* only: ApplyLive reads what is there, whoever has written it.            *)
(***************************************************************************)
THEOREM ProcessesNeverRollBack == ServeSpec => GenerationAdvances
  <1> DEFINE Advance ==
        \A t \in Tokens :
          /\ maps[t].policy # None
          /\ maps'[t].policy \notin {None, maps[t].policy}
          => maps'[t].policy.gen > maps[t].policy.gen
  <1>1. ServeInv /\ [ServeNext]_serveVars => [Advance]_vars
    BY ServePolicyStep DEF PolicyStep
  <1> HIDE DEF Advance
  <1>2. ServeSpec => [][Advance]_vars
    BY ServeInvariant, <1>1, PTL DEF ServeSpec
  <1>3. QED
    BY <1>2 DEF GenerationAdvances, Advance
=============================================================================
