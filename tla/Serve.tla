------------------------------- MODULE Serve --------------------------------
(***************************************************************************)
(* The life of the agent process around the Daemon: start under the writer *)
(* lock, the requests in flight, the loop of Serve, the ordered shutdown   *)
(* with its time limit, Cleanup, exit, kill, and the command line's apply  *)
(* and delete while no daemon holds the lock.                              *)
(*                                                                         *)
(* contexts, connections, fatal and streaming are the process's memory and *)
(* are gone when it ends; maps, legIndex and storeUp are the host's.       *)
(* Definitions marked "slip" are mistakes the properties must notice;      *)
(* nothing uses them.                                                      *)
(***************************************************************************)
EXTENDS Daemon

VARIABLES
    phase,    \* where Serve is: "down" is "no process"
    pending,  \* the request an HTTP handler has read and not yet executed
    errors,   \* some part of Serve's joined error is not nil
    exit      \* how the last process ended

serveVars == <<vars, phase, pending, errors, exit>>
memory    == <<contexts, connections, fatal, streaming>>

Puts     == [id : Ids, spec : Specs, gen : Gens, pol : Policies]
Deletes  == [id : Ids]
Requests == Puts \cup Deletes

ServeInit ==
    /\ Init
    /\ phase = "down" /\ pending = None
    /\ errors = FALSE /\ exit = "none"
-----------------------------------------------------------------------------
(* Start *)

\* Slip: only the policy map is searched.
NoPolicies == \A t \in Tokens : maps[t].policy = None

\* RequireEmptyNamespace: neither a policy nor a path of this namespace.
EmptyNamespace == \A t \in Tokens : maps[t] = EmptyMaps

\* The lock is free: flock is held by the process as long as it lives.
LockFree == phase = "down"

\* The memory is NewDaemon's already; SubscribePM precedes the first event.
Start ==
    /\ LockFree
    /\ EmptyNamespace
    /\ phase' = "running" /\ exit' = "none"
    /\ UNCHANGED <<vars, pending, errors>>
-----------------------------------------------------------------------------
(* Requests.  A handler runs on until the process exits, whatever the      *)
(* server does with its connection.                                        *)

Accept(r) ==
    /\ phase = "running" /\ pending = None
    /\ pending' = r
    /\ UNCHANGED <<vars, phase, errors, exit>>

Execute(r) ==
    IF r \in Puts THEN Put(r.id, r.spec, r.gen, r.pol) ELSE Delete(r.id)

Alive == phase # "down"

Handle ==
    /\ Alive /\ pending # None
    /\ Execute(pending)
    /\ pending' = None
    /\ UNCHANGED <<phase, errors, exit>>

\* Put refuses, or Close cuts the body off before the handler has it.
Reject ==
    /\ Alive /\ pending # None
    /\ pending' = None
    /\ UNCHANGED <<vars, phase, errors, exit>>
-----------------------------------------------------------------------------
(* The loop, and what runs beside it *)

Loop ==
    /\ phase = "running"
    /\ Retry
    /\ UNCHANGED <<phase, pending, errors, exit>>

\* The PM worker runs until workers.Wait has returned.
Observe ==
    /\ phase \in {"running", "draining", "drained"}
    /\ \/ \E t \in Tokens : ObserveClosed(t)
       \/ \E t \in Tokens, f \in Flows : ObserveSubClosed(t, f)
       \/ \E t \in Tokens, f \in Flows, ix \in EventIndexes, e \in BOOLEAN :
             ObserveEstablished(t, f, ix, e)
       \/ \E t \in Tokens, f \in Flows, e \in BOOLEAN :
             ObserveRefused(t, f, e) \/ ObserveOverflow(t, f, e)
       \/ StreamLost
       \/ Fail
    /\ UNCHANGED <<phase, pending, errors, exit>>

\* The loop ends: by a signal, or by the error of the PM worker or of the
\* HTTP server.  A signal may win over an error that is already there.
Stop(failed) ==
    /\ phase = "running"
    /\ phase' = "draining" /\ errors' = failed
    /\ UNCHANGED <<vars, pending, exit>>

\* Slip: Shutdown does not wait.
ShutdownAtOnce ==
    /\ phase = "draining"
    /\ phase' = "drained"
    /\ UNCHANGED <<vars, pending, errors, exit>>

\* Shutdown returns once every handler has, ...
Shutdown ==
    /\ phase = "draining" /\ pending = None
    /\ phase' = "drained"
    /\ UNCHANGED <<vars, pending, errors, exit>>

\* Slip: Shutdown has no time limit.
NoTimeout == FALSE /\ UNCHANGED serveVars

\* ... or fails after three seconds; then the server is closed.
ShutdownTimeout ==
    /\ phase = "draining" /\ pending # None
    /\ phase' = "drained" /\ errors' = TRUE
    /\ UNCHANGED <<vars, pending, exit>>

CleanupConnection(t) ==
    IF Owned(t) THEN DeleteLive(maps[t], storeUp) ELSE {Done(maps[t])}

\* workers.Wait has returned, so no event is being observed any more; a
\* handler may still be waiting for d.mu.
Cleanup ==
    /\ phase = "drained"
    /\ \E out \in [Tokens -> UNION {CleanupConnection(t) : t \in Tokens}] :
          /\ \A t \in Tokens : out[t] \in CleanupConnection(t)
          /\ maps' = [t \in Tokens |-> out[t].maps]
          /\ errors' = (errors \/ \E t \in Tokens : ~out[t].ok)
    /\ streaming' = FALSE
    /\ phase' = "cleaned"
    /\ UNCHANGED <<contexts, connections, fatal, env, pending, exit>>

\* The process is gone, and its memory with it.
Forget ==
    /\ phase' = "down" /\ pending' = None /\ errors' = FALSE
    /\ contexts'    = [i \in Ids |-> None]
    /\ connections' = [t \in Tokens |-> None]
    /\ fatal' = FALSE /\ streaming' = TRUE
    /\ UNCHANGED <<maps, env>>

Exit ==
    /\ phase = "cleaned"
    /\ exit' = IF errors THEN "error" ELSE "clean"
    /\ Forget

Kill ==
    /\ Alive
    /\ exit' = "killed"
    /\ Forget
-----------------------------------------------------------------------------
(* The command line, refused while a daemon holds the lock *)

CliResult(t, outcomes) ==
    /\ LockFree
    /\ \E r \in outcomes : maps' = [maps EXCEPT ![t] = r.maps]
    /\ exit' = "none"
    /\ UNCHANGED <<memory, env, phase, pending, errors>>

\* The operator's own endpoints: a pair for each leg.
CliPaths(gen) ==
    {[k \in Pairs |-> IF a[k] = None THEN None ELSE [gen |-> gen, access |-> a[k]]] :
        a \in {b \in [Pairs -> {LegA, LegB, None}] :
                  \A leg \in {LegA, LegB} : \E k \in Pairs : b[k] = leg}}

CliApply(t, gen, pol) ==
    \E want \in CliPaths(gen) :
        CliResult(t, ApplyLive(maps[t], [gen |-> gen, pol |-> pol], want, storeUp))

CliDelete(t) == CliResult(t, DeleteLive(maps[t], storeUp))
-----------------------------------------------------------------------------
Host ==
    /\ (\E a \in Moving : LegChange(a)) \/ StoreFlip
    /\ UNCHANGED <<phase, pending, errors, exit>>

ServeNext ==
    \/ Start
    \/ \E r \in Requests : Accept(r)
    \/ Handle \/ Reject
    \/ Loop \/ Observe
    \/ \E failed \in BOOLEAN : Stop(failed)
    \/ Shutdown \/ ShutdownTimeout \/ Cleanup \/ Exit \/ Kill
    \/ \E t \in Tokens, gen \in Gens, pol \in Policies : CliApply(t, gen, pol)
    \/ \E t \in Tokens : CliDelete(t)
    \/ Host

ServeSpec == ServeInit /\ [][ServeNext]_serveVars

(***************************************************************************)
(* While Serve runs its ticker calls Retry every 250 ms.  After the loop   *)
(* it runs straight on: Shutdown returns or times out, the PM worker ends  *)
(* because its context is cancelled, Cleanup does not wait.  Nothing is    *)
(* assumed of handlers, events or the operator.                            *)
(***************************************************************************)
FairServe ==
    /\ ServeSpec
    /\ WF_serveVars(Loop)
    /\ WF_serveVars(Shutdown \/ ShutdownTimeout)
    /\ WF_serveVars(Cleanup)
    /\ WF_serveVars(Exit)
-----------------------------------------------------------------------------
(* Properties *)

\* Serve's variables have their types.
ServeTypeOK ==
    /\ TypeOK
    /\ phase   \in {"down", "running", "draining", "drained", "cleaned"}
    /\ pending \in Requests \cup {None}
    /\ errors  \in BOOLEAN
    /\ exit    \in {"none", "clean", "error", "killed"}

(***************************************************************************)
(* If Serve returns no error, nothing it installed is left in the maps:    *)
(* the README's "A clean SIGINT/SIGTERM stop removes all bindings owned by *)
(* this daemon".  It takes the order Shutdown, workers.Wait, Cleanup: a    *)
(* request or an event after Cleanup would install again.                  *)
(***************************************************************************)
CleanExitLeavesNothing ==
    phase = "down" /\ exit = "clean" =>
        \A t \in Tokens : maps[t] = EmptyMaps

(***************************************************************************)
(* As long as the daemon serves, every entry in the maps is one it owns    *)
(* and will delete, whatever an earlier process or the command line left:  *)
(* Start refuses leftovers of every kind.                                  *)
(***************************************************************************)
NothingAdopted == Alive => EntriesAreOwned

\* A stop comes to its end, also if a handler never does: only the time
\* limit of Shutdown makes it so.
StopEnds == (phase = "draining") ~> ~Alive
=============================================================================
