---------------------------- MODULE ControlPlane ----------------------------
(***************************************************************************)
(* The research control plane: the PCF with the policy of every DNN, the   *)
(* SMF with the contexts its clients asked for, and the agent behind its   *)
(* Unix socket, which is the abstract agent of AgentTable.                 *)
(*                                                                         *)
(* The SMF holds s.mu from the policy read to the end of the agent call,   *)
(* so its operations do not overlap: `call' is the one agent call in       *)
(* progress and `todo' what is left of a loop over s.contexts.  A call     *)
(* that times out leaves its request behind: the agent's handler does not  *)
(* look at the request's context and may still run (`late').               *)
(***************************************************************************)
EXTENDS Naturals, FiniteSets

CONSTANTS
    Ids, Specs, Policies, None, MaxContexts,
    SpecsOf,    \* the ContextSpecs clients send for an id
    Dnns,       \* data network names; a ContextSpec has a field dnn
    MaxUint32,  \* the last generation
    MaxLate,    \* bound: abandoned requests whose handlers may still run
    MaxLives    \* bound: SMF processes, one after the other

VARIABLES
    pcf,         \* PCF: s.policies
    desired,     \* SMF: s.contexts
    generation,  \* SMF: s.generation
    phase,       \* SMF process: running, draining, releasing, stopped
    todo,        \* SMF: contexts the loop that holds s.mu has still to visit
    call,        \* SMF: the agent call in progress, or None
    failed,      \* SMF: Release has met a failure
    table,       \* agent: d.contexts
    late,        \* requests the SMF has given up and the agent may execute
    calm,        \* nothing fails: PCF, agent and maps answer in time
    life,        \* history: number of the SMF process
    writer,      \* history: the process whose PUT the agent accepted last
    overtaken    \* history: ids the agent has changed for an abandoned request
                 \* after it last answered the SMF without an error

smf   == <<desired, generation, phase, todo, call, failed>>
agent == <<table, late, writer, overtaken>>
vars  == <<pcf, smf, agent, calm, life>>

Gens  == 1 .. MaxUint32

\* No deletion is pending at the agent: what AgentTable promises whenever a
\* call ends without an error.
Settled == \A i \in Ids : table[i] # None => ~table[i].deleting

Agent == INSTANCE AgentTable WITH contexts <- table, healthy <- Settled

State ==
    [spec : Specs, pol : Policies, gen : Gens, applied : Gens \cup {0},
     deleting : BOOLEAN, err : BOOLEAN]

Request ==
    [id : Ids, spec : Specs, pol : Policies, gen : Gens, deleting : BOOLEAN,
     life : 1 .. MaxLives]

ASSUME ControlPlaneConstants ==
    /\ SpecsOf \in [Ids -> SUBSET Specs]
    /\ \A spec \in Specs : spec.dnn \in Dnns
    /\ None \notin Policies \cup State \cup Request
    /\ MaxUint32 \in Nat /\ MaxLate \in Nat /\ MaxLives \in Nat \ {0}

Init ==
    /\ pcf     \in [Dnns -> Policies \cup {None}]
    /\ desired = [i \in Ids |-> None]
    /\ generation = 0
    /\ phase   = "running"
    /\ todo    = {}
    /\ call    = None
    /\ failed  = FALSE
    /\ table   = [i \in Ids |-> None]
    /\ late    = {}
    /\ calm    = FALSE
    /\ life    = 1
    /\ writer  = [i \in Ids |-> 1]
    /\ overtaken = {}
-----------------------------------------------------------------------------
(* SMF *)

Contexts == {i \in Ids : desired[i] # None}
Unlocked == call = None /\ todo = {} /\ phase # "releasing"

\* Slip: generations are never exhausted.
AlwaysLeft == TRUE

\* nextGeneration succeeds.
GenerationLeft == generation < MaxUint32

\* deliver, up to the request: PUT the assignment or DELETE the context.
Deliver(i, s) ==
    /\ desired' = [desired EXCEPT ![i] = s]
    /\ call' = [id |-> i, spec |-> s.spec, pol |-> s.pol, gen |-> s.gen,
                deleting |-> s.deleting, life |-> life]

NoDelivery(i, s) ==
    desired' = [desired EXCEPT ![i] = s] /\ UNCHANGED call

\* create.  A known id, a failed policy read or an exhausted generation
\* space changes nothing.
Create(i, spec) ==
    /\ phase \in {"running", "draining"} /\ Unlocked
    /\ desired[i] = None
    /\ pcf[spec.dnn] # None
    /\ GenerationLeft
    /\ generation' = generation + 1
    /\ Deliver(i, [spec |-> spec, pol |-> pcf[spec.dnn], gen |-> generation',
                   applied |-> 0, deleting |-> FALSE, err |-> FALSE])
    /\ UNCHANGED <<pcf, phase, todo, failed, agent, calm, life>>

\* remove of a known id.
Remove(i) ==
    /\ phase \in {"running", "draining"} /\ Unlocked
    /\ desired[i] # None
    /\ Deliver(i, [desired[i] EXCEPT !.deleting = TRUE])
    /\ UNCHANGED <<pcf, generation, phase, todo, failed, agent, calm, life>>

\* Poll: a tick calls Reconcile, which takes s.mu.
Poll ==
    /\ phase = "running" /\ Unlocked
    /\ Contexts # {}
    /\ todo' = Contexts
    /\ UNCHANGED <<pcf, desired, generation, phase, call, failed, agent, calm, life>>

\* What policy may return to Reconcile; its context is cancelled by a stop.
Readings(dnn) ==
    (IF phase = "running" THEN {pcf[dnn]} ELSE {None})
        \cup (IF calm THEN {} ELSE {None})

\* Slip: a new policy keeps the generation.
RenewedInPlace(s, read) == [s EXCEPT !.pol = read]

\* The context under a policy other than its own, as the next generation.
Renewed(s, read) == [s EXCEPT !.pol = read, !.gen = generation + 1]

\* Slip: what was applied once is never delivered again.
DueOnce(s) == {s.applied # s.gen}

\* Whether a delivery is due: it is when the generation is not applied, and
\* two seconds after the last delivery, which any turn may be.
Due(s) == IF s.applied # s.gen THEN {TRUE} ELSE BOOLEAN

\* One turn of Reconcile's loop, for a context that is not being deleted.
Refresh(i) ==
    LET s == desired[i]
    IN \E read \in Readings(s.spec.dnn), due \in Due(s) :
          IF read \in {None, s.pol}
          THEN /\ IF due
                  THEN Deliver(i, [s EXCEPT !.err = @ \/ read = None])
                  ELSE NoDelivery(i, [s EXCEPT !.err = (read = None)])
               /\ UNCHANGED generation
          ELSE IF GenerationLeft
          THEN generation' = generation + 1 /\ Deliver(i, Renewed(s, read))
          ELSE NoDelivery(i, [s EXCEPT !.err = TRUE]) /\ UNCHANGED generation

\* One turn of the loop that holds s.mu, Reconcile's or Release's.
Turn(i) ==
    /\ call = None /\ i \in todo
    /\ todo' = todo \ {i}
    /\ IF desired[i].deleting \/ phase = "releasing"
       THEN Deliver(i, [desired[i] EXCEPT !.deleting = TRUE]) /\ UNCHANGED generation
       ELSE Refresh(i)
    /\ UNCHANGED <<pcf, phase, failed, agent, calm, life>>

\* The context after deliver's success.
Delivered(s) ==
    IF s.deleting THEN None
    ELSE [s EXCEPT !.applied = s.gen, !.err = FALSE]

\* Slips: a failed deletion is forgotten; a failure leaves no trace.
ForgottenIfDeleting(s) == IF s.deleting THEN None ELSE [s EXCEPT !.err = TRUE]
QuietlyUndelivered(s)  == s

\* The context after deliver's failure: every caller records LastError.
Undelivered(s) == [s EXCEPT !.err = TRUE]

ReportNothing(ok) == UNCHANGED failed   \* slip: Release drops the failure

\* Release joins the failures it meets; the other callers have no result.
Report(ok) == failed' = (failed \/ (phase = "releasing" /\ ~ok))

EndCall(ok) ==
    /\ desired' = [desired EXCEPT ![call.id] = IF ok THEN Delivered(@) ELSE Undelivered(@)]
    /\ call' = None
    /\ Report(ok)

\* Slip: the client has no time-out.
OnlyIfCancelled == phase = "draining"

\* The client's second is over, or its context is cancelled.
MayTimeOut == ~calm \/ phase = "draining"

\* A request whose client is gone is lost or keeps a handler waiting.
Abandon ==
    \/ UNCHANGED late
    \/ call # None /\ Cardinality(late) < MaxLate /\ late' = late \cup {call}

\* The time is over before the agent has executed the request.
TimeOut ==
    /\ call # None /\ MayTimeOut
    /\ Abandon
    /\ EndCall(FALSE)
    /\ UNCHANGED <<pcf, generation, phase, todo, table, writer, overtaken, calm, life>>

\* Run's context ends: Poll returns, requests being handled go on.
Stop ==
    /\ phase = "running"
    /\ phase' = "draining"
    /\ UNCHANGED <<pcf, desired, generation, todo, call, failed, agent, calm, life>>

\* Release takes s.mu once the workers are gone.
Release ==
    /\ phase = "draining" /\ Unlocked
    /\ phase' = "releasing"
    /\ todo'  = Contexts
    /\ UNCHANGED <<pcf, desired, generation, call, failed, agent, calm, life>>

\* Run returns.
Return ==
    /\ phase = "releasing" /\ call = None /\ todo = {}
    /\ phase' = "stopped"
    /\ UNCHANGED <<pcf, desired, generation, todo, call, failed, agent, calm, life>>

\* A new SMF process, after a stop or in place of one that was killed.
Restart ==
    /\ ~calm \/ phase = "stopped"
    /\ life < MaxLives
    /\ life'    = life + 1
    /\ desired' = [i \in Ids |-> None]
    /\ generation' = 0
    /\ phase'   = "running"
    /\ todo'    = {}
    /\ call'    = None
    /\ failed'  = FALSE
    /\ Abandon
    /\ UNCHANGED <<pcf, table, writer, overtaken, calm>>
-----------------------------------------------------------------------------
(* Agent *)

(***************************************************************************)
(* The handler's effect, and whether it answers without an error.  A pass  *)
(* over the connections may meet errors of its own, and ValidLeg or fatal  *)
(* may refuse any PUT, unless nothing fails.                               *)
(***************************************************************************)
Passes(ok) == (ok => Settled') /\ (calm => ok)

Execute(r, ok) ==
    \/ /\ r.deleting
       /\ Agent!Delete(r.id) /\ Passes(ok)
       /\ UNCHANGED writer
    \/ /\ ~r.deleting
       /\ Agent!Put(r.id, r.spec, r.gen, r.pol) /\ Passes(ok)
       /\ writer' = [writer EXCEPT ![r.id] = r.life]
    \/ /\ ~r.deleting /\ ~ok
       /\ calm => ~Agent!Accepts(r.id, Agent!Context(r.spec, r.gen, r.pol))
       /\ UNCHANGED <<table, writer>>

\* The agent executes the call, and its answer reaches the SMF or does not.
Handle(ok) ==
    /\ call # None
    /\ Execute(call, ok)
    /\ overtaken' = IF ok THEN overtaken \ {call.id} ELSE overtaken
    /\ \/ EndCall(ok)
       \/ MayTimeOut /\ EndCall(FALSE)
    /\ UNCHANGED <<pcf, generation, phase, todo, late, calm, life>>

\* The handler of an abandoned request gets its turn after all.
HandleLate(r, ok) ==
    /\ r \in late
    /\ Execute(r, ok)
    /\ overtaken' = IF UNCHANGED <<table, writer>> THEN overtaken
                    ELSE overtaken \cup {r.id}
    /\ late' = late \ {r}
    /\ UNCHANGED <<pcf, smf, calm, life>>

\* Retries and observations.
Upkeep ==
    /\ Agent!Upkeep
    /\ calm => Settled'
    /\ UNCHANGED <<pcf, smf, late, writer, overtaken, calm, life>>

\* A new agent process knows no contexts and has no handlers.
AgentRestart ==
    /\ ~calm
    /\ table'   = [i \in Ids |-> None]
    /\ late'    = {}
    /\ overtaken' = {}
    /\ UNCHANGED <<pcf, smf, writer, calm, life>>
-----------------------------------------------------------------------------
(* PCF and time *)

PutPolicy(dnn, pol) ==
    /\ pcf[dnn] # pol
    /\ pcf' = [pcf EXCEPT ![dnn] = pol]
    /\ UNCHANGED <<smf, agent, calm, life>>

Weather ==
    /\ calm' = ~calm
    /\ UNCHANGED <<pcf, smf, agent, life>>

Ends == \/ \E ok \in BOOLEAN : Handle(ok)
        \/ TimeOut

Next ==
    \/ \E i \in Ids : \E spec \in SpecsOf[i] : Create(i, spec)
    \/ \E i \in Ids : Remove(i)
    \/ Poll
    \/ \E i \in Ids : Turn(i)
    \/ Ends
    \/ Stop
    \/ Release
    \/ Return
    \/ Restart
    \/ \E r \in late, ok \in BOOLEAN : HandleLate(r, ok)
    \/ Upkeep
    \/ AgentRestart
    \/ \E dnn \in Dnns, pol \in Policies : PutPolicy(dnn, pol)
    \/ Weather

Spec == Init /\ [][Next]_vars

(***************************************************************************)
(* The ticker fires, a loop goes on, a call ends, by the client's time-out *)
(* or, when nothing fails, by an answer; Run returns. s.mu is a            *)
(* sync.Mutex, which starves nobody, and is asked for again at every tick: *)
(* hence strong fairness of the operations that wait for it. Polling goes  *)
(* on, so that two seconds after a delivery a turn finds the next one due. *)
(* The agent's ticker retries every 250 ms, which finishes its deletions   *)
(* once nothing fails. Clients, operators, observations and failures are   *)
(* not fair.                                                               *)
(***************************************************************************)
FairSpec ==
    /\ Spec
    /\ SF_vars(Poll)
    /\ WF_vars(\E i \in Ids : Turn(i))
    /\ \A i \in Ids : SF_vars(Turn(i) /\ call' # None)
    /\ WF_vars(TimeOut \/ (calm /\ Ends))
    /\ WF_vars(calm /\ Upkeep)
    /\ SF_vars(Release)
    /\ WF_vars(Return)
-----------------------------------------------------------------------------
(* Properties *)

\* Every variable has its type, and a loop visits known contexts.
ControlTypeOK ==
    /\ pcf     \in [Dnns -> Policies \cup {None}]
    /\ desired \in [Ids -> State \cup {None}]
    /\ generation \in Gens \cup {0}
    /\ phase   \in {"running", "draining", "releasing", "stopped"}
    /\ todo    \subseteq Contexts
    /\ call    \in Request \cup {None}
    /\ late    \subseteq Request
    /\ failed \in BOOLEAN /\ calm \in BOOLEAN
    /\ life    \in 1 .. MaxLives
    /\ writer  \in [Ids -> 1 .. MaxLives]
    /\ overtaken \subseteq Ids

(***************************************************************************)
(* The agent holds no context of this SMF process that the SMF does not    *)
(* know: what nobody knows is never deleted, and keeps its destination     *)
(* from every other context.  One thing alone breaks it, an abandoned      *)
(* request that the agent has executed since it last answered the SMF;     *)
(* failed, repeated and unanswered calls, polls and re-creations do not.   *)
(***************************************************************************)
OfThisProcess(i) == table[i] # None /\ writer[i] = life

ContextsAreKnown ==
    \A i \in Ids : OfThisProcess(i) => desired[i] # None \/ i \in overtaken

\* What deliver's comment promises, without the exception: "an old PUT
\* cannot overtake DELETE".
PutsNeverOvertake == \A i \in Ids : OfThisProcess(i) => desired[i] # None

\* A stop without an error leaves no context of this process at the agent,
\* unless an abandoned request has brought it back.
CleanStop ==
    phase = "stopped" /\ ~failed =>
        \A i \in Ids : OfThisProcess(i) => i \in overtaken

(***************************************************************************)
(* A generation the SMF calls applied is the one the agent has, policy     *)
(* and all, or the agent has lost the context, or an abandoned request has *)
(* changed it since.  A context that an earlier SMF process left at the    *)
(* agent, with generations counted from one as well, is never taken for    *)
(* the new one.                                                            *)
(***************************************************************************)
AppliedIsHeld ==
    \A i \in Ids \ overtaken :
        LET s == desired[i]
        IN /\ call = None \/ call.id # i
           /\ s # None /\ table[i] # None
           /\ ~s.deleting /\ s.applied = s.gen
           => table[i] = Agent!Context(s.spec, s.gen, s.pol)

\* Whatever is not applied, or not deleted, says so to GET: outside s.mu a
\* context without LastError is applied.
SilenceMeansApplied ==
    Unlocked =>
        \A i \in Contexts :
            ~desired[i].err => ~desired[i].deleting /\ desired[i].applied = desired[i].gen

(***************************************************************************)
(* Liveness.  Once nothing fails any more, every context reaches the agent *)
(* with the PCF's present policy, also after the agent lost it, and what   *)
(* the SMF has deleted, or has never heard of, is gone from the agent.     *)
(* Excepted are a context that an earlier SMF process left at the agent; a *)
(* context that the SMF has deleted and an abandoned request has brought   *)
(* back, which also refuses the id's next context if its spec is another;  *)
(* and a new policy for which no generation is left: its context is not    *)
(* delivered at all.  Of two ids that want one destination only one can    *)
(* have it: for them the property is not meant.                            *)
(***************************************************************************)
PolicyOf(i) == pcf[desired[i].spec.dnn]

Synced(i) ==
    IF desired[i] = None THEN table[i] = None
    ELSE /\ ~desired[i].deleting
         /\ table[i] = Agent!Context(desired[i].spec, desired[i].gen, PolicyOf(i))

LeftBehind(i) == table[i] # None /\ writer[i] # life
BroughtBack(i) ==
    /\ table[i] # None /\ i \in overtaken
    /\ desired[i] # None => table[i].spec # desired[i].spec
Exhausted(i) ==
    generation = MaxUint32 /\ desired[i] # None /\ desired[i].pol # PolicyOf(i)

Converges ==
    <>[](calm /\ phase = "running") =>
        \A i \in Ids : []<>(Synced(i) \/ LeftBehind(i) \/ BroughtBack(i) \/ Exhausted(i))

\* Every stop ends, whatever the PCF and the agent do.
StopEnds == phase = "draining" ~> phase \in {"stopped", "running"}
=============================================================================
