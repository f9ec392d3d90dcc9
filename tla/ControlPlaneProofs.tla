------------------------- MODULE ControlPlaneProofs -------------------------
(***************************************************************************)
(* What the SMF knows about the agent, for any number of contexts,         *)
(* policies, generations, SMF processes and restarts of the agent.         *)
(*                                                                         *)
(* SmfInv is about the SMF's own state and holds whatever the agent does.  *)
(* LinkInv relates it to the agent's table, for any number of requests     *)
(* that outlive their clients: it says nothing of an id that the agent has *)
(* changed for such a request since it last answered the SMF.              *)
(***************************************************************************)
EXTENDS ControlPlane, TLAPS

\* The call in progress carries its context as it is, which the loop that
\* made the call has already left behind.
CallIsCurrent ==
    call # None =>
        LET s == desired[call.id]
        IN /\ s # None
           /\ call.spec = s.spec /\ call.pol = s.pol /\ call.gen = s.gen
           /\ call.deleting = s.deleting
           /\ call.life = life
           /\ call.id \notin todo

\* No generation is applied before it is handed out.
GenerationsReached ==
    \A i \in Contexts :
        desired[i].applied <= desired[i].gen /\ desired[i].gen <= generation

InCall(i) == call # None /\ call.id = i

\* A context without LastError is applied, or on its way.
Silent ==
    \A i \in Contexts :
        ~desired[i].err =>
            InCall(i) \/ (~desired[i].deleting /\ desired[i].applied = desired[i].gen)

\* Release leaves out no context, unless it reports one.
ReleasesAll ==
    /\ phase = "stopped" => call = None /\ todo = {}
    /\ phase = "releasing" /\ call # None => call.deleting
    /\ phase \in {"releasing", "stopped"} /\ ~failed =>
          \A i \in Contexts : i \in todo \/ InCall(i)

SmfInv ==
    /\ ControlTypeOK
    /\ CallIsCurrent
    /\ GenerationsReached
    /\ Silent
    /\ ReleasesAll

\* The end of a call, however it comes.
LEMMA CallEnds ==
    ASSUME SmfInv, call # None, NEW ok \in BOOLEAN, EndCall(ok),
           UNCHANGED <<pcf, generation, phase, todo, calm, life>>,
           late' \subseteq Request, writer' \in [Ids -> 1 .. MaxLives],
           overtaken' \subseteq Ids
    PROVE  SmfInv'
  <1> DEFINE i == call.id
             s == desired[i]
  <1>1. /\ i \in Ids /\ s \in State /\ s # None
        /\ s.gen \in Gens
    BY DEF SmfInv, ControlTypeOK, CallIsCurrent, Request, State
  <1>2. /\ call' = None
        /\ desired' = [desired EXCEPT ![i] = IF ok THEN Delivered(s) ELSE Undelivered(s)]
        /\ failed' = (failed \/ (phase = "releasing" /\ ~ok))
    BY DEF EndCall, Report
  <1>3. \A j \in Ids : j # i => desired'[j] = desired[j]
    BY <1>1, <1>2 DEF SmfInv, ControlTypeOK
  <1>4. desired'[i] = IF ok THEN Delivered(s) ELSE Undelivered(s)
    BY <1>1, <1>2 DEF SmfInv, ControlTypeOK
  <1>5. desired'[i] \in State \cup {None}
    BY <1>1, <1>4 DEF Delivered, Undelivered, State
  <1>6. desired'[i] # None =>
          /\ desired'[i].gen = s.gen
          /\ desired'[i].applied \in {s.applied, s.gen}
          /\ ~desired'[i].err => ~desired'[i].deleting /\ desired'[i].applied = s.gen
    BY <1>1, <1>4 DEF Delivered, Undelivered, State
  <1>7. s.deleting /\ ok => desired'[i] = None
    BY <1>4 DEF Delivered
  <1>8. todo \subseteq Ids /\ i \notin todo
    BY DEF SmfInv, ControlTypeOK, CallIsCurrent, Contexts
  <1> HIDE DEF i, s
  <1>9. ControlTypeOK'
    <2>1. desired' \in [Ids -> State \cup {None}]
      BY <1>1, <1>2, <1>5, <1>4 DEF SmfInv, ControlTypeOK
    <2>2. todo' \subseteq Contexts'
      BY <1>3, <1>8 DEF SmfInv, ControlTypeOK, Contexts
    <2>3. failed' \in BOOLEAN
      BY <1>2 DEF SmfInv, ControlTypeOK
    <2>4. QED
      BY <1>2, <2>1, <2>2, <2>3 DEF SmfInv, ControlTypeOK
  <1>10. CallIsCurrent'
    BY <1>2 DEF CallIsCurrent
  <1>11. GenerationsReached'
    BY <1>1, <1>3, <1>6 DEF SmfInv, GenerationsReached, Contexts, s, Gens
  <1>12. Silent'
    BY <1>2, <1>3, <1>6 DEF SmfInv, Silent, Contexts, InCall, i
  <1>13. ReleasesAll'
    BY <1>2, <1>3, <1>7, <1>8 DEF SmfInv, ReleasesAll, CallIsCurrent, Contexts, InCall, i, s
  <1>14. QED
    BY <1>9, <1>10, <1>11, <1>12, <1>13 DEF SmfInv

\* The beginning of a call, for a context that is new, or old.
LEMMA CallBegins ==
    ASSUME SmfInv, call = None, phase # "stopped",
           NEW i \in Ids, NEW s \in State, Deliver(i, s),
           todo' = todo \ {i},
           s.applied <= s.gen, s.gen <= generation',
           generation' \in Gens \cup {0}, generation <= generation',
           phase = "releasing" => s.deleting,
           UNCHANGED <<pcf, phase, failed, agent, calm, life>>
    PROVE  SmfInv'
  <1>1. s # None
    BY ControlPlaneConstants
  <1>2. /\ desired' = [desired EXCEPT ![i] = s]
        /\ call' = [id |-> i, spec |-> s.spec, pol |-> s.pol, gen |-> s.gen,
                    deleting |-> s.deleting, life |-> life]
    BY DEF Deliver
  <1>3. call' \in Request /\ call' # None /\ call'.id = i
    <2>1. call' \in Request
      BY <1>2 DEF SmfInv, ControlTypeOK, State, Request
    <2>2. QED
      BY <1>2, <2>1, ControlPlaneConstants
  <1>4. desired'[i] = s /\ \A j \in Ids : j # i => desired'[j] = desired[j]
    BY <1>2 DEF SmfInv, ControlTypeOK
  <1>5. Contexts' = Contexts \cup {i}
    BY <1>1, <1>4 DEF Contexts
  <1>6. ControlTypeOK'
    <2>1. desired' \in [Ids -> State \cup {None}]
      BY <1>2 DEF SmfInv, ControlTypeOK
    <2>2. QED
      BY <1>3, <1>5, <2>1 DEF SmfInv, ControlTypeOK, agent
  <1>7. CallIsCurrent'
    BY <1>1, <1>2, <1>3, <1>4 DEF CallIsCurrent
  <1>8. GenerationsReached'
    <2>1. \A j \in Contexts : desired[j].gen \in Nat /\ generation \in Nat /\ generation' \in Nat
      BY DEF SmfInv, ControlTypeOK, State, Contexts, Gens
    <2>2. QED
      BY <1>4, <1>5, <2>1 DEF SmfInv, GenerationsReached, Contexts
  <1>9. Silent'
    BY <1>3, <1>4, <1>5 DEF SmfInv, Silent, Contexts, InCall
  <1>10. ReleasesAll'
    BY <1>2, <1>3, <1>5 DEF SmfInv, ReleasesAll, InCall
  <1>11. QED
    BY <1>6, <1>7, <1>8, <1>9, <1>10 DEF SmfInv

\* A turn of the loop that delivers nothing.
LEMMA TurnWithoutCall ==
    ASSUME SmfInv, call = None, phase \notin {"releasing", "stopped"},
           NEW i \in Contexts, NEW s \in State, NoDelivery(i, s),
           todo' = todo \ {i},
           s.gen = desired[i].gen, s.applied = desired[i].applied,
           ~s.err => ~s.deleting /\ s.applied = s.gen,
           UNCHANGED <<pcf, generation, phase, failed, agent, calm, life>>
    PROVE  SmfInv'
  <1>1. s # None
    BY ControlPlaneConstants
  <1>2. desired' = [desired EXCEPT ![i] = s] /\ call' = None
    BY DEF NoDelivery
  <1>3. i \in Ids /\ desired[i] # None
    BY DEF Contexts
  <1>4. desired'[i] = s /\ \A j \in Ids : j # i => desired'[j] = desired[j]
    BY <1>2, <1>3 DEF SmfInv, ControlTypeOK
  <1>5. Contexts' = Contexts
    BY <1>1, <1>3, <1>4 DEF Contexts
  <1>6. ControlTypeOK'
    <2>1. desired' \in [Ids -> State \cup {None}]
      BY <1>2 DEF SmfInv, ControlTypeOK
    <2>2. QED
      BY <1>2, <1>5, <2>1 DEF SmfInv, ControlTypeOK, agent
  <1>7. CallIsCurrent'
    BY <1>2 DEF CallIsCurrent
  <1>8. GenerationsReached'
    BY <1>4, <1>5 DEF SmfInv, GenerationsReached, Contexts
  <1>9. Silent'
    BY <1>2, <1>4, <1>5 DEF SmfInv, Silent, Contexts, InCall
  <1>10. ReleasesAll'
    BY <1>2, <1>5 DEF SmfInv, ReleasesAll, InCall
  <1>11. QED
    BY <1>6, <1>7, <1>8, <1>9, <1>10 DEF SmfInv

\* A turn of Reconcile for a context that is not being deleted.
LEMMA RefreshKeeps ==
    ASSUME SmfInv, call = None, phase \notin {"releasing", "stopped"},
           NEW i \in Contexts, ~desired[i].deleting, Refresh(i),
           todo' = todo \ {i},
           UNCHANGED <<pcf, phase, failed, agent, calm, life>>
    PROVE  SmfInv'
  <1> DEFINE s == desired[i]
  <1>1. /\ i \in Ids /\ s \in State
        /\ s.gen \in Nat \ {0} /\ s.applied \in Nat /\ generation \in Nat
        /\ s.err \in BOOLEAN /\ s.deleting = FALSE
        /\ s.applied <= s.gen /\ s.gen <= generation
    BY DEF SmfInv, ControlTypeOK, State, Contexts, Gens, GenerationsReached
  <1>2. PICK read \in Readings(s.spec.dnn), due \in Due(s) :
          IF read \in {None, s.pol}
          THEN /\ IF due
                  THEN Deliver(i, [s EXCEPT !.err = @ \/ read = None])
                  ELSE NoDelivery(i, [s EXCEPT !.err = (read = None)])
               /\ UNCHANGED generation
          ELSE IF GenerationLeft
          THEN generation' = generation + 1 /\ Deliver(i, Renewed(s, read))
          ELSE NoDelivery(i, [s EXCEPT !.err = TRUE]) /\ UNCHANGED generation
    BY DEF Refresh
  <1> HIDE DEF s
  <1>3. CASE read \in {None, s.pol} /\ due
    <2> DEFINE t == [s EXCEPT !.err = @ \/ read = None]
    <2>1. t \in State /\ t.applied = s.applied /\ t.gen = s.gen
      BY <1>1 DEF State
    <2>2. Deliver(i, t) /\ UNCHANGED generation
      BY <1>2, <1>3
    <2> HIDE DEF t
    <2>3. QED
      BY <1>1, <2>1, <2>2, CallBegins DEF SmfInv, ControlTypeOK
  <1>4. CASE read \in {None, s.pol} /\ ~due
    <2> DEFINE t == [s EXCEPT !.err = (read = None)]
    <2>1. /\ t \in State /\ t.applied = s.applied /\ t.gen = s.gen
          /\ t.deleting = FALSE
      BY <1>1 DEF State
    <2>2. s.applied = s.gen
      BY <1>4 DEF Due
    <2>3. NoDelivery(i, t) /\ UNCHANGED generation
      BY <1>2, <1>4
    <2> HIDE DEF t
    <2>4. QED
      BY <1>1, <2>1, <2>2, <2>3, TurnWithoutCall DEF s
  <1>5. CASE read \notin {None, s.pol} /\ GenerationLeft
    <2> DEFINE t == Renewed(s, read)
    <2>1. read \in Policies
      <3>1. s.spec.dnn \in Dnns
        BY <1>1, ControlPlaneConstants DEF State
      <3>2. QED
        BY <1>5, <3>1 DEF Readings, SmfInv, ControlTypeOK
    <2>2. generation + 1 \in Gens /\ generation' = generation + 1
      BY <1>1, <1>2, <1>5, ControlPlaneConstants DEF GenerationLeft, Gens
    <2>3. /\ t \in State /\ t.applied = s.applied /\ t.gen = generation + 1
      BY <1>1, <2>1, <2>2 DEF State, Renewed
    <2>4. Deliver(i, t)
      BY <1>2, <1>5
    <2> HIDE DEF t
    <2>5. QED
      BY <1>1, <2>2, <2>3, <2>4, CallBegins
  <1>6. CASE read \notin {None, s.pol} /\ ~GenerationLeft
    <2> DEFINE t == [s EXCEPT !.err = TRUE]
    <2>1. t \in State /\ t.applied = s.applied /\ t.gen = s.gen /\ t.err
      BY <1>1 DEF State
    <2>2. NoDelivery(i, t) /\ UNCHANGED generation
      BY <1>2, <1>6
    <2> HIDE DEF t
    <2>3. QED
      BY <1>1, <2>1, <2>2, TurnWithoutCall DEF s
  <1>7. QED
    BY <1>3, <1>4, <1>5, <1>6

\* Execute tells the daemon's table; the SMF sees the answer, if that.
LEMMA ExecuteTypes ==
    ASSUME SmfInv, NEW r \in Request, NEW ok, Execute(r, ok)
    PROVE  writer' \in [Ids -> 1 .. MaxLives]
  BY DEF Execute, SmfInv, ControlTypeOK, Request

LEMMA SmfStep ==
    ASSUME SmfInv, [Next]_vars
    PROVE  SmfInv'
  <1> USE DEF agent
  <1>1. ASSUME NEW i \in Ids, NEW spec \in SpecsOf[i], Create(i, spec) PROVE SmfInv'
    <2> DEFINE s == [spec |-> spec, pol |-> pcf[spec.dnn], gen |-> generation',
                     applied |-> 0, deleting |-> FALSE, err |-> FALSE]
    <2>1. /\ generation \in Nat /\ generation' = generation + 1
          /\ generation' \in Gens
      BY <1>1, ControlPlaneConstants DEF Create, SmfInv, ControlTypeOK, GenerationLeft, Gens
    <2>2. spec \in Specs /\ pcf[spec.dnn] \in Policies
      BY <1>1, ControlPlaneConstants DEF Create, SmfInv, ControlTypeOK
    <2>3. s \in State
      BY <2>1, <2>2 DEF State
    <2>4. /\ Deliver(i, s) /\ call = None /\ todo' = todo \ {i}
          /\ phase \notin {"releasing", "stopped"}
      BY <1>1 DEF Create, Unlocked
    <2>5. s.applied <= s.gen /\ s.gen <= generation'
      BY <2>1
    <2>6. UNCHANGED <<pcf, phase, failed, agent, calm, life>>
      BY <1>1 DEF Create
    <2> HIDE DEF s
    <2>7. QED
      BY <2>1, <2>3, <2>4, <2>5, <2>6, CallBegins
  <1>2. ASSUME NEW i \in Ids, Remove(i) PROVE SmfInv'
    <2> DEFINE s == [desired[i] EXCEPT !.deleting = TRUE]
    <2>1. desired[i] \in State /\ desired[i].applied <= desired[i].gen
          /\ desired[i].gen <= generation
      BY <1>2 DEF Remove, SmfInv, ControlTypeOK, GenerationsReached, Contexts
    <2>2. s \in State /\ s.applied <= s.gen /\ s.gen <= generation
      BY <2>1 DEF State
    <2>3. /\ Deliver(i, s) /\ call = None /\ todo' = todo \ {i}
          /\ phase \notin {"releasing", "stopped"}
          /\ UNCHANGED <<pcf, generation, phase, failed, agent, calm, life>>
      BY <1>2 DEF Remove, Unlocked
    <2>4. generation \in Gens \cup {0} /\ generation <= generation
      BY DEF SmfInv, ControlTypeOK, Gens
    <2> HIDE DEF s
    <2>5. QED
      BY <2>2, <2>3, <2>4, CallBegins
  <1>3. ASSUME NEW i \in Ids, Turn(i) PROVE SmfInv'
    <2>1. /\ i \in Contexts /\ desired[i] \in State
          /\ desired[i].applied <= desired[i].gen /\ desired[i].gen <= generation
      BY <1>3 DEF Turn, SmfInv, ControlTypeOK, GenerationsReached, Contexts
    <2>2. phase # "stopped" /\ call = None
      BY <1>3 DEF Turn, SmfInv, ReleasesAll
    <2>3. CASE desired[i].deleting \/ phase = "releasing"
      <3> DEFINE s == [desired[i] EXCEPT !.deleting = TRUE]
      <3>1. s \in State /\ s.applied <= s.gen /\ s.gen <= generation /\ s.deleting
        BY <2>1 DEF State
      <3>2. /\ Deliver(i, s) /\ todo' = todo \ {i}
            /\ UNCHANGED <<pcf, generation, phase, failed, agent, calm, life>>
        BY <1>3, <2>3 DEF Turn
      <3>3. generation \in Gens \cup {0} /\ generation <= generation
        BY DEF SmfInv, ControlTypeOK, Gens
      <3> HIDE DEF s
      <3>4. QED
        BY <2>2, <3>1, <3>2, <3>3, CallBegins
    <2>4. CASE ~(desired[i].deleting \/ phase = "releasing")
      BY <1>3, <2>1, <2>2, <2>4, RefreshKeeps DEF Turn
    <2>5. QED
      BY <2>3, <2>4
  <1>4. ASSUME NEW ok \in BOOLEAN, Handle(ok) PROVE SmfInv'
    <2>1. call # None /\ call \in Request /\ Execute(call, ok)
      BY <1>4 DEF Handle, SmfInv, ControlTypeOK
    <2>2. writer' \in [Ids -> 1 .. MaxLives]
      BY <2>1, ExecuteTypes
    <2>3. late' \subseteq Request /\ overtaken' \subseteq Ids
          /\ UNCHANGED <<pcf, generation, phase, todo, calm, life>>
      BY <1>4 DEF Handle, SmfInv, ControlTypeOK
    <2>4. EndCall(ok) \/ EndCall(FALSE)
      BY <1>4 DEF Handle
    <2>5. QED
      BY <2>1, <2>2, <2>3, <2>4, CallEnds
  <1>5. CASE TimeOut
    <2>1. /\ call # None /\ EndCall(FALSE)
          /\ UNCHANGED <<pcf, generation, phase, todo, calm, life>>
          /\ late' \subseteq Request /\ writer' \in [Ids -> 1 .. MaxLives]
          /\ overtaken' \subseteq Ids
      BY <1>5 DEF TimeOut, Abandon, SmfInv, ControlTypeOK
    <2>2. QED
      BY <2>1, CallEnds
  <1>6. CASE Poll \/ Stop \/ Release \/ Return
    <2>1. /\ call' = call /\ desired' = desired /\ Contexts' = Contexts
          /\ generation' = generation /\ life' = life /\ failed' = failed
      BY <1>6 DEF Poll, Stop, Release, Return, Contexts
    <2>2. ControlTypeOK'
      BY <1>6, <2>1 DEF SmfInv, ControlTypeOK, Poll, Stop, Release, Return, Contexts
    <2>3. CallIsCurrent'
      BY <1>6, <2>1 DEF SmfInv, CallIsCurrent, Poll, Stop, Release, Return, Unlocked
    <2>4. GenerationsReached' /\ Silent'
      BY <2>1 DEF SmfInv, GenerationsReached, Silent, InCall
    <2>5. ReleasesAll'
      BY <1>6, <2>1 DEF SmfInv, ReleasesAll, InCall, Poll, Stop, Release, Return, Unlocked
    <2>6. QED
      BY <2>2, <2>3, <2>4, <2>5 DEF SmfInv
  <1>7. CASE Restart
    <2>1. /\ desired' = [j \in Ids |-> None] /\ Contexts' = {} /\ call' = None
          /\ phase' = "running"
      BY <1>7 DEF Restart, Contexts
    <2>2. life' \in 1 .. MaxLives
      BY <1>7, ControlPlaneConstants DEF Restart, SmfInv, ControlTypeOK
    <2>3. late' \subseteq Request
      BY <1>7 DEF Restart, Abandon, SmfInv, ControlTypeOK
    <2>4. ControlTypeOK'
      BY <1>7, <2>1, <2>2, <2>3 DEF Restart, SmfInv, ControlTypeOK
    <2>5. QED
      BY <2>1, <2>4 DEF SmfInv, CallIsCurrent, GenerationsReached, Silent, ReleasesAll
  <1>8. ASSUME UNCHANGED smf, UNCHANGED life,
               pcf' \in [Dnns -> Policies \cup {None}], late' \subseteq Request,
               writer' \in [Ids -> 1 .. MaxLives], overtaken' \subseteq Ids,
               calm' \in BOOLEAN
        PROVE  SmfInv'
    BY <1>8 DEF SmfInv, ControlTypeOK, CallIsCurrent, GenerationsReached, Silent,
                ReleasesAll, InCall, Contexts, smf
  <1>9. ASSUME NEW r \in late, NEW ok \in BOOLEAN, HandleLate(r, ok) PROVE SmfInv'
    <2>1. r \in Request
      BY DEF SmfInv, ControlTypeOK
    <2>2. writer' \in [Ids -> 1 .. MaxLives]
      BY <1>9, <2>1, ExecuteTypes DEF HandleLate
    <2>3. overtaken' \subseteq Ids
      BY <1>9, <2>1 DEF HandleLate, SmfInv, ControlTypeOK, Request
    <2>4. QED
      BY <1>8, <1>9, <2>2, <2>3 DEF HandleLate, SmfInv, ControlTypeOK
  <1>10. CASE Upkeep \/ AgentRestart \/ Weather \/ UNCHANGED vars
    BY <1>8, <1>10 DEF Upkeep, AgentRestart, Weather, vars, SmfInv, ControlTypeOK
  <1>11. ASSUME NEW dnn \in Dnns, NEW pol \in Policies, PutPolicy(dnn, pol)
         PROVE  SmfInv'
    BY <1>8, <1>11 DEF PutPolicy, SmfInv, ControlTypeOK
  <1>12. QED
    BY <1>1, <1>2, <1>3, <1>4, <1>5, <1>6, <1>7, <1>9, <1>10, <1>11 DEF Next, Ends

LEMMA SmfInit ==
    ASSUME Init PROVE SmfInv
  <1>1. desired = [i \in Ids |-> None] /\ Contexts = {}
    BY DEF Init, Contexts
  <1>2. 1 \in 1 .. MaxLives
    BY ControlPlaneConstants
  <1>3. ControlTypeOK
    BY <1>1, <1>2 DEF Init, ControlTypeOK
  <1>4. QED
    BY <1>1, <1>3
       DEF Init, SmfInv, CallIsCurrent, GenerationsReached, Silent, ReleasesAll

LEMMA SmfInvariant == Spec => []SmfInv
  BY SmfInit, SmfStep, PTL DEF Spec

\* The SMF's contexts, its generations and its calls keep their types: no
\* generation is handed out beyond the last one.
THEOREM ControlTypeCorrect == Spec => []ControlTypeOK
  BY SmfInvariant, PTL DEF SmfInv

\* GET never shows a context without LastError that is not applied or not
\* deleted, whatever the agent and the PCF answer.
THEOREM SilenceIsApplied == Spec => []SilenceMeansApplied
  <1>1. SmfInv => SilenceMeansApplied
    BY DEF SmfInv, Silent, InCall, SilenceMeansApplied, Unlocked
  <1>2. QED
    BY <1>1, SmfInvariant, PTL
-----------------------------------------------------------------------------
(* The SMF and the agent's table, but for the ids in overtaken. *)

Entry == [spec : Specs, pol : Policies, gen : Gens, deleting : BOOLEAN]

\* The SMF says that the context is applied.
Claims(i) ==
    /\ desired[i] # None
    /\ ~desired[i].deleting
    /\ desired[i].applied = desired[i].gen

Assigned(i) == Agent!Context(desired[i].spec, desired[i].gen, desired[i].pol)

Known ==
    \A i \in Ids \ overtaken :
        table[i] # None /\ writer[i] = life => desired[i] # None

Held ==
    \A i \in Ids \ overtaken :
        table[i] # None /\ Claims(i) => table[i] = Assigned(i)

LinkInv ==
    /\ \A r \in late : r.life <= life
    /\ table \in [Ids -> Entry \cup {None}]
    /\ \A i \in Ids : writer[i] <= life
    /\ Known
    /\ Held

\* A pass over the connections forgets contexts and does nothing else to them.
LEMMA PassForgets ==
    ASSUME NEW ctxs \in [Ids -> Entry \cup {None}], Agent!Pass(ctxs)
    PROVE  /\ table' \in [Ids -> Entry \cup {None}]
           /\ \A j \in Ids : table'[j] \in {None, ctxs[j]}
  BY DEF Agent!Pass

\* What the agent executes for a call; other contexts are at most forgotten.
LEMMA ExecuteEffect ==
    ASSUME SmfInv, LinkInv, NEW r \in Request, NEW ok \in BOOLEAN, Execute(r, ok)
    PROVE  /\ table' \in [Ids -> Entry \cup {None}]
           /\ \A j \in Ids : j # r.id =>
                 table'[j] \in {None, table[j]} /\ writer'[j] = writer[j]
           /\ r.deleting => writer' = writer /\ (ok => table'[r.id] = None)
           /\ ~r.deleting =>
                 \/ /\ table'[r.id] \in {None, Agent!Context(r.spec, r.gen, r.pol)}
                    /\ writer'[r.id] = r.life
                 \/ ~ok /\ UNCHANGED <<table, writer>>
  <1> DEFINE new == Agent!Context(r.spec, r.gen, r.pol)
  <1>1. /\ table \in [Ids -> Entry \cup {None}] /\ r.id \in Ids
        /\ writer \in [Ids -> 1 .. MaxLives]
    BY DEF LinkInv, SmfInv, ControlTypeOK, Request
  <1>2. new \in Entry
    BY DEF Agent!Context, Entry, Request
  <1>3. CASE r.deleting /\ Agent!Delete(r.id) /\ Passes(ok) /\ UNCHANGED writer
    <2> DEFINE ctxs == IF table[r.id] = None THEN table
                       ELSE [table EXCEPT ![r.id].deleting = TRUE]
    <2>1. /\ ctxs \in [Ids -> Entry \cup {None}]
          /\ \A j \in Ids : j # r.id => ctxs[j] = table[j]
          /\ ctxs[r.id] # None => ctxs[r.id].deleting = TRUE
      BY <1>1 DEF Entry
    <2>2. Agent!Pass(ctxs)
      BY <1>3 DEF Agent!Delete
    <2> HIDE DEF ctxs
    <2>3. /\ table' \in [Ids -> Entry \cup {None}]
          /\ \A j \in Ids : table'[j] \in {None, ctxs[j]}
      BY <2>1, <2>2, PassForgets
    <2>4. ok => table'[r.id] = None
      <3>1. ok => Settled'
        BY <1>3 DEF Passes
      <3>2. QED
        BY <1>1, <2>1, <2>3, <3>1 DEF Settled
    <2>5. QED
      BY <1>3, <2>1, <2>3, <2>4
  <1>4. CASE /\ ~r.deleting
             /\ Agent!Put(r.id, r.spec, r.gen, r.pol)
             /\ writer' = [writer EXCEPT ![r.id] = r.life]
    <2> DEFINE ctxs == [table EXCEPT ![r.id] = new]
    <2>1. /\ ctxs \in [Ids -> Entry \cup {None}]
          /\ \A j \in Ids : j # r.id => ctxs[j] = table[j]
          /\ ctxs[r.id] = new
      BY <1>1, <1>2
    <2>2. Agent!Pass(ctxs)
      BY <1>4 DEF Agent!Put
    <2> HIDE DEF ctxs, new
    <2>3. /\ table' \in [Ids -> Entry \cup {None}]
          /\ \A j \in Ids : table'[j] \in {None, ctxs[j]}
      BY <2>1, <2>2, PassForgets
    <2>4. writer'[r.id] = r.life /\ \A j \in Ids : j # r.id => writer'[j] = writer[j]
      BY <1>1, <1>4
    <2>5. QED
      BY <1>1, <1>4, <2>1, <2>3, <2>4 DEF new
  <1>5. CASE ~r.deleting /\ ~ok /\ UNCHANGED <<table, writer>>
    BY <1>1, <1>5
  <1>6. QED
    BY <1>3, <1>4, <1>5 DEF Execute

\* Steps of the SMF, the PCF and the agent that create no context at the
\* agent and make the SMF forget and claim none.
LEMMA LinkKeeps ==
    ASSUME LinkInv, \A r \in late' : r.life <= life, UNCHANGED <<writer, life>>,
           \A j \in Ids : j \in overtaken => j \in overtaken' \/ table'[j] = None,
           table' \in [Ids -> Entry \cup {None}],
           \A j \in Ids : table'[j] \in {None, table[j]},
           \A j \in Ids : desired[j] # None => desired'[j] # None,
           \A j \in Ids : Claims(j)' => Claims(j) /\ Assigned(j)' = Assigned(j)
    PROVE  LinkInv'
  <1>1. Known'
    BY DEF LinkInv, Known
  <1>2. Held'
    <2> SUFFICES ASSUME NEW j \in Ids \ overtaken', table'[j] # None, Claims(j)'
                 PROVE  table'[j] = Assigned(j)'
      BY DEF Held
    <2>1. Claims(j) /\ Assigned(j)' = Assigned(j) /\ table'[j] = table[j]
      OBVIOUS
    <2>2. QED
      BY <2>1 DEF LinkInv, Held
  <1>3. QED
    BY <1>1, <1>2 DEF LinkInv

\* The end of a call that the agent has executed, or has not.
LEMMA CallEndKeepsLink ==
    ASSUME SmfInv, LinkInv, call # None, NEW ok \in BOOLEAN, Execute(call, ok),
           EndCall(ok) \/ EndCall(FALSE), UNCHANGED <<late, life>>,
           overtaken' = IF ok THEN overtaken \ {call.id} ELSE overtaken
    PROVE  LinkInv'
  <1>0. PICK i \in Ids : i = call.id
    BY DEF SmfInv, ControlTypeOK, Request
  <1> DEFINE s == desired[i]
  <1>1. /\ call \in Request /\ s \in State /\ s # None
        /\ desired \in [Ids -> State \cup {None}] /\ life \in 1 .. MaxLives
        /\ call.deleting = s.deleting /\ call.life = life
        /\ Agent!Context(call.spec, call.gen, call.pol) = Assigned(i)
    BY <1>0 DEF SmfInv, ControlTypeOK, CallIsCurrent, Request, State, Assigned
  <1>2. /\ table' \in [Ids -> Entry \cup {None}]
        /\ \A j \in Ids : j # i =>
              table'[j] \in {None, table[j]} /\ writer'[j] = writer[j]
        /\ s.deleting => writer' = writer /\ (ok => table'[i] = None)
        /\ ~s.deleting =>
              \/ table'[i] \in {None, Assigned(i)} /\ writer'[i] = life
              \/ ~ok /\ UNCHANGED <<table, writer>>
    BY <1>0, <1>1, ExecuteEffect
  <1>3. /\ \A j \in Ids : j # i => desired'[j] = desired[j]
        /\ \/ ok /\ desired'[i] = Delivered(s)
           \/ desired'[i] = Undelivered(s)
    BY <1>0, <1>1 DEF EndCall
  <1>4. desired'[i] = None => ok /\ s.deleting
    <2>1. CASE ok /\ desired'[i] = Delivered(s)
      <3>1. [s EXCEPT !.applied = s.gen, !.err = FALSE] \in State
        BY <1>1 DEF State
      <3>2. QED
        BY <2>1, <3>1, ControlPlaneConstants DEF Delivered
    <2>2. CASE desired'[i] = Undelivered(s)
      <3>1. Undelivered(s) \in State
        BY <1>1 DEF State, Undelivered
      <3>2. QED
        BY <2>2, <3>1, ControlPlaneConstants
    <2>3. QED
      BY <1>3, <2>1, <2>2
  <1>5. desired'[i] # None =>
          /\ desired'[i].deleting = s.deleting /\ desired'[i].gen = s.gen
          /\ desired'[i].spec = s.spec /\ desired'[i].pol = s.pol
          /\ ok \/ desired'[i].applied = s.applied
    <2>1. CASE ok /\ desired'[i] = Delivered(s)
      BY <1>1, <2>1 DEF Delivered, State
    <2>2. CASE desired'[i] = Undelivered(s)
      BY <1>1, <2>2 DEF Undelivered, State
    <2>3. QED
      BY <1>3, <2>1, <2>2
  <1> HIDE DEF s
  <1>6. \A j \in Ids : writer'[j] <= life'
    <2>1. \A j \in Ids : writer[j] <= life /\ life <= life
      BY <1>1 DEF LinkInv
    <2>2. QED
      BY <1>1, <1>2, <2>1
  <1>7. Known'
    <2> SUFFICES ASSUME NEW j \in Ids \ overtaken', table'[j] # None, writer'[j] = life'
                 PROVE  desired'[j] # None
      BY DEF Known
    <2>1. CASE j # i
      BY <1>0, <1>2, <1>3, <2>1 DEF LinkInv, Known
    <2>2. CASE j = i
      BY <1>2, <1>4, <2>2
    <2>3. QED
      BY <2>1, <2>2
  <1>8. Held'
    <2> SUFFICES ASSUME NEW j \in Ids \ overtaken', table'[j] # None, Claims(j)'
                 PROVE  table'[j] = Assigned(j)'
      BY DEF Held
    <2>1. CASE j # i
      BY <1>0, <1>2, <1>3, <2>1 DEF LinkInv, Held, Claims, Assigned
    <2>2. CASE j = i
      <3>1. ~s.deleting /\ Assigned(i)' = Assigned(i)
        BY <1>5, <2>2 DEF Claims, Assigned, s
      <3>2. CASE table'[i] \in {None, Assigned(i)}
        BY <2>2, <3>1, <3>2
      <3>3. CASE ~ok /\ UNCHANGED table
        <4>1. Claims(i)
          BY <1>1, <1>5, <2>2, <3>3 DEF Claims, s
        <4>2. i \notin overtaken
          BY <2>2, <3>3
        <4>3. QED
          BY <2>2, <3>1, <3>3, <4>1, <4>2 DEF LinkInv, Held
      <3>4. QED
        BY <1>2, <3>1, <3>2, <3>3
    <2>3. QED
      BY <2>1, <2>2
  <1>9. QED
    BY <1>2, <1>6, <1>7, <1>8 DEF LinkInv

\* A turn puts off no claim that it leaves standing.
LEMMA TurnKeepsLink ==
    ASSUME SmfInv, LinkInv, NEW i \in Ids, Turn(i)
    PROVE  LinkInv'
  <1> DEFINE s == desired[i]
  <1>1. /\ s \in State /\ s # None /\ desired \in [Ids -> State \cup {None}]
        /\ s.gen \in Nat /\ s.applied \in Nat /\ generation \in Nat
        /\ s.applied <= generation
    BY DEF Turn, SmfInv, ControlTypeOK, GenerationsReached, Contexts, State, Gens
  <1>2. PICK t :
          /\ desired' = [desired EXCEPT ![i] = t]
          /\ \/ t = [s EXCEPT !.deleting = TRUE]
             \/ \E err \in BOOLEAN : t = [s EXCEPT !.err = err]
             \/ \E read \in Policies : GenerationLeft /\ t = Renewed(s, read)
    <2>1. CASE s.deleting \/ phase = "releasing"
      BY <2>1 DEF Turn, Deliver
    <2>2. CASE ~(s.deleting \/ phase = "releasing")
      <3>1. PICK read \in Readings(s.spec.dnn), due \in Due(s) :
              IF read \in {None, s.pol}
              THEN /\ IF due
                      THEN Deliver(i, [s EXCEPT !.err = @ \/ read = None])
                      ELSE NoDelivery(i, [s EXCEPT !.err = (read = None)])
                   /\ UNCHANGED generation
              ELSE IF GenerationLeft
              THEN generation' = generation + 1 /\ Deliver(i, Renewed(s, read))
              ELSE NoDelivery(i, [s EXCEPT !.err = TRUE]) /\ UNCHANGED generation
        BY <2>2 DEF Turn, Refresh
      <3>2. read \in Policies \cup {None}
        <4>1. s.spec.dnn \in Dnns
          BY <1>1, ControlPlaneConstants DEF State
        <4>2. QED
          BY <4>1 DEF Readings, SmfInv, ControlTypeOK
      <3>3. s.err \in BOOLEAN
        BY <1>1 DEF State
      <3>4. CASE read \in {None, s.pol} /\ due
        <4>1. desired' = [desired EXCEPT ![i] = [s EXCEPT !.err = s.err \/ read = None]]
          BY <3>1, <3>4 DEF Deliver
        <4>2. (s.err \/ read = None) \in BOOLEAN
          OBVIOUS
        <4>3. QED
          BY <4>1, <4>2
      <3>5. CASE read \in {None, s.pol} /\ ~due
        <4>1. desired' = [desired EXCEPT ![i] = [s EXCEPT !.err = (read = None)]]
          BY <3>1, <3>5 DEF NoDelivery
        <4>2. (read = None) \in BOOLEAN
          OBVIOUS
        <4>3. QED
          BY <4>1, <4>2
      <3>6. CASE read \notin {None, s.pol}
        <4>1. \/ GenerationLeft /\ desired' = [desired EXCEPT ![i] = Renewed(s, read)]
              \/ desired' = [desired EXCEPT ![i] = [s EXCEPT !.err = TRUE]]
          BY <3>1, <3>6 DEF Deliver, NoDelivery
        <4>2. QED
          BY <3>2, <3>6, <4>1
      <3>7. QED
        BY <3>4, <3>5, <3>6
    <2>3. QED
      BY <2>1, <2>2
  <1>3. /\ t # None
        /\ ~t.deleting /\ t.applied = t.gen =>
              /\ ~s.deleting /\ s.applied = s.gen
              /\ t.spec = s.spec /\ t.gen = s.gen /\ t.pol = s.pol
    <2>1. CASE t = [s EXCEPT !.deleting = TRUE]
      BY <1>1, <2>1, ControlPlaneConstants DEF State
    <2>2. CASE \E err \in BOOLEAN : t = [s EXCEPT !.err = err]
      BY <1>1, <2>2, ControlPlaneConstants DEF State
    <2>3. CASE \E read \in Policies : GenerationLeft /\ t = Renewed(s, read)
      <3>1. generation + 1 \in Gens
        BY <1>1, <2>3, ControlPlaneConstants DEF GenerationLeft, Gens
      <3>2. t \in State /\ t.applied = s.applied /\ t.gen = generation + 1
        BY <1>1, <2>3, <3>1 DEF State, Renewed
      <3>3. t.applied # t.gen
        BY <1>1, <3>2
      <3>4. QED
        BY <3>2, <3>3, ControlPlaneConstants
    <2>4. QED
      BY <1>2, <2>1, <2>2, <2>3
  <1>4. desired'[i] = t /\ \A j \in Ids : j # i => desired'[j] = desired[j]
    BY <1>1, <1>2
  <1>5. \A j \in Ids : desired[j] # None => desired'[j] # None
    BY <1>3, <1>4
  <1>6. \A j \in Ids : Claims(j)' => Claims(j) /\ Assigned(j)' = Assigned(j)
    BY <1>1, <1>3, <1>4 DEF Claims, Assigned
  <1>7. UNCHANGED <<table, late, writer, overtaken, life>>
    BY DEF Turn, agent
  <1>8. QED
    BY <1>5, <1>6, <1>7, LinkKeeps DEF LinkInv

\* A request is of the process that makes it.
LEMMA LateIsOfThePast ==
    ASSUME SmfInv, LinkInv, Abandon
    PROVE  \A r \in late' : r.life <= life
  <1>1. call # None => call.life = life
    BY DEF SmfInv, CallIsCurrent
  <1>2. life <= life
    BY DEF SmfInv, ControlTypeOK
  <1>3. QED
    BY <1>1, <1>2 DEF Abandon, LinkInv

\* A handler whose client is gone changes the context of its id, which it
\* marks, and makes the agent forget others at most.
LEMMA LateKeepsLink ==
    ASSUME SmfInv, LinkInv, NEW r \in late, NEW ok \in BOOLEAN, HandleLate(r, ok)
    PROVE  LinkInv'
  <1>1. /\ r \in Request /\ Execute(r, ok) /\ r.life <= life
        /\ late' \subseteq late /\ UNCHANGED <<desired, life>>
        /\ overtaken' = IF UNCHANGED <<table, writer>> THEN overtaken
                        ELSE overtaken \cup {r.id}
    BY DEF HandleLate, smf, SmfInv, ControlTypeOK, LinkInv
  <1>2. /\ table' \in [Ids -> Entry \cup {None}]
        /\ \A j \in Ids : j # r.id =>
              table'[j] \in {None, table[j]} /\ writer'[j] = writer[j]
        /\ writer'[r.id] \in {writer[r.id], r.life}
    BY <1>1, ExecuteEffect
  <1>3. \A j \in Ids : writer'[j] <= life'
    BY <1>1, <1>2 DEF LinkInv
  <1>4. \A j \in Ids \ overtaken' :
            /\ j \notin overtaken
            /\ table'[j] \in {None, table[j]} /\ writer'[j] = writer[j]
    BY <1>1, <1>2
  <1>5. \A j \in Ids : Claims(j)' = Claims(j) /\ Assigned(j)' = Assigned(j)
    BY <1>1 DEF Claims, Assigned
  <1>6. Known' /\ Held'
    BY <1>1, <1>4, <1>5 DEF LinkInv, Known, Held
  <1>7. QED
    BY <1>1, <1>2, <1>3, <1>6 DEF LinkInv

LEMMA LinkStep ==
    ASSUME SmfInv, LinkInv, [Next]_vars
    PROVE  LinkInv'
  <1> USE DEF agent, smf
  <1>0. /\ \A r \in late : r.life <= life
        /\ table \in [Ids -> Entry \cup {None}]
        /\ \A j \in Ids : table[j] \in {None, table[j]}
    BY DEF LinkInv
  <1>1. ASSUME UNCHANGED <<desired, writer, life>>, late' \subseteq late,
               \A j \in Ids : j \in overtaken => j \in overtaken' \/ table'[j] = None,
               table' \in [Ids -> Entry \cup {None}],
               \A j \in Ids : table'[j] \in {None, table[j]}
        PROVE  LinkInv'
    <2>1. \A j \in Ids : Claims(j)' => Claims(j) /\ Assigned(j)' = Assigned(j)
      BY <1>1 DEF Claims, Assigned
    <2>2. QED
      BY <1>0, <1>1, <2>1, LinkKeeps
  <1>2. ASSUME NEW i \in Ids, NEW spec \in SpecsOf[i], Create(i, spec) PROVE LinkInv'
    <2>1. /\ \A j \in Ids : j # i => desired'[j] = desired[j]
          /\ desired[i] = None
          /\ desired'[i].applied = 0 /\ desired'[i].gen = generation + 1
          /\ generation \in Nat
      BY <1>2 DEF Create, Deliver, SmfInv, ControlTypeOK, Gens
    <2>2. UNCHANGED <<table, late, writer, overtaken, life>>
      BY <1>2 DEF Create
    <2>3. \A j \in Ids : desired[j] # None => desired'[j] # None
      BY <2>1
    <2>4. \A j \in Ids : Claims(j)' => Claims(j) /\ Assigned(j)' = Assigned(j)
      BY <2>1 DEF Claims, Assigned
    <2>5. QED
      BY <1>0, <2>2, <2>3, <2>4, LinkKeeps
  <1>3. ASSUME NEW i \in Ids, Remove(i) PROVE LinkInv'
    <2> DEFINE s == [desired[i] EXCEPT !.deleting = TRUE]
    <2>1. s \in State /\ s.deleting
      BY <1>3 DEF Remove, SmfInv, ControlTypeOK, State
    <2>2. desired'[i] = s /\ \A j \in Ids : j # i => desired'[j] = desired[j]
      BY <1>3 DEF Remove, Deliver, SmfInv, ControlTypeOK
    <2>3. UNCHANGED <<table, late, writer, overtaken, life>>
      BY <1>3 DEF Remove
    <2> HIDE DEF s
    <2>4. \A j \in Ids : desired[j] # None => desired'[j] # None
      BY <2>1, <2>2, ControlPlaneConstants
    <2>5. \A j \in Ids : Claims(j)' => Claims(j) /\ Assigned(j)' = Assigned(j)
      BY <2>1, <2>2 DEF Claims, Assigned
    <2>6. QED
      BY <1>0, <2>3, <2>4, <2>5, LinkKeeps
  <1>4. ASSUME NEW i \in Ids, Turn(i) PROVE LinkInv'
    BY <1>4, TurnKeepsLink
  <1>5. ASSUME NEW ok \in BOOLEAN, Handle(ok) PROVE LinkInv'
    BY <1>5, CallEndKeepsLink DEF Handle
  <1>6. CASE TimeOut
    <2>1. /\ call # None /\ EndCall(FALSE)
          /\ \A r \in late' : r.life <= life
          /\ UNCHANGED <<table, writer, overtaken, life>>
      BY <1>6, LateIsOfThePast DEF TimeOut
    <2>2. PICK k \in Ids : k = call.id /\ desired[k] \in State
      BY <2>1 DEF SmfInv, ControlTypeOK, CallIsCurrent, Request
    <2>3. /\ desired'[k] = Undelivered(desired[k])
          /\ \A j \in Ids : j # k => desired'[j] = desired[j]
      BY <2>1, <2>2 DEF EndCall, SmfInv, ControlTypeOK
    <2>4. /\ desired'[k] \in State
          /\ desired'[k].deleting = desired[k].deleting
          /\ desired'[k].applied = desired[k].applied /\ desired'[k].gen = desired[k].gen
          /\ desired'[k].spec = desired[k].spec /\ desired'[k].pol = desired[k].pol
      BY <2>2, <2>3 DEF Undelivered, State
    <2>5. \A j \in Ids : desired[j] # None => desired'[j] # None
      BY <2>3, <2>4, ControlPlaneConstants
    <2>6. \A j \in Ids : Claims(j)' => Claims(j) /\ Assigned(j)' = Assigned(j)
      <3>1. desired[k] # None
        BY <2>2, ControlPlaneConstants
      <3>2. QED
        BY <2>3, <2>4, <3>1 DEF Claims, Assigned
    <2>7. QED
      BY <1>0, <2>1, <2>5, <2>6, LinkKeeps
  <1>7. CASE Restart
    <2>1. /\ life' = life + 1 /\ UNCHANGED <<table, writer>>
          /\ \A r \in late' : r.life <= life
          /\ desired' = [j \in Ids |-> None]
      BY <1>7, LateIsOfThePast DEF Restart
    <2>2. \A j \in Ids : writer[j] < life' /\ writer[j] <= life'
      BY <2>1 DEF LinkInv, SmfInv, ControlTypeOK
    <2>3. \A r \in late' : r.life <= life'
      <3>1. late' \subseteq Request
        BY <1>7 DEF Restart, Abandon, SmfInv, ControlTypeOK
      <3>2. QED
        BY <2>1, <3>1 DEF SmfInv, ControlTypeOK, Request
    <2>4. QED
      BY <1>0, <2>1, <2>2, <2>3 DEF LinkInv, Known, Held, Claims
  <1>8. CASE \E r \in late, ok \in BOOLEAN : HandleLate(r, ok)
    BY <1>8, LateKeepsLink
  <1>9. CASE Upkeep
    <2>1. Agent!Pass(table) /\ UNCHANGED <<desired, late, writer, overtaken, life>>
      BY <1>9 DEF Upkeep, Agent!Upkeep
    <2>2. QED
      BY <1>0, <1>1, <2>1, PassForgets
  <1>10. CASE AgentRestart
    BY <1>1, <1>10 DEF AgentRestart
  <1>11. CASE \/ Poll \/ Stop \/ Release \/ Return \/ Weather \/ UNCHANGED vars
              \/ \E dnn \in Dnns, pol \in Policies : PutPolicy(dnn, pol)
    <2>1. UNCHANGED <<desired, table, late, writer, overtaken, life>>
      BY <1>11 DEF Poll, Stop, Release, Return, Weather, PutPolicy, vars
    <2>2. QED
      BY <1>0, <1>1, <2>1
  <1>12. QED
    BY <1>2, <1>3, <1>4, <1>5, <1>6, <1>7, <1>8, <1>9, <1>10, <1>11 DEF Next, Ends

LEMMA LinkInit ==
    ASSUME Init PROVE LinkInv
  BY DEF Init, LinkInv, Known, Held

LEMMA LinkInvariant == Spec => [](SmfInv /\ LinkInv)
  BY SmfInit, SmfStep, LinkInit, LinkStep, PTL DEF Spec

\* For every number of contexts and requests: no failed, repeated or lost call
\* makes the SMF forget a context the agent has; only a request whose client
\* has given up can bring such a context about, against deliver's comment.
THEOREM ContextsStayKnown == Spec => []ContextsAreKnown
  <1>1. LinkInv => ContextsAreKnown
    BY DEF LinkInv, Known, ContextsAreKnown, OfThisProcess
  <1>2. QED
    BY <1>1, LinkInvariant, PTL

\* Release without an error has deleted every context of its process, but for
\* what a request that Release or an earlier caller gave up brings back.
THEOREM StopIsClean == Spec => []CleanStop
  <1>1. SmfInv /\ LinkInv => CleanStop
    <2> SUFFICES ASSUME SmfInv, LinkInv, phase = "stopped", ~failed,
                        NEW i \in Ids, OfThisProcess(i)
                 PROVE  i \in overtaken
      BY DEF CleanStop
    <2>1. desired[i] = None
      BY DEF SmfInv, ReleasesAll, InCall, Contexts
    <2>2. QED
      BY <2>1 DEF LinkInv, Known, OfThisProcess
  <1>2. QED
    BY <1>1, LinkInvariant, PTL

\* deliver's AppliedGeneration: the agent has this generation, policy and all,
\* or has lost the context, or an abandoned request has changed it since,
\* however often either side was restarted.
THEOREM AppliedStaysHeld == Spec => []AppliedIsHeld
  <1>1. LinkInv => AppliedIsHeld
    BY DEF LinkInv, Held, Claims, Assigned, AppliedIsHeld
  <1>2. QED
    BY <1>1, LinkInvariant, PTL
=============================================================================
