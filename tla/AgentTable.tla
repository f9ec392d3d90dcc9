----------------------------- MODULE AgentTable -----------------------------
(***************************************************************************)
(* What the agent promises its caller, the SMF, about contexts, with the   *)
(* connections, maps and host behind them left out: which assignments it   *)
(* accepts, and that a call that ends without an error leaves no deletion  *)
(* behind.  Daemon implements this module and ControlPlane is built on it. *)
(***************************************************************************)
EXTENDS Naturals, FiniteSets

CONSTANTS
    Ids,          \* context ids
    Specs,        \* ContextSpecs: records with a field dest
    Gens,         \* generations
    Policies,     \* policies
    MaxContexts,  \* 1024 in the code
    None          \* no context

VARIABLES
    contexts,  \* the context of every id, or None
    healthy    \* the last pass over the connections found no error

tableVars == <<contexts, healthy>>

Init ==
    /\ contexts = [i \in Ids |-> None]
    /\ healthy  = TRUE

Context(spec, gen, pol) ==
    [spec |-> spec, gen |-> gen, pol |-> pol, deleting |-> FALSE]

Used == {i \in Ids : contexts[i] # None}

\* An id is new together with its destination, or is brought forward.
Accepts(id, new) ==
    IF contexts[id] = None
    THEN /\ Cardinality(Used) < MaxContexts
         /\ \A i \in Used : contexts[i].spec.dest # new.spec.dest
    ELSE /\ contexts[id].spec = new.spec
         /\ ~contexts[id].deleting
         /\ new.gen > contexts[id].gen \/ new = contexts[id]

(***************************************************************************)
(* Every call ends in a pass over the connections, which forgets some of   *)
(* the contexts being deleted; all of them, when it finds no error.        *)
(***************************************************************************)
Forgets(ctxs, i) == ctxs[i] # None /\ ctxs[i].deleting

Pass(ctxs) ==
    /\ \E gone \in SUBSET {i \in Ids : Forgets(ctxs, i)} :
          contexts' = [i \in Ids |-> IF i \in gone THEN None ELSE ctxs[i]]
    /\ healthy' \in BOOLEAN
    /\ healthy' => \A i \in Ids : ~Forgets(contexts', i)

Put(id, spec, gen, pol) ==
    /\ Accepts(id, Context(spec, gen, pol))
    /\ Pass([contexts EXCEPT ![id] = Context(spec, gen, pol)])

Delete(id) ==
    Pass(IF contexts[id] = None THEN contexts
         ELSE [contexts EXCEPT ![id].deleting = TRUE])

\* Retries and observations of the network.
Upkeep == Pass(contexts)

Next ==
    \/ Upkeep
    \/ \E id \in Ids : Delete(id)
    \/ \E id \in Ids, spec \in Specs, gen \in Gens, pol \in Policies :
          Put(id, spec, gen, pol)

Spec == Init /\ [][Next]_tableVars
=============================================================================
