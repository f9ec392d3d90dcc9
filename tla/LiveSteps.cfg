\* Three pairs, two generations, an error or a crash at every call.
SPECIFICATION Spec
CONSTANTS
    None = None
    Pairs = {k1, k2, k3}
    Policies = {q1}
    Gens = {1, 2}
INVARIANT
    CommittedIsComplete
PROPERTIES
    ImplementsTransactions
    GenerationAdvances
    DeleteNeverSteersByRemains
