\* What the scheduler sees while a new generation is being staged.
SPECIFICATION Spec
CONSTANTS
    None = None
    Pairs = {k1, k2, k3}
    Policies = {q1}
    Gens = {1, 2}
INVARIANT
    PartialStagingFallsBack
