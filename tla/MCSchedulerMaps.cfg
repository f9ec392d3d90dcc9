\* One socket with two subflows; the agent writes between any two lookups.
SPECIFICATION Spec
CONSTANTS
    None = None
    Word = 256
    k1 = k1
    k2 = k2
    Sockets = {s1}
    Tokens = {t1}
    Subflows = 2
    Pairs = {k1, k2}
    PairOf <- MCTwoPairs
    RttValues = {0, 1}
    BackupFlags = {TRUE, FALSE}
    Policies <- MCTwoPolicies
    Paths <- MCTwoPaths
INVARIANTS
    TypeOK
    SteersByOneGeneration
    BackupsAreLast
