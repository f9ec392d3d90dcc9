\* One connection, two contexts at a time, every input of the daemon, every map failure.
SPECIFICATION Spec
CONSTANTS
    None = None
    a1 = a1
    a2 = a2
    d1 = d1
    d2 = d2
    k1 = k1
    k2 = k2
    Ids = {i1, i2}
    Tokens = {t1}
    Addrs = {a1, a2}
    Dests = {d1, d2}
    Pairs = {k1, k2}
    Policies = {q1}
    Gens = {1, 2}
    IfIndexes = {1, 2}
    EventIndexes = {1}
    Flows <- MCFlows
    Specs <- MCSpecs
    Moving = {a1}
    MaxContexts = 2
    MaxConnections = 1
    MaxSubflows = 2
    MapFaults = TRUE
SYMMETRY MCSymmetry
INVARIANTS
    TypeOK
    EntriesAreOwned
    OwnersExist
    SelectorsAreUnique
    NoErrorMeansInstalled
    PendingHasError
    LivePolicyIsAssigned
PROPERTY
    ImplementsTable
