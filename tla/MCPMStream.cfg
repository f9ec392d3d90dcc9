\* One connection with three subflows, a buffer of two messages.
SPECIFICATION StreamSpec
CONSTANTS
    None = None
    a1 = a1
    a2 = a2
    d1 = d1
    k1 = k1
    k2 = k2
    k3 = k3
    Ids = {i1}
    Tokens = {t1}
    Addrs = {a1, a2}
    Dests = {d1}
    Pairs = {k1, k2, k3}
    Policies = {q1}
    Gens = {1}
    IfIndexes = {1}
    EventIndexes = {0}
    Flows <- MCFlows
    Specs <- MCSpecs
    Moving = {}
    MaxContexts = 1
    MaxConnections = 1
    MaxSubflows = 2
    MaxQueue = 2
    MapFaults = TRUE
SYMMETRY MCSymmetry
INVARIANTS
    ViewIsExact
    OnlyFreshAreSteered
    ReadyIsInstalled
