\* One connection through starts, stops, kills and manual map changes; every
\* stop ends, also with a request that is never answered.
SPECIFICATION FairServe
CONSTANTS
    None = None
    a1 = a1
    a2 = a2
    d1 = d1
    k1 = k1
    k2 = k2
    Ids = {i1}
    Tokens = {t1}
    Addrs = {a1, a2}
    Dests = {d1}
    Pairs = {k1, k2}
    Policies = {q1}
    Gens = {1}
    IfIndexes = {1, 2}
    EventIndexes = {1}
    Flows <- MCFlows
    Specs <- MCSpecs
    Moving = {a1}
    MaxContexts = 1
    MaxConnections = 1
    MaxSubflows = 2
    MapFaults = TRUE
INVARIANTS
    ServeTypeOK
    CleanExitLeavesNothing
    NothingAdopted
PROPERTIES
    StopEnds
    CleanupCompletes
    ErrorsFollowPlans
