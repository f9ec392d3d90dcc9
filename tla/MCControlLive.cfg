\* One context with either destination, two SMF processes, and an abandoned
\* request whose handler may still run.
SPECIFICATION FairSpec
CONSTANTS
    None = None
    i1 = i1
    i2 = i2
    net = net
    d1 = d1
    d2 = d2
    Ids = {i2}
    Specs <- MCSpecs
    SpecsOf <- MCSpecsOf
    Policies = {q1, q2}
    Dnns = {net}
    MaxContexts = 2
    MaxUint32 = 2
    MaxLate = 1
    MaxLives = 2
INVARIANT
    AppliedIsHeld
PROPERTIES
    Converges
    StopEnds
