\* The same with one abandoned request whose handler still runs.
SPECIFICATION Spec
CONSTANTS
    None = None
    i1 = i1
    i2 = i2
    net = net
    d1 = d1
    d2 = d2
    Ids = {i1, i2}
    Specs <- MCSpecs
    SpecsOf <- MCSpecsOf
    Policies = {q1, q2}
    Dnns = {net}
    MaxContexts = 2
    MaxUint32 = 2
    MaxLate = 1
    MaxLives = 1
INVARIANT
    PutsNeverOvertake
