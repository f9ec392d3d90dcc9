\* Weights at the edges and in the middle; unknown, equal, close and extreme
\* RTTs and deltas; legs that come and go; policies of both modes replaced
\* under the same generation and under another; requests no validator takes.
SPECIFICATION Spec
CONSTANTS
    None = None
    wide = wide
    near = near
    far = far
    odd = odd
    a1 = a1
    a2 = a2
    IfNames = {wide, near, far}
    LinkNames = {near, far, odd}
    Addresses = {a1, a2}
    Names = {near}
    Word = 512
    RttValues = {0, 1, 3, 511}
    ShareA = {30, 50, 100}
    Deltas = {0, 2}
    Generations = {0, 1, 2}
    Configs <- MCConfigs
    Assignments <- MCAssignments
INVARIANTS
    TypeOK
    AcceptedIsValid
    CreditsBounded
    ShareIsExact
    ChoosesUsableLeg
    NeverMuchSlower
    SwitchPaysOff
