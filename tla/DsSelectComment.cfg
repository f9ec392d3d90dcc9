\* The words of the header, delta 0 included.
SPECIFICATION Spec
CONSTANTS
    None = None
    wide = wide
    near = near
    far = far
    odd = odd
    a1 = a1
    a2 = a2
    IfNames = {wide, near, far}
    LinkNames = {near, far, odd}
    Addresses = {a1, a2}
    Names = {near}
    Word = 512
    RttValues = {0, 1, 3, 5, 511}
    ShareA = {30}
    Deltas = {0, 2, 511}
    Generations = {0, 1}
    Configs <- MCConfigs
    Assignments <- MCAssignments
INVARIANT
    SwitchOnlyForMore
