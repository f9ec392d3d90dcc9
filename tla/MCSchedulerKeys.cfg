\* Two sockets whose tokens are set, cleared and reused.
SPECIFICATION Spec
CONSTANTS
    None = None
    Word = 256
    k1 = k1
    k2 = k2
    Sockets = {s1, s2}
    Tokens = {t1, t2}
    Subflows = 1
    Pairs = {k1}
    PairOf <- MCOnePair
    RttValues = {1}
    BackupFlags = {FALSE}
    Policies <- MCOnePolicy
    Paths <- MCOnePath
SYMMETRY MCSymmetry
INVARIANTS
    StatsHaveAnOwner
    HistoryIsOfThisKey
