SPECIFICATION FairSpec

CONSTANTS
    main = main  side = side  shared = shared  own = own
    p1 = p1  p2 = p2  p3 = p3
    None = None
    Ledger = {main, side}
    Lock = {shared, own}
    LockOf <- TwoLocks
    LegacyOf <- SharedBefore
    Pid = {p1, p2, p3}
    Program = {"ensure"}
    MaxBuild = 2
    MaxFaults = 2
    Patient = TRUE
INVARIANTS
PROPERTIES
    EnsureHeals
