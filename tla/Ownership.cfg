SPECIFICATION Spec
SYMMETRY Interchangeable
CONSTANTS
    main = main  side = side  shared = shared  own = own
    p1 = p1  p2 = p2  p3 = p3
    None = None
    Ledger = {main}
    Lock = {shared}
    LockOf <- MainLock
    LegacyOf <- NoLegacy
    Pid = {p1, p2, p3}
    Program = {"run", "once", "ensure", "restore", "old"}
    MaxBuild = 2
    MaxFaults = 1
    Patient = FALSE
INVARIANTS
    OneWriterPerLedger
    StampsNameCollector
