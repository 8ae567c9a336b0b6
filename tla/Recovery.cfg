SPECIFICATION Spec
SYMMETRY Interchangeable
CHECK_DEADLOCK FALSE
CONSTANTS
    p1 = p1  p2 = p2  p3 = p3  h = h  w = w  s = s  n = n
    None = None
    Proc = {p1, p2, p3}
    Program = {"command", "collector", "restore", "reset"}
    Row = {h, w, s, n}
    Latest = 3
    Targets <- Found
    Input <- JustInput
    NewRow = n
    MaxFiles = 4
    MaxFaults = 2
INVARIANTS
    StepsRunOnce
    ReportTrue
    CollectorOnTarget
PROPERTIES
    MainFilesKept
    OwnerMigratesUndoably
