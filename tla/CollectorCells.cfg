SPECIFICATION FairSpec
CONSTANTS
    daemon = daemon  once = once  log = log  db = db  c1 = c1  c2 = c2
    e1 = e1  e2 = e2  e3 = e3  g1 = g1  g2 = g2  r1 = r1  r2 = r2
    None = None
    NoPrice = NoPrice
    Key <- MCKey
    Group = {g1}
    Revision = {r1}
    PriceEvent <- MCPriceEvent
    BatchSize = 1
    ActivityKey = {}
    Dimension = {}
    ChangeId = {}
    SourceId = {db}
    AccKey = {c1, c2}
    Process = {daemon, once}
    SourceOrder <- DatabaseOnly
    LogOf <- NoLogs
    CellsOf <- OneDatabase
    GroupOf <- MCGroupOf
    RevisionOrder <- OldTables
    Instant = {1, 2, 3, 4}
    MaxCounts = 3
    MaxResets = 1
    MaxFaults = 1
    MaxStalls = 1
INVARIANTS
    NeverOvercounted
PROPERTIES
    EverythingRecorded
