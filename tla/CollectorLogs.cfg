SPECIFICATION FairSpec
CONSTANTS
    daemon = daemon  once = once  log = log  db = db  c1 = c1  c2 = c2
    e1 = e1  e2 = e2  e3 = e3  g1 = g1  g2 = g2  r1 = r1  r2 = r2
    None = None
    NoPrice = NoPrice
    Key <- MCKey
    Group = {g1, g2}
    Revision = {r1, r2}
    PriceEvent <- MCPriceEvent
    BatchSize = 1
    ActivityKey = {}
    Dimension = {}
    ChangeId = {}
    SourceId = {log, db}
    AccKey = {c1}
    Process = {daemon, once}
    SourceOrder <- Both
    LogOf <- OneLog
    CellsOf <- OneCell
    GroupOf <- MCGroupOf
    RevisionOrder <- NewTables
    Instant = {1, 2}
    MaxCounts = 1
    MaxResets = 0
    MaxFaults = 1
    MaxStalls = 0
INVARIANTS
    CheckpointNeverSkips
PROPERTIES
    LateRatesArrive
