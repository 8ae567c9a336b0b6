SPECIFICATION Spec
CONSTANTS
    k1 = k1  k2 = k2  k3 = k3  k4 = k4
    g1 = g1  g2 = g2  r1 = r1  r2 = r2
    a1 = a1  a2 = a2  a3 = a3  skill = skill  c1 = c1  s1 = s1  cell = cell
    None = None
    NoPrice = NoPrice
    Key = {k1, k2, k3, k4}
    Group = {g1, g2}
    Revision = {r1, r2}
    ActivityKey = {a1, a2, a3}
    Dimension = {skill}
    ChangeId = {c1}
    SourceId = {s1}
    AccKey = {cell}
    BatchSize = 1
    PriceEvent <- MCPriceEvent
    Histories <- MCHistories
    Batches <- MCBatches
    SnapshotWrites <- MCSnapshotWrites
INVARIANTS
    RollupExact
    CursorSound
    CheckpointCovered
    ActivityCountsExact
PROPERTIES
    HistoryKept
    CodeChangesNeverRegress
