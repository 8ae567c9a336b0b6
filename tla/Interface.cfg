\* The terminal interface: keys, ticks, writes and flights in any order.
SPECIFICATION Spec
CONSTANTS
  Rows = {r1, r2}
  None = None
  Bounds <- MCBounds
INVARIANTS ShowsWhatIsAsked RefreshIsFinal WatermarkBeforeReads
PROPERTIES NeverRollsBack LoadingEnds
CHECK_DEADLOCK FALSE
