\* Reports, exports and the dashboard, each beside a collector that writes.
SPECIFICATION Spec
CONSTANTS
  Unlucky = "none"
  None = None
  Quarter = 2
  Hour = 4
  Day = 8
  Offset <- MCOffset
  Histories <- MCHistories
  Batches <- MCBatches
  LateCalls <- MCLateCalls
  Questions <- MCQuestions
  Rate <- MCRate
  PageSize = 1
  IdleAfter = 8
  SpanDays = 1
  WeekDays = 2
  RankLimit = 1
  FoldPercent = 65
  MaxSeries = 1
  MaxRows = 3
  Session <- MCSession
  Landed <- MCLanded
  Gaps <- MCGaps
  Prompt <- MCPrompt
  MaxDrops = 2
INVARIANTS SummaryExact ReportsHoldTogether ExportExact SharesNeverInflate
PROPERTY PageCatchesUp
CHECK_DEADLOCK FALSE
