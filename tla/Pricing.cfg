\* One collector, its two feeds and caches, and the commands beside it.
SPECIFICATION Spec
CONSTANTS
    None = None
    p1 = p1
    Collector = {p1}
    Unit = 6
    MaxMicro = 40
    Day = 2
    Lower <- MCLower
    ConfirmedFree <- MCFree
    Published <- MCPublished
    Shipped <- MCShipped
    Configs <- MCConfigs
    Charges <- MCCharges
    Sheets <- MCSheets
INVARIANTS
    RevisionNamesRates
    StatedIsBilled
PROPERTY FollowsFeed
CHECK_DEADLOCK FALSE
