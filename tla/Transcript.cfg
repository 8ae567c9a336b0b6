SPECIFICATION FairSpec
CONSTANTS
    None = None
    Bad = Bad
    m1 = m1
    Format <- MCFormat
    Script <- MCScript
    StartOf <- MCStart
    ReadOf <- MCRead
    WaitsOf <- MCWaits
    ResumableOf <- MCResumable
    StateAfter <- MCStateAfter
    MaxMishaps = 1
INVARIANTS
    AsReadAtOnce
    NoLineSkipped
PROPERTIES
    EveryLineRecorded
CHECK_DEADLOCK FALSE
