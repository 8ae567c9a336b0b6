SPECIFICATION FairSpec
CONSTANTS
    None = None
    Bad = Bad
    Unlucky = Unlucky
    Path = {1, 2}
    Format <- MCFormat
    Scripts <- MCScripts
    StartOf <- MCStart
    StagesOf <- MCStages
    Gated <- MCGated
    LookOf <- MCLook
    KeptOf <- MCKept
    Retold = {"claudecode", "cline"}
    MaxMishaps = 2
INVARIANTS
    NeverOverstated
    CallsAreTheirOwn
PROPERTIES
    AllRecorded
CHECK_DEADLOCK FALSE
