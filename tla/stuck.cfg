SPECIFICATION FairSpec
CONSTANTS
    DELAY = 1
    SlowLog = 2
    Limits = {2, 3}
    MaxMsgs = 2
    MaxSets = 2
    Old = 4
INVARIANTS
    ReportIsTrueUnlessCrossed
PROPERTIES
    StuckIsReported
CHECK_DEADLOCK FALSE
