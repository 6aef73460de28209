SPECIFICATION FairSpec
CONSTANTS
    l1 = l1
    l2 = l2
    Listeners = {l1, l2}
    Soft = TRUE
    Reactions = {"remove", "throw"}
    MaxCalls = 5
    MaxGcs = 3
INVARIANTS
    OneCallbackUnlessReadded
PROPERTIES
    GcHeard
CHECK_DEADLOCK FALSE
