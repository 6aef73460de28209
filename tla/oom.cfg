SPECIFICATION FairSpec
CONSTANTS
    c1 = c1
    c2 = c2
    l1 = l1
    l2 = l2
    Clients = {c1, c2}
    Listeners = {l1, l2}
    Config <- Swelling
    MaxHeap = 256
    Scenarios <- Everything
    MaxCalls = 4
    MaxGens = 2
INVARIANTS
    OneChainUnlessRushed
    StopLeavesOneRun
    ToldUnlessRemoved
PROPERTIES
    MonitoringGoesOn
    OverloadReported
    HeapOverThresholdNoticed
    SwellReportedUnlessDisturbed
CHECK_DEADLOCK FALSE
