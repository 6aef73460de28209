SPECIFICATION FairSpec
CONSTANTS
    a = a
    b = b
    c = c
    Requests = {a, b, c}
    Scenarios <- Everything
    Catcher = TRUE
INVARIANTS
    TypeOK
    ChildInheritsNoLock
    OneChildAtATime
    TrueUnlessThrown
    BlockingStripped
    NothingLeftHeld
PROPERTIES
    DumpReturns
    ListenerNotified
    Promise
