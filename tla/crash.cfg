SPECIFICATION FairSpec
CONSTANTS
    main = main
    worker = worker
    SIGSEGV = SIGSEGV
    SIGPIPE = SIGPIPE
    AppThreads = {main, worker}
    Main = main
    Signals = {SIGSEGV, SIGPIPE}
    Segv = SIGSEGV
    Old <- Android
    Scenarios <- Everything
INVARIANTS
    ReportIsWhole
    SoloExitAfterCallback
    SoloOldHandlerCalled
PROPERTIES
    CrashEndsUnlessLost
CHECK_DEADLOCK FALSE
