SPECIFICATION FairSpec
CONSTANTS
    main = main
    worker = worker
    a1 = a1
    a2 = a2
    AppThreads = {main, worker}
    Main = main
    Activities = {a1, a2}
PROPERTIES
    ForcedQuit
CHECK_DEADLOCK FALSE
