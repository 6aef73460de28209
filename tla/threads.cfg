SPECIFICATION TSpec
CONSTANTS
    Threads = {1, 2, 3, 4, 5, 6}
    Jvm = {1, 2, 3, 4}
    NameOf <- SomeNames
    COMM_LEN = 2
INVARIANTS
    RuntimeThreadsAreTold
