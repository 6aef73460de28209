SPECIFICATION FairSpec
CONSTANTS
    Fds = {3, 4}
    Paths = {"dir/a.hprof", "maps"}
    Names = {"a.hprof"}
    Strstr <- MCStrstr
    Buffers <- MCBuffers
    StripCapacity = 3
    ShortWrites = {5}
    DiskMayFail = TRUE
    MaxWrites = 2
INVARIANTS
    TypeOK
    ParserInSync
    StripsOrdered
    NoStripOverflow
    OutputIsTheKeptBytes
    LengthMatchesRefilledBody
    OutputInOrder
    OthersIntact
PROPERTIES
    WriteReturns
