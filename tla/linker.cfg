SPECIFICATION DlSpec
CONSTANTS
    Devices <- SomeDevices
    LibNames <- SomeNames
    Symbols = {"f", "g", "h", "z", "malloc"}
    Bases = {100, 200, 300, 400}
    MaxLoads = 2
    PageSize = 8
    GnuHash <- SomeHash
    ElfHash <- SomeHash
    Bits = 8
INVARIANTS
    AddressIsTrue
    LoadedIsFound
    InitResolves
