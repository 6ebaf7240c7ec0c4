SPECIFICATION Spec
CONSTANTS
    Page = 2
    Page2M = 8
    Addr1MB = 4
    Addr2GB = 48
    Addr4GB = 64
    CopyWindow = 8
    PhysTop = 96
    LoaderStart = 1
    LoaderEnd = 3
    PeBase = 16
    PeLen = 5
    Machines <- MCMachines
INVARIANTS
    TypeOK
    InitrdIntact
    LowMemoryMapped
PROPERTIES
    OnlyRamWritten
    BootmgrReached
