SPECIFICATION Spec
CONSTANTS
    Machines <- MCMachines
    HandleRoom = 2
    PageSize = 4
    Garbage = {0, 2, 7}
    Gops = {gop1, gop2}
    MaxOpens = 3
INVARIANTS
    TypeOK
    DisksAsFound
    BootState
    RefusedOnce
PROPERTY
    BootEnds
CHECK_DEADLOCK FALSE
