SPECIFICATION Spec
CONSTANTS
    Machines <- MCChainMachines
    MaxDrives = 4
    Cylinders = 4
    Heads = 3
    Spt = 3
    AssumedHeads = 2
    PartLimit = 5
    Units = 2
    PageSectors = 2
    U32Mod = 64
    MaxParts = 6
    MaxFaults = 4
INVARIANT FindsFirst
