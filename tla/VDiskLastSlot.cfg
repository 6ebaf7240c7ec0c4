SPECIFICATION Spec
CONSTANTS
    SectorSize = 8
    ClusterCount = 4
    PartitionLba = 8
    FileCount = 64
    Clusters = 120
    BackupVbrSector = 2
    FatEntries = 10
    UIntMod = 512
    ULongMod = 512
    U64Mod = 262144
    Names <- MCNames
    Lens <- MCLens
    Requests <- MCLastSlot
INVARIANT
    WritesInBuffer
