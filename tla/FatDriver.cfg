SPECIFICATION DriverSpec
CONSTANTS
    SectorSize = 8
    ClusterCount = 3
    PartitionLba = 6
    FileCount = 60
    Clusters = 66
    BackupVbrSector = 2
    FatEntries = 9
    UIntMod = 480
    ULongMod = 480
    U64Mod = 230400
    Names <- MCNames
    Lens <- MCLens
    Requests = {}
    Paths <- MCPaths
    Bioses <- MCBioses
INVARIANTS
    FileDelivered
    FileFound
    ReadsOnDevice
    DriveFound
PROPERTY
    LookupEnds
