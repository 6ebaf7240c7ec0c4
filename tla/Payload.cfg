SPECIFICATION Spec
CONSTANTS
    HeaderSize = 110
    SizeMod = 4096
    MaxFiles = 5
    Machines <- MCMachines
INVARIANTS
    TypeOK
    BcdAsDocumented
    TemplateAccepted
    HiveStaysSound
    FilesAsPacked
    BootmgrIsDelivered
PROPERTY
    Progress
