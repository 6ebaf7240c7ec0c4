---------------------------- MODULE VDiskGeometry ----------------------------
(***************************************************************************)
(* The layout of the virtual disk (include/vdisk.h): an MBR, one FAT32     *)
(* partition with seven one-cluster directories, and one fixed-size slot   *)
(* of the LBA space for each virtual file.                                 *)
(*                                                                         *)
(* The sizes are constants, so that TLC can check a scaled-down disk and   *)
(* the proofs cover every disk that satisfies GeometryOK; the disk of the  *)
(* source, with its 64-sector clusters and 2^23-sector slots, is one of    *)
(* them (theorem SourceGeometry of VDiskProofs).                           *)
(***************************************************************************)
EXTENDS Integers

CONSTANTS
    SectorSize,        \* VDISK_SECTOR_SIZE: bytes in a sector (512)
    ClusterCount,      \* VDISK_CLUSTER_COUNT: sectors in a cluster (64)
    PartitionLba,      \* VDISK_PARTITION_LBA: first sector of the volume (128)
    FileCount,         \* VDISK_FILE_COUNT: sectors in a file's slot (2^23)
    Clusters,          \* VDISK_CLUSTERS: data clusters of the volume
    BackupVbrSector,   \* VDISK_BACKUP_VBR_SECTOR (6)
    FatEntries,        \* FAT entries in a sector (512 / sizeof (uint32_t))
    UIntMod,           \* 2^32: the range of unsigned int and uint32_t
    ULongMod,          \* the range of unsigned long and size_t: 2^32 in the BIOS
                       \* loader, 2^64 in the x86_64 EFI loader
    U64Mod             \* 2^64: the range of uint64_t

MaxFiles == ClusterCount - 1
ClusterSize == ClusterCount * SectorSize
ReservedCount == ClusterCount

\* The FAT is rounded up to whole clusters.
SectorsPerFat ==
    ((Clusters + FatEntries * ClusterCount - 1) \div (FatEntries * ClusterCount))
        * ClusterCount

PartitionCount == ReservedCount + SectorsPerFat + Clusters * ClusterCount
VDiskCount == PartitionLba + PartitionCount

VbrLba == PartitionLba
FsinfoLba == VbrLba + 1
BackupVbrLba == VbrLba + BackupVbrSector
FatLba == VbrLba + ReservedCount

ClusterLba(cluster) ==
    VbrLba + (cluster - 2) * ClusterCount + ReservedCount + SectorsPerFat

\* The directories, and the clusters they occupy.
Directories == 2..8
RootCluster == 2
BootCluster == 3
SourcesCluster == 4
FontsCluster == 5
ResourcesCluster == 6
EfiCluster == 7
MicrosoftCluster == 8

\* The slot of a file: which LBAs and which clusters belong to file idx.
FileClusters == FileCount \div ClusterCount
FileLba(idx) == (idx + 1) * FileCount
FileIdx(lba) == lba \div FileCount - 1
FileSector(lba) == lba % FileCount
FileDirentIdx(lba) == (lba - 1) % ClusterCount
FileCluster(idx) ==
    (FileCount - PartitionLba - ReservedCount - SectorsPerFat) \div ClusterCount + 2
        + idx * FileClusters

-----------------------------------------------------------------------------

\* What the layout needs of the numbers in vdisk.h.  The comments say what goes
\* wrong on a disk without the conjunct.
GeometryOK ==
    /\ {SectorSize, ClusterCount, PartitionLba, FileCount, Clusters,
        BackupVbrSector, FatEntries} \subseteq Nat \ {0}
    \* the VBR, the FSInfo sector and the VBR copy are distinct reserved sectors
    /\ 1 < BackupVbrSector /\ BackupVbrSector < ClusterCount
    \* a directory sector's LBA gives the index of the file it lists
    /\ PartitionLba % ClusterCount = 0
    \* clusters do not straddle slots
    /\ FileCount % ClusterCount = 0
    \* the volume's metadata ends before the first slot
    /\ PartitionLba + ReservedCount + SectorsPerFat + 7 * ClusterCount =< FileCount
    \* every directory has an end marker in the first FAT sector, which holds no
    \* entry of a file's cluster
    /\ 8 < FatEntries /\ FatEntries =< FileCluster(0)
    \* every slot is inside the volume, and its clusters are in the FAT
    /\ FileLba(MaxFiles) =< VDiskCount
    /\ FileCluster(MaxFiles) =< SectorsPerFat * FatEntries

\* An empty file's end marker is xlen - 1 bytes into its slot, in the arithmetic
\* of size_t.
EmptyFileEnd == (ULongMod - 1) \div ClusterSize

\* What the code needs of the widths of its integers.
WidthsOK ==
    /\ {UIntMod, ULongMod, U64Mod} \subseteq Nat \ {0}
    \* a file's length is a uint32_t in its directory entry, and fits its slot
    /\ UIntMod =< FileCount * SectorSize
    /\ UIntMod =< ULongMod
    \* cluster numbers are uint32_t
    /\ FileCluster(MaxFiles) =< UIntMod
    \* the end marker of an empty file is the last cluster of its own slot (32
    \* bits), or the one before its slot (64 bits)
    /\ EmptyFileEnd = FileClusters - 1 \/ EmptyFileEnd % UIntMod = UIntMod - 1

\* What a driver needs that reads whole clusters, up to the end of the last slot:
\* the length of a read in bytes, and the end of the slot that follows its last
\* sector, keep their values.
ReadsOK ==
    /\ ClusterSize < UIntMod
    /\ FileLba(MaxFiles + 1) < ULongMod
    /\ FileLba(MaxFiles) < U64Mod
=============================================================================
