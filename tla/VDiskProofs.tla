----------------------------- MODULE VDiskProofs -----------------------------
(***************************************************************************)
(* Proofs about the virtual disk, for every geometry, table of files and   *)
(* set of requests that satisfy the assumptions of VDiskInv.               *)
(***************************************************************************)
EXTENDS VDiskInv, ArithLemmas

-----------------------------------------------------------------------------
(* The numbers of the source.                                              *)

Bios == INSTANCE VDiskGeometry WITH
            SectorSize <- 512, ClusterCount <- 64, PartitionLba <- 128,
            FileCount <- 8388608, Clusters <- 67092480, BackupVbrSector <- 6,
            FatEntries <- 128, UIntMod <- 4294967296, ULongMod <- 4294967296,
            U64Mod <- 18446744073709551616
Efi == INSTANCE VDiskGeometry WITH
            SectorSize <- 512, ClusterCount <- 64, PartitionLba <- 128,
            FileCount <- 8388608, Clusters <- 67092480, BackupVbrSector <- 6,
            FatEntries <- 128, UIntMod <- 4294967296, ULongMod <- 18446744073709551616,
            U64Mod <- 18446744073709551616

\* The disk of include/vdisk.h, with the integers of the BIOS and of the EFI
\* loader, satisfies what the other theorems assume of the geometry.
THEOREM SourceGeometry ==
    /\ Bios!GeometryOK /\ Bios!WidthsOK /\ Bios!ReadsOK
    /\ Efi!GeometryOK /\ Efi!WidthsOK /\ Efi!ReadsOK
<1>1. Bios!SectorsPerFat = 524160 /\ Efi!SectorsPerFat = 524160
  BY DEF Bios!SectorsPerFat, Efi!SectorsPerFat
<1>2. Bios!GeometryOK
  BY <1>1 DEF Bios!GeometryOK, Bios!ReservedCount, Bios!FileCluster, Bios!FileClusters,
              Bios!FileLba, Bios!MaxFiles, Bios!VDiskCount, Bios!PartitionCount
<1>3. Efi!GeometryOK
  BY <1>1 DEF Efi!GeometryOK, Efi!ReservedCount, Efi!FileCluster, Efi!FileClusters,
              Efi!FileLba, Efi!MaxFiles, Efi!VDiskCount, Efi!PartitionCount
<1>4. Bios!WidthsOK
  BY <1>1 DEF Bios!WidthsOK, Bios!ReservedCount, Bios!FileCluster, Bios!FileClusters,
              Bios!MaxFiles, Bios!EmptyFileEnd, Bios!ClusterSize
<1>5. Efi!WidthsOK
  BY <1>1 DEF Efi!WidthsOK, Efi!ReservedCount, Efi!FileCluster, Efi!FileClusters,
              Efi!MaxFiles, Efi!EmptyFileEnd, Efi!ClusterSize
<1>6. Bios!ReadsOK /\ Efi!ReadsOK
  BY DEF Bios!ReadsOK, Bios!ClusterSize, Bios!FileLba, Bios!MaxFiles,
         Efi!ReadsOK, Efi!ClusterSize, Efi!FileLba, Efi!MaxFiles
<1> QED
  BY <1>2, <1>3, <1>4, <1>5, <1>6

-----------------------------------------------------------------------------
(* The layout.                                                             *)

\* The constants and the sizes computed from them are numbers, and the parts
\* of the volume follow each other below the first slot.
LEMMA Layout ==
    /\ SectorSize \in Nat /\ SectorSize > 0
    /\ ClusterCount \in Nat /\ ClusterCount > 2
    /\ PartitionLba \in Nat /\ PartitionLba > 0
    /\ FileCount \in Nat /\ FileCount > 0
    /\ FatEntries \in Nat /\ FatEntries > 8
    /\ BackupVbrSector \in Nat /\ 1 < BackupVbrSector /\ BackupVbrSector < ClusterCount
    /\ SectorsPerFat \in Nat
    /\ ClusterSize \in Nat /\ ClusterSize > 0
    /\ PartitionLba + 8 * ClusterCount + SectorsPerFat =< FileCount
    /\ UIntMod \in Nat /\ ULongMod \in Nat /\ U64Mod \in Nat
    /\ UIntMod > 0 /\ ULongMod > 0 /\ U64Mod > 0
    /\ MaxFiles \in Nat /\ MaxFiles = ClusterCount - 1
<1>1. /\ SectorSize \in Nat /\ SectorSize > 0
      /\ ClusterCount \in Nat /\ ClusterCount > 2
      /\ PartitionLba \in Nat /\ PartitionLba > 0
      /\ FileCount \in Nat /\ FileCount > 0
      /\ FatEntries \in Nat /\ FatEntries > 8
      /\ Clusters \in Nat
      /\ BackupVbrSector \in Nat /\ 1 < BackupVbrSector /\ BackupVbrSector < ClusterCount
  BY GeometryAssumption DEF GeometryOK
<1>2. SectorsPerFat \in Nat
  <2> DEFINE per == FatEntries * ClusterCount
             all == Clusters + per - 1
  <2>1. per \in Nat /\ per > 0
    BY <1>1
  <2>2. all \div per \in Nat
    BY <1>1, <2>1, DivMod
  <2> HIDE DEF all, per
  <2>3. (all \div per) * ClusterCount \in Nat
    BY <1>1, <2>2, MulTypes
  <2> QED
    BY <2>3 DEF SectorsPerFat, all, per
<1>3. ClusterSize \in Nat /\ ClusterSize > 0
  BY <1>1 DEF ClusterSize
<1>4. PartitionLba + 8 * ClusterCount + SectorsPerFat =< FileCount
  BY <1>1, <1>2, GeometryAssumption DEF GeometryOK, ReservedCount
<1> QED
  BY <1>1, <1>2, <1>3, <1>4, WidthsAssumption DEF WidthsOK, MaxFiles

\* The FAT is a whole number of clusters.
LEMMA FatWhole == \E m \in Nat : SectorsPerFat = m * ClusterCount
<1> DEFINE per == FatEntries * ClusterCount
           all == Clusters + per - 1
<1>1. per \in Nat /\ per > 0
  BY Layout
<1>2. all \in Nat
  BY <1>1, GeometryAssumption DEF GeometryOK
<1>3. all \div per \in Nat
  BY <1>1, <1>2, DivMod
<1> QED
  BY <1>3 DEF SectorsPerFat

\* The slot of an LBA: FileIdx(lba) is the one index whose slot has lba, and it
\* is negative exactly below the first slot.
LEMMA Slot ==
    ASSUME NEW l \in Nat
    PROVE  /\ FileIdx(l) \in Int /\ FileIdx(l) >= -1
           /\ FileLba(FileIdx(l)) =< l /\ l < FileLba(FileIdx(l)) + FileCount
           /\ FileLba(FileIdx(l) + 1) = FileLba(FileIdx(l)) + FileCount
           /\ FileSector(l) = l - FileLba(FileIdx(l))
           /\ FileIdx(l) < 0 <=> l < FileCount
           /\ \A idx \in Int : FileLba(idx) =< l /\ l < FileLba(idx) + FileCount
                                  => idx = FileIdx(l)
<1> DEFINE q == l \div FileCount
<1>1. /\ q \in Nat /\ l % FileCount \in Nat /\ l % FileCount < FileCount
      /\ l = FileCount * q + (l % FileCount)
  BY Layout, DivMod
<1>2. q = 0 <=> l < FileCount
  BY <1>1, Layout, ModSmall
<1>3. /\ FileIdx(l) = q - 1
      /\ FileLba(FileIdx(l)) = q * FileCount
      /\ FileLba(FileIdx(l) + 1) = (q + 1) * FileCount
      /\ FileSector(l) = l % FileCount
  BY <1>1, Layout DEF FileIdx, FileLba, FileSector
<1>4. ASSUME NEW idx \in Int, FileLba(idx) =< l, l < FileLba(idx) + FileCount
      PROVE  idx = q - 1
  <2>1. q = idx + 1
    BY <1>4, Layout, DivUnique DEF FileLba
  <2> QED
    BY <2>1
<1>5. (q + 1) * FileCount = q * FileCount + FileCount /\ q * FileCount \in Nat
  BY <1>1, Layout
<1> HIDE DEF q
<1> QED
  BY <1>1, <1>2, <1>3, <1>4, <1>5, Layout

\* The slots of smaller indices come first.
LEMMA SlotOrder ==
    ASSUME NEW i \in Int, NEW j \in Int, i =< j
    PROVE  /\ FileLba(i) \in Int /\ FileLba(j) \in Int
           /\ FileLba(i) =< FileLba(j)
           /\ FileLba(i + 1) = FileLba(i) + FileCount
           /\ 0 =< i => FileCount =< FileLba(i)
<1>1. (i + 1) * FileCount =< (j + 1) * FileCount
  BY Layout, MulMono
<1>2. 0 =< i => 1 * FileCount =< (i + 1) * FileCount
  BY Layout, MulMono
<1>3. (i + 2) * FileCount = (i + 1) * FileCount + FileCount
  BY Layout
<1> QED
  BY <1>1, <1>2, <1>3, Layout, MulTypes DEF FileLba

-----------------------------------------------------------------------------
(* The table of regions.                                                   *)

\* The entries of the table: the metadata, then two for each directory.
LEMMA Regions ==
    /\ VDiskRegions[1] = Region("mbr", 0, 1)
    /\ VDiskRegions[2] = Region("vbr", VbrLba, 1)
    /\ VDiskRegions[3] = Region("fsinfo", FsinfoLba, 1)
    /\ VDiskRegions[4] = Region("vbr", BackupVbrLba, 1)
    /\ VDiskRegions[5] = Region("fat", FatLba, SectorsPerFat)
    /\ \A dir \in Directories :
          /\ 2 * dir + 2 \in 1..RegionCount /\ 2 * dir + 3 \in 1..RegionCount
          /\ VDiskRegions[2 * dir + 2] = SubdirsRegion(dir)
          /\ VDiskRegions[2 * dir + 3] = FilesRegion(dir)
<1>1. ASSUME NEW i \in 1..5
      PROVE  VDiskRegions[i] = MetadataRegions[i]
  BY DEF VDiskRegions, RegionCount
<1>2. ASSUME NEW dir \in Directories
      PROVE  /\ 2 * dir + 2 \in 1..RegionCount /\ 2 * dir + 3 \in 1..RegionCount
             /\ VDiskRegions[2 * dir + 2] = SubdirsRegion(dir)
             /\ VDiskRegions[2 * dir + 3] = FilesRegion(dir)
  <2>1. /\ (2 * dir + 2) % 2 = 0 /\ RootCluster + (2 * dir + 2 - 6) \div 2 = dir
        /\ (2 * dir + 3) % 2 = 1 /\ RootCluster + (2 * dir + 3 - 6) \div 2 = dir
        /\ 2 * dir + 2 \in 6..19 /\ 2 * dir + 3 \in 6..19
    BY DEF Directories, RootCluster
  <2>2. ASSUME NEW i \in 6..19
        PROVE  VDiskRegions[i] = IF i % 2 = 0 THEN SubdirsRegion(RootCluster + (i - 6) \div 2)
                                 ELSE FilesRegion(RootCluster + (i - 6) \div 2)
    BY DEF VDiskRegions, RegionCount
  <2>3. ASSUME NEW i \in 6..19, i = 2 * dir + 2
        PROVE  VDiskRegions[i] = SubdirsRegion(dir)
    <3>1. i % 2 = 0 /\ RootCluster + (i - 6) \div 2 = dir
      BY <2>3 DEF Directories, RootCluster
    <3> QED
      BY <3>1, <2>2
  <2>4. ASSUME NEW i \in 6..19, i = 2 * dir + 3
        PROVE  VDiskRegions[i] = FilesRegion(dir)
    <3>1. i % 2 # 0 /\ RootCluster + (i - 6) \div 2 = dir
      BY <2>4 DEF Directories, RootCluster
    <3> QED
      BY <3>1, <2>2
  <2> QED
    BY <2>1, <2>3, <2>4 DEF RegionCount
<1> QED
  BY <1>1, <1>2 DEF MetadataRegions

\* Every entry is one of those.
LEMMA RegionCases ==
    ASSUME NEW i \in 1..RegionCount
    PROVE  \/ i \in 1..5
           \/ \E dir \in Directories : i = 2 * dir + 2 \/ i = 2 * dir + 3
  BY DEF RegionCount, Directories

\* A region has a start and a size.
LEMMA RegionTypes ==
    ASSUME NEW i \in 1..RegionCount
    PROVE  /\ RegionStart(i) \in Nat /\ RegionEnd(i) \in Nat
           /\ VDiskRegions[i].build \in
                 {"mbr", "vbr", "fsinfo", "fat", "subdirs", "files"}
<1>1. CASE i \in 1..5
  BY <1>1, Regions, Layout
     DEF RegionStart, RegionEnd, Region, VbrLba, FsinfoLba, BackupVbrLba, FatLba,
         ReservedCount
<1>2. ASSUME NEW dir \in Directories, i = 2 * dir + 2 \/ i = 2 * dir + 3
      PROVE  /\ RegionStart(i) \in Nat /\ RegionEnd(i) \in Nat
             /\ VDiskRegions[i].build \in {"subdirs", "files"}
  <2>1. ClusterLba(dir) \in Nat
    BY Layout DEF ClusterLba, Directories, VbrLba, ReservedCount
  <2>2. CASE i = 2 * dir + 2
    <3>1. VDiskRegions[i] = Region("subdirs", ClusterLba(dir), 1)
      BY <2>2, Regions DEF SubdirsRegion
    <3> QED
      BY <3>1, <2>1 DEF RegionStart, RegionEnd, Region
  <2>3. CASE i = 2 * dir + 3
    <3>1. VDiskRegions[i] = Region("files", ClusterLba(dir) + 1, ClusterCount - 1)
      BY <2>3, Regions DEF FilesRegion
    <3> QED
      BY <3>1, <2>1, Layout DEF RegionStart, RegionEnd, Region
  <2> QED
    BY <1>2, <2>2, <2>3
<1> QED
  BY <1>1, <1>2, RegionCases

\* The directories' clusters follow the FAT, one after the other, below the
\* first slot.
LEMMA DirPlace ==
    ASSUME NEW dir \in Directories
    PROVE  /\ ClusterLba(dir) \in Nat
           /\ FatLba + SectorsPerFat =< ClusterLba(dir)
           /\ ClusterLba(dir) + ClusterCount =< FileCount
           /\ \A d \in Directories : dir < d => ClusterLba(dir) + ClusterCount =< ClusterLba(d)
  BY Layout DEF ClusterLba, Directories, VbrLba, ReservedCount, FatLba

\* The metadata is all below the first slot, each part apart from the others.
LEMMA MetadataPlace ==
    /\ 0 < VbrLba /\ VbrLba < FsinfoLba /\ FsinfoLba < BackupVbrLba
    /\ BackupVbrLba < FatLba
    /\ {VbrLba, FsinfoLba, BackupVbrLba, FatLba} \subseteq Nat
    /\ FatLba + SectorsPerFat =< FileCount
  BY Layout DEF VbrLba, FsinfoLba, BackupVbrLba, FatLba, ReservedCount

-----------------------------------------------------------------------------
(* What each builder may put where.                                        *)

\* In a slot only the slot's file shows, whatever the metadata.
LEMMA ShowsInSlot ==
    ASSUME NEW l \in Nat, NEW idx \in 0..(MaxFiles - 1), idx = FileIdx(l)
    PROVE  LET offset == (l - FileLba(idx)) * SectorSize
           IN  Shows(files, l, FileData(files[idx], offset, BytesAt(files[idx].len, offset)))
<1>1. FileCount =< l /\ ~(l < FileCount)
  BY Slot, Layout
<1>2. l \notin {0, VbrLba, FsinfoLba, BackupVbrLba} /\ ~InFat(l)
  BY <1>1, MetadataPlace, Layout DEF InFat
<1>3. \A dir \in Directories : ~InDir(l, dir)
  BY <1>1, DirPlace, Layout DEF InDir
<1>4. \A j \in 0..(MaxFiles - 1) : FileLba(j) =< l /\ l < FileLba(j) + FileCount => j = idx
  BY Slot
<1>5. ~(FileLba(MaxFiles) =< l)
  BY Slot, SlotOrder, Layout
<1> QED
  BY <1>1, <1>2, <1>3, <1>4, <1>5 DEF Shows

\* Past the slots there is nothing.
LEMMA ShowsPastSlots ==
    ASSUME NEW l \in Nat, FileIdx(l) >= MaxFiles
    PROVE  Shows(files, l, Zero)
<1>1. FileCount =< l /\ ~(l < FileCount)
  BY Slot, Layout
<1>2. l \notin {0, VbrLba, FsinfoLba, BackupVbrLba} /\ ~InFat(l)
  BY <1>1, MetadataPlace, Layout DEF InFat
<1>3. \A dir \in Directories : ~InDir(l, dir)
  BY <1>1, DirPlace, Layout DEF InDir
<1>4. \A j \in 0..(MaxFiles - 1) : ~(FileLba(j) =< l /\ l < FileLba(j) + FileCount)
  BY Slot, Layout
<1> QED
  BY <1>1, <1>2, <1>3, <1>4 DEF Shows

\* Below the slots no file shows.
LEMMA BelowSlots ==
    ASSUME NEW l \in Nat, l < FileCount
    PROVE  /\ \A j \in 0..(MaxFiles - 1) : ~(FileLba(j) =< l)
           /\ ~(FileLba(MaxFiles) =< l)
<1>1. \A j \in Nat : FileLba(j) \in Int /\ FileCount =< FileLba(j)
  <2> TAKE j \in Nat
  <2>1. j \in Int /\ j =< j /\ 0 =< j
    OBVIOUS
  <2> QED
    BY <2>1, SlotOrder
<1> QED
  BY <1>1, Layout

\* Below the slots and outside the metadata there is nothing.
LEMMA ShowsGap ==
    ASSUME NEW l \in Nat, l < FileCount,
           \A i \in 1..RegionCount : l >= RegionEnd(i) \/ l < RegionStart(i)
    PROVE  Shows(files, l, Zero)
<1>1. l \notin {0, VbrLba, FsinfoLba, BackupVbrLba} /\ ~InFat(l)
  <2>1. \A i \in 1..5 : l >= RegionEnd(i) \/ l < RegionStart(i)
    BY DEF RegionCount
  <2>2. /\ RegionStart(1) = 0 /\ RegionEnd(1) = 1
        /\ RegionStart(2) = VbrLba /\ RegionEnd(2) = VbrLba + 1
        /\ RegionStart(3) = FsinfoLba /\ RegionEnd(3) = FsinfoLba + 1
        /\ RegionStart(4) = BackupVbrLba /\ RegionEnd(4) = BackupVbrLba + 1
        /\ RegionStart(5) = FatLba /\ RegionEnd(5) = FatLba + SectorsPerFat
    BY Regions DEF RegionStart, RegionEnd, Region
  <2>3. l >= 1 /\ l # VbrLba /\ l # FsinfoLba /\ l # BackupVbrLba
    BY <2>1, <2>2, MetadataPlace
  <2>4. ~InFat(l)
    BY <2>1, <2>2, MetadataPlace, Layout DEF InFat
  <2> QED
    BY <2>3, <2>4
<1>2. \A dir \in Directories : ~InDir(l, dir)
  <2> SUFFICES ASSUME NEW dir \in Directories PROVE ~InDir(l, dir)
    OBVIOUS
  <2>1. /\ l >= ClusterLba(dir) + 1 \/ l < ClusterLba(dir)
        /\ l >= ClusterLba(dir) + ClusterCount \/ l < ClusterLba(dir) + 1
    <3>1. /\ 2 * dir + 2 \in 1..RegionCount /\ 2 * dir + 3 \in 1..RegionCount
          /\ RegionStart(2 * dir + 2) = ClusterLba(dir)
          /\ RegionEnd(2 * dir + 2) = ClusterLba(dir) + 1
          /\ RegionStart(2 * dir + 3) = ClusterLba(dir) + 1
          /\ RegionEnd(2 * dir + 3) = ClusterLba(dir) + 1 + (ClusterCount - 1)
      <4>1. /\ 2 * dir + 2 \in 1..RegionCount /\ 2 * dir + 3 \in 1..RegionCount
            /\ VDiskRegions[2 * dir + 2] = SubdirsRegion(dir)
            /\ VDiskRegions[2 * dir + 3] = FilesRegion(dir)
        BY Regions
      <4> QED
        BY <4>1 DEF RegionStart, RegionEnd, Region, SubdirsRegion, FilesRegion
    <3>2. /\ l >= RegionEnd(2 * dir + 2) \/ l < RegionStart(2 * dir + 2)
          /\ l >= RegionEnd(2 * dir + 3) \/ l < RegionStart(2 * dir + 3)
      BY <3>1
    <3> QED
      BY <3>1, <3>2, DirPlace, Layout
  <2> QED
    BY <2>1, DirPlace, Layout DEF InDir
<1> QED
  BY <1>1, <1>2, BelowSlots DEF Shows

\* The one-sector structures of the reserved area.
LEMMA ShowsReserved ==
    /\ Shows(files, 0, Mbr)
    /\ Shows(files, VbrLba, Vbr) /\ Shows(files, BackupVbrLba, Vbr)
    /\ Shows(files, FsinfoLba, Fsinfo)
<1>1. ASSUME NEW l \in Nat, l < FatLba
      PROVE  /\ l < FileCount /\ ~InFat(l)
             /\ \A dir \in Directories : ~InDir(l, dir)
  BY <1>1, MetadataPlace, DirPlace, Layout DEF InFat, InDir
<1>2. 0 \in Nat /\ VbrLba \in Nat /\ FsinfoLba \in Nat /\ BackupVbrLba \in Nat /\ FatLba \in Nat
  BY MetadataPlace
<1>3. ASSUME NEW l \in {0, VbrLba, FsinfoLba, BackupVbrLba}
      PROVE  l \in Nat /\ l < FatLba /\ InMetadata(l)
  BY <1>2, MetadataPlace DEF InMetadata
<1>4. ASSUME NEW l \in {0, VbrLba, FsinfoLba, BackupVbrLba}, NEW c,
             l = 0 => c = Mbr, l \in {VbrLba, BackupVbrLba} => c = Vbr,
             l = FsinfoLba => c = Fsinfo
      PROVE  Shows(files, l, c)
  BY <1>1, <1>3, <1>4, BelowSlots DEF Shows
<1>5. /\ 0 # VbrLba /\ 0 # BackupVbrLba /\ 0 # FsinfoLba
      /\ VbrLba # FsinfoLba /\ BackupVbrLba # FsinfoLba
  BY <1>2, MetadataPlace
<1> QED
  BY <1>4, <1>5

\* The first sector of a directory's cluster, and the others.
LEMMA ShowsDir ==
    ASSUME NEW l \in Nat, NEW dir \in Directories, InDir(l, dir)
    PROVE  Shows(files, l, IF l = ClusterLba(dir) THEN SubDirs(dir)
                           ELSE Listing(files, l - ClusterLba(dir) - 1))
<1>1. l < FileCount /\ ~InFat(l) /\ InMetadata(l)
  BY DirPlace, MetadataPlace, Layout DEF InDir, InFat, InMetadata
<1>2. l \notin {0, VbrLba, FsinfoLba, BackupVbrLba}
  BY DirPlace, MetadataPlace, Layout DEF InDir
<1>3. \A d \in Directories : InDir(l, d) => d = dir
  <2> SUFFICES ASSUME NEW d \in Directories, InDir(l, d), d # dir PROVE FALSE
    OBVIOUS
  <2>1. d \in Int /\ dir \in Int
    BY DEF Directories
  <2>2. CASE d < dir
    BY <2>2, DirPlace, Layout DEF InDir
  <2>3. CASE dir < d
    BY <2>3, DirPlace, Layout DEF InDir
  <2> QED
    BY <2>1, <2>2, <2>3
<1> QED
  BY <1>1, <1>2, <1>3, BelowSlots DEF Shows

\* The index that vdisk_dir_files computes from the LBA is the place of the
\* sector in its directory.
LEMMA DirentIdx ==
    ASSUME NEW dir \in Directories, NEW j \in 0..(ClusterCount - 2)
    PROVE  FileDirentIdx(ClusterLba(dir) + 1 + j) = j
<1>1. PICK m \in Nat : SectorsPerFat = m * ClusterCount
  BY FatWhole
<1>2. PICK p \in Nat : PartitionLba = p * ClusterCount
  <2>1. PartitionLba % ClusterCount = 0
    BY GeometryAssumption DEF GeometryOK
  <2> QED
    BY <2>1, Layout, DivMod
<1> DEFINE n == p + dir - 2 + 1 + m
<1>3. n \in Nat
  BY DEF Directories
<1>4. ClusterLba(dir) = n * ClusterCount
  BY <1>1, <1>2, Layout DEF ClusterLba, VbrLba, ReservedCount, Directories
<1>5. n * ClusterCount \in Nat
  BY <1>3, Layout, MulTypes
<1> HIDE DEF n
<1>6. (ClusterLba(dir) + 1 + j) - 1 = n * ClusterCount + j
  BY <1>4, <1>5
<1>7. (n * ClusterCount + j) % ClusterCount = j
  BY <1>3, Layout, ModOfMultiple
<1>8. FileDirentIdx(ClusterLba(dir) + 1 + j) = ((ClusterLba(dir) + 1 + j) - 1) % ClusterCount
  BY DEF FileDirentIdx
<1> QED
  BY <1>6, <1>7, <1>8, Zenon

-----------------------------------------------------------------------------
(* The FAT.                                                                *)

\* A slot is a whole number of clusters.
LEMMA SlotSize ==
    /\ FileClusters \in Nat /\ FileClusters > 0
    /\ FileCount = ClusterCount * FileClusters
    /\ FileClusters * ClusterSize = FileCount * SectorSize
<1>1. /\ FileClusters \in Nat
      /\ FileCount = ClusterCount * FileClusters
  <2>1. FileCount % ClusterCount = 0
    BY GeometryAssumption DEF GeometryOK
  <2> QED
    BY <2>1, Layout, DivMod DEF FileClusters
<1>2. FileClusters > 0
  BY <1>1, Layout
<1>3. FileClusters * ClusterSize = FileCount * SectorSize
  BY <1>1, Layout DEF ClusterSize
<1> QED
  BY <1>1, <1>2, <1>3

\* The clusters of the slots follow each other.
LEMMA SlotClusters ==
    ASSUME NEW i \in Int, NEW j \in Int, i =< j
    PROVE  /\ FileCluster(i) \in Int /\ FileCluster(j) \in Int
           /\ FileCluster(i + 1) = FileCluster(i) + FileClusters
           /\ FileCluster(i) =< FileCluster(j)
<1> DEFINE area == FileCount - PartitionLba - ReservedCount - SectorsPerFat
           base == area \div ClusterCount + 2
<1>1. area \in Nat
  BY Layout DEF ReservedCount
<1>2. base \in Nat
  BY <1>1, Layout, DivMod
<1> HIDE DEF area
<1>3. \A k : FileCluster(k) = base + k * FileClusters
  BY DEF FileCluster, area
<1> HIDE DEF base
<1>4. i * FileClusters =< j * FileClusters
  BY SlotSize, MulMono
<1>5. i * FileClusters \in Int /\ j * FileClusters \in Int
      /\ (i + 1) * FileClusters = i * FileClusters + FileClusters
  BY SlotSize
<1> QED
  BY <1>2, <1>3, <1>4, <1>5, SlotSize

\* The slots of the table: their clusters come after those whose entries are
\* in the first sector of the FAT, and their numbers fit 32 bits.
LEMMA SlotLimits ==
    ASSUME NEW idx \in 0..(MaxFiles - 1)
    PROVE  /\ FileCluster(idx) \in Int /\ FatEntries =< FileCluster(idx)
           /\ FileCluster(idx + 1) \in Int /\ FileCluster(idx + 1) =< UIntMod
           /\ FileCluster(idx + 1) = FileCluster(idx) + FileClusters
<1>1. 0 \in Int /\ idx \in Int /\ 0 =< idx /\ idx + 1 \in Int /\ idx + 1 =< MaxFiles
      /\ MaxFiles \in Int
  BY Layout
<1>2. FileCluster(0) \in Int /\ FileCluster(idx) \in Int /\ FileCluster(0) =< FileCluster(idx)
  BY <1>1, SlotClusters
<1>3. /\ FileCluster(idx + 1) \in Int /\ FileCluster(MaxFiles) \in Int
      /\ FileCluster(idx + 1) =< FileCluster(MaxFiles)
  BY <1>1, SlotClusters
<1>4. FileCluster(idx + 1) = FileCluster(idx) + FileClusters
  BY <1>1, SlotClusters
<1>5. FatEntries =< FileCluster(0) /\ FileCluster(MaxFiles) =< UIntMod
  BY GeometryAssumption, WidthsAssumption DEF GeometryOK, WidthsOK
<1> QED
  BY <1>2, <1>3, <1>4, <1>5, Layout

\* A file's last cluster is in its slot.
LEMMA LastInSlot ==
    ASSUME NEW idx \in 0..(MaxFiles - 1), NEW file, file.len \in 1..(UIntMod - 1)
    PROVE  /\ LastCluster(file, idx) \in Int
           /\ FileCluster(idx) =< LastCluster(file, idx)
           /\ LastCluster(file, idx) < FileCluster(idx + 1)
<1> DEFINE n == file.len - 1
           q == n \div ClusterSize
<1>1. n \in Nat /\ n < FileCount * SectorSize
  BY Layout, WidthsAssumption DEF WidthsOK
<1> HIDE DEF n
<1>2. q \in Nat /\ n % ClusterSize \in Nat /\ n = ClusterSize * q + (n % ClusterSize)
  BY <1>1, Layout, DivMod
<1> HIDE DEF q
<1>3. q < FileClusters
  <2> SUFFICES ASSUME FileClusters =< q PROVE FALSE
    BY <1>2, SlotSize
  <2>1. FileClusters * ClusterSize =< q * ClusterSize
    BY <1>2, SlotSize, Layout, MulMono
  <2>2. q * ClusterSize = ClusterSize * q /\ q * ClusterSize \in Nat
    BY <1>2, Layout, MulTypes
  <2>3. q * ClusterSize =< n
    BY <1>1, <1>2, <2>2
  <2>4. FileCount * SectorSize \in Nat
    BY Layout, MulTypes
  <2>5. FileCount * SectorSize =< q * ClusterSize
    BY <2>1, SlotSize
  <2> QED
    BY <1>1, <2>2, <2>3, <2>4, <2>5
<1>4. LastCluster(file, idx) = FileCluster(idx) + q
  BY DEF LastCluster, n, q
<1> QED
  BY <1>2, <1>3, <1>4, SlotLimits, SlotSize

\* The end marker of a file is its last cluster; that of an empty file is the
\* last cluster of a slot or the one before the first slot.
LEMMA Marker ==
    ASSUME NEW idx \in 0..(MaxFiles - 1), FilesOK
    PROVE  /\ files[idx].len > 0 => FileEndMarker(idx) = LastCluster(files[idx], idx)
           /\ files[idx].len = 0 =>
                 \/ FileEndMarker(idx) = FileCluster(idx) - 1
                 \/ FileEndMarker(idx) = FileCluster(idx + 1) - 1
<1>1. files[idx].len \in 0..(UIntMod - 1) /\ UIntMod \in Nat /\ ULongMod \in Nat
      /\ UIntMod =< ULongMod /\ ULongMod > 0
  BY Layout, WidthsAssumption DEF FilesOK, WidthsOK
<1>2. /\ FileCluster(idx) \in Int /\ 8 < FileCluster(idx)
      /\ FileCluster(idx + 1) \in Int /\ FileCluster(idx + 1) =< UIntMod
      /\ FileCluster(idx + 1) = FileCluster(idx) + FileClusters
  BY SlotLimits, Layout
<1>3. ASSUME files[idx].len > 0
      PROVE  FileEndMarker(idx) = LastCluster(files[idx], idx)
  <2>1. (files[idx].len - 1) % ULongMod = files[idx].len - 1
    BY <1>1, <1>3, ModSmall
  <2>2. LastCluster(files[idx], idx) \in Nat /\ LastCluster(files[idx], idx) < UIntMod
    BY <1>1, <1>2, <1>3, LastInSlot
  <2>3. FileEndMarker(idx) = LastCluster(files[idx], idx) % UIntMod
    BY <2>1 DEF FileEndMarker, LastCluster
  <2> QED
    BY <2>2, <2>3, <1>1, ModSmall
<1>4. ASSUME files[idx].len = 0
      PROVE  \/ FileEndMarker(idx) = FileCluster(idx) - 1
             \/ FileEndMarker(idx) = FileCluster(idx + 1) - 1
  <2>1. (files[idx].len - 1) % ULongMod = ULongMod - 1
    BY <1>1, <1>4
  <2>2. FileEndMarker(idx) = (FileCluster(idx) + EmptyFileEnd) % UIntMod
    BY <2>1 DEF FileEndMarker, EmptyFileEnd
  <2>3. CASE EmptyFileEnd = FileClusters - 1
    <3>1. /\ FileCluster(idx) + EmptyFileEnd \in Nat
          /\ FileCluster(idx) + EmptyFileEnd = FileCluster(idx + 1) - 1
          /\ FileCluster(idx) + EmptyFileEnd < UIntMod
      BY <2>3, <1>1, <1>2, SlotSize
    <3> QED
      BY <3>1, <2>2, <1>1, ModSmall
  <2>4. CASE EmptyFileEnd % UIntMod = UIntMod - 1
    <3>1. EmptyFileEnd \in Nat
      BY <1>1, Layout, DivMod DEF EmptyFileEnd
    <3> DEFINE m == EmptyFileEnd \div UIntMod
    <3>2. m \in Nat /\ EmptyFileEnd = UIntMod * m + (UIntMod - 1)
      BY <3>1, <2>4, <1>1, Layout, DivMod
    <3> HIDE DEF m
    <3>3. FileCluster(idx) + EmptyFileEnd = (m + 1) * UIntMod + (FileCluster(idx) - 1)
      BY <3>2, <1>1, <1>2
    <3>4. FileCluster(idx) - 1 \in Nat /\ FileCluster(idx) - 1 < UIntMod /\ m + 1 \in Nat
      BY <3>2, <1>1, <1>2, SlotSize
    <3>5. ((m + 1) * UIntMod + (FileCluster(idx) - 1)) % UIntMod = FileCluster(idx) - 1
      BY <3>4, <1>1, ModOfMultiple
    <3> QED
      BY <2>2, <3>3, <3>5
  <2> QED
    BY <2>3, <2>4, WidthsAssumption DEF WidthsOK
<1> QED
  BY <1>1, <1>3, <1>4

\* What vdisk_fat writes for a cluster is what the FAT promises for it: the
\* chains of files are neither cut by another file's end marker, an empty
\* file's included, nor joined.
LEMMA FatEntry ==
    ASSUME FilesOK, NEW first \in Nat, NEW c \in Nat,
           c < FatEntries => first = 0
    PROVE  FatEntryOK(files, c, FatNext(first, c))
<1>1. ASSUME NEW idx \in 0..(MaxFiles - 1), files[idx].used, FileEndMarker(idx) = c
      PROVE  8 =< c
  <2>1. /\ FileCluster(idx) \in Int /\ 8 < FileCluster(idx)
        /\ FileCluster(idx + 1) = FileCluster(idx) + FileClusters
        /\ FileClusters \in Nat /\ FileClusters > 0
    BY SlotLimits, SlotSize, Layout
  <2>2. CASE files[idx].len = 0
    BY <1>1, <2>1, <2>2, Marker
  <2>3. CASE files[idx].len > 0
    <3>1. files[idx].len \in 1..(UIntMod - 1)
      BY <2>3 DEF FilesOK
    <3> QED
      BY <1>1, <2>1, <2>3, <3>1, Marker, LastInSlot
  <2> QED
    BY <2>2, <2>3 DEF FilesOK
<1>2. c = 0 => FatNext(first, c) = MediaMarker
  BY <1>1, Layout DEF FatNext
<1>3. c \in Directories => FatNext(first, c) = EndMarker
  BY Layout DEF FatNext, Directories
<1>4. ASSUME NEW idx \in 0..(MaxFiles - 1), Holds(files, idx, c)
      PROVE  FatNext(first, c) = IF c = LastCluster(files[idx], idx) THEN EndMarker ELSE c + 1
  <2>1. files[idx].len \in 1..(UIntMod - 1) /\ files[idx].used
    BY <1>4 DEF FilesOK, Holds
  <2>2. /\ FileCluster(idx) =< c /\ c =< LastCluster(files[idx], idx)
        /\ FileCluster(idx) \in Int /\ FatEntries =< FileCluster(idx)
        /\ LastCluster(files[idx], idx) \in Int
        /\ LastCluster(files[idx], idx) < FileCluster(idx + 1)
        /\ FileEndMarker(idx) = LastCluster(files[idx], idx)
    BY <1>4, <2>1, SlotLimits, LastInSlot, Marker DEF Holds
  <2>3. CASE c = LastCluster(files[idx], idx)
    BY <2>1, <2>2, <2>3 DEF FatNext
  <2>4. CASE c < LastCluster(files[idx], idx)
    <3>1. ASSUME NEW j \in 0..(MaxFiles - 1), FileEndMarker(j) = c
          PROVE  FALSE
      <4>1. FileEndMarker(j) < FileCluster(idx + 1) - 1 /\ FileCluster(idx) =< FileEndMarker(j)
        BY <3>1, <2>2, <2>4, SlotLimits
      <4>2. /\ FileCluster(j) \in Int /\ FileCluster(j + 1) \in Int
            /\ FileCluster(j) =< FileCluster(j + 1) - 1
        BY SlotLimits, SlotSize
      <4>3. CASE files[j].len > 0
        <5>1. files[j].len \in 1..(UIntMod - 1)
          BY <4>3 DEF FilesOK
        <5>2. FileCluster(j) =< c /\ c < FileCluster(j + 1)
          BY <3>1, <4>3, <5>1, Marker, LastInSlot
        <5>3. CASE j = idx
          BY <5>3, <4>3, <3>1, <2>2, <2>4, Marker
        <5>4. CASE j < idx
          <6>1. FileCluster(j + 1) =< FileCluster(idx)
            BY <5>4, SlotClusters, Layout
          <6> QED
            BY <6>1, <5>2, <4>2, <2>2
        <5>5. CASE idx < j
          <6>1. FileCluster(idx + 1) =< FileCluster(j) /\ FileCluster(idx + 1) \in Int
            BY <5>5, SlotClusters, Layout
          <6> QED
            BY <6>1, <5>2, <4>2, <2>2
        <5> QED
          BY <5>3, <5>4, <5>5, Layout
      <4>4. CASE files[j].len = 0
        <5>1. PICK m \in {j, j + 1} : c = FileCluster(m) - 1
          BY <3>1, <4>4, Marker
        <5>2. m \in Int /\ FileCluster(m) \in Int
          BY <5>1, <4>2
        <5>3. CASE m =< idx
          <6>1. FileCluster(m) =< FileCluster(idx)
            BY <5>2, <5>3, SlotClusters
          <6> QED
            BY <6>1, <5>1, <5>2, <2>2
        <5>4. CASE idx + 1 =< m
          <6>1. FileCluster(idx + 1) =< FileCluster(m)
            BY <5>2, <5>4, SlotClusters
          <6> QED
            BY <6>1, <5>1, <5>2, <4>1, <3>1, SlotLimits
        <5> QED
          BY <5>2, <5>3, <5>4
      <4> QED
        BY <4>3, <4>4 DEF FilesOK
    <3>2. ~(c < FatEntries) /\ c # 0
      BY <2>2, Layout
    <3> QED
      BY <3>1, <3>2, <2>4, <2>2 DEF FatNext
  <2> QED
    BY <2>2, <2>3, <2>4
<1> QED
  BY <1>2, <1>3, <1>4 DEF FatEntryOK

\* A sector of the FAT, in whatever window vdisk_fat builds it.
LEMMA ShowsFat ==
    ASSUME FilesOK, NEW lba \in Nat, NEW count \in Nat, NEW k \in 0..(count - 1),
           FatLba =< lba, lba + k < FatLba + SectorsPerFat
    PROVE  Shows(files, lba + k, BuildFat(lba, count)[k])
<1> DEFINE l == lba + k
           first == (lba - FatLba) * FatEntries
           next == [e \in 0..(FatEntries - 1) |-> FatNext(first, first + k * FatEntries + e)]
<1>1. l \in Nat /\ InFat(l) /\ l < FileCount /\ InMetadata(l)
  BY MetadataPlace, Layout DEF InFat, InMetadata
<1>2. l \notin {0, VbrLba, FsinfoLba, BackupVbrLba}
  BY MetadataPlace, Layout
<1>3. \A dir \in Directories : ~InDir(l, dir)
  BY DirPlace, MetadataPlace, Layout DEF InDir
<1>4. BuildFat(lba, count)[k] = FatSector(next)
  BY DEF BuildFat
<1>5. FatSector(next).kind = "fat" /\ FatSector(next).next = next
  BY DEF FatSector
<1>6. first \in Nat /\ k * FatEntries \in Nat
      /\ (l - FatLba) * FatEntries = first + k * FatEntries
  BY MetadataPlace, Layout
<1>7. k # 0 => FatEntries =< k * FatEntries
  BY Layout
<1>8. lba # FatLba => FatEntries =< first
  BY MetadataPlace, Layout
<1>9. lba = FatLba => first = 0
  BY MetadataPlace, Layout
<1> HIDE DEF first
<1>10. ASSUME NEW e \in 0..(FatEntries - 1)
       PROVE  FatEntryOK(files, (l - FatLba) * FatEntries + e, next[e])
  <2> DEFINE c == first + k * FatEntries + e
  <2>1. c \in Nat /\ (l - FatLba) * FatEntries + e = c
    BY <1>6, Layout
  <2>2. c < FatEntries => first = 0
    BY <1>6, <1>8, <1>9, Layout
  <2>3. next[e] = FatNext(first, c)
    OBVIOUS
  <2> HIDE DEF c, next
  <2>4. FatEntryOK(files, c, FatNext(first, c))
    BY <2>1, <2>2, <1>6, FatEntry
  <2> QED
    BY <2>1, <2>3, <2>4
<1> HIDE DEF next, l
<1>11. Shows(files, l, FatSector(next))
  BY <1>1, <1>2, <1>3, <1>5, <1>10, BelowSlots DEF Shows
<1> QED
  BY <1>4, <1>11 DEF l

-----------------------------------------------------------------------------
(* The fragments.                                                          *)

\* A sector of a file, in whatever fragment vdisk_file builds it.
LEMMA ShowsFile ==
    ASSUME FilesOK, NEW lba \in Nat, NEW count \in Nat, NEW k \in 0..(count - 1),
           FileIdx(lba) \in 0..(MaxFiles - 1), lba + count =< FileLba(FileIdx(lba) + 1)
    PROVE  Shows(files, lba + k, BuildFile(lba, count)[k])
<1> DEFINE idx == FileIdx(lba)
           l == lba + k
           offset == FileSector(lba) * SectorSize
           len == files[idx].len
           rest == IF offset < len THEN len - offset ELSE 0
           copy_len == IF rest > count * SectorSize THEN count * SectorSize ELSE rest
           o == (l - FileLba(idx)) * SectorSize
<1>1. /\ idx \in Int /\ FileLba(idx) \in Int /\ FileLba(idx) =< lba
      /\ FileLba(idx + 1) = FileLba(idx) + FileCount
      /\ FileSector(lba) = lba - FileLba(idx)
      /\ len \in Nat
  <2>1. FileLba(idx) \in Int
    BY SlotOrder
  <2>2. len \in Nat
    BY Layout DEF FilesOK
  <2> QED
    BY <2>1, <2>2, Slot
<1>2. l \in Nat /\ FileLba(idx) =< l /\ l < FileLba(idx) + FileCount
  BY <1>1, Layout
<1>3. FileIdx(l) = idx
  BY <1>1, <1>2, Slot
<1>4. BuildFile(lba, count)[k]
         = FileData(files[idx], offset + k * SectorSize, BytesAt(copy_len, k * SectorSize))
  BY DEF BuildFile
<1>5. /\ offset \in Nat /\ k * SectorSize \in Nat /\ count * SectorSize \in Nat
      /\ o = offset + k * SectorSize
      /\ k * SectorSize + SectorSize =< count * SectorSize
  <2>1. FileSector(lba) \in Nat /\ l - FileLba(idx) = FileSector(lba) + k
    BY <1>1
  <2>2. k * SectorSize + SectorSize =< count * SectorSize
    BY Layout, MulApart
  <2>3. (FileSector(lba) + k) * SectorSize = FileSector(lba) * SectorSize + k * SectorSize
    BY <2>1, Layout
  <2> QED
    BY <2>1, <2>2, <2>3, Layout, MulTypes
<1> HIDE DEF offset, o, len, idx, l
<1>6. BytesAt(copy_len, k * SectorSize) = BytesAt(len, o)
  BY <1>1, <1>5, Layout DEF BytesAt
<1>7. Shows(files, l, FileData(files[idx], o, BytesAt(len, o)))
  BY <1>2, <1>3, ShowsInSlot DEF idx, o, len, l
<1> QED
  BY <1>4, <1>5, <1>6, <1>7 DEF l

\* Whatever function the loop chose for the fragment, each sector it builds
\* holds what the disk promises for its LBA.
LEMMA FragmentShows ==
    ASSUME FilesOK, frag_start \in Nat, frag_end \in Nat, frag_start =< frag_end,
           BuilderOK, frag_end =< FileCount \/ FileCount =< frag_start,
           NEW k \in 0..(frag_end - frag_start - 1)
    PROVE  Shows(files, frag_start + k, Build(build, frag_start, frag_end - frag_start)[k])
<1> DEFINE l == frag_start + k
           count == frag_end - frag_start
<1>1. l \in Nat /\ count \in Nat /\ k \in 0..(count - 1) /\ l < frag_end /\ frag_start =< l
  OBVIOUS
<1>2. CASE InSlot
  <2>1. Build(build, frag_start, count)[k] = BuildFile(frag_start, count)[k]
    BY <1>2 DEF InSlot, Build
  <2>2. frag_start + count =< FileLba(FileIdx(frag_start) + 1) /\ FileIdx(frag_start) \in 0..(MaxFiles - 1)
    BY <1>2 DEF InSlot
  <2> HIDE DEF count
  <2> QED
    BY <1>1, <2>1, <2>2, ShowsFile DEF count
<1>3. CASE PastSlots \/ InGap
  <2>1. Build(build, frag_start, count)[k] = Zero
    BY <1>1, <1>3 DEF PastSlots, InGap, Build
  <2>2. CASE PastSlots
    <3>1. FileIdx(frag_start) =< FileIdx(l)
      <4> DEFINE a == FileIdx(l)
                 b == FileIdx(frag_start)
      <4>1. /\ a \in Int /\ b \in Int
            /\ l < FileLba(a) + FileCount /\ FileLba(a + 1) = FileLba(a) + FileCount
            /\ FileLba(b) =< frag_start
        BY <1>1, Slot
      <4> HIDE DEF a, b, l
      <4>2. ASSUME b > a PROVE FALSE
        <5>1. a + 1 \in Int /\ a + 1 =< b
          BY <4>1, <4>2
        <5>2. FileLba(a + 1) =< FileLba(b) /\ FileLba(a + 1) \in Int /\ FileLba(b) \in Int
          BY <4>1, <5>1, SlotOrder
        <5> QED
          BY <1>1, <4>1, <5>2
      <4> QED
        BY <4>1, <4>2 DEF a, b
    <3>2. FileIdx(l) >= MaxFiles
      BY <3>1, <2>2, <1>1, Slot, Layout DEF PastSlots
    <3> QED
      BY <1>1, <2>1, <3>2, ShowsPastSlots
  <2>3. CASE InGap
    <3>1. l < FileCount
      BY <1>1, <2>3, Layout DEF InGap
    <3>2. \A i \in 1..RegionCount : l >= RegionEnd(i) \/ l < RegionStart(i)
      BY <1>1, <2>3, RegionTypes DEF InGap, Misses
    <3> QED
      BY <1>1, <2>1, <3>1, <3>2, ShowsGap
  <2> QED
    BY <1>3, <2>2, <2>3
<1>4. CASE InRegion
  <2>1. PICK i \in 1..RegionCount :
            /\ build = VDiskRegions[i].build
            /\ RegionStart(i) =< l /\ l < RegionEnd(i)
            /\ RegionStart(i) =< frag_start
    BY <1>1, <1>4, RegionTypes DEF InRegion
  <2>2. CASE i \in {1, 2, 3, 4}
    <3>1. /\ i = 1 => build = "mbr" /\ l = 0
          /\ i = 2 => build = "vbr" /\ l = VbrLba
          /\ i = 3 => build = "fsinfo" /\ l = FsinfoLba
          /\ i = 4 => build = "vbr" /\ l = BackupVbrLba
      BY <1>1, <2>1, <2>2, Regions, MetadataPlace DEF RegionStart, RegionEnd, Region
    <3>2. /\ build = "mbr" => Build(build, frag_start, count)[k] = Mbr
          /\ build = "vbr" => Build(build, frag_start, count)[k] = Vbr
          /\ build = "fsinfo" => Build(build, frag_start, count)[k] = Fsinfo
      BY <1>1 DEF Build
    <3> QED
      BY <2>2, <3>1, <3>2, ShowsReserved
  <2>3. CASE i = 5
    <3>1. build = "fat" /\ FatLba =< frag_start /\ l < FatLba + SectorsPerFat
      BY <1>1, <2>1, <2>3, Regions DEF RegionStart, RegionEnd, Region
    <3>2. Build(build, frag_start, count)[k] = BuildFat(frag_start, count)[k]
      BY <3>1 DEF Build
    <3> HIDE DEF count
    <3> QED
      BY <1>1, <3>1, <3>2, ShowsFat DEF count
  <2>4. ASSUME NEW dir \in Directories, i = 2 * dir + 2
        PROVE  Shows(files, l, Build(build, frag_start, count)[k])
    <3>1. VDiskRegions[i] = SubdirsRegion(dir)
      BY <2>4, Regions
    <3>2. build = "subdirs" /\ l = ClusterLba(dir) /\ frag_start = ClusterLba(dir)
      BY <1>1, <2>1, <3>1, DirPlace DEF RegionStart, RegionEnd, Region, SubdirsRegion
    <3>3. \A d \in Directories : ClusterLba(d) = frag_start => d = dir
      <4> SUFFICES ASSUME NEW d \in Directories, ClusterLba(d) = ClusterLba(dir), d # dir
                   PROVE  FALSE
        BY <3>2
      <4>1. d < dir \/ dir < d
        BY DEF Directories
      <4> QED
        BY <4>1, DirPlace, Layout
    <3>4. (CHOOSE d \in Directories : ClusterLba(d) = frag_start) = dir
      BY <3>2, <3>3
    <3>5. Build(build, frag_start, count)[k] = SubDirs(dir)
      BY <1>1, <3>2, <3>4 DEF Build, BuildSubdirs
    <3>6. InDir(l, dir)
      BY <3>2, DirPlace, Layout DEF InDir
    <3> QED
      BY <1>1, <3>2, <3>5, <3>6, ShowsDir
  <2>5. ASSUME NEW dir \in Directories, i = 2 * dir + 3
        PROVE  Shows(files, l, Build(build, frag_start, count)[k])
    <3>1. VDiskRegions[i] = FilesRegion(dir)
      BY <2>5, Regions
    <3>2. /\ build = "files" /\ ClusterLba(dir) \in Nat
          /\ ClusterLba(dir) + 1 =< l /\ l < ClusterLba(dir) + ClusterCount
      BY <1>1, <2>1, <3>1, DirPlace, Layout DEF RegionStart, RegionEnd, Region, FilesRegion
    <3> DEFINE j == l - ClusterLba(dir) - 1
    <3>3. j \in 0..(ClusterCount - 2) /\ l = ClusterLba(dir) + 1 + j
      BY <1>1, <3>2, Layout
    <3>4. Build(build, frag_start, count)[k] = Listing(files, FileDirentIdx(l))
      BY <1>1, <3>2 DEF Build, BuildDirFiles
    <3> HIDE DEF j, l
    <3>5. FileDirentIdx(l) = j
      BY <3>3, DirentIdx
    <3>6. InDir(l, dir) /\ l # ClusterLba(dir)
      BY <1>1, <3>2, Layout DEF InDir
    <3> QED
      BY <1>1, <3>4, <3>5, <3>6, ShowsDir DEF j
  <2> QED
    BY <2>2, <2>3, <2>4, <2>5, RegionCases
<1> QED
  BY <1>2, <1>3, <1>4 DEF BuilderOK

\* The size of a fragment and its size in bytes are not wrapped.
LEMMA FragmentCount ==
    ASSUME ReadInv, pc = "build"
    PROVE  LET n == frag_end - frag_start
           IN  /\ n \in Nat /\ n =< end - start /\ n % UIntMod = n
               /\ SectorsAdvanced(n) = n
<1> DEFINE n == frag_end - frag_start
<1>1. /\ n \in Nat /\ end - start \in Nat /\ n =< end - start
      /\ (end - start) * SectorSize < UIntMod
  BY DEF ReadInv, Reading, RequestInv, RequestOK, FragmentOK
<1> HIDE DEF n
<1>2. n * SectorSize \in Nat /\ n * SectorSize =< (end - start) * SectorSize
      /\ (end - start) * SectorSize \in Nat
  BY <1>1, Layout, MulMono, MulTypes
<1>3. n =< n * SectorSize
  BY <1>1, Layout
<1>4. n % UIntMod = n /\ (n * SectorSize) % UIntMod = n * SectorSize
  BY <1>1, <1>2, <1>3, Layout, ModSmall
<1>5. (n * SectorSize) \div SectorSize = n
  BY <1>1, <1>2, Layout, DivUnique
<1> QED
  BY <1>1, <1>4, <1>5 DEF SectorsAdvanced, n

\* The builder writes the fragment and no more.
LEMMA FragmentWritten ==
    ASSUME ReadInv, pc = "build"
    PROVE  SectorsWritten(build, frag_start, frag_end - frag_start) = frag_end - frag_start
<1> DEFINE n == frag_end - frag_start
<1>1. n \in Nat /\ SectorsAdvanced(n) = n
  BY FragmentCount
<1>2. BuilderOK /\ frag_start \in Nat /\ frag_end \in Nat
  BY DEF ReadInv
<1>3. CASE InSlot \/ PastSlots \/ InGap
  <2>1. build = "file" \/ build = "none"
    BY <1>3 DEF InSlot, PastSlots, InGap
  <2>2. SectorsWritten(build, frag_start, n) = SectorsAdvanced(n)
    BY <2>1 DEF SectorsWritten
  <2> QED
    BY <1>1, <2>2
<1>4. CASE InRegion
  <2>1. PICK i \in 1..RegionCount :
            /\ build = VDiskRegions[i].build
            /\ RegionStart(i) =< frag_start /\ frag_start < RegionEnd(i)
            /\ RegionStart(i) < frag_end /\ frag_end =< RegionEnd(i)
    BY <1>4 DEF InRegion
  <2>2. CASE i \in {1, 2, 3, 4} \/ \E dir \in Directories : i = 2 * dir + 2
    <3>1. /\ build \in {"mbr", "vbr", "fsinfo", "subdirs"}
          /\ RegionEnd(i) = RegionStart(i) + 1
      <4>1. CASE i \in {1, 2, 3, 4}
        BY <2>1, <4>1, Regions DEF RegionStart, RegionEnd, Region
      <4>2. ASSUME NEW dir \in Directories, i = 2 * dir + 2
            PROVE  build = "subdirs" /\ RegionEnd(i) = RegionStart(i) + 1
        <5>1. VDiskRegions[i] = SubdirsRegion(dir)
          BY <4>2, Regions
        <5> QED
          BY <2>1, <5>1 DEF RegionStart, RegionEnd, Region, SubdirsRegion
      <4> QED
        BY <2>2, <4>1, <4>2
    <3>2. n = 1
      BY <2>1, <3>1, <1>2, RegionTypes
    <3> QED
      BY <3>1, <3>2 DEF SectorsWritten
  <2>3. CASE i = 5
    <3>1. build = "fat" /\ FatLba < frag_end
      BY <2>1, <2>3, Regions DEF RegionStart, Region
    <3>2. ~(frag_start = FatLba /\ n = 0)
      BY <3>1, <1>2, MetadataPlace
    <3> QED
      BY <3>1, <3>2 DEF SectorsWritten
  <2>4. CASE \E dir \in Directories : i = 2 * dir + 3
    <3>1. PICK dir \in Directories : i = 2 * dir + 3
      BY <2>4
    <3>2. VDiskRegions[i] = FilesRegion(dir)
      BY <3>1, Regions
    <3>3. build = "files"
      BY <2>1, <3>2 DEF Region, FilesRegion
    <3> QED
      BY <3>3 DEF SectorsWritten
  <2> QED
    BY <2>2, <2>3, <2>4, RegionCases
<1> QED
  BY <1>2, <1>3, <1>4 DEF BuilderOK

-----------------------------------------------------------------------------
(* The invariant is inductive: one lemma per action.                       *)

\* At first no file is added and no read is in progress.
LEMMA InitInv == Init => ReadInv
<1> SUFFICES ASSUME Init PROVE ReadInv
  OBVIOUS
<1>1. FilesOK
  <2>1. \A idx \in 0..(MaxFiles - 1) : files[idx] = EmptyFile
    BY DEF Init
  <2>2. EmptyFile.len \in 0..(UIntMod - 1)
    BY Layout DEF EmptyFile
  <2>3. EmptyFile.used \in BOOLEAN
    BY Zenon DEF EmptyFile
  <2>4. 0 \in 0..MaxFiles
    BY Layout
  <2> QED
    BY <2>1, <2>2, <2>3, <2>4 DEF Init, FilesOK
<1> QED
  BY <1>1 DEF Init, NoRead, ReadInv, Reading

\* vdisk_add_file fills a slot of the table, and there is no read in progress.
LEMMA AddFileInv ==
    ASSUME ReadInv, NEW name \in Names, NEW len \in Lens, AddFile(name, len)
    PROVE  ReadInv'
<1>1. FilesOK'
  <2>1. len \in 0..(UIntMod - 1)
    BY LensAssumption
  <2>2. index' \in 0..MaxFiles /\ DOMAIN files' = 0..(MaxFiles - 1)
    BY Layout DEF AddFile, ReadInv, FilesOK
  <2>3. ASSUME NEW idx \in 0..(MaxFiles - 1)
        PROVE  files'[idx].len \in 0..(UIntMod - 1) /\ files'[idx].used \in BOOLEAN
    <3>1. CASE idx = index
      BY <2>1, <3>1 DEF AddFile, ReadInv, FilesOK
    <3>2. CASE idx # index
      BY <3>2 DEF AddFile, ReadInv, FilesOK
    <3> QED
      BY <3>1, <3>2
  <2> QED
    BY <2>2, <2>3 DEF FilesOK
<1> QED
  BY <1>1 DEF AddFile, readVars, ReadInv, Reading

\* After a reboot the table is empty again.
LEMMA RebootInv ==
    ASSUME ReadInv, Reboot
    PROVE  ReadInv'
<1>1. FilesOK'
  <2>1. \A idx \in 0..(MaxFiles - 1) : files'[idx] = EmptyFile
    BY DEF Reboot
  <2>2. EmptyFile.len \in 0..(UIntMod - 1)
    BY Layout DEF EmptyFile
  <2>3. EmptyFile.used \in BOOLEAN
    BY Zenon DEF EmptyFile
  <2>4. 0 \in 0..MaxFiles
    BY Layout
  <2> QED
    BY <2>1, <2>2, <2>3, <2>4 DEF Reboot, FilesOK
<1> QED
  BY <1>1 DEF Reboot, readVars, ReadInv, Reading

\* A call of vdisk_read begins with nothing built.
LEMMA StartReadInv ==
    ASSUME ReadInv, NEW r, RequestOK(r.lba, r.count), StartRead(r)
    PROVE  ReadInv'
<1>1. RequestOK(r.lba, r.count)
  OBVIOUS
<1>2. r.lba \in Nat /\ r.count \in Nat /\ (r.lba + r.count) % U64Mod = r.lba + r.count
  BY <1>1, Layout, ModSmall DEF RequestOK
<1>3. end' - start' = r.count
  BY <1>2 DEF StartRead
<1>4. RequestInv'
  BY <1>1, <1>2, <1>3 DEF StartRead, RequestInv
<1>5. FilesOK'
  BY DEF StartRead, ReadInv, FilesOK
<1> QED
  BY <1>2, <1>4, <1>5 DEF StartRead, ReadInv, Reading

\* The caller takes the buffer back.
LEMMA ReturnInv ==
    ASSUME ReadInv, Return
    PROVE  ReadInv'
<1>1. FilesOK'
  BY DEF Return, ReadInv, FilesOK
<1> QED
  BY <1>1 DEF Return, ReadInv, Reading

\* A fragment that begins in a slot, or after the slots, is cut at the slot's end.
LEMMA FileFragmentInv ==
    ASSUME ReadInv, FileFragment
    PROVE  ReadInv'
<1> DEFINE idx == FileIdx(frag_start)
           file_end == FileLba(idx + 1) % ULongMod
<1>1. /\ RequestInv /\ frag_start \in Nat /\ end \in Nat /\ start \in Nat
      /\ frag_start =< end /\ (frag_start = end => start = end)
  BY DEF FileFragment, ReadInv, Reading, RequestInv
<1>2. /\ idx \in Int /\ 0 =< idx
      /\ FileLba(idx) =< frag_start /\ frag_start < FileLba(idx) + FileCount
      /\ FileLba(idx + 1) = FileLba(idx) + FileCount
  BY <1>1, Slot DEF FileFragment
<1>3. FileLba(idx + 1) \in Nat /\ FileLba(idx + 1) < ULongMod
  <2> DEFINE last == FileIdx(end)
  <2>1. start + (end - start) = end
    BY <1>1
  <2>2. FileLba(last + 1) < ULongMod
    BY <1>1, <2>1 DEF RequestInv, RequestOK
  <2>3. last \in Int /\ end < FileLba(last) + FileCount /\ FileLba(last + 1) = FileLba(last) + FileCount
    BY <1>1, Slot
  <2> HIDE DEF last, idx
  <2>4. idx =< last
    <3> SUFFICES ASSUME last + 1 =< idx PROVE FALSE
      BY <1>2, <2>3
    <3>1. FileLba(last + 1) =< FileLba(idx) /\ FileLba(last + 1) \in Int /\ FileLba(idx) \in Int
      BY <1>2, <2>3, SlotOrder
    <3> QED
      BY <1>1, <1>2, <2>3, <3>1
  <2>5. FileLba(idx + 1) =< FileLba(last + 1) /\ FileLba(last + 1) \in Int /\ FileLba(idx + 1) \in Int
    BY <1>2, <2>3, <2>4, SlotOrder
  <2>6. 0 =< FileLba(idx + 1)
    BY <1>1, <1>2, <2>5, Layout, SlotOrder
  <2> QED
    BY <2>2, <2>5, <2>6, Layout
<1>4. file_end = FileLba(idx + 1) /\ file_end \in Nat
  BY <1>3, Layout, ModSmall
<1>5. frag_end' = IF end > FileLba(idx + 1) THEN FileLba(idx + 1) ELSE end
  BY <1>4 DEF FileFragment
<1>6. /\ UNCHANGED <<files, index, start, end, frag_start, region, data, buf, stray>>
      /\ pc' = "build" /\ pc = "fragment"
      /\ build' = IF idx < MaxFiles THEN "file" ELSE "none"
  BY DEF FileFragment
<1> HIDE DEF idx, file_end
<1>7. frag_end' \in Nat /\ frag_end' =< end /\ frag_start =< frag_end' /\ frag_end' =< FileLba(idx + 1)
      /\ (frag_start = frag_end' => start = end)
  BY <1>1, <1>2, <1>3, <1>5
<1>8. FragmentOK'
  BY <1>6, <1>7 DEF FragmentOK
<1>9. BuilderOK'
  <2>1. CASE idx < MaxFiles
    BY <1>2, <1>6, <1>7, <2>1, Layout DEF BuilderOK, InSlot, idx
  <2>2. CASE idx >= MaxFiles
    BY <1>2, <1>6, <2>2, Layout DEF BuilderOK, PastSlots, idx
  <2> QED
    BY <1>2, <2>1, <2>2, Layout
<1>10. FilesOK' /\ RequestInv'
  BY <1>1, <1>6 DEF ReadInv, FilesOK, RequestInv
<1> QED
  BY <1>6, <1>7, <1>8, <1>9, <1>10 DEF ReadInv, Reading

\* A fragment that begins below the slots has yet to be compared with the regions.
LEMMA RegionFragmentInv ==
    ASSUME ReadInv, RegionFragment
    PROVE  ReadInv'
<1>1. /\ RequestInv /\ frag_start \in Nat /\ end \in Nat /\ start \in Nat
      /\ frag_start =< end /\ (frag_start = end => start = end)
  BY DEF RegionFragment, ReadInv, Reading, RequestInv
<1>2. frag_start < FileCount
  BY <1>1, Slot DEF RegionFragment
<1>3. /\ UNCHANGED <<files, index, start, end, frag_start, data, buf, stray>>
      /\ pc' = "scan" /\ pc = "fragment" /\ build' = "none" /\ region' = 1 /\ frag_end' = end
  BY DEF RegionFragment
<1>4. FragmentOK'
  BY <1>1, <1>3 DEF FragmentOK
<1>5. FilesOK' /\ RequestInv'
  BY <1>1, <1>3 DEF ReadInv, FilesOK, RequestInv
<1>6. region' \in 1..RegionCount /\ \A i \in 1..(region' - 1) : Misses(i)'
  BY <1>3 DEF RegionCount
<1> QED
  BY <1>1, <1>2, <1>3, <1>4, <1>5, <1>6 DEF ReadInv, Reading

\* Comparing it with a region leaves it clear of that region, or inside it.
LEMMA ScanRegionInv ==
    ASSUME ReadInv, ScanRegion
    PROVE  ReadInv'
<1> DEFINE region_start == VDiskRegions[region].lba
           region_end == region_start + VDiskRegions[region].count
           cut == IF frag_start < region_start /\ frag_end > region_start
                  THEN region_start ELSE frag_end
<1>1. /\ RequestInv /\ FragmentOK /\ build = "none" /\ frag_start < FileCount
      /\ region \in 1..RegionCount /\ \A i \in 1..(region - 1) : Misses(i)
      /\ frag_start \in Nat /\ frag_end \in Nat /\ end \in Nat /\ start \in Nat
      /\ pc = "scan"
  BY DEF ScanRegion, ReadInv, Reading
<1>2. /\ region_start = RegionStart(region) /\ region_end = RegionEnd(region)
      /\ region_start \in Nat /\ region_end \in Nat
  BY <1>1, RegionTypes DEF RegionStart, RegionEnd
<1>3. UNCHANGED <<files, index, start, end, frag_start, data, buf, stray>>
  BY DEF ScanRegion
<1>4. FilesOK' /\ RequestInv'
  BY <1>1, <1>3 DEF ReadInv, FilesOK, RequestInv
<1> HIDE DEF region_start, region_end
<1>5. /\ cut \in Nat /\ frag_start =< cut /\ cut =< frag_end
      /\ (frag_start = cut => start = end)
  BY <1>1, <1>2 DEF FragmentOK
<1>6. ASSUME NEW fe \in Nat, frag_end' = fe, fe =< frag_end
      PROVE  \A i \in 1..(region - 1) : Misses(i)'
  <2> SUFFICES ASSUME NEW i \in 1..(region - 1) PROVE Misses(i)'
    OBVIOUS
  <2>1. i \in 1..RegionCount
    BY <1>1 DEF RegionCount
  <2>2. RegionStart(i) \in Nat /\ RegionEnd(i) \in Nat
    BY <2>1, RegionTypes
  <2>3. frag_start >= RegionEnd(i) \/ frag_end =< RegionStart(i)
    BY <1>1 DEF Misses
  <2>4. frag_start >= RegionEnd(i) \/ frag_end' =< RegionStart(i)
    BY <1>1, <1>6, <2>2, <2>3
  <2> QED
    BY <1>3, <2>4 DEF Misses, RegionStart, RegionEnd
<1>7. CASE frag_start >= region_end \/ cut =< region_start
  <2>1. /\ frag_end' = cut /\ build' = build
        /\ pc' = IF region = RegionCount THEN "build" ELSE "scan"
        /\ region' = IF region = RegionCount THEN 1 ELSE region + 1
    BY <1>7 DEF ScanRegion, region_start, region_end
  <2> HIDE DEF cut
  <2>2. FragmentOK'
    BY <1>1, <1>3, <1>5, <2>1 DEF FragmentOK
  <2>3. ASSUME NEW i \in 1..region
        PROVE  Misses(i)'
    <3>1. CASE i = region
      <4>1. frag_start' >= RegionEnd(i) \/ frag_end' =< RegionStart(i)
        BY <1>2, <1>3, <1>7, <2>1, <3>1
      <4> QED
        BY <4>1 DEF Misses, RegionStart, RegionEnd
    <3>2. CASE i # region
      <4>1. i \in 1..(region - 1)
        BY <3>2, <1>1
      <4> QED
        BY <4>1, <1>5, <1>6, <2>1
    <3> QED
      BY <3>1, <3>2
  <2>4. CASE region = RegionCount
    <3>1. pc' = "build" /\ build' = "none" /\ frag_start' < FileCount
      BY <1>1, <1>3, <2>1, <2>4
    <3>2. InGap'
      BY <3>1, <2>3, <2>4 DEF InGap
    <3>3. BuilderOK'
      BY <3>2 DEF BuilderOK
    <3> QED
      BY <1>1, <1>3, <1>4, <1>5, <2>1, <2>2, <3>1, <3>3 DEF ReadInv, Reading
  <2>5. CASE region # RegionCount
    <3>1. pc' = "scan" /\ build' = "none" /\ region' = region + 1 /\ region + 1 \in 1..RegionCount
      BY <1>1, <2>1, <2>5 DEF RegionCount
    <3>2. \A i \in 1..(region' - 1) : Misses(i)'
      BY <1>1, <2>3, <3>1
    <3> QED
      BY <1>1, <1>3, <1>4, <1>5, <2>1, <2>2, <3>1, <3>2 DEF ReadInv, Reading
  <2> QED
    BY <2>4, <2>5
<1>8. CASE ~(frag_start >= region_end \/ cut =< region_start)
  <2>1. /\ frag_end' = (IF cut > region_end THEN region_end ELSE cut)
        /\ build' = VDiskRegions[region].build
        /\ pc' = "build"
    BY <1>8 DEF ScanRegion, region_start, region_end
  <2>2. /\ region_start =< frag_start /\ frag_start < region_end
        /\ region_start < frag_end' /\ frag_end' =< region_end
        /\ frag_end' \in Nat /\ frag_start =< frag_end' /\ frag_end' =< end
        /\ (frag_start = frag_end' => start = end)
    BY <1>1, <1>2, <1>5, <1>8, <2>1 DEF FragmentOK
  <2>3. FragmentOK'
    BY <1>3, <2>2 DEF FragmentOK
  <2>4. PICK i \in 1..RegionCount : i = region
    BY <1>1
  <2>5. /\ build' = VDiskRegions[i].build
        /\ RegionStart(i) =< frag_start' /\ frag_start' < RegionEnd(i)
        /\ RegionStart(i) < frag_end' /\ frag_end' =< RegionEnd(i)
        /\ frag_start' < FileCount
    BY <1>1, <1>2, <1>3, <2>1, <2>2, <2>4
  <2>6. InRegion'
    BY <2>5 DEF InRegion, RegionStart, RegionEnd
  <2>7. BuilderOK'
    BY <2>6 DEF BuilderOK
  <2> QED
    BY <1>1, <1>3, <1>4, <2>1, <2>2, <2>3, <2>7 DEF ReadInv, Reading
<1> QED
  BY <1>7, <1>8

\* Building the fragment extends what is built by the fragment.
LEMMA BuildFragmentInv ==
    ASSUME ReadInv, BuildFragment
    PROVE  ReadInv'
<1> DEFINE n == frag_end - frag_start
<1>1. /\ RequestInv /\ FragmentOK /\ BuilderOK /\ FilesOK /\ ~stray
      /\ frag_start \in Nat /\ frag_end \in Nat /\ end \in Nat /\ start \in Nat
      /\ data \in Nat /\ data = frag_start - start /\ start =< frag_start
      /\ frag_start =< frag_end /\ frag_end =< end /\ pc = "build"
      /\ (frag_start = frag_end => start = end)
      /\ DOMAIN buf = 0..(end - start - 1)
      /\ end < U64Mod
      /\ end =< FileCount \/ FileCount =< start
      /\ \A k \in 0..(data - 1) : Shows(files, start + k, buf[k])
  <2>1. /\ RequestInv /\ FragmentOK /\ BuilderOK /\ FilesOK /\ ~stray
        /\ frag_start \in Nat /\ frag_end \in Nat /\ end \in Nat /\ start \in Nat
        /\ data \in Nat /\ pc = "build"
    BY DEF BuildFragment, ReadInv, Reading
  <2>2. start + (end - start) = end
    BY <2>1
  <2> QED
    BY <2>1, <2>2 DEF RequestInv, RequestOK, FragmentOK
<1>2. n \in Nat /\ n % UIntMod = n /\ SectorsAdvanced(n) = n
      /\ SectorsWritten(build, frag_start, n) = n
  BY <1>1, FragmentCount, FragmentWritten
<1>3. (end - start) % U64Mod = end - start /\ frag_start + n = frag_end
      /\ frag_end % U64Mod = frag_end
  BY <1>1, Layout, ModSmall
<1>4. /\ UNCHANGED <<files, index, start, end, frag_end, region, build>>
      /\ buf' = [k \in DOMAIN buf |->
                    IF data =< k /\ k < data + n THEN Build(build, frag_start, n)[k - data] ELSE buf[k]]
      /\ stray' = (stray \/ data + n > end - start)
      /\ data' = data + n
      /\ frag_start' = frag_end
      /\ pc' = IF frag_end = end THEN "done" ELSE "fragment"
  BY <1>2, <1>3 DEF BuildFragment
<1> HIDE DEF n
<1>5. ~stray'
  <2>1. ~(data + n > end - start)
    BY <1>1, <1>2, <1>3
  <2> QED
    BY <2>1, <1>1, <1>4, Zenon
<1>6. ASSUME NEW k \in 0..(data' - 1)
      PROVE  Shows(files, start + k, buf'[k])
  <2>1. k \in DOMAIN buf
    BY <1>1, <1>2, <1>3, <1>4, SMTT(30)
  <2>2. CASE k < data
    <3>1. buf'[k] = buf[k]
      BY <2>1, <2>2, <1>1, <1>4
    <3> QED
      BY <3>1, <2>2, <1>1
  <2>3. CASE data =< k
    <3> DEFINE j == k - data
    <3>1. j \in 0..(n - 1) /\ start + k = frag_start + j
      BY <2>3, <1>1, <1>2, <1>4
    <3>2. buf'[k] = Build(build, frag_start, n)[j]
      BY <2>1, <2>3, <1>1, <1>2, <1>4
    <3> HIDE DEF j
    <3>3. Shows(files, frag_start + j, Build(build, frag_start, n)[j])
      <4>1. frag_end =< FileCount \/ FileCount =< frag_start
        BY <1>1, Layout
      <4> QED
        BY <1>1, <3>1, <4>1, FragmentShows DEF n
    <3> QED
      BY <3>1, <3>2, <3>3
  <2> QED
    BY <1>1, <2>2, <2>3
<1>7. FilesOK'
  BY <1>1, <1>4 DEF FilesOK
<1>8. RequestInv'
  <2>1. DOMAIN buf' = 0..(end - start - 1)
    BY <1>1, <1>4
  <2>2. data' = frag_start' - start /\ start =< frag_start' /\ frag_start' =< end
    BY <1>1, <1>2, <1>3, <1>4
  <2>3. RequestOK(start, end - start)
    BY <1>1 DEF RequestInv
  <2> QED
    BY <1>4, <1>6, <2>1, <2>2, <2>3 DEF RequestInv
<1>9. {start', end', frag_start', frag_end', data'} \subseteq Nat
  BY <1>1, <1>2, <1>4
<1> QED
  BY <1>1, <1>4, <1>5, <1>7, <1>8, <1>9 DEF ReadInv, Reading

-----------------------------------------------------------------------------
(* The theorems.                                                           *)

\* The loader, and a step of vdisk_read, whoever called it.
LEMMA LoadingInv ==
    ASSUME ReadInv,
           (\E name \in Names, len \in Lens : AddFile(name, len)) \/ TooManyFiles \/ Reboot \/ Serve
    PROVE  ReadInv'
<1>1. ASSUME NEW name \in Names, NEW len \in Lens, AddFile(name, len) PROVE ReadInv'
  BY <1>1, AddFileInv
<1>2. CASE TooManyFiles
  BY <1>2 DEF TooManyFiles, readVars, ReadInv, FilesOK, Reading
<1>3. CASE Reboot
  BY <1>3, RebootInv
<1>4. CASE Serve
  BY <1>4 DEF Serve, readVars, ReadInv, FilesOK, Reading
<1> QED
  BY <1>1, <1>2, <1>3, <1>4

LEMMA ReadStepInv ==
    ASSUME ReadInv, ReadStep
    PROVE  ReadInv'
  BY FileFragmentInv, RegionFragmentInv, ScanRegionInv, BuildFragmentInv DEF ReadStep

LEMMA ReadStutters ==
    ASSUME ReadInv, UNCHANGED vars
    PROVE  ReadInv'
  BY DEF vars, readVars, ReadInv, FilesOK, Reading, RequestInv, FragmentOK, Misses, BuilderOK,
         InSlot, PastSlots, InRegion, InGap, RegionStart, RegionEnd

\* The invariant of vdisk_read holds between any two of its steps: for every
\* geometry, file table and request, the sectors built so far are the promised
\* ones, and the builder chosen for the next fragment is the right one.
THEOREM ReadInvariant == Spec => []ReadInv
<1>1. Init => ReadInv
  BY InitInv
<1>2. ReadInv /\ [Next]_vars => ReadInv'
  <2> SUFFICES ASSUME ReadInv, [Next]_vars PROVE ReadInv'
    OBVIOUS
  <2>1. CASE (\E name \in Names, len \in Lens : AddFile(name, len)) \/ TooManyFiles \/ Reboot \/ Serve
    BY <2>1, LoadingInv
  <2>2. ASSUME NEW r \in Requests, StartRead(r) PROVE ReadInv'
    BY <2>2, StartReadInv, RequestsAssumption
  <2>3. CASE ReadStep
    BY <2>3, ReadStepInv
  <2>4. CASE Return
    BY <2>4, ReturnInv
  <2>5. CASE UNCHANGED vars
    BY <2>5, ReadStutters
  <2> QED
    BY <2>1, <2>2, <2>3, <2>4, <2>5 DEF Next
<1> QED
  BY <1>1, <1>2, PTL DEF Spec

\* The part of the type invariant that speaks of the file table.
FilesTyped ==
    /\ index \in 0..MaxFiles
    /\ DOMAIN files = 0..(MaxFiles - 1)
    /\ \A idx \in DOMAIN files :
          IF idx < index
          THEN files[idx].used /\ files[idx].len \in Lens
          ELSE files[idx] = EmptyFile

\* The part that speaks of vdisk_read's own variables.
ReadTyped ==
    /\ pc \in {"extract", "dead", "idle", "fragment", "scan", "build", "done"}
    /\ region \in 1..RegionCount
    /\ build \in {"mbr", "vbr", "fsinfo", "fat", "subdirs", "files", "file", "none"}
    /\ DOMAIN buf = 0..(end - start - 1)
    /\ stray \in BOOLEAN

\* Every step preserves the type of the file table.
LEMMA FilesTypedStep ==
    ASSUME FilesTyped, [Next]_vars
    PROVE  FilesTyped'
<1>1. ASSUME NEW name \in Names, NEW len \in Lens, AddFile(name, len) PROVE FilesTyped'
  <2>1. index' = index + 1 /\ index' \in 0..MaxFiles /\ DOMAIN files' = 0..(MaxFiles - 1)
    BY <1>1, Layout DEF AddFile, FilesTyped
  <2>2. ASSUME NEW idx \in DOMAIN files'
        PROVE  IF idx < index' THEN files'[idx].used /\ files'[idx].len \in Lens
               ELSE files'[idx] = EmptyFile
    <3>1. CASE idx = index
      <4>1. files'[idx] = [used |-> TRUE, name |-> Cut(name), opaque |-> index, len |-> len]
        BY <1>1, <2>1, <2>2, <3>1 DEF AddFile, FilesTyped
      <4>2. files'[idx].used /\ files'[idx].len \in Lens
        BY <4>1
      <4> QED
        BY <2>1, <3>1, <4>2 DEF FilesTyped
    <3>2. CASE idx # index
      <4>1. files'[idx] = files[idx] /\ idx \in DOMAIN files
        BY <1>1, <2>1, <2>2, <3>2 DEF AddFile, FilesTyped
      <4>2. (idx < index') <=> (idx < index)
        BY <2>1, <2>2, <3>2, Layout DEF FilesTyped
      <4> QED
        BY <4>1, <4>2 DEF FilesTyped
    <3> QED
      BY <3>1, <3>2
  <2> QED
    BY <2>1, <2>2 DEF FilesTyped
<1>2. CASE Reboot
  <2>1. index' = 0 /\ 0 \in 0..MaxFiles
    BY <1>2, Layout DEF Reboot
  <2>2. DOMAIN files' = 0..(MaxFiles - 1) /\ \A idx \in DOMAIN files' : files'[idx] = EmptyFile
    BY <1>2 DEF Reboot
  <2>3. \A idx \in DOMAIN files' : ~(idx < index')
    BY <2>1, <2>2, Layout
  <2> QED
    BY <2>1, <2>2, <2>3 DEF FilesTyped
<1>3. CASE UNCHANGED <<files, index>>
  BY <1>3 DEF FilesTyped
<1>4. ASSUME NEW r \in Requests, StartRead(r) PROVE UNCHANGED <<files, index>>
  BY <1>4 DEF StartRead
<1>5. CASE TooManyFiles \/ Serve \/ ReadStep \/ Return \/ UNCHANGED vars
  BY <1>5, <1>3 DEF TooManyFiles, Serve, ReadStep, FileFragment, RegionFragment, ScanRegion,
                    BuildFragment, Return, vars
<1> QED
  BY <1>1, <1>2, <1>3, <1>4, <1>5 DEF Next

\* Every step preserves the types of vdisk_read's variables.
LEMMA ReadTypedStep ==
    ASSUME ReadInv, ReadTyped, [Next]_vars
    PROVE  ReadTyped'
<1>1. CASE UNCHANGED readVars /\ pc' \in {"extract", "dead", "idle"}
  BY <1>1 DEF readVars, ReadTyped
<1>2. ASSUME NEW name \in Names, NEW len \in Lens, AddFile(name, len) PROVE ReadTyped'
  BY <1>2, <1>1 DEF AddFile
<1>3. CASE TooManyFiles \/ Reboot \/ Serve
  BY <1>3, <1>1 DEF TooManyFiles, Reboot, Serve
<1>4. ASSUME NEW r \in Requests, StartRead(r) PROVE ReadTyped'
  <2> RequestOK(r.lba, r.count)
    BY RequestsAssumption
  <2>1. r.lba \in Nat /\ r.count \in Nat /\ (r.lba + r.count) % U64Mod = r.lba + r.count
    BY Layout, ModSmall DEF RequestOK
  <2>2. DOMAIN buf' = 0..(end' - start' - 1)
    BY <1>4, <2>1 DEF StartRead
  <2> QED
    BY <1>4, <2>2 DEF StartRead, ReadTyped
<1>5. CASE FileFragment
  BY <1>5 DEF FileFragment, ReadTyped
<1>6. CASE RegionFragment
  BY <1>6 DEF RegionFragment, ReadTyped, RegionCount
<1>7. CASE ScanRegion
  <2>1. VDiskRegions[region].build \in {"mbr", "vbr", "fsinfo", "fat", "subdirs", "files"}
    BY RegionTypes DEF ReadTyped
  <2>2. region' \in 1..RegionCount
    BY <1>7 DEF ScanRegion, ReadTyped, RegionCount
  <2>3. build' \in {build, VDiskRegions[region].build} /\ pc' \in {"scan", "build"}
        /\ UNCHANGED <<start, end, buf, stray>>
    BY <1>7 DEF ScanRegion
  <2> QED
    BY <2>1, <2>2, <2>3 DEF ReadTyped
<1>8. CASE BuildFragment
  <2>1. DOMAIN buf' = DOMAIN buf /\ UNCHANGED <<start, end, region, build>>
        /\ pc' \in {"done", "fragment"}
    BY <1>8 DEF BuildFragment
  <2>2. stray' \in BOOLEAN
    BY <1>8, Zenon DEF BuildFragment
  <2> QED
    BY <2>1, <2>2 DEF ReadTyped
<1>9. CASE Return
  BY <1>9 DEF Return, ReadTyped, RegionCount
<1>10. CASE UNCHANGED vars
  BY <1>10 DEF vars, readVars, ReadTyped
<1> QED
  BY <1>2, <1>3, <1>4, <1>5, <1>6, <1>7, <1>8, <1>9, <1>10 DEF Next, ReadStep

\* Type correctness, with exactly the first index slots of vdisk_files in use:
\* vdisk_add_file never passes the end of the table nor skips a slot.
THEOREM TypeCorrect == Spec => []TypeOK
<1>1. Init => FilesTyped /\ ReadTyped
  <2> SUFFICES ASSUME Init PROVE FilesTyped /\ ReadTyped
    OBVIOUS
  <2>1. index = 0 /\ 0 \in 0..MaxFiles
    BY Layout DEF Init
  <2>2. DOMAIN files = 0..(MaxFiles - 1) /\ \A idx \in DOMAIN files : files[idx] = EmptyFile
    BY DEF Init
  <2>3. \A idx \in DOMAIN files : ~(idx < index)
    BY <2>1, <2>2, Layout
  <2>4. FilesTyped
    BY <2>1, <2>2, <2>3 DEF FilesTyped
  <2>5. stray \in BOOLEAN
    BY Zenon DEF Init, NoRead
  <2>6. DOMAIN buf = 0..(end - start - 1)
    BY DEF Init, NoRead
  <2> QED
    BY <2>4, <2>5, <2>6 DEF Init, NoRead, ReadTyped, RegionCount
<1>2. FilesTyped /\ ReadTyped /\ ReadInv /\ [Next]_vars => FilesTyped' /\ ReadTyped'
  BY FilesTypedStep, ReadTypedStep
<1>3. FilesTyped /\ ReadTyped /\ ReadInv => TypeOK
  BY DEF FilesTyped, ReadTyped, ReadInv, TypeOK
<1> QED
  BY <1>1, <1>2, <1>3, ReadInvariant, PTL DEF Spec

\* When vdisk_read returns, every sector of the buffer holds what the layout of
\* the disk promises for its LBA.
THEOREM ReadIsCorrect == Spec => []ReadCorrect
<1>1. ReadInv => ReadCorrect
  <2> SUFFICES ASSUME ReadInv, pc = "done", NEW k \in 0..(end - start - 1)
               PROVE  Shows(files, start + k, buf[k])
    BY DEF ReadCorrect
  <2>1. RequestInv /\ frag_start = end
    BY DEF ReadInv
  <2>2. data = end - start
    BY <2>1 DEF RequestInv
  <2> QED
    BY <2>1, <2>2 DEF RequestInv
<1> QED
  BY <1>1, ReadInvariant, PTL

\* No builder called by vdisk_read ever writes outside the caller's buffer.
THEOREM ReadStaysInBuffer == Spec => []WritesInBuffer
<1>1. ReadInv => WritesInBuffer
  BY DEF ReadInv, WritesInBuffer
<1> QED
  BY <1>1, ReadInvariant, PTL

\* The loop of vdisk_read advances with every fragment.
THEOREM ReadAdvances == Spec => []FragmentAdvances
<1>1. ReadInv => FragmentAdvances
  BY DEF ReadInv, FragmentOK, FragmentAdvances
<1> QED
  BY <1>1, ReadInvariant, PTL

\* The virtual disk implements VDiskSpec: its steps are those of a disk that
\* answers every request at once, with the contents the layout promises.
THEOREM Refinement == Spec => ImplementsVDiskSpec
<1>1. Init => Abstract!SpecInit
  BY DEF Init, Abstract!SpecInit, ioBar, Abstract!Extracting
<1>2. ReadInv /\ ReadInv' /\ [Next]_vars => [Abstract!SpecNext]_(Abstract!specVars)
  <2> SUFFICES ASSUME ReadInv, ReadInv', [Next]_vars
               PROVE  Abstract!SpecNext \/ UNCHANGED <<files, index, ioBar>>
    BY DEF Abstract!specVars
  <2>1. ASSUME NEW name \in Names, NEW len \in Lens, AddFile(name, len)
        PROVE  Abstract!SpecAddFile(name, len)
    BY <2>1 DEF AddFile, Abstract!SpecAddFile, ioBar, Abstract!Extracting, readVars
  <2>2. CASE TooManyFiles
    <3>1. index = MaxFiles
      BY <2>2, Layout DEF TooManyFiles, ReadInv, FilesOK
    <3>2. Abstract!SpecTooManyFiles
      BY <2>2, <3>1 DEF TooManyFiles, Abstract!SpecTooManyFiles, ioBar, Abstract!Extracting,
                        Abstract!Dead
    <3> QED
      BY <3>2 DEF Abstract!SpecNext
  <2>3. CASE Reboot
    BY <2>3 DEF Reboot, Abstract!SpecNext, Abstract!SpecReboot, ioBar, Abstract!Extracting,
                Abstract!Dead
  <2>4. CASE Serve
    BY <2>4 DEF Serve, Abstract!SpecNext, Abstract!SpecServe, ioBar, Abstract!Extracting,
                Abstract!Idle
  <2>5. ASSUME NEW r \in Requests, StartRead(r)
        PROVE  Abstract!SpecRequest(r)
    <3>1. r.lba \in Nat /\ r.count \in Nat /\ r.lba + r.count < U64Mod
      BY RequestsAssumption DEF RequestOK
    <3>2. (r.lba + r.count) % U64Mod = r.lba + r.count
      BY <3>1, Layout, ModSmall
    <3>3. end' - start' = r.count /\ start' = r.lba
      BY <2>5, <3>1, <3>2 DEF StartRead
    <3> QED
      BY <2>5, <3>3 DEF StartRead, Abstract!SpecRequest, ioBar, Abstract!Idle
  <2>6. CASE FileFragment
    BY <2>6 DEF FileFragment, ioBar
  <2>7. CASE RegionFragment
    BY <2>7 DEF RegionFragment, ioBar
  <2>8. CASE ScanRegion
    <3>1. pc = "scan" /\ pc' \in {"scan", "build"} /\ UNCHANGED <<files, index, start, end>>
      BY <2>8 DEF ScanRegion
    <3> QED
      BY <3>1 DEF ioBar
  <2>9. CASE BuildFragment
    <3>1. /\ pc = "build" /\ UNCHANGED <<files, index, start, end>>
          /\ pc' \in {"done", "fragment"}
      BY <2>9 DEF BuildFragment
    <3>2. CASE pc' = "fragment"
      BY <3>1, <3>2 DEF ioBar
    <3>3. CASE pc' = "done"
      <4>1. RequestInv' /\ frag_start' = end' /\ end' \in Nat /\ start' \in Nat
        BY <3>3 DEF ReadInv
      <4>2. /\ DOMAIN buf' = 0..(end - start - 1)
            /\ \A k \in 0..(end - start - 1) : Shows(files, start + k, buf'[k])
        BY <3>1, <4>1 DEF RequestInv
      <4>3. /\ ioBar = [state |-> "reading", lba |-> start, count |-> end - start]
            /\ ioBar' = [state |-> "done", lba |-> start, count |-> end - start, data |-> buf']
        BY <3>1, <3>3 DEF ioBar
      <4>4. Abstract!SpecAnswer
        BY <3>1, <4>2, <4>3 DEF Abstract!SpecAnswer
      <4> QED
        BY <4>4 DEF Abstract!SpecNext
    <3> QED
      BY <3>1, <3>2, <3>3
  <2>10. CASE Return
    BY <2>10 DEF Return, Abstract!SpecNext, Abstract!SpecReturn, ioBar, Abstract!Idle
  <2>11. CASE UNCHANGED vars
    BY <2>11 DEF vars, readVars, ioBar
  <2> QED
    BY <2>1, <2>2, <2>3, <2>4, <2>5, <2>6, <2>7, <2>8, <2>9, <2>10, <2>11
       DEF Next, ReadStep, Abstract!SpecNext
<1> QED
  BY <1>1, <1>2, ReadInvariant, PTL DEF Spec, ImplementsVDiskSpec, Abstract!AbstractSpec
=============================================================================
