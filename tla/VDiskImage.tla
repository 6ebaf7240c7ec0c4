----------------------------- MODULE VDiskImage ------------------------------
(***************************************************************************)
(* What each sector of the virtual disk contains, for a given table of     *)
(* virtual files.  A sector is abstracted to the record of what a reader   *)
(* of the volume can tell: where the partition is, the FAT's entries, a    *)
(* directory's entries, or which bytes of which file it holds.             *)
(*                                                                         *)
(* Shows(files, lba, content) is the promise made to the operating         *)
(* system's FAT driver.  It is written from the layout of a FAT32 volume,  *)
(* sector by sector, and not from the code of vdisk_read, which builds     *)
(* whole fragments at a time (module VDisk).                               *)
(***************************************************************************)
EXTENDS VDiskGeometry, Sequences

NameLen == 31            \* VDISK_NAME_LEN
LfnChars == 13           \* characters in a long filename record
DirentPerSector == 16    \* VDISK_DIRENT_PER_SECTOR

\* FAT entries that are not cluster numbers.
EndMarker == -1          \* VDISK_FAT_END_MARKER
MediaMarker == -2        \* entry 0: the end marker with the media type

Zero == [kind |-> "zero"]
Mbr == [kind |-> "mbr", start |-> PartitionLba, length |-> PartitionCount]
Vbr == [kind |-> "vbr",
        sectors_per_cluster |-> ClusterCount, reserved_sectors |-> ReservedCount,
        hidden_sectors |-> VbrLba, sectors |-> PartitionCount,
        sectors_per_fat |-> SectorsPerFat, root |-> RootCluster,
        fsinfo |-> FsinfoLba - VbrLba, backup |-> BackupVbrSector]
Fsinfo == [kind |-> "fsinfo"]
FatSector(next) == [kind |-> "fat", next |-> next]

-----------------------------------------------------------------------------
(* The table of virtual files.                                             *)

\* A slot of vdisk_files: whether its read method is set, and the rest.  The
\* xlen of the source always equals len: vdisk_patch_file has no caller.
EmptyFile == [used |-> FALSE, name |-> << >>, opaque |-> -1, len |-> 0]

\* snprintf into the name field keeps the first NameLen characters.
Cut(name) == IF Len(name) =< NameLen THEN name ELSE SubSeq(name, 1, NameLen)

-----------------------------------------------------------------------------
(* Directory sectors.                                                      *)

Deleted == [deleted |-> TRUE]

\* The terminator is always written, so a name that fills its last record
\* exactly gets one more record.
LfnCount(name) == Len(name) \div LfnChars + 1

\* Variant: the first record is marked as the last.
LfnFirstMarked(name, seq) ==
    [sequence |-> seq,
     last |-> seq = 1,
     chars |-> [j \in 1..LfnChars |->
                  LET p == (seq - 1) * LfnChars + j
                  IN  IF p =< Len(name) THEN name[p]
                      ELSE IF p = Len(name) + 1 THEN "nul" ELSE "fill"]]

Lfn(name, seq) ==
    [sequence |-> seq,
     last |-> seq = LfnCount(name),
     chars |-> [j \in 1..LfnChars |->
                  LET p == (seq - 1) * LfnChars + j
                  IN  IF p =< Len(name) THEN name[p]
                      ELSE IF p = Len(name) + 1 THEN "nul" ELSE "fill"]]

\* One entry as it lies on the disk: the long filename records from the last
\* to the first, then the record with the (invalid) 8.3 name.
DirectoryEntry(name, len, attr, cluster) ==
    [j \in 1..LfnCount(name) |-> Lfn(name, LfnCount(name) + 1 - j)]
        \o << [attr |-> attr, size |-> len % UIntMod, cluster |-> cluster] >>

\* Entries are added from the end of the sector downwards.
DirSector(entries) ==
    [kind |-> "dir",
     entry |-> [j \in 1..(DirentPerSector - Len(entries)) |-> Deleted] \o entries]

EmptyDir == DirSector(<< >>)

SubDir(name, cluster) == DirectoryEntry(name, 0, "directory", cluster)

BootName == <<"B", "O", "O", "T">>
SourcesName == <<"S", "O", "U", "R", "C", "E", "S">>
EfiName == <<"E", "F", "I">>
FontsName == <<"F", "O", "N", "T", "S">>
ResourcesName == <<"R", "E", "S", "O", "U", "R", "C", "E", "S">>
MicrosoftName == <<"M", "I", "C", "R", "O", "S", "O", "F", "T">>

\* The first sector of a directory's cluster lists its subdirectories.
SubDirs(dir) ==
    DirSector(
      CASE dir = RootCluster ->
             SubDir(EfiName, EfiCluster) \o SubDir(SourcesName, SourcesCluster)
               \o SubDir(BootName, BootCluster)
        [] dir = BootCluster ->
             SubDir(ResourcesName, ResourcesCluster) \o SubDir(FontsName, FontsCluster)
        [] dir = EfiCluster ->
             SubDir(MicrosoftName, MicrosoftCluster) \o SubDir(BootName, BootCluster)
        [] dir = MicrosoftCluster -> SubDir(BootName, BootCluster)
        [] OTHER -> << >>)

\* Variant: the file's LBA is taken for its cluster.
ListingLba(files, idx) ==
    IF files[idx].used
    THEN DirSector(DirectoryEntry(files[idx].name, files[idx].len, "read_only", FileLba(idx)))
    ELSE EmptyDir

\* Each of the other sectors lists one file, in every directory.
Listing(files, idx) ==
    IF files[idx].used
    THEN DirSector(DirectoryEntry(files[idx].name, files[idx].len, "read_only",
                                  FileCluster(idx)))
    ELSE EmptyDir

-----------------------------------------------------------------------------
(* File sectors: the n bytes of the file's data from byte offset on, padded *)
(* with zeros.                                                              *)

FileData(file, offset, n) ==
    IF n = 0 THEN Zero
    ELSE [kind |-> "file", opaque |-> file.opaque, offset |-> offset, bytes |-> n]

\* The bytes of a file that lie in the sector at byte offset.
BytesAt(len, offset) ==
    IF len =< offset THEN 0
    ELSE IF len < offset + SectorSize THEN len - offset ELSE SectorSize

-----------------------------------------------------------------------------
(* The promise.                                                            *)

\* The clusters that hold the data of file idx.
LastCluster(file, idx) == FileCluster(idx) + (file.len - 1) \div ClusterSize
Holds(files, idx, cluster) ==
    /\ files[idx].used /\ files[idx].len > 0
    /\ FileCluster(idx) =< cluster /\ cluster =< LastCluster(files[idx], idx)

\* The FAT entry of a cluster: the marker of entry 0, a one-cluster chain for
\* each directory, the chain of a file; nothing is promised for other clusters.
FatEntryOK(files, cluster, entry) ==
    /\ cluster = 0 => entry = MediaMarker
    /\ cluster \in Directories => entry = EndMarker
    /\ \A idx \in 0..(MaxFiles - 1) :
          Holds(files, idx, cluster) =>
             entry = IF cluster = LastCluster(files[idx], idx)
                     THEN EndMarker ELSE cluster + 1

InFat(lba) == FatLba =< lba /\ lba < FatLba + SectorsPerFat
InDir(lba, dir) == ClusterLba(dir) =< lba /\ lba < ClusterLba(dir) + ClusterCount
InMetadata(lba) ==
    \/ lba \in {0, VbrLba, FsinfoLba, BackupVbrLba}
    \/ InFat(lba)
    \/ \E dir \in Directories : InDir(lba, dir)

Shows(files, lba, content) ==
    /\ lba = 0 => content = Mbr
    /\ lba \in {VbrLba, BackupVbrLba} => content = Vbr
    /\ lba = FsinfoLba => content = Fsinfo
    /\ InFat(lba) =>
          /\ content.kind = "fat"
          /\ \A e \in 0..(FatEntries - 1) :
                FatEntryOK(files, (lba - FatLba) * FatEntries + e, content.next[e])
    /\ \A dir \in Directories :
          InDir(lba, dir) =>
             content = IF lba = ClusterLba(dir) THEN SubDirs(dir)
                       ELSE Listing(files, lba - ClusterLba(dir) - 1)
    /\ lba < FileCount /\ ~InMetadata(lba) => content = Zero
    /\ \A idx \in 0..(MaxFiles - 1) :
          FileLba(idx) =< lba /\ lba < FileLba(idx) + FileCount =>
             LET offset == (lba - FileLba(idx)) * SectorSize
             IN  content = FileData(files[idx], offset, BytesAt(files[idx].len, offset))
    /\ FileLba(MaxFiles) =< lba => content = Zero
=============================================================================
