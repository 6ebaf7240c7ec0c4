-------------------------------- MODULE VDisk --------------------------------
(***************************************************************************)
(* The virtual disk of libnt/vdisk.c: vdisk_add_file and vdisk_read.       *)
(*                                                                         *)
(* vdisk_read splits a request into fragments, none of which crosses the   *)
(* boundary of a file's slot or of a region of the volume's metadata, and  *)
(* has each fragment built in the caller's buffer by the function that     *)
(* knows its contents.  Each iteration of its two nested loops is a step   *)
(* here.  The buffer is a function from sector numbers to contents; a      *)
(* write that would fall outside of it sets stray.                         *)
(*                                                                         *)
(* Arithmetic keeps the width of the source where a value can leave it:    *)
(* UIntMod for unsigned int and uint32_t, ULongMod for unsigned long and   *)
(* size_t (32 bits in the BIOS loader, 64 bits in the x86_64 EFI loader),  *)
(* U64Mod for uint64_t.                                                    *)
(***************************************************************************)
EXTENDS VDiskImage

CONSTANTS
    Names, Lens,            \* what the initrd may contain
    Requests                \* the reads the operating system may make

VARIABLES
    files, index,           \* vdisk_files and the count of vdisk_add_file
    pc,                     \* where control is
    start, end,             \* the request of vdisk_read, as an LBA range
    frag_start, frag_end,   \* the current fragment
    region,                 \* the region being compared with the fragment
    build,                  \* the function that will build the fragment
    data,                   \* where in the buffer it goes
    buf,                    \* the caller's buffer
    stray                   \* TRUE once a write left the buffer

readVars == <<start, end, frag_start, frag_end, region, build, data, buf, stray>>
vars == <<files, index, pc, readVars>>

\* A request that runs from the unused clusters below the first slot into it.
Straddles(r) == r.lba < FileCount /\ FileCount < r.lba + r.count

Junk == [kind |-> "junk"]   \* what the buffer holds before the read

-----------------------------------------------------------------------------
(* The table of regions, in the order of the source.                       *)

Region(b, lba, count) == [build |-> b, lba |-> lba, count |-> count]

MetadataRegions ==
    << Region("mbr", 0, 1),
       Region("vbr", VbrLba, 1),
       Region("fsinfo", FsinfoLba, 1),
       Region("vbr", BackupVbrLba, 1),
       Region("fat", FatLba, SectorsPerFat) >>

\* Each directory has two: its subdirectories, and the files.
SubdirsRegion(dir) == Region("subdirs", ClusterLba(dir), 1)
FilesRegion(dir) == Region("files", ClusterLba(dir) + 1, ClusterCount - 1)

RegionCount == 19
VDiskRegions == [i \in 1..RegionCount |->
    IF i =< 5 THEN MetadataRegions[i]
    ELSE LET dir == RootCluster + (i - 6) \div 2
         IN  IF i % 2 = 0 THEN SubdirsRegion(dir) ELSE FilesRegion(dir)]

-----------------------------------------------------------------------------
(* The functions that build a fragment of count sectors from LBA lba on.   *)

\* Variant: a file of whole clusters gets one cluster too many.
FileEndMarkerPast(idx) ==
    (FileCluster(idx) + (files[idx].len % ULongMod) \div ClusterSize) % UIntMod

\* The entry at which the chain of a file ends.
FileEndMarker(idx) ==
    (FileCluster(idx) + ((files[idx].len - 1) % ULongMod) \div ClusterSize) % UIntMod

\* The FAT, from the entry first on.
FatNext(first, c) ==
    IF \E idx \in 0..(MaxFiles - 1) : files[idx].used /\ FileEndMarker(idx) = c
    THEN EndMarker
    ELSE IF first = 0 /\ c = 0 THEN MediaMarker
    ELSE IF first = 0 /\ c < FatEntries THEN EndMarker
    ELSE c + 1

BuildFat(lba, count) ==
    LET first == (lba - FatLba) * FatEntries
    IN  [k \in 0..(count - 1) |->
           FatSector([e \in 0..(FatEntries - 1) |-> FatNext(first, first + k * FatEntries + e)])]

\* Variant: every sector of the fragment lists the file of the first.
BuildDirFilesSame(lba, count) ==
    [k \in 0..(count - 1) |-> Listing(files, FileDirentIdx(lba))]

BuildDirFiles(lba, count) ==
    [k \in 0..(count - 1) |-> Listing(files, FileDirentIdx(lba + k))]

\* The subdirectories are those of the directory whose region starts at lba.
BuildSubdirs(lba, count) ==
    LET dir == CHOOSE d \in Directories : ClusterLba(d) = lba
    IN  [k \in 0..(count - 1) |-> SubDirs(dir)]

\* Variant: the bytes before the fragment are counted as left to copy.
BuildFileLong(lba, count) ==
    LET file == files[FileIdx(lba)]
        len == count * SectorSize
        copy_len == IF file.len > len THEN len ELSE file.len
    IN  [k \in 0..(count - 1) |->
           FileData(file, (FileSector(lba) + k) * SectorSize, BytesAt(copy_len, k * SectorSize))]

BuildFile(lba, count) ==
    LET file == files[FileIdx(lba)]
        offset == FileSector(lba) * SectorSize
        len == count * SectorSize
        rest == IF offset < file.len THEN file.len - offset ELSE 0
        copy_len == IF rest > len THEN len ELSE rest
    IN  [k \in 0..(count - 1) |->
           FileData(file, offset + k * SectorSize, BytesAt(copy_len, k * SectorSize))]

Build(b, lba, count) ==
    CASE b = "mbr" -> [k \in 0..(count - 1) |-> Mbr]
      [] b = "vbr" -> [k \in 0..(count - 1) |-> Vbr]
      [] b = "fsinfo" -> [k \in 0..(count - 1) |-> Fsinfo]
      [] b = "fat" -> BuildFat(lba, count)
      [] b = "subdirs" -> BuildSubdirs(lba, count)
      [] b = "files" -> BuildDirFiles(lba, count)
      [] b = "file" -> BuildFile(lba, count)
      [] OTHER -> [k \in 0..(count - 1) |-> Zero]

\* frag_count * VDISK_SECTOR_SIZE is an unsigned int.
SectorsAdvanced(count) == ((count * SectorSize) % UIntMod) \div SectorSize

\* How many sectors the function writes, whatever it was asked for: the
\* one-sector structures ignore their count, and the FAT's special values
\* fill the FAT's first sector.
SectorsWritten(b, lba, count) ==
    CASE b \in {"mbr", "vbr", "fsinfo", "subdirs"} -> 1
      [] b = "fat" -> IF lba = FatLba /\ count = 0 THEN 1 ELSE count
      [] b = "files" -> count
      [] OTHER -> SectorsAdvanced(count)

-----------------------------------------------------------------------------

NoRead ==
    /\ start = 0 /\ end = 0 /\ frag_start = 0 /\ frag_end = 0 /\ region = 1
    /\ build = "none" /\ data = 0 /\ buf = << >> /\ stray = FALSE

Init ==
    /\ files = [idx \in 0..(MaxFiles - 1) |-> EmptyFile]
    /\ index = 0
    /\ pc = "extract"
    /\ NoRead

\* Variant: the table is not checked for room.
AddFileUnchecked(name, len) ==
    /\ pc = "extract"
    /\ index =< MaxFiles
    /\ files' = [files EXCEPT ![index] =
                   [used |-> TRUE, name |-> Cut(name), opaque |-> index, len |-> len]]
    /\ index' = index + 1
    /\ UNCHANGED <<pc, readVars>>

\* vdisk_add_file, called while the initrd is extracted.  The opaque token is
\* the address of the file's data, another one for each call.
AddFile(name, len) ==
    /\ pc = "extract"
    /\ index < MaxFiles
    /\ files' = [files EXCEPT ![index] =
                   [used |-> TRUE, name |-> Cut(name), opaque |-> index, len |-> len]]
    /\ index' = index + 1
    /\ UNCHANGED <<pc, readVars>>

\* "Too many files": die waits for a key and reboots.
TooManyFiles ==
    /\ pc = "extract"
    /\ index >= MaxFiles
    /\ pc' = "dead"
    /\ UNCHANGED <<files, index, readVars>>

Reboot ==
    /\ pc = "dead"
    /\ files' = [idx \in 0..(MaxFiles - 1) |-> EmptyFile]
    /\ index' = 0
    /\ pc' = "extract"
    /\ UNCHANGED readVars

\* Extraction is over: the disk is handed to the operating system's loader.
Serve ==
    /\ pc = "extract"
    /\ pc' = "idle"
    /\ UNCHANGED <<files, index, readVars>>

\* vdisk_read is called.
StartRead(r) ==
    /\ pc = "idle"
    /\ pc' = "fragment"
    /\ start' = r.lba
    /\ end' = (r.lba + r.count) % U64Mod
    /\ frag_start' = r.lba
    /\ data' = 0
    /\ buf' = [k \in 0..(r.count - 1) |-> Junk]
    /\ UNCHANGED <<files, index, frag_end, region, build, stray>>

\* Variant: the fragment always extends to the end of the slot.
FileFragmentWhole ==
    /\ pc = "fragment"
    /\ FileIdx(frag_start) >= 0
    /\ frag_end' = FileLba(FileIdx(frag_start) + 1) % ULongMod
    /\ build' = IF FileIdx(frag_start) < MaxFiles THEN "file" ELSE "none"
    /\ pc' = "build"
    /\ UNCHANGED <<files, index, start, end, frag_start, region, data, buf, stray>>

\* Variant: the sectors after the last slot are taken for a slot.
FileFragmentPastEnd ==
    /\ pc = "fragment"
    /\ FileIdx(frag_start) >= 0
    /\ LET file_end == FileLba(FileIdx(frag_start) + 1) % ULongMod
       IN  frag_end' = IF end > file_end THEN file_end ELSE end
    /\ build' = IF FileIdx(frag_start) =< MaxFiles THEN "file" ELSE "none"
    /\ pc' = "build"
    /\ UNCHANGED <<files, index, start, end, frag_start, region, data, buf, stray>>

\* Variant: the first sector of a slot is taken for the previous slot's end.
FileFragmentStuck ==
    /\ pc = "fragment"
    /\ FileIdx(frag_start) >= 0
    /\ LET file_end == FileLba(FileIdx(frag_start - 1) + 1) % ULongMod
       IN  frag_end' = IF end > file_end THEN file_end ELSE end
    /\ build' = IF FileIdx(frag_start) < MaxFiles THEN "file" ELSE "none"
    /\ pc' = "build"
    /\ UNCHANGED <<files, index, start, end, frag_start, region, data, buf, stray>>

\* The fragment begins in a slot: it ends with it.
FileFragment ==
    /\ pc = "fragment"
    /\ FileIdx(frag_start) >= 0
    /\ LET file_end == FileLba(FileIdx(frag_start) + 1) % ULongMod
       IN  frag_end' = IF end > file_end THEN file_end ELSE end
    /\ build' = IF FileIdx(frag_start) < MaxFiles THEN "file" ELSE "none"
    /\ pc' = "build"
    /\ UNCHANGED <<files, index, start, end, frag_start, region, data, buf, stray>>

\* The fragment begins before the slots: compare it with the regions.
RegionFragment ==
    /\ pc = "fragment"
    /\ FileIdx(frag_start) < 0
    /\ frag_end' = end
    /\ build' = "none"
    /\ region' = 1
    /\ pc' = "scan"
    /\ UNCHANGED <<files, index, start, end, frag_start, data, buf, stray>>

\* Variant: the fragment is cut at the region's start wherever it begins.
ScanRegionCut ==
    /\ pc = "scan"
    /\ LET region_start == VDiskRegions[region].lba
           region_end == region_start + VDiskRegions[region].count
           cut == IF frag_end > region_start THEN region_start ELSE frag_end
       IN  /\ frag_end' = cut
           /\ pc' = IF region = RegionCount THEN "build" ELSE "scan"
           /\ region' = IF region = RegionCount THEN 1 ELSE region + 1
    /\ UNCHANGED <<files, index, start, end, frag_start, build, data, buf, stray>>

\* Variant: a fragment that begins just after the region is taken for its own.
ScanRegionTouching ==
    /\ pc = "scan"
    /\ LET region_start == VDiskRegions[region].lba
           region_end == region_start + VDiskRegions[region].count
           cut == IF frag_start < region_start /\ frag_end > region_start
                  THEN region_start ELSE frag_end
       IN  IF frag_start > region_end \/ cut =< region_start
           THEN /\ frag_end' = cut
                /\ pc' = IF region = RegionCount THEN "build" ELSE "scan"
                /\ region' = IF region = RegionCount THEN 1 ELSE region + 1
                /\ UNCHANGED build
           ELSE /\ frag_end' = IF cut > region_end THEN region_end ELSE cut
                /\ build' = VDiskRegions[region].build
                /\ pc' = "build"
                /\ region' = 1
    /\ UNCHANGED <<files, index, start, end, frag_start, data, buf, stray>>

\* One iteration of the loop over the regions.
ScanRegion ==
    /\ pc = "scan"
    /\ LET region_start == VDiskRegions[region].lba
           region_end == region_start + VDiskRegions[region].count
           cut == IF frag_start < region_start /\ frag_end > region_start
                  THEN region_start ELSE frag_end
       IN  IF frag_start >= region_end \/ cut =< region_start
           THEN /\ frag_end' = cut
                /\ pc' = IF region = RegionCount THEN "build" ELSE "scan"
                /\ region' = IF region = RegionCount THEN 1 ELSE region + 1
                /\ UNCHANGED build
           ELSE /\ frag_end' = IF cut > region_end THEN region_end ELSE cut
                /\ build' = VDiskRegions[region].build
                /\ pc' = "build"
                /\ region' = 1
    /\ UNCHANGED <<files, index, start, end, frag_start, data, buf, stray>>

\* The fragment is built, and the next one begins where it ends.
BuildFragment ==
    /\ pc = "build"
    /\ LET frag_count == (frag_end - frag_start) % UIntMod
           made == Build(build, frag_start, frag_count)
           written == SectorsWritten(build, frag_start, frag_count)
       IN  /\ buf' = [k \in DOMAIN buf |->
                        IF data =< k /\ k < data + written THEN made[k - data] ELSE buf[k]]
           /\ stray' = (stray \/ data + written > (end - start) % U64Mod)
           /\ data' = data + SectorsAdvanced(frag_count)
           /\ frag_start' = (frag_start + frag_count) % U64Mod
           /\ pc' = IF frag_start' = end THEN "done" ELSE "fragment"
    /\ UNCHANGED <<files, index, start, end, frag_end, region, build>>

\* vdisk_read returns; the caller owns the buffer again.
Return ==
    /\ pc = "done"
    /\ pc' = "idle"
    /\ start' = 0 /\ end' = 0 /\ frag_start' = 0 /\ frag_end' = 0 /\ region' = 1
    /\ build' = "none" /\ data' = 0 /\ buf' = << >>
    /\ UNCHANGED <<files, index, stray>>

ReadStep == FileFragment \/ RegionFragment \/ ScanRegion \/ BuildFragment

Next ==
    \/ \E name \in Names, len \in Lens : AddFile(name, len)
    \/ TooManyFiles \/ Reboot \/ Serve
    \/ \E r \in Requests : StartRead(r)
    \/ ReadStep \/ Return

\* vdisk_read is straight sequential code: once called it runs.
Spec == Init /\ [][Next]_vars /\ WF_vars(ReadStep)

-----------------------------------------------------------------------------
(* Properties.                                                             *)

Reading == pc \in {"fragment", "scan", "build"}

\* The variables of vdisk_add_file and vdisk_read have their types: index never
\* passes the end of vdisk_files, and exactly the first index slots are in use.
TypeOK ==
    /\ pc \in {"extract", "dead", "idle", "fragment", "scan", "build", "done"}
    /\ index \in 0..MaxFiles
    /\ DOMAIN files = 0..(MaxFiles - 1)
    /\ \A idx \in DOMAIN files :
          IF idx < index
          THEN files[idx].used /\ files[idx].len \in Lens
          ELSE files[idx] = EmptyFile
    /\ {start, end, frag_start, frag_end, data} \subseteq Nat
    /\ region \in 1..RegionCount
    /\ build \in {"mbr", "vbr", "fsinfo", "fat", "subdirs", "files", "file", "none"}
    /\ DOMAIN buf = 0..(end - start - 1)
    /\ stray \in BOOLEAN

\* When vdisk_read returns, every sector of the buffer holds what the disk's
\* layout promises for its LBA, however the request was split into fragments.
ReadCorrect ==
    pc = "done" => \A k \in 0..(end - start - 1) : Shows(files, start + k, buf[k])

\* No builder writes outside the caller's buffer, for any request that lies on
\* the disk, the empty one included.
WritesInBuffer == ~stray

\* The fragment about to be built lies in the rest of the request, and is
\* empty only if the request is: the do-while loop always advances.
FragmentAdvances ==
    pc = "build" =>
        /\ frag_start =< frag_end /\ frag_end =< end
        /\ (frag_start = frag_end) => (start = end)

\* Every call of vdisk_read returns.
ReadReturns == (pc = "fragment") ~> (pc = "done")

\* The virtual disk implements the atomic block device of VDiskSpec.
ioBar ==
    CASE pc = "extract" -> [state |-> "extracting"]
      [] pc = "dead" -> [state |-> "dead"]
      [] pc = "idle" -> [state |-> "idle"]
      [] pc = "done" -> [state |-> "done", lba |-> start, count |-> end - start, data |-> buf]
      [] OTHER -> [state |-> "reading", lba |-> start, count |-> end - start]

Abstract == INSTANCE VDiskSpec WITH io <- ioBar

\* vdisk_read, taken with vdisk_add_file, behaves as a disk that answers each
\* request in one step from a table of files fixed when extraction ended.
ImplementsVDiskSpec == Abstract!AbstractSpec
=============================================================================
