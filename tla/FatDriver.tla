------------------------------ MODULE FatDriver ------------------------------
(***************************************************************************)
(* The virtual disk as its user sees it: a FAT32 driver that opens a file  *)
(* by its path, reading the disk through one of the three block devices    *)
(* the loader offers (the emulated INT 13 drive, the EFI disk and the EFI  *)
(* partition).                                                             *)
(*                                                                         *)
(* The driver is not part of the loader: it stands for bootmgr and the EFI *)
(* firmware.  It knows the disk only by what it reads from it, so every    *)
(* number it uses (where the volume is, where the FAT is, which cluster    *)
(* comes next) was put there by the code of vdisk.c, and every read is a   *)
(* call of vdisk_read, fragment by fragment.                               *)
(***************************************************************************)
EXTENDS VDisk, Int13

CONSTANT Paths      \* what the driver opens: directory names, then a file name

VARIABLES
    step,       \* what the driver is doing
    device,     \* the block device it uses
    wanted,     \* the path it opened
    path,       \* the part of the path still to be found
    base,       \* the volume's first block on the device
    volume,     \* the volume boot record it read
    cluster,    \* the cluster it reads, of a directory or of the file
    sector,     \* the sector of a directory's cluster
    left,       \* bytes of the file still to be read
    got         \* the sectors of the file read so far

\* How bootmgr finds the emulated INT 13 drive (Int13).
biosVars == <<bios, counter, vdisk_drive, scan>>

driverVars == <<step, device, wanted, path, base, volume, cluster, sector, left, got>>
allVars == <<vars, driverVars, biosVars>>

-----------------------------------------------------------------------------
(* The block devices, and the part of the disk each of them shows.         *)

Int13Drive == [partition |-> FALSE, lba |-> 0, last_block |-> VDiskCount - 1]
EfiVDisk == [partition |-> FALSE, lba |-> 0, last_block |-> VDiskCount - 1]
EfiVPartition ==
    [partition |-> TRUE, lba |-> PartitionLba, last_block |-> PartitionCount - 1]
Devices == {Int13Drive, EfiVDisk, EfiVPartition}

\* efi_read_blocks and int13_extended_read call vdisk_read for the caller's
\* buffer; len is in bytes (INT 13 counts blocks).
ReadBlocks(dev, lba, len) ==
    StartRead([lba |-> lba + dev.lba, count |-> len \div SectorSize])

-----------------------------------------------------------------------------
(* How the driver reads what the disk says.                                *)

ClusterBlock(c) ==
    base + volume.reserved_sectors + volume.sectors_per_fat
        + (c - volume.root) * volume.sectors_per_cluster
FatBlock(c) == base + volume.reserved_sectors + c \div FatEntries

IsLfn(entry) == "sequence" \in DOMAIN entry
IsShort(entry) == "attr" \in DOMAIN entry

\* Entry j has a long name of n records: they precede it, the last one first.
HasName(entries, j, n) ==
    /\ n < j
    /\ \A i \in 1..n : IsLfn(entries[j - i]) /\ entries[j - i].sequence = i
                          /\ (entries[j - i].last <=> i = n)

\* Its name: the characters up to the terminator, if there is one.
Decoded(entries, j, n) ==
    LET char(p) == entries[j - 1 - (p - 1) \div LfnChars].chars[((p - 1) % LfnChars) + 1]
        stop == CHOOSE p \in 0..(n * LfnChars) :
                   /\ p = n * LfnChars \/ char(p + 1) = "nul"
                   /\ \A q \in 1..p : char(q) /= "nul"
    IN  [p \in 1..stop |-> char(p)]

\* The entries of a directory sector that have a given name.
Matches(content, name) ==
    IF content.kind /= "dir" THEN {}
    ELSE {j \in DOMAIN content.entry :
        /\ IsShort(content.entry[j])
        /\ \E n \in 1..(DirentPerSector - 1) :
              /\ HasName(content.entry, j, n)
              /\ Decoded(content.entry, j, n) = name}
FirstMatch(content, name) ==
    LET js == Matches(content, name)
    IN  content.entry[CHOOSE j \in js : \A i \in js : j =< i]

SectorsOf(n) == (n + SectorSize - 1) \div SectorSize

-----------------------------------------------------------------------------

DriverInit ==
    /\ Init /\ BiosInit
    /\ step = "closed" /\ device = Int13Drive /\ wanted = << >> /\ path = << >>
    /\ base = 0 /\ volume = Zero /\ cluster = 0 /\ sector = 0 /\ left = 0 /\ got = << >>

\* The INT 13 drive once it was found; the EFI devices on an EFI machine.
Open(dev, p) ==
    /\ step = "closed" /\ pc = "idle"
    /\ \/ Known /\ dev = Int13Drive
       \/ bios = NoBios /\ dev \in {EfiVDisk, EfiVPartition}
    /\ device' = dev
    /\ wanted' = p
    /\ path' = p
    /\ base' = 0
    /\ step' = IF dev.partition THEN "vbr" ELSE "mbr"
    /\ UNCHANGED <<vars, volume, cluster, sector, left, got>>

\* The read that the driver's step needs.
Request ==
    /\ pc = "idle"
    /\ \/ step = "mbr" /\ ReadBlocks(device, 0, SectorSize)
       \/ step = "vbr" /\ ReadBlocks(device, base, SectorSize)
       \/ step = "dir" /\ ReadBlocks(device, ClusterBlock(cluster) + sector, SectorSize)
       \/ step = "data" /\ ReadBlocks(device, ClusterBlock(cluster),
                                      volume.sectors_per_cluster * SectorSize)
       \/ step = "fat" /\ ReadBlocks(device, FatBlock(cluster), SectorSize)
    /\ UNCHANGED driverVars

GotMbr ==
    /\ step = "mbr" /\ Return
    /\ base' = buf[0].start
    /\ step' = "vbr"
    /\ UNCHANGED <<device, wanted, path, volume, cluster, sector, left, got>>

GotVbr ==
    /\ step = "vbr" /\ Return
    /\ volume' = buf[0]
    /\ cluster' = buf[0].root
    /\ sector' = 0
    /\ step' = "dir"
    /\ UNCHANGED <<device, wanted, path, base, left, got>>

\* A directory sector: find the next component of the path, or go on.
GotDir ==
    /\ step = "dir" /\ Return
    /\ IF Matches(buf[0], Head(path)) /= {}
       THEN LET entry == FirstMatch(buf[0], Head(path))
            IN  /\ path' = Tail(path)
                /\ cluster' = entry.cluster
                /\ sector' = 0
                /\ left' = entry.size
                /\ step' = IF entry.attr = "directory"
                           THEN IF Len(path) = 1 THEN "missing" ELSE "dir"
                           ELSE IF Len(path) > 1 THEN "missing"
                           ELSE IF entry.size = 0 THEN "complete" ELSE "data"
       ELSE /\ UNCHANGED <<path, left, cluster>>
            /\ sector' = (sector + 1) % volume.sectors_per_cluster
            /\ step' = IF sector' = 0 THEN "fat" ELSE "dir"
    /\ UNCHANGED <<device, wanted, base, volume, got>>

GotData ==
    /\ step = "data" /\ Return
    /\ LET bytes == volume.sectors_per_cluster * SectorSize
           n == IF left < bytes THEN left ELSE bytes
       IN  /\ got' = got \o [k \in 1..SectorsOf(n) |-> buf[k - 1]]
           /\ left' = left - n
    /\ step' = "fat"
    /\ UNCHANGED <<device, wanted, path, base, volume, cluster, sector>>

\* The cluster's FAT entry: the chain must end with the directory or the file.
GotFat ==
    /\ step = "fat" /\ Return
    /\ LET next == buf[0].next[cluster % FatEntries]
       IN  /\ step' = IF next = EndMarker
                      THEN IF path /= << >> THEN "missing"
                           ELSE IF left = 0 THEN "complete" ELSE "corrupt"
                      ELSE IF path /= << >> THEN "dir"
                      ELSE IF left > 0 THEN "data" ELSE "corrupt"
           /\ cluster' = next
    /\ UNCHANGED <<device, wanted, path, base, volume, sector, left, got>>

Close ==
    /\ step \in {"complete", "missing", "corrupt"}
    /\ step' = "closed"
    /\ got' = << >> /\ wanted' = << >> /\ path' = << >> /\ cluster' = 0 /\ left' = 0
    /\ sector' = 0 /\ volume' = Zero /\ base' = 0 /\ device' = Int13Drive
    /\ UNCHANGED vars

LoaderStep ==
    /\ \/ \E name \in Names, len \in Lens : AddFile(name, len)
       \/ TooManyFiles \/ Reboot \/ Serve \/ ReadStep
    /\ UNCHANGED driverVars

Got == GotMbr \/ GotVbr \/ GotDir \/ GotData \/ GotFat

DriverNext ==
    \/ /\ \/ LoaderStep
          \/ \E dev \in Devices, p \in Paths : Open(dev, p)
          \/ Request \/ Got \/ Close
       /\ UNCHANGED biosVars
    \/ BiosNext /\ UNCHANGED <<vars, driverVars>>

\* vdisk_read runs once called, and the driver goes on with what it returns.
DriverSpec ==
    /\ DriverInit /\ [][DriverNext]_allVars
    /\ WF_allVars(ReadStep /\ UNCHANGED <<driverVars, biosVars>>)
    /\ WF_allVars(Request /\ UNCHANGED biosVars) /\ WF_allVars(Got /\ UNCHANGED biosVars)

-----------------------------------------------------------------------------
(* Properties.                                                             *)

\* The directories in which every file must appear.
DirPaths ==
    LET boots == {<<BootName>>, <<EfiName, BootName>>, <<EfiName, MicrosoftName, BootName>>}
    IN  {<< >>, <<SourcesName>>, <<EfiName>>, <<EfiName, MicrosoftName>>} \cup boots
          \cup {b \o <<sub>> : b \in boots, sub \in {FontsName, ResourcesName}}

Directory == SubSeq(wanted, 1, Len(wanted) - 1)
Name == wanted[Len(wanted)]
Named == {idx \in 0..(MaxFiles - 1) : files[idx].used /\ files[idx].name = Name}

\* The sectors of a file's data, of which the last may be partly used.
FileSectors(file) ==
    [k \in 1..SectorsOf(file.len) |->
       FileData(file, (k - 1) * SectorSize, BytesAt(file.len, (k - 1) * SectorSize))]

\* A file that the driver opens and reads is, byte for byte, the first file that
\* vdisk_add_file was given under that name, whichever device and directory the
\* driver came through.
FileDelivered ==
    step = "complete" =>
        \E idx \in Named : got = FileSectors(files[idx]) /\ \A i \in Named : idx =< i

\* Every file of the disk is found in every directory, with a sound chain of
\* clusters: only names that vdisk_add_file never stored are missing.
FileFound ==
    step \in {"missing", "corrupt"} =>
        ~(Directory \in DirPaths /\ Named /= {}) /\ step /= "corrupt"

\* Following what the disk says never leads the driver past the last block that
\* the device reports.
ReadsOnDevice ==
    pc \in {"fragment", "scan", "build", "done"} =>
        /\ device.lba =< start
        /\ end =< device.lba + device.last_block + 1

\* Every file that is opened is read to its end or found to be missing.
LookupEnds == (step = "vbr") ~> (step \in {"complete", "missing"})
=============================================================================
