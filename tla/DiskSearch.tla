----------------------------- MODULE DiskSearch ------------------------------
(***************************************************************************)
(* The search for the partition that holds the WIM or VHD file (disk/).    *)
(*                                                                         *)
(* biosdisk_iterate and efidisk_iterate go through the disks; on each,     *)
(* check_mbr walks the partition table of the first sector and, by         *)
(* recursion, those of the extended partitions; then check_gpt_partmap     *)
(* walks the GPT.  check_fsuuid compares the file system of a partition    *)
(* with the wanted UUID, and the first partition that has it leaves its    *)
(* identity for the BCD.  Every step of the walk needs a sector, which the *)
(* firmware may fail to read: the BIOS loader then tries the older         *)
(* services, three times each, and goes on without the sector.             *)
(*                                                                         *)
(* A disk is a function from LBAs to contents, with what the firmware says *)
(* of it; its "parts", "tables" and "before" (DiskOrderInv) are what       *)
(* whoever partitioned it put there: only the properties and the           *)
(* assumptions of the proofs look at them.                                 *)
(***************************************************************************)
EXTENDS Integers, Sequences

CONSTANTS
    Machines,       \* [bios, debug, disks, wanted]: the firmware, whether the
                    \* loader was built with DEBUG, the disks, the uuid= parameter
    MaxDrives,      \* the drives that biosdisk_iterate tries (16)
    Cylinders, Heads, Spt,      \* what a CHS address can hold (1024, 256, 63)
    AssumedHeads,   \* the heads assumed when the BIOS gives no geometry (255)
    PartLimit,      \* the partitions that check_mbr allows (32)
    Units,          \* GPT entries of the smallest size in a sector
    PageSectors,    \* the sectors of a page of memory (8)
    U32Mod,         \* 2^32
    MaxParts,       \* bound: partitions on a disk
    MaxFaults       \* bound: how many reads fail that need not have failed

VARIABLES
    machine,    \* does not change
    pc,
    drive,      \* the disk in progress, from 1
    disk_data,  \* what biosdisk_fill_data found out about it
    io,         \* the read in progress and its result
    stack,      \* the calls of check_mbr, the innermost first: [lba, i, mbr]
    part_count,
    gpt, i, entry,      \* check_gpt_partmap: the header, the loop counter, the entry
    answer,     \* partid, partmap and diskid in nt_cmdline
    faults      \* how many reads failed that need not have failed

vars == <<machine, pc, drive, disk_data, io, stack, part_count, gpt, i, entry, answer, faults>>
walkVars == <<stack, part_count, gpt, i, entry>>

Disks == machine.disks
Size(d) == Len(d.sectors)
Sector(d, lba) == d.sectors[lba + 1]
Present == drive \in DOMAIN Disks
Disk == Disks[drive]

-----------------------------------------------------------------------------
(* What a sector contains, as far as the search looks at it.               *)

MbrEntries == [type : {"none", "data", "extended", "gpt"}, start : Nat, length : Nat]
GptEntries == [type : {"none", "data"}, start : Nat, guid : Nat]
GptHeaders ==
    [magic : BOOLEAN, guid : Nat, maxpart : Nat, entry_size : Nat, partitions : Nat]
FileSystems == {"none", "ntfs", "exfat", "fat12", "fat16", "fat32"}
Contents ==
    [aa55 : BOOLEAN, id : Nat, entries : [1..4 -> MbrEntries],
     fs : FileSystems, serial : Nat,
     gpt : GptHeaders, unit : [0..(Units - 1) -> GptEntries]]

NoGpt == [magic |-> FALSE, guid |-> 0, maxpart |-> 0, entry_size |-> 0, partitions |-> 0]
NoEntry == [type |-> "none", start |-> 0, guid |-> 0]

-----------------------------------------------------------------------------
(* Reading a sector.                                                       *)

NoIo == [state |-> "none"]
Failed == [state |-> "fail"]
Got(lba, content) == [state |-> "ok", lba |-> lba, data |-> content]
Chs(c, h, s) == [c |-> c, h |-> h, s |-> s]
Try(lba, chs, tries) == [state |-> "chs", lba |-> lba, chs |-> chs, tries |-> tries]

NoDisk == [lba |-> FALSE, cylinders |-> 0, heads |-> 0, sectors |-> 0]

\* Variant: head and cylinder are swapped.
ToChsSwapped(geo, lba) ==
    LET head == lba \div geo.sectors
    IN  Chs(head % geo.heads, head \div geo.heads, (lba % geo.sectors) + 1)

\* The address of a sector in a geometry, and the sector that the BIOS reads: ten
\* bits of the cylinder reach it.
ToChs(geo, lba) ==
    LET head == lba \div geo.sectors
    IN  Chs(head \div geo.heads, head % geo.heads, (lba % geo.sectors) + 1)
FromChs(d, chs) ==
    ((chs.c % Cylinders) * d.heads + chs.h) * d.spt + chs.s - 1

\* The CHS half of biosdisk_read_real.
ChsRead(geo, lba) ==
    IF lba > Cylinders * Heads * Spt \/ ToChs(geo, lba).c >= geo.cylinders THEN Failed
    ELSE Try(lba, ToChs(geo, lba), 1)

\* biosdisk_read or efidisk_read is called.
Request(data, lba) ==
    IF ~machine.bios THEN [state |-> "efi", lba |-> lba]
    ELSE IF data.lba THEN [state |-> "ext", lba |-> lba]
    ELSE ChsRead(data, lba)

\* A read fails because it must, or because the firmware reports a fault.
ReadFails(possible) ==
    /\ possible => faults < MaxFaults
    /\ faults' = IF possible THEN faults + 1 ELSE faults

\* biosdisk_rw_int13_ext.  After a failure the disk is read in CHS mode for good.
ExtRead ==
    /\ io.state = "ext"
    /\ \/ /\ io.lba < Size(Disk)
          /\ io' = Got(io.lba, Sector(Disk, io.lba))
          /\ UNCHANGED <<disk_data, faults>>
       \/ /\ ReadFails(io.lba < Size(Disk))
          /\ disk_data' = [disk_data EXCEPT !.lba = FALSE]
          /\ io' = ChsRead(disk_data, io.lba)
    /\ UNCHANGED <<machine, pc, drive, walkVars, answer>>

\* Variants: a try less, a try more.
TriesTwo == 2
TriesFour == 4

Tries == 3

\* biosdisk_rw_std: one of its tries, with a reset after a failed one.
ChsTry ==
    /\ io.state = "chs"
    /\ LET possible == Present /\ FromChs(Disk, io.chs) < Size(Disk)
       IN  \/ /\ possible
              /\ io' = Got(io.lba, Sector(Disk, FromChs(Disk, io.chs)))
              /\ UNCHANGED faults
           \/ /\ ReadFails(possible)
              /\ io' = IF io.tries >= Tries THEN Failed ELSE [io EXCEPT !.tries = @ + 1]
    /\ UNCHANGED <<machine, pc, drive, disk_data, walkVars, answer>>

\* efidisk_read always reads whole pages.
EfiRead ==
    /\ io.state = "efi"
    /\ LET possible == io.lba + PageSectors =< Size(Disk)
       IN  \/ possible /\ io' = Got(io.lba, Sector(Disk, io.lba)) /\ UNCHANGED faults
           \/ ReadFails(possible) /\ io' = Failed
    /\ UNCHANGED <<machine, pc, drive, disk_data, walkVars, answer>>

-----------------------------------------------------------------------------
(* The file system of a partition.                                         *)

Unknown == <<" ">>

\* The name that check_fsuuid gives a boot sector: NTFS has sixteen digits, the
\* others two groups of four.
Uuid(sector) ==
    CASE sector.fs = "ntfs" -> <<"long", sector.serial>>
      [] sector.fs \in {"exfat", "fat12", "fat16", "fat32"} ->
            <<"short", sector.serial>>
      [] OTHER -> Unknown

\* check_fsuuid, once the sector is read.
Matches == io.state = "ok" /\ Uuid(io.data) = machine.wanted

-----------------------------------------------------------------------------
(* The disks.                                                              *)

Init ==
    /\ machine \in Machines
    /\ pc = "drive" /\ drive = 1 /\ disk_data = NoDisk /\ io = NoIo
    /\ stack = << >> /\ part_count = 0 /\ gpt = NoGpt /\ i = 0 /\ entry = NoEntry
    /\ answer = [partid |-> 0, partmap |-> "msdos", diskid |-> 0]
    /\ faults = 0

\* The loop of biosdisk_iterate tries drives until one cannot be read; that of
\* efidisk_iterate goes through the list of hard disks.
NextDrive ==
    /\ pc = "drive"
    /\ IF drive > (IF machine.bios THEN MaxDrives ELSE Len(Disks))
       THEN pc' = "done" /\ UNCHANGED <<io, part_count>>
       ELSE IF machine.bios
       THEN /\ io' = Try(0, Chs(0, 0, 1), 1)
            /\ pc' = "probe"
            /\ UNCHANGED part_count
       ELSE /\ io' = Request(disk_data, 0)
            /\ part_count' = 0
            /\ pc' = "mbr"
    /\ UNCHANGED <<machine, drive, disk_data, stack, gpt, i, entry, answer, faults>>

\* biosdisk_fill_data: LBA if both services of the extensions answer (ext), and
\* the geometry the BIOS reports, or one made up from the size.  NoDisk if there
\* is neither.
FillData(d) ==
    LET total == IF d.ext THEN IF d.total > 0 THEN d.total ELSE d.drpTotal ELSE 0
    IN  IF d.std
        THEN [lba |-> d.ext, cylinders |-> d.cylinders, heads |-> d.heads, sectors |-> d.spt]
        ELSE IF total > 0
        THEN [lba |-> TRUE, heads |-> AssumedHeads, sectors |-> Spt,
              cylinders |-> (total + AssumedHeads * Spt - 1) \div (AssumedHeads * Spt)]
        ELSE NoDisk

\* Variant: what a drive was found to be stays for the drives after it.
ProbedOnce ==
    /\ pc = "probe" /\ io.state \in {"ok", "fail"}
    /\ IF io.state = "fail"
       THEN pc' = "done" /\ io' = NoIo /\ UNCHANGED <<drive, disk_data>>
       ELSE /\ disk_data' = IF disk_data = NoDisk THEN FillData(Disk) ELSE disk_data
            /\ IF disk_data' = NoDisk
               THEN pc' = "drive" /\ drive' = drive + 1 /\ io' = NoIo
               ELSE pc' = "mbr" /\ io' = Request(disk_data', 0) /\ UNCHANGED drive
    /\ part_count' = 0
    /\ UNCHANGED <<machine, stack, gpt, i, entry, answer, faults>>

Probed ==
    /\ pc = "probe" /\ io.state \in {"ok", "fail"}
    /\ IF io.state = "fail"
       THEN pc' = "done" /\ io' = NoIo /\ UNCHANGED <<drive, disk_data>>
       ELSE /\ disk_data' = FillData(Disk)
            /\ IF disk_data' = NoDisk
               THEN pc' = "drive" /\ drive' = drive + 1 /\ io' = NoIo
               ELSE pc' = "mbr" /\ io' = Request(disk_data', 0) /\ UNCHANGED drive
    /\ part_count' = 0
    /\ UNCHANGED <<machine, stack, gpt, i, entry, answer, faults>>

-----------------------------------------------------------------------------
(* check_mbr.                                                              *)

\* Variant: the loop does not advance.
AdvanceStuck(frames) == frames

Advance(frames) == [frames EXCEPT ![1].i = @ + 1]

\* A call of check_mbr returns 0 to its caller, whose loop goes on; the first
\* call returns to the loop over the disks, which then reads the GPT header.
MbrReturns(callers) ==
    IF callers = << >>
    THEN stack' = << >> /\ pc' = "gpt" /\ io' = Request(disk_data, 1)
    ELSE stack' = Advance(callers) /\ pc' = "entry" /\ io' = NoIo

\* The table has been read, or not.
GotMbr ==
    /\ pc = "mbr" /\ io.state \in {"ok", "fail"}
    /\ IF io.state = "ok" /\ io.data.aa55
       THEN /\ stack' = <<[lba |-> io.lba, i |-> 1, mbr |-> io.data]>> \o stack
            /\ pc' = "entry" /\ io' = NoIo
       ELSE MbrReturns(stack)
    /\ UNCHANGED <<machine, drive, disk_data, part_count, gpt, i, entry, answer, faults>>

\* Variant: one partition more.
TooManyLate == part_count > PartLimit

TooMany == part_count >= PartLimit

\* One iteration over the four entries.  The partitions are counted by an
\* argument of DBG: the loader is built with DEBUG 1 unless another value is
\* asked for, and with "make DEBUG=0" nothing is counted.
CheckEntry ==
    /\ pc = "entry"
    /\ LET top == Head(stack)
           e == top.mbr.entries[top.i]
           lba == (top.lba + e.start) % U32Mod
       IN  IF top.i > 4 \/ TooMany \/ e.type = "gpt"
           THEN MbrReturns(Tail(stack)) /\ UNCHANGED part_count
           ELSE IF e.length = 0 \/ e.type = "none"
           THEN stack' = Advance(stack) /\ UNCHANGED <<pc, io, part_count>>
           ELSE /\ io' = Request(disk_data, lba)
                /\ pc' = IF e.type = "extended" THEN "mbr" ELSE "vbr"
                /\ part_count' = IF e.type /= "extended" /\ machine.debug
                                 THEN part_count + 1 ELSE part_count
                /\ UNCHANGED stack
    /\ UNCHANGED <<machine, drive, disk_data, gpt, i, entry, answer, faults>>

\* Variant: the start is not made absolute.
PartIdRelative(top) == top.mbr.entries[top.i].start

\* The start of a partition, in sectors.
PartId(top) == top.lba + top.mbr.entries[top.i].start

\* The boot sector of a partition of the innermost table.
GotVbr ==
    /\ pc = "vbr" /\ io.state \in {"ok", "fail"}
    /\ LET top == Head(stack)
       IN  IF Matches
           THEN /\ answer' = [partid |-> PartId(top), partmap |-> "msdos", diskid |-> top.mbr.id]
                /\ stack' = << >>
                /\ pc' = "done"
           ELSE /\ stack' = Advance(stack)
                /\ pc' = "entry"
                /\ UNCHANGED answer
    /\ io' = NoIo
    /\ UNCHANGED <<machine, drive, disk_data, part_count, gpt, i, entry, faults>>

-----------------------------------------------------------------------------
(* check_gpt_partmap.                                                      *)

NextDisk == /\ drive' = drive + 1 /\ pc' = "drive" /\ io' = NoIo /\ gpt' = NoGpt /\ i' = 0
            /\ entry' = NoEntry

GotGpt ==
    /\ pc = "gpt" /\ io.state \in {"ok", "fail"}
    /\ IF io.state = "ok" /\ io.data.gpt.magic
       THEN /\ gpt' = io.data.gpt
            /\ pc' = "gpt_entry"
            /\ io' = NoIo
            /\ UNCHANGED <<drive, i, entry>>
       ELSE NextDisk
    /\ UNCHANGED <<machine, disk_data, stack, part_count, answer, faults>>

\* Where entry i is.
EntryOfs == (i * gpt.entry_size) % U32Mod
EntryLba == gpt.partitions + EntryOfs \div Units

\* One iteration: the two sectors that may hold the entry are read.
CheckGptEntry ==
    /\ pc = "gpt_entry"
    /\ IF i >= gpt.maxpart THEN NextDisk
       ELSE /\ io' = Request(disk_data, EntryLba)
            /\ pc' = "gpt_first"
            /\ UNCHANGED <<drive, gpt, i, entry>>
    /\ UNCHANGED <<machine, disk_data, stack, part_count, answer, faults>>

GotFirst ==
    /\ pc = "gpt_first" /\ io.state \in {"ok", "fail"}
    /\ IF io.state = "fail" THEN NextDisk
       ELSE /\ entry' = io.data.unit[EntryOfs % Units]
            /\ io' = Request(disk_data, EntryLba + 1)
            /\ pc' = "gpt_second"
            /\ UNCHANGED <<drive, gpt, i>>
    /\ UNCHANGED <<machine, disk_data, stack, part_count, answer, faults>>

GotSecond ==
    /\ pc = "gpt_second" /\ io.state \in {"ok", "fail"}
    /\ IF io.state = "fail" THEN NextDisk
       ELSE /\ IF entry.type = "none"
               THEN i' = i + 1 /\ pc' = "gpt_entry" /\ io' = NoIo
               ELSE pc' = "gpt_vbr" /\ io' = Request(disk_data, entry.start) /\ UNCHANGED i
            /\ UNCHANGED <<drive, gpt, entry>>
    /\ UNCHANGED <<machine, disk_data, stack, part_count, answer, faults>>

GotGptVbr ==
    /\ pc = "gpt_vbr" /\ io.state \in {"ok", "fail"}
    /\ IF Matches
       THEN /\ answer' = [partid |-> entry.guid, partmap |-> "gpt", diskid |-> gpt.guid]
            /\ pc' = "done"
            /\ UNCHANGED i
       ELSE i' = i + 1 /\ pc' = "gpt_entry" /\ UNCHANGED answer
    /\ io' = NoIo
    /\ UNCHANGED <<machine, drive, disk_data, stack, part_count, gpt, entry, faults>>

-----------------------------------------------------------------------------

\* The search is over; what it found stays in nt_cmdline.
Finished == pc = "done" /\ UNCHANGED vars

Search ==
    \/ NextDrive \/ Probed \/ ExtRead \/ ChsTry \/ EfiRead
    \/ GotMbr \/ CheckEntry \/ GotVbr
    \/ GotGpt \/ CheckGptEntry \/ GotFirst \/ GotSecond \/ GotGptVbr

Next == Search \/ Finished

\* The search is sequential code, and the firmware returns from every call.
Spec == Init /\ [][Next]_vars /\ WF_vars(Search)

-----------------------------------------------------------------------------
(* Properties.                                                             *)

\* The disks that can be searched at all: the BIOS gives them a geometry or a size.
Searchable == {k \in DOMAIN Disks : ~machine.bios \/ FillData(Disks[k]) /= NoDisk}

\* The partitions that have the wanted file system, as <<disk, number>>, and
\* the first of them.
Wanted ==
    {p \in Searchable \X (1..MaxParts) :
        p[2] \in DOMAIN Disks[p[1]].parts /\ Disks[p[1]].parts[p[2]].uuid = machine.wanted}
First ==
    CHOOSE p \in Wanted : \A q \in Wanted : p[1] < q[1] \/ (p[1] = q[1] /\ p[2] =< q[2])
Part(p) == Disks[p[1]].parts[p[2]]

Nothing == [partid |-> 0, partmap |-> "msdos", diskid |-> 0]

\* Every sector of every disk can be read in CHS mode too.
ChsReaches(d) ==
    LET geo == FillData(d)
    IN  \A lba \in 0..(Size(d) - 1) : ToChs(geo, lba).c < geo.cylinders
                                        /\ ToChs(geo, lba).c < Cylinders

\* The failures that the three tries and the change to CHS mode make up for.
Tolerated ==
    faults = 0 \/ (machine.bios /\ faults =< 2 /\ \A k \in Searchable : ChsReaches(Disks[k]))

IoOK ==
    io \in [state : {"none", "fail"}]
             \cup [state : {"ext", "efi"}, lba : Nat]
             \cup [state : {"chs"}, lba : Nat, tries : 1..3,
                   chs : [c : Nat, h : Nat, s : Nat \ {0}]]
             \cup [state : {"ok"}, lba : Nat, data : Contents]

\* The variables of the search have their types: a read is tried three times at
\* most, and the loops over table entries and over a disk run within a table and
\* on a disk that is there.
TypeOK ==
    /\ machine \in Machines
    /\ pc \in {"drive", "probe", "mbr", "entry", "vbr", "gpt", "gpt_entry", "gpt_first",
               "gpt_second", "gpt_vbr", "done"}
    /\ drive \in Nat \ {0}
    /\ pc \notin {"drive", "probe", "done"} => Present
    /\ disk_data \in [lba : BOOLEAN, cylinders : Nat, heads : Nat, sectors : Nat]
    /\ IoOK
    /\ stack \in Seq([lba : Nat, i : 1..5, mbr : Contents])
    /\ pc \in {"entry", "vbr"} => stack /= << >>
    /\ \A n \in DOMAIN stack : n > 1 \/ pc /= "entry" => stack[n].i =< 4
    /\ {part_count, i} \subseteq Nat
    /\ gpt \in GptHeaders
    /\ entry \in GptEntries
    /\ faults \in 0..MaxFaults

\* The search ends with the first partition, in the order of disks and of table
\* entries, whose file system has the wanted UUID, or with nothing if there is
\* none: also if up to two reads fail, wherever that happens.
FindsFirst ==
    pc = "done" /\ Tolerated =>
        IF Wanted = {} THEN answer = Nothing
        ELSE answer.partid = Part(First).partid /\ answer.partmap = Part(First).partmap

\* However many reads fail, the search never leaves the identity of a partition
\* that has another file system, and the disk named is the partition's own if
\* the partition is in the disk's first table.  (For a logical partition it is
\* the signature of the extended boot record that lists it, msdos.c:73.)
FoundIsWanted ==
    answer /= Nothing =>
        \E p \in Wanted :
            /\ answer.partid = Part(p).partid /\ answer.partmap = Part(p).partmap
            /\ Part(p).logical \/ answer.diskid = Part(p).diskid

\* A read that succeeds, in whatever mode, returns the sector that was asked for.
\* (With the assumed geometry, sectors whose cylinder does not fit ten bits are
\* within biosdisk_read_real's limit but not within reach.)
ReadsRightSector ==
    (/\ io.state = "ok" /\ pc /= "probe"
     /\ machine.bios => disk_data.lba \/ ToChs(disk_data, io.lba).c < Cylinders)
        => io.data = Sector(Disk, io.lba)

\* A chain of tables is followed no further than the number of partitions that
\* check_mbr allows.
PartitionsLimited == Len(stack) =< PartLimit + 1

\* The search ends.
SearchEnds == <>(pc = "done")
=============================================================================
