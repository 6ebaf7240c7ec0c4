---------------------------- MODULE DiskSearchInv ----------------------------
(***************************************************************************)
(* What is assumed of the machines, and the inductive invariants that show *)
(* that every sector the search reads is the one it asked for, and that    *)
(* the partition it leaves is one that was looked for.                     *)
(***************************************************************************)
EXTENDS DiskSearch

\* What the BIOS says of a disk is true: the geometry it reports is the one it
\* uses, and where it reports none it uses the usual one.
DiskOK(d) ==
    /\ d.sectors \in Seq(Contents)
    /\ {d.ext, d.std} \subseteq BOOLEAN
    /\ {d.total, d.drpTotal, d.cylinders} \subseteq Nat
    /\ {d.heads, d.spt} \subseteq Nat \ {0}
    /\ d.std \/ (d.heads = AssumedHeads /\ d.spt = Spt)

ASSUME MachinesAssumption ==
    \A m \in Machines :
        /\ {m.bios, m.debug} \subseteq BOOLEAN
        /\ \A k \in DOMAIN m.disks : DiskOK(m.disks[k])
        /\ Len(m.disks) \in Nat /\ DOMAIN m.disks = 1..Len(m.disks)

ASSUME SizesAssumption ==
    /\ {Cylinders, Heads, Spt, AssumedHeads, Units, PageSectors, U32Mod} \subseteq Nat \ {0}
    /\ {MaxDrives, PartLimit, MaxParts, MaxFaults} \subseteq Nat

-----------------------------------------------------------------------------

\* The states in which check_mbr or check_gpt_partmap runs on a disk.
Walking == pc \notin {"drive", "probe", "done"}
Pending == io.state \in {"ext", "chs", "efi"}

\* The geometry in disk_data is the one by which the BIOS addresses the disk.
GeometryKnown ==
    machine.bios /\ Walking => disk_data.heads = Disk.heads /\ disk_data.sectors = Disk.spt

\* A read is in progress only while someone waits for it, and the address that
\* is tried is that of the sector.
RequestsKnown ==
    /\ Pending => pc \notin {"drive", "entry", "gpt_entry", "done"}
    /\ io.state \in {"ext", "efi"} => pc /= "probe"
    /\ io.state \in {"ext", "chs"} => machine.bios
    /\ io.state = "chs" /\ pc /= "probe" =>
            ~disk_data.lba /\ io.chs = ToChs(disk_data, io.lba)
    /\ io.state = "ok" => Present
    /\ io.state = "ok" => pc \notin {"drive", "entry", "gpt_entry", "done"}

\* The inductive invariant: types, the geometry, the address of the read in
\* progress, and the sector of the one that succeeded.
SearchInv == TypeOK /\ GeometryKnown /\ RequestsKnown /\ ReadsRightSector

-----------------------------------------------------------------------------
(* What is assumed of the tables of a disk: they list the partitions that  *)
(* are there.  A disk's "tables" are the sectors that are partition tables *)
(* of check_mbr.                                                           *)

Signed(d, lba) == lba < Size(d) /\ Sector(d, lba).aa55

\* The loop over a table comes to its entry n, which is used.
Visited(mbr, n) ==
    /\ \A k \in 1..n : mbr.entries[k].type /= "gpt"
    /\ mbr.entries[n].length /= 0 /\ mbr.entries[n].type /= "none"
Target(lba, mbr, n) == (lba + mbr.entries[n].start) % U32Mod

\* If there is a file system at an address, the partition is one of the disk's.
Lists(d, lba, partid, partmap, diskid) ==
    lba < Size(d) /\ Uuid(Sector(d, lba)) /= Unknown =>
        \E n \in DOMAIN d.parts \cap 1..MaxParts :
            LET p == d.parts[n]
            IN  /\ p.partid = partid /\ p.partmap = partmap /\ p.uuid = Uuid(Sector(d, lba))
                /\ p.logical \/ p.diskid = diskid

\* The cylinder of a sector that biosdisk_read_real asks for has ten bits.
Addressed(m, d, lba) ==
    m.bios /\ FillData(d) /= NoDisk =>
        \/ ToChs(FillData(d), lba).c < Cylinders
        \/ ToChs(FillData(d), lba).c >= FillData(d).cylinders
        \/ lba > Cylinders * Heads * Spt

\* An extended entry leads, where the code looks for it, to a table or to a
\* sector that has no signature; another entry is a partition.
TablesOK(m, d) ==
    /\ 0 \in d.tables /\ Addressed(m, d, 0)
    /\ \A lba \in d.tables, n \in 1..4 :
        LET mbr == Sector(d, lba)
            to == Target(lba, mbr, n)
        IN  Signed(d, lba) /\ Visited(mbr, n) =>
                /\ Addressed(m, d, to)
                /\ IF mbr.entries[n].type = "extended" THEN to \in d.tables \/ ~Signed(d, to)
                   ELSE Lists(d, to, lba + mbr.entries[n].start, "msdos", mbr.id)

\* The GPT, if there is one, and where entry k of it is.
Header(d) == Sector(d, 1).gpt
HasGpt(d) == 1 < Size(d) /\ Header(d).magic
OfsIn(g, k) == (k * g.entry_size) % U32Mod
LbaIn(g, k) == g.partitions + OfsIn(g, k) \div Units
EntryIn(d, k) == Sector(d, LbaIn(Header(d), k)).unit[OfsIn(Header(d), k) % Units]

GptOK(m, d) ==
    /\ Addressed(m, d, 1)
    /\ HasGpt(d) => \A k \in 0..(Header(d).maxpart - 1) :
        LET at == LbaIn(Header(d), k)
            e == EntryIn(d, k)
        IN  /\ Addressed(m, d, at)
            /\ at < Size(d) /\ e.type /= "none" =>
                /\ Addressed(m, d, e.start)
                /\ Lists(d, e.start, e.guid, "gpt", Header(d).guid)

ASSUME TablesAssumption ==
    \A m \in Machines :
        /\ m.wanted /= Unknown
        /\ \A k \in DOMAIN m.disks : TablesOK(m, m.disks[k]) /\ GptOK(m, m.disks[k])

-----------------------------------------------------------------------------
Tabled == {"mbr", "entry", "vbr"}
Listed == {"gpt_entry", "gpt_first", "gpt_second", "gpt_vbr"}

\* disk_data is what the firmware said of the disk, but for the mode.
GeometryKept ==
    machine.bios /\ Walking =>
        /\ FillData(Disk) /= NoDisk
        /\ disk_data \in {FillData(Disk), [FillData(Disk) EXCEPT !.lba = FALSE]}

\* Which sector the search waits for.
Asked(lba) ==
    CASE pc = "mbr" -> lba \in Disk.tables \/ ~Signed(Disk, lba)
      [] pc = "vbr" -> lba = Target(stack[1].lba, stack[1].mbr, stack[1].i)
      [] pc = "gpt" -> lba = 1
      [] pc = "gpt_first" -> lba = LbaIn(gpt, i)
      [] pc = "gpt_vbr" -> lba = entry.start
      [] OTHER -> FALSE
AskedKnown ==
    Walking /\ pc /= "gpt_second" /\ (Pending \/ io.state = "ok") =>
        Asked(io.lba) /\ Addressed(machine, Disk, io.lba)
ChsKnown ==
    Walking /\ io.state = "chs" =>
        io.chs.c < disk_data.cylinders /\ io.lba =< Cylinders * Heads * Spt
SectorKnown ==
    Walking /\ pc /= "gpt_second" /\ io.state = "ok" =>
        io.lba < Size(Disk) /\ io.data = Sector(Disk, io.lba)

\* Every call of check_mbr works on a table of the disk.
TableKnown(f) ==
    /\ f.lba \in Disk.tables /\ Signed(Disk, f.lba) /\ f.mbr = Sector(Disk, f.lba)
    /\ \A k \in 1..(f.i - 1) : f.mbr.entries[k].type /= "gpt"
StackKnown ==
    /\ pc \notin Tabled => stack = << >>
    /\ pc \in Tabled => \A n \in DOMAIN stack : TableKnown(stack[n])
    /\ pc \in Tabled => \A n \in DOMAIN stack :
            n > 1 \/ pc /= "entry" => Visited(stack[n].mbr, stack[n].i)
    /\ pc = "vbr" => stack[1].mbr.entries[stack[1].i].type /= "extended"

\* check_gpt_partmap has the disk's header and one of its entries.
GptKnown ==
    /\ pc \in Listed => HasGpt(Disk) /\ gpt = Header(Disk)
    /\ pc \in Listed \ {"gpt_entry"} => i < gpt.maxpart
    /\ pc \in {"gpt_second", "gpt_vbr"} => LbaIn(gpt, i) < Size(Disk) /\ entry = EntryIn(Disk, i)
    /\ pc = "gpt_vbr" => entry.type /= "none"

\* The inductive invariant of what is found: a boot sector that matches is the
\* one at the start of a partition that is listed, in the table at hand.
FoundInv ==
    /\ GeometryKept /\ AskedKnown /\ ChsKnown /\ SectorKnown
    /\ StackKnown /\ GptKnown /\ FoundIsWanted
=============================================================================
