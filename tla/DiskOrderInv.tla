---------------------------- MODULE DiskOrderInv -----------------------------
(***************************************************************************)
(* Which of several partitions the search finds: what is assumed of the    *)
(* order in which the tables of a disk list its partitions, and the        *)
(* inductive invariants that show that the walk meets them in that order,  *)
(* that the failures of FindsFirst do not make it pass one over, and that  *)
(* a chain of tables is not followed for ever.                             *)
(*                                                                         *)
(* A disk's "before" says how many of its partitions come before each      *)
(* entry of each table; only the assumptions and the invariants use it.    *)
(***************************************************************************)
EXTENDS DiskSearchInv

\* biosdisk_read_real asks for the sector in CHS mode.
ChsOpen(d, lba) ==
    lba =< Cylinders * Heads * Spt /\ ToChs(FillData(d), lba).c < FillData(d).cylinders

\* The sector is read if the firmware reports no fault.
Reached(m, d, lba) ==
    IF m.bios THEN lba < Size(d) /\ (FillData(d).lba \/ ChsOpen(d, lba))
    ELSE lba + PageSectors =< Size(d)

\* If CHS mode does not reach all of the disk, the tables must not lead beyond
\* its end: the failure there would end LBA mode for the sectors that exist.
Asks(m, d, lba) ==
    /\ Addressed(m, d, lba)
    /\ m.bios /\ FillData(d).lba /\ ~ChsReaches(d) => lba < Size(d)

TableRead(m, d, lba) == Signed(d, lba) /\ Reached(m, d, lba)

\* An entry that leads to a file system is the next one of the partitions; one
\* that does not may be a partition without a UUID.
Counts(m, d, here, next, lba, partid, partmap) ==
    LET known == Reached(m, d, lba) /\ Uuid(Sector(d, lba)) /= Unknown
        p == d.parts[next]
    IN  \/ next = here /\ ~known
        \/ /\ next = here + 1 /\ next =< Len(d.parts)
           /\ IF known THEN p.partid = partid /\ p.partmap = partmap /\ p.uuid = Uuid(Sector(d, lba))
              ELSE p.uuid = Unknown

\* The partitions are in the order of the entries, those of an extended
\* partition's table at the place of the entry that leads to it.
TableOrder(m, d, lba, n) ==
    LET mbr == Sector(d, lba)
        e == mbr.entries[n]
        to == Target(lba, mbr, n)
        here == d.before.mbr[lba][n]
        next == d.before.mbr[lba][n + 1]
    IN  /\ e.type = "gpt" => d.before.mbr[lba][5] = here
        /\ e.type /= "gpt" /\ ~Visited(mbr, n) => next = here
        /\ Visited(mbr, n) /\ e.type = "extended" =>
            /\ Asks(m, d, to)
            /\ IF TableRead(m, d, to)
               THEN to \in d.tables /\ d.before.mbr[to][1] = here /\ next = d.before.mbr[to][5]
               ELSE next = here
        /\ Visited(mbr, n) /\ e.type /= "extended" =>
            /\ Asks(m, d, to)
            /\ Counts(m, d, here, next, to, lba + e.start, "msdos")
            /\ m.debug /\ d.parts /= << >> => next = here + 1

MbrOrder(m, d) ==
    /\ d.before.mbr \in [d.tables -> [1..5 -> Nat]]
    /\ d.before.mbr[0][1] = 0
    /\ Asks(m, d, 0)
    /\ ~TableRead(m, d, 0) => d.before.mbr[0][5] = 0
    /\ \A lba \in d.tables, n \in 1..4 :
        TableRead(m, d, lba) /\ (\A k \in 1..(n - 1) : Sector(d, lba).entries[k].type /= "gpt")
            => TableOrder(m, d, lba, n)

\* The same of the entries of the GPT, after those of the first sector.
GptOrder(m, d) ==
    /\ Asks(m, d, 1)
    /\ IF HasGpt(d) /\ Reached(m, d, 1)
       THEN LET g == Header(d)
                b == d.before.gpt
            IN  /\ b \in [0..g.maxpart -> Nat]
                /\ b[0] = d.before.mbr[0][5] /\ b[g.maxpart] >= Len(d.parts)
                /\ \A k \in 0..(g.maxpart - 1) :
                    LET at == LbaIn(g, k)
                        e == EntryIn(d, k)
                    IN  /\ Asks(m, d, at) /\ Asks(m, d, at + 1)
                        /\ IF Reached(m, d, at) /\ Reached(m, d, at + 1)
                           THEN IF e.type = "none" THEN b[k + 1] = b[k]
                                ELSE /\ Asks(m, d, e.start)
                                     /\ Counts(m, d, b[k], b[k + 1], e.start, e.guid, "gpt")
                           ELSE b[k] >= Len(d.parts)
       ELSE d.before.mbr[0][5] >= Len(d.parts)

\* A loader built with DEBUG stops at the limit: no disk has more partitions.
\* The services of INT 13 that report a geometry have six bits for the sectors
\* and eight for the heads.
ASSUME OrderAssumption ==
    /\ AssumedHeads =< Heads /\ PartLimit > 0
    /\ \A m \in Machines :
        /\ m.bios => Len(m.disks) =< MaxDrives
        /\ \A k \in DOMAIN m.disks :
            LET d == m.disks[k]
            IN  /\ Size(d) > 0 /\ (d.std => d.heads =< Heads /\ d.spt =< Spt)
                /\ Len(d.parts) \in 0..MaxParts /\ DOMAIN d.parts = 1..Len(d.parts)
                /\ m.debug => Len(d.parts) =< PartLimit
                /\ ~m.bios \/ FillData(d) /= NoDisk => MbrOrder(m, d) /\ GptOrder(m, d)

-----------------------------------------------------------------------------
\* The walk of a table comes to an entry that leads to a table, or to a partition.
Extends(d, lba, n) ==
    /\ Signed(d, lba) /\ Visited(Sector(d, lba), n)
    /\ Sector(d, lba).entries[n].type = "extended"
Counted(mbr, n) == Visited(mbr, n) /\ mbr.entries[n].type /= "extended"

\* The tables are nested no deeper than the number of partitions allowed.
Nested(d, rank) ==
    /\ rank \in [d.tables -> 0..PartLimit]
    /\ \A lba \in d.tables, n \in 1..4 :
        LET to == Target(lba, Sector(d, lba), n)
        IN  Extends(d, lba, n) /\ to \in d.tables => rank[to] < rank[lba]

\* Or, with DEBUG, every table but the first has a partition before it leads to
\* another one.  The tables may then form a loop.
CountsAll(d) ==
    \A lba \in d.tables, n \in 1..4 :
        Extends(d, lba, n) =>
            /\ Target(lba, Sector(d, lba), n) /= 0
            /\ lba = 0 \/ \E k \in 1..(n - 1) : Counted(Sector(d, lba), k)

ASSUME LimitAssumption ==
    \A m \in Machines : \A k \in DOMAIN m.disks :
        \/ \E rank \in [m.disks[k].tables -> 0..PartLimit] : Nested(m.disks[k], rank)
        \/ m.debug /\ CountsAll(m.disks[k])

-----------------------------------------------------------------------------
Waiting == {"mbr", "vbr", "gpt", "gpt_first", "gpt_second", "gpt_vbr"}

\* A call of check_mbr was made for the entry of its caller's table.
Leads(caller, lba) ==
    /\ caller.mbr.entries[caller.i].type = "extended"
    /\ Target(caller.lba, caller.mbr, caller.i) = lba

\* The sector that the search waits for, exactly.
AskedAt ==
    CASE pc = "mbr" -> IF stack = << >> THEN 0 ELSE Target(stack[1].lba, stack[1].mbr, stack[1].i)
      [] pc = "vbr" -> Target(stack[1].lba, stack[1].mbr, stack[1].i)
      [] pc = "gpt" -> 1
      [] pc = "gpt_first" -> LbaIn(gpt, i)
      [] pc = "gpt_second" -> LbaIn(gpt, i) + 1
      [] pc = "gpt_vbr" -> entry.start

\* The calls of check_mbr lead from the first sector to the table at hand.
LinkInv ==
    /\ pc /= "done" => answer = Nothing
    /\ pc \in Tabled /\ stack /= << >> =>
        /\ stack[Len(stack)].lba = 0
        /\ \A n \in 2..Len(stack) : Leads(stack[n], stack[n - 1].lba)
    /\ pc = "mbr" /\ stack /= << >> => stack[1].mbr.entries[stack[1].i].type = "extended"
    /\ pc \in Waiting /\ (Pending \/ io.state = "ok") => io.lba = AskedAt

\* The loop over the entries of the GPT starts with the first, and ends.
ListInv ==
    /\ pc \notin Listed \cup {"done"} => i = 0
    /\ pc = "gpt_entry" => i =< gpt.maxpart

-----------------------------------------------------------------------------
\* How many partitions of the disk come before the entry at hand.
Place ==
    CASE pc \in Tabled ->
            IF stack = << >> THEN 0 ELSE Disk.before.mbr[stack[1].lba][stack[1].i]
      [] pc = "gpt" -> Disk.before.mbr[0][5]
      [] pc \in Listed -> Disk.before.gpt[i]
      [] OTHER -> 0

\* No partition up to the entry at hand has the UUID, and so none on this disk
\* if none is ahead.
NonePassed == \A p \in Wanted : p[1] > drive \/ (p[1] = drive /\ p[2] > Place)
NoneAhead == \A p \in Wanted : p[1] > drive

\* A read fails only if the sector is out of reach: three tries are enough for
\* the faults that are tolerated.
ReadsReach ==
    pc \in Waiting =>
        /\ Asks(machine, Disk, AskedAt)
        /\ io.state = "ok" => Reached(machine, Disk, AskedAt)
        /\ io.state = "fail" => ~Reached(machine, Disk, AskedAt)
        /\ io.state = "ext" => disk_data.lba
        /\ io.state = "efi" => ~machine.bios
        /\ io.state = "chs" => io.tries =< faults + 1 \/ ~Reached(machine, Disk, AskedAt)

ProbeReaches ==
    pc = "probe" =>
        /\ machine.bios
        /\ io.state = "fail" => ~Present
        /\ io.state = "chs" => io.chs = Chs(0, 0, 1) /\ (io.tries =< faults + 1 \/ ~Present)

\* LBA mode is given up only if CHS mode reaches every sector.
ModeReaches ==
    machine.bios /\ Walking /\ FillData(Disk).lba /\ ~disk_data.lba => ChsReaches(Disk)

\* The tables on the stack and the GPT were read, and not more entries counted
\* than passed.
TablesReached == pc \in Tabled => \A n \in DOMAIN stack : Reached(machine, Disk, stack[n].lba)
ListReached ==
    /\ pc \in Listed => Reached(machine, Disk, 1)
    /\ pc \in {"gpt_second", "gpt_vbr"} => Reached(machine, Disk, LbaIn(gpt, i))
    /\ pc = "gpt_vbr" => Reached(machine, Disk, LbaIn(gpt, i) + 1)
PartsCounted ==
    /\ ~machine.debug => part_count = 0
    /\ machine.debug /\ pc \in Tabled =>
        NoneAhead \/ part_count =< (IF pc = "vbr" THEN Place + 1 ELSE Place)

\* The inductive invariant of what is found first.
FirstInv ==
    /\ Tolerated /\ pc /= "done" =>
        /\ NonePassed /\ ReadsReach /\ ProbeReaches /\ ModeReaches
        /\ TablesReached /\ ListReached /\ PartsCounted
    /\ FindsFirst

-----------------------------------------------------------------------------
\* The depth of the calls, by the nesting of the tables.
DepthNested ==
    \E rank \in [Disk.tables -> 0..PartLimit] :
        /\ Nested(Disk, rank)
        /\ \A n \in DOMAIN stack : Len(stack) - n + rank[stack[n].lba] =< PartLimit

\* Or by the partitions counted: every call but the first and the innermost has
\* counted one, and no call is made when as many as allowed are counted.
TopCounted ==
    \E k \in 1..4 :
        /\ k < stack[1].i \/ (pc = "vbr" /\ k = stack[1].i)
        /\ Counted(stack[1].mbr, k)
DepthCounted ==
    /\ machine.debug /\ CountsAll(Disk)
    /\ Len(stack) =< part_count + 2
    /\ Len(stack) > 1 /\ TopCounted => Len(stack) =< part_count + 1
    /\ pc = "mbr" /\ stack /= << >> => part_count < PartLimit
    /\ PartitionsLimited

\* The inductive invariant of how far a chain of tables is followed.
LimitInv == pc \in Tabled => DepthNested \/ DepthCounted
=============================================================================
