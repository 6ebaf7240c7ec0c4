-------------------------- MODULE DiskSearchProofs ---------------------------
(***************************************************************************)
(* Proofs about the search for the boot partition, whatever reads fail:    *)
(* that what it finds is a partition with the wanted UUID (for all         *)
(* machines that satisfy the assumptions of DiskSearchInv), that it is the *)
(* first one and none is missed, and how far a chain of tables is followed *)
(* (with those of DiskOrderInv).                                           *)
(***************************************************************************)
EXTENDS DiskOrderInv, ArithLemmas

Geometries == [lba : BOOLEAN, cylinders : Nat, heads : Nat, sectors : Nat]
Frames == [lba : Nat, i : 1..5, mbr : Contents]

\* The disk in progress is one of the machine's.
LEMMA DiskTyped ==
    ASSUME machine \in Machines, Present
    PROVE  DiskOK(Disk)
  BY MachinesAssumption DEF Present, Disk, Disks

\* The disks are numbered from 1.
LEMMA DisksTyped ==
    ASSUME machine \in Machines
    PROVE  Len(Disks) \in Nat /\ DOMAIN Disks = 1..Len(Disks)
  BY MachinesAssumption DEF Disks

\* What biosdisk_fill_data finds out is the geometry of the disk.
LEMMA FillDataTyped ==
    ASSUME NEW d, DiskOK(d)
    PROVE  /\ FillData(d) \in Geometries
           /\ FillData(d) /= NoDisk => FillData(d).heads = d.heads /\ FillData(d).sectors = d.spt
<1> DEFINE total == IF d.ext THEN IF d.total > 0 THEN d.total ELSE d.drpTotal ELSE 0
           track == AssumedHeads * Spt
<1>1. total \in Nat
  BY DEF DiskOK
<1>2. AssumedHeads \in Nat \ {0} /\ Spt \in Nat \ {0}
  BY SizesAssumption
<1>3. track \in Nat /\ track > 0
  BY <1>2, MulPositive
<1>4. (total + track - 1) \div track \in Nat
  <2>1. total + track - 1 \in Nat
    BY <1>1, <1>3
  <2> QED
    BY <1>3, <2>1, DivMod
<1>5. CASE d.std
  BY <1>5 DEF FillData, DiskOK, Geometries
<1>6. CASE ~d.std
  BY <1>2, <1>4, <1>6 DEF FillData, DiskOK, Geometries, NoDisk
<1> QED
  BY <1>5, <1>6

\* A sector of a disk has the form of a sector.
LEMMA SectorTyped ==
    ASSUME NEW d, DiskOK(d), NEW lba \in Nat, lba < Size(d)
    PROVE  Sector(d, lba) \in Contents
  BY DEF DiskOK, Size, Sector

\* The address of a sector is made of numbers.
LEMMA ToChsTyped ==
    ASSUME NEW geo \in Geometries, geo.heads > 0, geo.sectors > 0, NEW lba \in Nat
    PROVE  ToChs(geo, lba) \in [c : Nat, h : Nat, s : Nat \ {0}]
<1>1. /\ lba \div geo.sectors \in Nat /\ lba % geo.sectors \in Nat
  BY DivMod DEF Geometries
<1>2. /\ (lba \div geo.sectors) \div geo.heads \in Nat
      /\ (lba \div geo.sectors) % geo.heads \in Nat
  BY <1>1, DivMod DEF Geometries
<1> QED
  BY <1>1, <1>2 DEF ToChs, Chs

\* The BIOS finds a sector at the address computed for it, if the geometries
\* agree and the cylinder can be addressed.
LEMMA ChsRoundTrip ==
    ASSUME NEW geo \in Geometries, geo.heads > 0, geo.sectors > 0, NEW lba \in Nat,
           NEW d, d.heads = geo.heads, d.spt = geo.sectors,
           ToChs(geo, lba).c < Cylinders
    PROVE  FromChs(d, ToChs(geo, lba)) = lba
<1> DEFINE head == lba \div geo.sectors
           s == lba % geo.sectors
           c == head \div geo.heads
           h == head % geo.heads
<1>1. head \in Nat /\ s \in Nat /\ lba = geo.sectors * head + s
  BY DivMod DEF Geometries
<1>2. c \in Nat /\ h \in Nat /\ head = geo.heads * c + h
  BY <1>1, DivMod DEF Geometries
<1>3. ToChs(geo, lba) = [c |-> c, h |-> h, s |-> s + 1]
  BY DEF ToChs, Chs
<1>4. c % Cylinders = c
  BY <1>2, <1>3, ModSmall, SizesAssumption
<1>5. FromChs(d, ToChs(geo, lba)) = (c * geo.heads + h) * geo.sectors + (s + 1) - 1
  BY <1>3, <1>4 DEF FromChs
<1>6. c * geo.heads + h = head
  BY <1>2 DEF Geometries
<1>7. head * geo.sectors = geo.sectors * head
  BY <1>1 DEF Geometries
<1> HIDE DEF head, s, c, h
<1> QED
  BY <1>1, <1>5, <1>6, <1>7, MulTypes DEF Geometries

\* What a call of biosdisk_read or efidisk_read starts with.
LEMMA RequestTyped ==
    ASSUME machine \in Machines, NEW geo \in Geometries, NEW lba \in Nat,
           machine.bios => geo.heads > 0 /\ geo.sectors > 0
    PROVE  LET r == Request(geo, lba)
           IN  /\ r.state \in {"efi", "ext", "chs", "fail"}
               /\ r.state \in {"efi", "ext", "chs"} => r.lba = lba
               /\ r.state \in {"ext", "chs"} => machine.bios
               /\ r.state = "chs" => /\ r.tries = 1 /\ ~geo.lba
                                     /\ r.chs = ToChs(geo, lba)
                                     /\ r.chs \in [c : Nat, h : Nat, s : Nat \ {0}]
<1>1. CASE ~machine.bios
  BY <1>1 DEF Request
<1>2. CASE machine.bios
  <2>1. ToChs(geo, lba) \in [c : Nat, h : Nat, s : Nat \ {0}]
    BY <1>2, ToChsTyped
  <2> QED
    BY <1>2, <2>1 DEF Request, ChsRead, Try, Failed
<1> QED
  BY <1>1, <1>2, MachinesAssumption

-----------------------------------------------------------------------------
(* The read in progress.                                                   *)

\* The fields that io has in each of its states.
LEMMA IoFacts ==
    ASSUME IoOK
    PROVE  /\ io.state \in {"none", "ext", "chs", "efi", "ok", "fail"}
           /\ io.state \in {"ext", "chs", "efi", "ok"} => io.lba \in Nat
           /\ io.state = "ok" => io.data \in Contents
           /\ io.state = "chs" =>
                io \in [state : {"chs"}, lba : Nat, tries : 1..3,
                        chs : [c : Nat, h : Nat, s : Nat \ {0}]]
  BY DEF IoOK

\* While a disk is searched through the BIOS, the geometry is not empty.
LEMMA GeometryFacts ==
    ASSUME SearchInv, Walking
    PROVE  /\ DiskOK(Disk)
           /\ disk_data \in Geometries
           /\ machine.bios => disk_data.heads > 0 /\ disk_data.sectors > 0
<1>1. DiskOK(Disk)
  BY DiskTyped DEF SearchInv, TypeOK, Walking
<1> QED
  BY <1>1 DEF SearchInv, TypeOK, GeometryKnown, DiskOK, Geometries

Places == Waiting \cup {"drive", "probe", "entry", "gpt_entry", "done"}

\* The part of the invariant that is about the read in progress.
IoInv == IoOK /\ GeometryKnown /\ RequestsKnown /\ ReadsRightSector

\* A step of the search that asks for a sector of the disk in progress.
LEMMA RequestStep ==
    ASSUME SearchInv, Walking, UNCHANGED <<machine, drive, disk_data>>,
           pc' \in Waiting, NEW lba \in Nat, io' = Request(disk_data, lba)
    PROVE  IoInv'
<1>1. LET r == io'
      IN  /\ r.state \in {"efi", "ext", "chs", "fail"}
          /\ r.state \in {"efi", "ext", "chs"} => r.lba = lba
          /\ r.state \in {"ext", "chs"} => machine.bios
          /\ r.state = "chs" => ~disk_data.lba /\ r.chs = ToChs(disk_data, lba)
  BY RequestTyped, GeometryFacts DEF SearchInv, TypeOK
<1>2. IoOK'
  BY GeometryFacts, ToChsTyped DEF IoOK, Request, ChsRead, Try, Failed
<1>3. GeometryKnown'
  BY DEF SearchInv, GeometryKnown, Walking, Waiting, Disk, Disks
<1> QED
  BY <1>1, <1>2, <1>3 DEF IoInv, RequestsKnown, ReadsRightSector, Pending, Waiting

\* A step of the search that needs no sector.
LEMMA IdleStep ==
    ASSUME SearchInv, Walking, UNCHANGED <<machine, drive, disk_data>>,
           pc' \in {"entry", "gpt_entry"}, io' = NoIo
    PROVE  IoInv'
<1>1. io'.state = "none" /\ IoOK'
  BY DEF IoOK, NoIo
<1>2. GeometryKnown'
  BY DEF SearchInv, GeometryKnown, Walking, Disk, Disks
<1> QED
  BY <1>1, <1>2 DEF IoInv, RequestsKnown, ReadsRightSector, Pending

\* A step that leaves the disk.
LEMMA LeaveStep ==
    ASSUME pc' \in {"drive", "done"}, io' = NoIo
    PROVE  IoInv'
<1>1. io'.state = "none" /\ IoOK'
  BY DEF IoOK, NoIo
<1>2. GeometryKnown'
  BY DEF GeometryKnown, Walking
<1> QED
  BY <1>1, <1>2 DEF IoInv, RequestsKnown, ReadsRightSector, Pending

-----------------------------------------------------------------------------
(* The calls of check_mbr.                                                 *)

LowAll(s) == \A n \in DOMAIN s : s[n].i =< 4
LowCallers(s) == \A n \in DOMAIN s : n > 1 => s[n].i =< 4

\* The innermost loop goes on.
LEMMA AdvanceTyped ==
    ASSUME NEW s \in Seq(Frames), s /= << >>, LowAll(s)
    PROVE  Advance(s) \in Seq(Frames) /\ Advance(s) /= << >> /\ LowCallers(Advance(s))
<1>1. 1 \in DOMAIN s /\ s[1] \in Frames /\ s[1].i \in 1..4
  <2>1. Len(s) \in Nat /\ Len(s) /= 0 /\ DOMAIN s = 1..Len(s)
    OBVIOUS
  <2>2. 1 \in DOMAIN s
    BY <2>1
  <2>3. s[1] \in Frames
    BY <2>2
  <2>4. s[1].i =< 4
    BY <2>2 DEF LowAll
  <2> QED
    BY <2>2, <2>3, <2>4 DEF Frames
<1> DEFINE f == [s[1] EXCEPT !.i = @ + 1]
<1>2. f \in Frames
  BY <1>1 DEF Frames
<1>3. Advance(s) = [s EXCEPT ![1] = f]
  BY DEF Advance
<1> HIDE DEF f
<1>4. Advance(s) \in Seq(Frames) /\ Advance(s) /= << >>
  BY <1>1, <1>2, <1>3
<1>5. \A n \in DOMAIN s : n > 1 => Advance(s)[n] = s[n]
  BY <1>3
<1>6. DOMAIN Advance(s) = DOMAIN s
  BY <1>3
<1> QED
  BY <1>4, <1>5, <1>6 DEF LowAll, LowCallers

\* A call returns.
LEMMA TailTyped ==
    ASSUME NEW s \in Seq(Frames), s /= << >>, LowCallers(s)
    PROVE  Tail(s) \in Seq(Frames) /\ LowAll(Tail(s))
  BY DEF LowAll, LowCallers, Frames

\* A call is made.
LEMMA PushTyped ==
    ASSUME NEW s \in Seq(Frames), LowAll(s), NEW f \in Frames
    PROVE  <<f>> \o s \in Seq(Frames) /\ <<f>> \o s /= << >> /\ LowCallers(<<f>> \o s)
  BY DEF LowAll, LowCallers, Frames

\* The part of the invariant that is about the calls of check_mbr.
CallsInv ==
    /\ stack \in Seq(Frames)
    /\ pc \in {"entry", "vbr"} => stack /= << >>
    /\ IF pc = "entry" THEN LowCallers(stack) ELSE LowAll(stack)

\* The rest of the invariant.
PlaceInv ==
    /\ machine \in Machines
    /\ pc \in Places
    /\ drive \in Nat \ {0}
    /\ Walking => Present
    /\ disk_data \in Geometries
    /\ part_count \in Nat /\ i \in Nat
    /\ gpt \in GptHeaders
    /\ entry \in GptEntries
    /\ faults \in 0..MaxFaults

\* The invariant, in the parts that the steps change one at a time.
LEMMA Parts == SearchInv <=> PlaceInv /\ IoInv /\ CallsInv
<1>1. TypeOK <=> PlaceInv /\ IoOK /\ CallsInv
  <2>1. (\A n \in DOMAIN stack : n > 1 \/ pc /= "entry" => stack[n].i =< 4)
          <=> (IF pc = "entry" THEN LowCallers(stack) ELSE LowAll(stack))
    BY DEF LowCallers, LowAll
  <2> QED
    BY <2>1 DEF TypeOK, PlaceInv, CallsInv, Walking, Places, Waiting, Geometries, Frames
<1> QED
  BY <1>1 DEF SearchInv, IoInv

\* The same after a step.
LEMMA PartsNext == PlaceInv' /\ IoInv' /\ CallsInv' => SearchInv'
  BY Parts, PTL

\* The search starts with the invariant.
LEMMA InitInv == Init => SearchInv
<1> SUFFICES ASSUME Init PROVE SearchInv
  OBVIOUS
<1>1. PlaceInv
  BY SizesAssumption DEF Init, PlaceInv, Places, Waiting, Walking, Geometries, NoDisk, NoGpt,
     GptHeaders, NoEntry, GptEntries
<1>2. IoInv
  BY DEF Init, IoInv, IoOK, NoIo, GeometryKnown, RequestsKnown, ReadsRightSector, Pending, Walking
<1>3. CallsInv
  BY DEF Init, CallsInv, LowAll
<1> QED
  BY <1>1, <1>2, <1>3, Parts

-----------------------------------------------------------------------------
(* The steps of the search, one lemma each.                                *)

\* The firmware reads a sector by its number, or CHS mode is next.
LEMMA ExtReadInv == SearchInv /\ ExtRead => SearchInv'
<1> SUFFICES ASSUME SearchInv, ExtRead PROVE SearchInv'
  OBVIOUS
<1>1. /\ PlaceInv /\ IoInv /\ CallsInv /\ Walking /\ machine.bios /\ pc \in Waiting
      /\ io.lba \in Nat
  <2>1. PlaceInv /\ IoInv /\ CallsInv
    BY Parts
  <2> QED
    BY <2>1, IoFacts DEF ExtRead, IoInv, PlaceInv, RequestsKnown, Walking, Pending, Places, Waiting
<1>2. DiskOK(Disk) /\ (disk_data.heads > 0 /\ disk_data.sectors > 0) /\ disk_data \in Geometries
  BY <1>1, GeometryFacts
<1>3. CallsInv'
  BY <1>1 DEF ExtRead, walkVars, CallsInv
<1>4. CASE io.lba < Size(Disk) /\ io' = Got(io.lba, Sector(Disk, io.lba)) /\ UNCHANGED <<disk_data, faults>>
  <2>1. PlaceInv'
    BY <1>1, <1>4 DEF ExtRead, walkVars, PlaceInv, Walking, Present, Disks
  <2>2. Sector(Disk, io.lba) \in Contents
    BY <1>1, <1>2, <1>4, SectorTyped
  <2>3. io'.state = "ok" /\ io'.lba = io.lba /\ io'.data = Sector(Disk, io.lba) /\ IoOK'
    BY <1>1, <1>4, <2>2 DEF Got, IoOK
  <2>4. Disk' = Disk
    BY DEF ExtRead, Disk, Disks
  <2>5. GeometryKnown'
    BY <1>1, <1>4, <2>4 DEF ExtRead, IoInv, GeometryKnown, Walking
  <2>6. IoInv'
    BY <1>1, <2>1, <2>3, <2>4, <2>5 DEF ExtRead, IoInv, RequestsKnown, ReadsRightSector, Pending,
       Waiting, PlaceInv, Walking, Sector
  <2> QED
    BY <1>3, <2>1, <2>6, PartsNext
<1>5. CASE /\ ReadFails(io.lba < Size(Disk))
           /\ disk_data' = [disk_data EXCEPT !.lba = FALSE]
           /\ io' = ChsRead(disk_data, io.lba)
  <2>1. disk_data' \in Geometries /\ ~disk_data'.lba /\ disk_data'.heads = disk_data.heads
        /\ disk_data'.sectors = disk_data.sectors /\ disk_data'.cylinders = disk_data.cylinders
    BY <1>2, <1>5 DEF Geometries
  <2>2. faults' \in 0..MaxFaults
    BY <1>1, <1>5, SizesAssumption DEF ReadFails, PlaceInv
  <2>3. PlaceInv'
    BY <1>1, <2>1, <2>2 DEF ExtRead, walkVars, PlaceInv, Walking, Present, Disks
  <2>4. Disk' = Disk
    BY DEF ExtRead, Disk, Disks
  <2>5. ToChs(disk_data, io.lba) \in [c : Nat, h : Nat, s : Nat \ {0}]
    BY <1>1, <1>2, ToChsTyped
  <2>6. ToChs(disk_data', io.lba) = ToChs(disk_data, io.lba)
    BY <2>1 DEF ToChs
  <2>7. IoOK' /\ io'.state \in {"chs", "fail"}
        /\ (io'.state = "chs" => io'.lba = io.lba /\ io'.chs = ToChs(disk_data, io.lba))
    BY <1>1, <1>5, <2>5 DEF IoOK, ChsRead, Try, Failed
  <2>8. GeometryKnown'
    BY <1>1, <2>1, <2>4 DEF ExtRead, IoInv, GeometryKnown, Walking
  <2>9. IoInv'
    BY <1>1, <2>1, <2>3, <2>6, <2>7, <2>8 DEF ExtRead, IoInv, RequestsKnown, ReadsRightSector, Pending,
       Waiting
  <2> QED
    BY <1>3, <2>3, <2>9, PartsNext
<1> QED
  BY <1>4, <1>5 DEF ExtRead

\* The firmware reads the sector at an address, or is asked again, or gives up.
LEMMA ChsTryInv == SearchInv /\ ChsTry => SearchInv'
<1> SUFFICES ASSUME SearchInv, ChsTry PROVE SearchInv'
  OBVIOUS
<1> DEFINE lba == FromChs(Disk, io.chs)
           possible == Present /\ lba < Size(Disk)
<1>1. PlaceInv /\ IoInv /\ CallsInv
  BY Parts
<1>2. /\ machine.bios /\ pc \in Waiting \cup {"probe"}
      /\ io \in [state : {"chs"}, lba : Nat, tries : 1..3, chs : [c : Nat, h : Nat, s : Nat \ {0}]]
  BY <1>1, IoFacts DEF ChsTry, IoInv, PlaceInv, RequestsKnown, Pending, Places, Waiting
<1>3. CallsInv' /\ UNCHANGED <<machine, pc, drive, disk_data>> /\ Disk' = Disk /\ Present' = Present
  BY <1>1 DEF ChsTry, walkVars, CallsInv, Disk, Disks, Present
<1>4. GeometryKnown'
  BY <1>1, <1>3 DEF IoInv, GeometryKnown, Walking
<1>5. faults' \in 0..MaxFaults
  BY <1>1, SizesAssumption DEF ChsTry, ReadFails, PlaceInv
<1>6. PlaceInv'
  BY <1>1, <1>3, <1>5 DEF ChsTry, walkVars, PlaceInv, Walking
<1>7. CASE possible /\ io' = Got(io.lba, Sector(Disk, lba))
  <2>1. DiskOK(Disk)
    BY <1>1, <1>7, DiskTyped DEF PlaceInv
  <2>2. lba \in Nat
    <3>1. /\ io.chs.c % Cylinders \in Nat /\ io.chs.h \in Nat /\ io.chs.s - 1 \in Nat
          /\ Disk.heads \in Nat /\ Disk.spt \in Nat
      <4>1. io.chs.c \in Nat /\ Cylinders \in Nat /\ Cylinders > 0
        BY <1>2, SizesAssumption
      <4>2. io.chs.c % Cylinders \in Nat
        BY <4>1, DivMod
      <4> QED
        BY <1>2, <2>1, <4>2 DEF DiskOK
    <3>2. (io.chs.c % Cylinders) * Disk.heads \in Nat
      BY <3>1, MulTypes
    <3>3. ((io.chs.c % Cylinders) * Disk.heads + io.chs.h) * Disk.spt \in Nat
      BY <3>1, <3>2, MulTypes
    <3> QED
      BY <1>2, <3>1, <3>3 DEF FromChs
  <2>3. Sector(Disk, lba) \in Contents
    BY <1>7, <2>1, <2>2, SectorTyped
  <2>4. io'.state = "ok" /\ io'.lba = io.lba /\ io'.data = Sector(Disk, lba) /\ IoOK'
    BY <1>2, <1>7, <2>3 DEF Got, IoOK
  <2>5. ASSUME pc /= "probe", ToChs(disk_data, io.lba).c < Cylinders
        PROVE  lba = io.lba
    <3>1. Walking /\ io.chs = ToChs(disk_data, io.lba)
      BY <1>1, <1>2, <2>5 DEF Walking, Waiting, IoInv, RequestsKnown
    <3>2. /\ disk_data \in Geometries /\ disk_data.heads > 0 /\ disk_data.sectors > 0
          /\ Disk.heads = disk_data.heads /\ Disk.spt = disk_data.sectors
      BY <1>1, <1>2, <3>1, GeometryFacts DEF IoInv, GeometryKnown
    <3> QED
      BY <1>2, <2>5, <3>1, <3>2, ChsRoundTrip
  <2>6. ~disk_data.lba \/ pc = "probe"
    BY <1>1 DEF ChsTry, IoInv, RequestsKnown
  <2>7. ReadsRightSector'
    BY <1>2, <1>3, <2>4, <2>5, <2>6 DEF ReadsRightSector, Sector
  <2>8. RequestsKnown'
    BY <1>2, <1>3, <1>7, <2>4 DEF RequestsKnown, Pending, Waiting
  <2> QED
    BY <1>3, <1>4, <1>6, <2>4, <2>7, <2>8, PartsNext DEF IoInv
<1>8. CASE io' = IF io.tries >= Tries THEN Failed ELSE [io EXCEPT !.tries = @ + 1]
  <2>1. /\ IoOK' /\ io'.state \in {"fail", "chs"}
        /\ io'.state = "chs" => io'.lba = io.lba /\ io'.chs = io.chs
    BY <1>2, <1>8 DEF IoOK, Failed, Tries
  <2>2. RequestsKnown'
    BY <1>1, <1>2, <1>3, <2>1 DEF ChsTry, IoInv, RequestsKnown, Pending, Waiting, ToChs
  <2>3. ReadsRightSector'
    BY <2>1 DEF ReadsRightSector
  <2> QED
    BY <1>3, <1>4, <1>6, <2>1, <2>2, <2>3, PartsNext DEF IoInv
<1> QED
  BY <1>7, <1>8 DEF ChsTry

\* The firmware reads a page.
LEMMA EfiReadInv == SearchInv /\ EfiRead => SearchInv'
<1> SUFFICES ASSUME SearchInv, EfiRead PROVE SearchInv'
  OBVIOUS
<1>1. PlaceInv /\ IoInv /\ CallsInv
  BY Parts
<1>2. /\ pc \in Waiting /\ Walking /\ Present /\ io.lba \in Nat
  BY <1>1, IoFacts DEF EfiRead, IoInv, PlaceInv, RequestsKnown, Pending, Places, Waiting, Walking
<1>3. CallsInv' /\ UNCHANGED <<machine, pc, drive, disk_data>> /\ Disk' = Disk /\ Present' = Present
  BY <1>1 DEF EfiRead, walkVars, CallsInv, Disk, Disks, Present
<1>4. GeometryKnown'
  BY <1>1, <1>3 DEF IoInv, GeometryKnown, Walking
<1>5. faults' \in 0..MaxFaults
  BY <1>1, SizesAssumption DEF EfiRead, ReadFails, PlaceInv
<1>6. PlaceInv'
  BY <1>1, <1>3, <1>5 DEF EfiRead, walkVars, PlaceInv, Walking
<1>7. CASE io.lba + PageSectors =< Size(Disk) /\ io' = Got(io.lba, Sector(Disk, io.lba))
  <2>1. DiskOK(Disk)
    BY <1>2, GeometryFacts
  <2>2. Sector(Disk, io.lba) \in Contents
    <3>1. Size(Disk) \in Nat /\ PageSectors \in Nat \ {0}
      BY <2>1, SizesAssumption DEF DiskOK, Size
    <3>2. io.lba < Size(Disk)
      BY <1>2, <1>7, <3>1
    <3> QED
      BY <1>2, <2>1, <3>2, SectorTyped
  <2>3. io'.state = "ok" /\ io'.lba = io.lba /\ io'.data = Sector(Disk, io.lba) /\ IoOK'
    BY <1>2, <1>7, <2>2 DEF Got, IoOK
  <2>4. IoInv'
    BY <1>2, <1>3, <1>4, <2>3 DEF IoInv, RequestsKnown, ReadsRightSector, Pending, Waiting, Sector
  <2> QED
    BY <1>3, <1>6, <2>4, PartsNext
<1>8. CASE io' = Failed
  <2>1. IoOK' /\ io'.state = "fail"
    BY <1>8 DEF IoOK, Failed
  <2> QED
    BY <1>3, <1>4, <1>6, <2>1, PartsNext DEF IoInv, RequestsKnown, ReadsRightSector, Pending
<1> QED
  BY <1>7, <1>8 DEF EfiRead

\* The next drive is tried.
LEMMA NextDriveInv == SearchInv /\ NextDrive => SearchInv'
<1> SUFFICES ASSUME SearchInv, NextDrive PROVE SearchInv'
  OBVIOUS
<1>1. PlaceInv /\ IoInv /\ CallsInv
  BY Parts
<1>2. CallsInv'
  BY <1>1 DEF NextDrive, CallsInv
<1>3. io.state \in {"none", "fail"}
  BY <1>1, IoFacts DEF NextDrive, IoInv, RequestsKnown, Pending
<1>4. machine.bios \in BOOLEAN /\ DOMAIN Disks = 1..Len(Disks)
  BY <1>1, MachinesAssumption DEF PlaceInv, Disks
<1>5. CASE pc' = "done" /\ UNCHANGED <<io, part_count>>
  <2>1. PlaceInv'
    BY <1>1, <1>5 DEF NextDrive, PlaceInv, Walking, Places
  <2>2. IoInv'
    BY <1>1, <1>3, <1>5 DEF NextDrive, IoInv, IoOK, GeometryKnown, RequestsKnown, ReadsRightSector,
       Pending, Walking
  <2> QED
    BY <1>2, <2>1, <2>2, PartsNext
<1>6. CASE machine.bios /\ io' = Try(0, Chs(0, 0, 1), 1) /\ pc' = "probe" /\ UNCHANGED part_count
  <2>1. PlaceInv'
    BY <1>1, <1>6 DEF NextDrive, PlaceInv, Walking, Places
  <2>2. io'.state = "chs" /\ IoOK'
    BY <1>6 DEF IoOK, Try, Chs
  <2>3. IoInv'
    BY <1>6, <2>2 DEF NextDrive, IoInv, GeometryKnown, RequestsKnown, ReadsRightSector,
       Pending, Walking
  <2> QED
    BY <1>2, <2>1, <2>3, PartsNext
<1>7. CASE /\ ~machine.bios /\ ~(drive > Len(Disks))
           /\ io' = Request(disk_data, 0) /\ part_count' = 0 /\ pc' = "mbr"
  <2>1. Present'
    <3>1. drive \in Nat \ {0} /\ Len(Disks) \in Nat /\ ~(drive > Len(Disks))
      BY <1>1, <1>7, DisksTyped DEF PlaceInv
    <3>2. drive \in DOMAIN Disks
      BY <1>4, <3>1
    <3> QED
      BY <3>2 DEF NextDrive, Present, Disks
  <2>2. PlaceInv'
    BY <1>1, <1>7, <2>1 DEF NextDrive, PlaceInv, Walking, Places, Waiting
  <2>3. io' = [state |-> "efi", lba |-> 0]
    BY <1>7 DEF Request
  <2>4. IoInv'
    BY <1>7, <2>3 DEF NextDrive, IoInv, IoOK, GeometryKnown, RequestsKnown, ReadsRightSector,
       Pending, Walking
  <2> QED
    BY <1>2, <2>2, <2>4, PartsNext
<1> QED
  BY <1>4, <1>5, <1>6, <1>7 DEF NextDrive

\* The first sector of a drive was read, or not.
LEMMA ProbedInv == SearchInv /\ Probed => SearchInv'
<1> SUFFICES ASSUME SearchInv, Probed PROVE SearchInv'
  OBVIOUS
<1>1. PlaceInv /\ IoInv /\ CallsInv
  BY Parts
<1>2. CallsInv'
  BY <1>1 DEF Probed, CallsInv
<1>3. CASE pc' = "done" /\ io' = NoIo /\ UNCHANGED <<drive, disk_data>>
  <2>1. PlaceInv'
    BY <1>1, <1>3 DEF Probed, PlaceInv, Walking, Places
  <2>2. IoInv'
    BY <1>3, LeaveStep
  <2> QED
    BY <1>2, <2>1, <2>2, PartsNext
<1>4. CASE io.state = "ok" /\ disk_data' = FillData(Disk)
  <2>1. Present /\ DiskOK(Disk)
    BY <1>1, <1>4, DiskTyped DEF IoInv, RequestsKnown, PlaceInv
  <2>2. /\ disk_data' \in Geometries
        /\ disk_data' /= NoDisk => disk_data'.heads = Disk.heads /\ disk_data'.sectors = Disk.spt
    BY <1>4, <2>1, FillDataTyped
  <2>3. CASE disk_data' = NoDisk /\ pc' = "drive" /\ drive' = drive + 1 /\ io' = NoIo
    <3>1. PlaceInv'
      BY <1>1, <2>2, <2>3 DEF Probed, PlaceInv, Walking, Places
    <3>2. IoInv'
      BY <2>3, LeaveStep
    <3> QED
      BY <1>2, <3>1, <3>2, PartsNext
  <2>4. CASE disk_data' /= NoDisk /\ pc' = "mbr" /\ io' = Request(disk_data', 0) /\ UNCHANGED drive
    <3>1. PlaceInv'
      BY <1>1, <2>1, <2>2, <2>4 DEF Probed, PlaceInv, Walking, Places, Waiting, Present, Disks
    <3>2. machine.bios => disk_data'.heads > 0 /\ disk_data'.sectors > 0
      BY <2>1, <2>2, <2>4 DEF DiskOK, Geometries
    <3>3. LET r == io'
          IN  /\ r.state \in {"efi", "ext", "chs", "fail"}
              /\ r.state \in {"efi", "ext", "chs"} => r.lba = 0
              /\ r.state \in {"ext", "chs"} => machine.bios
              /\ r.state = "chs" => ~disk_data'.lba /\ r.chs = ToChs(disk_data', 0)
      BY <1>1, <2>2, <2>4, <3>2, RequestTyped DEF PlaceInv
    <3>4. machine.bios => ToChs(disk_data', 0) \in [c : Nat, h : Nat, s : Nat \ {0}]
      BY <2>2, <3>2, ToChsTyped
    <3>5. IoOK'
      BY <2>4, <3>4 DEF IoOK, Request, ChsRead, Try, Failed
    <3>6. GeometryKnown'
      BY <2>2, <2>4 DEF Probed, GeometryKnown, Disk, Disks
    <3>7. IoInv'
      BY <2>4, <3>3, <3>5, <3>6 DEF Probed, IoInv, RequestsKnown, ReadsRightSector, Pending
    <3> QED
      BY <1>2, <3>1, <3>7, PartsNext
  <2> QED
    BY <1>4, <2>3, <2>4 DEF Probed
<1> QED
  BY <1>3, <1>4 DEF Probed

\* What a sector contains, in types.
LEMMA ContentsFacts ==
    ASSUME NEW c \in Contents
    PROVE  /\ c.gpt \in GptHeaders
           /\ \A n \in 1..4 : c.entries[n] \in MbrEntries
           /\ \A u \in 0..(Units - 1) : c.unit[u] \in GptEntries
  BY DEF Contents

\* A call of check_mbr returns.
LEMMA MbrReturnsInv ==
    ASSUME SearchInv, Walking, NEW callers \in Seq(Frames), LowAll(callers), MbrReturns(callers),
           UNCHANGED <<machine, drive, disk_data, part_count, gpt, i, entry, faults>>
    PROVE  SearchInv'
<1>1. PlaceInv
  BY Parts
<1>2. pc' \in {"gpt", "entry"}
  BY DEF MbrReturns
<1>3. PlaceInv'
  BY <1>1, <1>2 DEF PlaceInv, Walking, Places, Waiting, Present, Disks
<1>4. CASE callers = << >>
  <2>1. stack' = << >> /\ pc' = "gpt" /\ io' = Request(disk_data, 1)
    BY <1>4 DEF MbrReturns
  <2>2. CallsInv'
    BY <2>1 DEF CallsInv, LowAll
  <2>3. IoInv'
    BY <2>1, RequestStep DEF Waiting
  <2> QED
    BY <1>3, <2>2, <2>3, PartsNext
<1>5. CASE callers /= << >>
  <2>1. stack' = Advance(callers) /\ pc' = "entry" /\ io' = NoIo
    BY <1>5 DEF MbrReturns
  <2>2. CallsInv'
    BY <1>5, <2>1, AdvanceTyped DEF CallsInv
  <2>3. IoInv'
    BY <2>1, IdleStep
  <2> QED
    BY <1>3, <2>2, <2>3, PartsNext
<1> QED
  BY <1>4, <1>5

\* A table has been read, or not.
LEMMA GotMbrInv == SearchInv /\ GotMbr => SearchInv'
<1> SUFFICES ASSUME SearchInv, GotMbr PROVE SearchInv'
  OBVIOUS
<1>1. PlaceInv /\ IoInv /\ CallsInv
  BY Parts
<1>2. Walking /\ stack \in Seq(Frames) /\ LowAll(stack)
  BY <1>1 DEF GotMbr, CallsInv, Walking
<1>3. CASE io.state = "ok" /\ io.data.aa55
  <2>1. /\ stack' = <<[lba |-> io.lba, i |-> 1, mbr |-> io.data]>> \o stack
        /\ pc' = "entry" /\ io' = NoIo
    BY <1>3 DEF GotMbr
  <2>2. [lba |-> io.lba, i |-> 1, mbr |-> io.data] \in Frames
    BY <1>1, <1>3, IoFacts DEF IoInv, Frames
  <2>3. CallsInv'
    BY <1>2, <2>1, <2>2, PushTyped DEF CallsInv
  <2>4. IoInv'
    BY <1>2, <2>1, IdleStep DEF GotMbr
  <2>5. PlaceInv'
    BY <1>1, <1>2, <2>1 DEF GotMbr, PlaceInv, Walking, Places, Present, Disks
  <2> QED
    BY <2>3, <2>4, <2>5, PartsNext
<1>4. CASE MbrReturns(stack)
  BY <1>2, <1>4, MbrReturnsInv DEF GotMbr
<1> QED
  BY <1>3, <1>4 DEF GotMbr

\* One iteration over the entries of a table.
LEMMA CheckEntryInv == SearchInv /\ CheckEntry => SearchInv'
<1> SUFFICES ASSUME SearchInv, CheckEntry PROVE SearchInv'
  OBVIOUS
<1> DEFINE top == Head(stack)
           e == top.mbr.entries[top.i]
           lba == (top.lba + e.start) % U32Mod
<1>1. PlaceInv /\ IoInv /\ CallsInv
  BY Parts
<1>2. pc = "entry" /\ Walking /\ stack \in Seq(Frames) /\ stack /= << >> /\ LowCallers(stack)
  BY <1>1 DEF CheckEntry, CallsInv, Walking
<1>3. top \in Frames /\ stack[1] = top /\ 1 \in DOMAIN stack
  <2>1. Len(stack) \in Nat /\ Len(stack) /= 0 /\ DOMAIN stack = 1..Len(stack)
    BY <1>2
  <2> QED
    BY <1>2, <2>1
<1>4. CASE MbrReturns(Tail(stack)) /\ UNCHANGED part_count
  <2>1. Tail(stack) \in Seq(Frames) /\ LowAll(Tail(stack))
    BY <1>2, TailTyped
  <2>2. UNCHANGED <<machine, drive, disk_data, part_count, gpt, i, entry, faults>>
    BY <1>4 DEF CheckEntry
  <2> QED
    BY <1>2, <1>4, <2>1, <2>2, MbrReturnsInv
<1>5. ASSUME ~(top.i > 4 \/ TooMany \/ e.type = "gpt")
      PROVE  /\ LowAll(stack)
             /\ e.start \in Nat /\ lba \in Nat
  <2>1. top.i \in 1..4
    BY <1>3, <1>5 DEF Frames
  <2>2. LowAll(stack)
    BY <1>2, <1>3, <2>1 DEF LowAll, LowCallers
  <2>3. e \in MbrEntries
    BY <1>3, <2>1, ContentsFacts DEF Frames
  <2>4. e.start \in Nat
    BY <2>3 DEF MbrEntries
  <2>5. top.lba + e.start \in Nat
    BY <1>3, <2>4 DEF Frames
  <2>6. lba \in Nat
    BY <2>5, SizesAssumption, DivMod
  <2> QED
    BY <2>2, <2>4, <2>6
<1>6. CASE /\ ~(top.i > 4 \/ TooMany \/ e.type = "gpt")
           /\ stack' = Advance(stack) /\ UNCHANGED <<pc, io, part_count>>
  <2>1. CallsInv'
    BY <1>2, <1>5, <1>6, AdvanceTyped DEF CallsInv
  <2>2. PlaceInv'
    BY <1>1, <1>6 DEF CheckEntry, PlaceInv, Walking, Present, Disks
  <2>3. IoInv'
    BY <1>1, <1>2, <1>6 DEF CheckEntry, IoInv, IoOK, GeometryKnown, RequestsKnown, ReadsRightSector,
       Pending, Walking, Disk, Disks, Present, ToChs
  <2> QED
    BY <2>1, <2>2, <2>3, PartsNext
<1>7. CASE /\ ~(top.i > 4 \/ TooMany \/ e.type = "gpt")
           /\ io' = Request(disk_data, lba)
           /\ pc' \in {"mbr", "vbr"}
           /\ part_count' \in {part_count, part_count + 1}
           /\ UNCHANGED stack
  <2>1. CallsInv'
    BY <1>2, <1>5, <1>7 DEF CallsInv
  <2>2. PlaceInv'
    <3>1. part_count \in Nat /\ part_count' \in Nat
      <4>1. part_count \in Nat
        BY <1>1 DEF PlaceInv
      <4> QED
        BY <1>7, <4>1
    <3>2. /\ pc' \in Places /\ Walking'
          /\ UNCHANGED <<machine, drive, disk_data, i, gpt, entry, faults>>
      BY <1>7 DEF CheckEntry, Walking, Places, Waiting
    <3> HIDE DEF top, e, lba
    <3> QED
      BY <1>1, <1>2, <3>1, <3>2 DEF PlaceInv, Present, Disks
  <2>3. lba \in Nat /\ UNCHANGED <<machine, drive, disk_data>> /\ pc' \in Waiting
    BY <1>5, <1>7 DEF CheckEntry, Waiting
  <2> HIDE DEF lba
  <2>4. IoInv'
    BY <1>2, <1>7, <2>3, RequestStep
  <2> QED
    BY <2>1, <2>2, <2>4, PartsNext
<1> QED
  <2> HIDE DEF lba, e
  <2> QED
    BY <1>4, <1>6, <1>7 DEF CheckEntry, lba, e

\* The boot sector of a partition has been read, or not.
LEMMA GotVbrInv == SearchInv /\ GotVbr => SearchInv'
<1> SUFFICES ASSUME SearchInv, GotVbr PROVE SearchInv'
  OBVIOUS
<1>1. PlaceInv /\ IoInv /\ CallsInv
  BY Parts
<1>2. pc = "vbr" /\ Walking /\ stack \in Seq(Frames) /\ stack /= << >> /\ LowAll(stack)
  BY <1>1 DEF GotVbr, CallsInv, Walking
<1>3. CASE stack' = << >> /\ pc' = "done"
  <2>1. CallsInv'
    BY <1>3 DEF CallsInv, LowAll
  <2>2. PlaceInv'
    BY <1>1, <1>3 DEF GotVbr, PlaceInv, Walking, Places
  <2>3. IoInv'
    BY <1>3, LeaveStep DEF GotVbr
  <2> QED
    BY <2>1, <2>2, <2>3, PartsNext
<1>4. CASE stack' = Advance(stack) /\ pc' = "entry"
  <2>1. CallsInv'
    BY <1>2, <1>4, AdvanceTyped DEF CallsInv
  <2>2. PlaceInv'
    BY <1>1, <1>2, <1>4 DEF GotVbr, PlaceInv, Walking, Places, Present, Disks
  <2>3. IoInv'
    BY <1>2, <1>4, IdleStep DEF GotVbr
  <2> QED
    BY <2>1, <2>2, <2>3, PartsNext
<1> QED
  BY <1>3, <1>4 DEF GotVbr

-----------------------------------------------------------------------------
(* The steps of check_gpt_partmap.                                         *)

\* Where the entry is.
LEMMA EntryPlace ==
    ASSUME PlaceInv
    PROVE  EntryOfs \in Nat /\ EntryLba \in Nat /\ EntryOfs % Units \in 0..(Units - 1)
<1>1. i \in Nat /\ gpt.entry_size \in Nat /\ gpt.partitions \in Nat
  BY DEF PlaceInv, GptHeaders
<1>2. i * gpt.entry_size \in Nat
  BY <1>1, MulTypes
<1>3. Units \in Nat /\ Units > 0 /\ U32Mod \in Nat /\ U32Mod > 0
  BY SizesAssumption
<1>4. EntryOfs \in Nat
  BY <1>2, <1>3, DivMod DEF EntryOfs
<1>5. /\ EntryOfs \div Units \in Nat
      /\ EntryOfs % Units \in Nat /\ EntryOfs % Units < Units
  BY <1>3, <1>4, DivMod
<1> QED
  BY <1>1, <1>3, <1>4, <1>5 DEF EntryLba

\* The disk is done, and the next one is tried.
LEMMA NextDiskInv ==
    ASSUME SearchInv, pc \notin {"entry", "vbr"}, NextDisk,
           UNCHANGED <<machine, disk_data, stack, part_count, faults>>
    PROVE  SearchInv'
<1>1. PlaceInv /\ IoInv /\ CallsInv
  BY Parts
<1>2. pc' = "drive" /\ io' = NoIo
  BY DEF NextDisk
<1>3. CallsInv'
  BY <1>1, <1>2 DEF CallsInv
<1>4. PlaceInv'
  BY <1>1 DEF NextDisk, PlaceInv, Walking, Places, NoGpt, GptHeaders, NoEntry, GptEntries
<1>5. IoInv'
  BY <1>2, LeaveStep
<1> QED
  BY <1>3, <1>4, <1>5, PartsNext

\* The steps of the loop over the GPT that stay on the disk: the types of what they
\* change, and the invariant of the read.
LEMMA GptStep ==
    ASSUME SearchInv, Walking, pc \notin {"entry", "vbr"}, pc' \in Places \ {"entry", "vbr", "probe"},
           gpt' \in GptHeaders, i' \in Nat, entry' \in GptEntries, IoInv',
           UNCHANGED <<machine, drive, disk_data, stack, part_count, faults>>
    PROVE  SearchInv'
<1>1. PlaceInv /\ CallsInv
  BY Parts
<1>2. PlaceInv'
  BY <1>1 DEF PlaceInv, Walking, Present, Disks
<1>3. CallsInv'
  BY <1>1 DEF CallsInv
<1> QED
  BY <1>2, <1>3, PartsNext

\* The header has been read, or not.
LEMMA GotGptInv == SearchInv /\ GotGpt => SearchInv'
<1> SUFFICES ASSUME SearchInv, GotGpt PROVE SearchInv'
  OBVIOUS
<1>1. PlaceInv /\ IoInv /\ CallsInv /\ Walking /\ pc = "gpt"
  BY Parts DEF GotGpt, Walking
<1>2. CASE NextDisk
  BY <1>1, <1>2, NextDiskInv DEF GotGpt
<1>3. CASE /\ io.state = "ok" /\ gpt' = io.data.gpt /\ pc' = "gpt_entry" /\ io' = NoIo
           /\ UNCHANGED <<drive, i, entry>>
  <2>1. gpt' \in GptHeaders
    BY <1>1, <1>3, IoFacts, ContentsFacts DEF IoInv
  <2>2. UNCHANGED <<machine, drive, disk_data, stack, part_count, faults>>
    BY <1>3 DEF GotGpt
  <2>3. IoInv'
    BY <1>1, <1>3, <2>2, IdleStep
  <2>4. i' \in Nat /\ entry' \in GptEntries
    BY <1>1, <1>3 DEF PlaceInv
  <2> QED
    BY <1>1, <1>3, <2>1, <2>2, <2>3, <2>4, GptStep DEF Places
<1> QED
  BY <1>2, <1>3 DEF GotGpt

\* The next entry is read.
LEMMA CheckGptEntryInv == SearchInv /\ CheckGptEntry => SearchInv'
<1> SUFFICES ASSUME SearchInv, CheckGptEntry PROVE SearchInv'
  OBVIOUS
<1>1. PlaceInv /\ IoInv /\ CallsInv /\ Walking /\ pc = "gpt_entry"
  BY Parts DEF CheckGptEntry, Walking
<1>2. CASE NextDisk
  BY <1>1, <1>2, NextDiskInv DEF CheckGptEntry
<1>3. CASE io' = Request(disk_data, EntryLba) /\ pc' = "gpt_first" /\ UNCHANGED <<drive, gpt, i, entry>>
  <2>1. EntryLba \in Nat
    BY <1>1, EntryPlace
  <2>2. UNCHANGED <<machine, drive, disk_data, stack, part_count, faults>>
    BY <1>3 DEF CheckGptEntry
  <2>3. IoInv'
    BY <1>1, <1>3, <2>1, <2>2, RequestStep DEF Waiting
  <2>4. gpt' \in GptHeaders /\ i' \in Nat /\ entry' \in GptEntries
    BY <1>1, <1>3 DEF PlaceInv
  <2> QED
    BY <1>1, <1>3, <2>2, <2>3, <2>4, GptStep DEF Places, Waiting
<1> QED
  BY <1>2, <1>3 DEF CheckGptEntry

\* The first of the two sectors of an entry has been read, or not.
LEMMA GotFirstInv == SearchInv /\ GotFirst => SearchInv'
<1> SUFFICES ASSUME SearchInv, GotFirst PROVE SearchInv'
  OBVIOUS
<1>1. PlaceInv /\ IoInv /\ CallsInv /\ Walking /\ pc = "gpt_first"
  BY Parts DEF GotFirst, Walking
<1>2. CASE NextDisk
  BY <1>1, <1>2, NextDiskInv DEF GotFirst
<1>3. CASE /\ io.state = "ok" /\ entry' = io.data.unit[EntryOfs % Units]
           /\ io' = Request(disk_data, EntryLba + 1) /\ pc' = "gpt_second"
           /\ UNCHANGED <<drive, gpt, i>>
  <2>1. EntryLba \in Nat /\ EntryOfs % Units \in 0..(Units - 1)
    BY <1>1, EntryPlace
  <2>2. entry' \in GptEntries
    BY <1>1, <1>3, <2>1, IoFacts, ContentsFacts DEF IoInv
  <2>3. UNCHANGED <<machine, drive, disk_data, stack, part_count, faults>>
    BY <1>3 DEF GotFirst
  <2>4. EntryLba + 1 \in Nat /\ pc' \in Waiting
    BY <1>3, <2>1 DEF Waiting
  <2>5. IoInv'
    BY <1>1, <1>3, <2>3, <2>4, RequestStep
  <2>6. gpt' \in GptHeaders /\ i' \in Nat
    BY <1>1, <1>3 DEF PlaceInv
  <2> QED
    BY <1>1, <1>3, <2>2, <2>3, <2>5, <2>6, GptStep DEF Places, Waiting
<1> QED
  BY <1>2, <1>3 DEF GotFirst

\* The second of the two sectors of an entry has been read, or not.
LEMMA GotSecondInv == SearchInv /\ GotSecond => SearchInv'
<1> SUFFICES ASSUME SearchInv, GotSecond PROVE SearchInv'
  OBVIOUS
<1>1. PlaceInv /\ IoInv /\ CallsInv /\ Walking /\ pc = "gpt_second"
  BY Parts DEF GotSecond, Walking
<1>2. CASE NextDisk
  BY <1>1, <1>2, NextDiskInv DEF GotSecond
<1>3. CASE UNCHANGED <<drive, gpt, entry>> /\ i' = i + 1 /\ pc' = "gpt_entry" /\ io' = NoIo
  <2>1. UNCHANGED <<machine, drive, disk_data, stack, part_count, faults>>
    BY <1>3 DEF GotSecond
  <2>2. IoInv'
    BY <1>1, <1>3, <2>1, IdleStep
  <2>3. gpt' \in GptHeaders /\ i' \in Nat /\ entry' \in GptEntries
    BY <1>1, <1>3 DEF PlaceInv
  <2> QED
    BY <1>1, <1>3, <2>1, <2>2, <2>3, GptStep DEF Places
<1>4. CASE UNCHANGED <<drive, gpt, i, entry>> /\ pc' = "gpt_vbr" /\ io' = Request(disk_data, entry.start)
  <2>1. UNCHANGED <<machine, drive, disk_data, stack, part_count, faults>>
    BY <1>4 DEF GotSecond
  <2>2. gpt' \in GptHeaders /\ i' \in Nat /\ entry' \in GptEntries
    BY <1>1, <1>4 DEF PlaceInv
  <2>3. entry.start \in Nat /\ pc' \in Waiting
    BY <1>1, <1>4 DEF PlaceInv, GptEntries, Waiting
  <2>4. IoInv'
    BY <1>1, <1>4, <2>1, <2>3, RequestStep
  <2> QED
    BY <1>1, <1>4, <2>1, <2>2, <2>4, GptStep DEF Places, Waiting
<1> QED
  BY <1>2, <1>3, <1>4 DEF GotSecond

\* The boot sector of a GPT partition has been read, or not.
LEMMA GotGptVbrInv == SearchInv /\ GotGptVbr => SearchInv'
<1> SUFFICES ASSUME SearchInv, GotGptVbr PROVE SearchInv'
  OBVIOUS
<1>1. PlaceInv /\ IoInv /\ CallsInv /\ Walking /\ pc = "gpt_vbr"
  BY Parts DEF GotGptVbr, Walking
<1>2. UNCHANGED <<machine, drive, disk_data, stack, part_count, faults>> /\ io' = NoIo
  BY DEF GotGptVbr
<1>3. (pc' = "done" /\ i' = i) \/ (pc' = "gpt_entry" /\ i' = i + 1)
  BY DEF GotGptVbr
<1>4. gpt' \in GptHeaders /\ i' \in Nat /\ entry' \in GptEntries
  BY <1>1, <1>3 DEF GotGptVbr, PlaceInv
<1>5. IoInv'
  BY <1>1, <1>2, <1>3, IdleStep, LeaveStep
<1> QED
  BY <1>1, <1>2, <1>3, <1>4, <1>5, GptStep DEF Places

-----------------------------------------------------------------------------
(* What the search finds.                                                  *)

\* On a machine whose disk is searched, the tables are those of the disk.
LEMMA TablesFacts ==
    ASSUME machine \in Machines, Present
    PROVE  TablesOK(machine, Disk) /\ GptOK(machine, Disk) /\ machine.wanted /= Unknown
  BY TablesAssumption DEF Present, Disk, Disks

\* Both invariants, in a step that stays on the disk or leaves it.
LEMMA GeometryStays ==
    ASSUME FoundInv, UNCHANGED <<machine, drive, disk_data>>, Walking
    PROVE  GeometryKept'
  BY DEF FoundInv, GeometryKept, Walking, Disk, Disks

\* What is left in nt_cmdline stays right if it does not change.
LEMMA AnswerStays ==
    ASSUME FoundInv, UNCHANGED <<machine, answer>>
    PROVE  FoundIsWanted'
  BY DEF FoundInv, FoundIsWanted, Wanted, Searchable, Part, Disks

\* A boot sector that matches, at the start of a partition that is listed.
LEMMA MatchIsWanted ==
    ASSUME SearchInv, FoundInv, Walking, UNCHANGED machine,
           NEW lba, NEW partid, NEW partmap, NEW diskid,
           Lists(Disk, lba, partid, partmap, diskid),
           lba < Size(Disk), Uuid(Sector(Disk, lba)) = machine.wanted,
           answer' = [partid |-> partid, partmap |-> partmap, diskid |-> diskid]
    PROVE  FoundIsWanted'
<1>1. machine \in Machines /\ Present
  BY DEF SearchInv, TypeOK, Walking
<1>2. machine.wanted /= Unknown
  BY <1>1, TablesFacts
<1>3. PICK n \in DOMAIN Disk.parts \cap 1..MaxParts :
            LET p == Disk.parts[n]
            IN  /\ p.partid = partid /\ p.partmap = partmap /\ p.uuid = machine.wanted
                /\ p.logical \/ p.diskid = diskid
  BY <1>2 DEF Lists
<1>4. drive \in Searchable
  BY <1>1 DEF Searchable, Present, FoundInv, GeometryKept, Disk
<1>5. \E q \in Wanted : Part(q) = Disk.parts[n]
  <2>1. <<drive, n>> \in Wanted /\ Part(<<drive, n>>) = Disk.parts[n]
    BY <1>3, <1>4 DEF Wanted, Part, Disk
  <2> QED
    BY <2>1
<1>6. PICK q \in Wanted : Part(q) = Disk.parts[n]
  BY <1>5
<1>7. Wanted' = Wanted /\ Part(q)' = Part(q)
  BY DEF Wanted, Searchable, Part, Disks
<1>8. /\ q \in Wanted' /\ answer'.partid = Part(q)'.partid /\ answer'.partmap = Part(q)'.partmap
      /\ Part(q)'.logical \/ answer'.diskid = Part(q)'.diskid
  BY <1>3, <1>6, <1>7
<1> QED
  BY <1>8 DEF FoundIsWanted

\* The sector that a step asks for: its number, and the cylinder if there is one.
LEMMA RequestKnown ==
    ASSUME SearchInv, FoundInv, Walking, UNCHANGED <<machine, drive, disk_data>>,
           pc' \in Waiting, NEW lba \in Nat, io' = Request(disk_data, lba)
    PROVE  /\ io'.state \in {"efi", "ext", "chs"} => io'.lba = lba
           /\ ChsKnown' /\ SectorKnown'
           /\ (pc' /= "gpt_second" => Asked(lba)' /\ Addressed(machine, Disk, lba)) => AskedKnown'
<1>1. /\ io'.state \in {"efi", "ext", "chs", "fail"}
      /\ io'.state \in {"efi", "ext", "chs"} => io'.lba = lba
  BY RequestTyped, GeometryFacts DEF SearchInv, TypeOK
<1>2. io'.state = "chs" =>
        io'.chs.c < disk_data.cylinders /\ io'.lba =< Cylinders * Heads * Spt
  <2>1. CASE ~machine.bios \/ disk_data.lba
    BY <2>1 DEF Request
  <2>2. CASE machine.bios /\ ~disk_data.lba
    <3>1. ToChs(disk_data, lba).c \in Nat /\ disk_data.cylinders \in Nat
      BY <2>2, GeometryFacts, ToChsTyped DEF Geometries
    <3>2. Cylinders * Heads * Spt \in Nat
      BY SizesAssumption, MulTypes
    <3> QED
      BY <2>2, <3>1, <3>2 DEF Request, ChsRead, Try, Failed
  <2> QED
    BY <2>1, <2>2
<1>3. Disk' = Disk
  BY DEF Disk, Disks
<1> QED
  BY <1>1, <1>2, <1>3 DEF ChsKnown, SectorKnown, AskedKnown, Pending

\* A step after which no sector is waited for.
LEMMA NoRequest ==
    ASSUME io' = NoIo
    PROVE  AskedKnown' /\ ChsKnown' /\ SectorKnown'
  BY DEF NoIo, AskedKnown, ChsKnown, SectorKnown, Pending

\* The search starts with nothing found.
LEMMA InitFound == Init => FoundInv
<1> SUFFICES ASSUME Init PROVE FoundInv
  OBVIOUS
<1>1. pc = "drive" /\ io.state = "none" /\ stack = << >> /\ answer = Nothing
  BY DEF Init, NoIo, Nothing
<1> QED
  BY <1>1 DEF FoundInv, GeometryKept, Walking, AskedKnown, ChsKnown, SectorKnown, Pending,
     StackKnown, Tabled, GptKnown, Listed, FoundIsWanted

\* A step of a read leaves the walk where it is.
LEMMA WalkStays ==
    ASSUME FoundInv, UNCHANGED <<machine, pc, drive, walkVars, answer>>
    PROVE  StackKnown' /\ GptKnown' /\ FoundIsWanted' /\ Disk' = Disk /\ Walking' = Walking
           /\ \A lba : Asked(lba)' = Asked(lba)
<1>1. Disk' = Disk /\ UNCHANGED <<pc, stack, gpt, i, entry>> /\ UNCHANGED <<machine, answer>>
  BY DEF Disk, Disks, walkVars
<1>2. StackKnown'
  BY <1>1 DEF FoundInv, StackKnown, TableKnown
<1>3. GptKnown'
  BY <1>1 DEF FoundInv, GptKnown
<1>4. FoundIsWanted'
  BY <1>1, AnswerStays
<1>5. ASSUME NEW lba PROVE Asked(lba)' = Asked(lba)
  BY <1>1 DEF Asked
<1> QED
  BY <1>1, <1>2, <1>3, <1>4, <1>5 DEF Walking

\* In CHS mode the address is that of the sector, if the cylinder can be addressed.
LEMMA AddressIsRight ==
    ASSUME SearchInv, FoundInv, Walking, io.state = "chs", Addressed(machine, Disk, io.lba)
    PROVE  FromChs(Disk, io.chs) = io.lba
<1>1. /\ machine.bios /\ io.chs = ToChs(disk_data, io.lba) /\ io.lba \in Nat
      /\ disk_data.heads = Disk.heads /\ disk_data.sectors = Disk.spt
  BY IoFacts DEF SearchInv, TypeOK, RequestsKnown, GeometryKnown, Walking
<1>2. disk_data \in Geometries /\ disk_data.heads > 0 /\ disk_data.sectors > 0 /\ DiskOK(Disk)
  BY <1>1, GeometryFacts
<1>3. /\ FillData(Disk) /= NoDisk
      /\ disk_data \in {FillData(Disk), [FillData(Disk) EXCEPT !.lba = FALSE]}
  BY <1>1 DEF FoundInv, GeometryKept
<1>4. FillData(Disk) \in Geometries
  BY <1>2, FillDataTyped
<1>5. /\ FillData(Disk).heads = disk_data.heads /\ FillData(Disk).sectors = disk_data.sectors
      /\ FillData(Disk).cylinders = disk_data.cylinders
  BY <1>3, <1>4 DEF Geometries
<1>6. ToChs(FillData(Disk), io.lba) = ToChs(disk_data, io.lba)
  BY <1>5 DEF ToChs
<1>7. io.chs.c < disk_data.cylinders /\ io.lba =< Cylinders * Heads * Spt
  BY DEF FoundInv, ChsKnown
<1>8. ToChs(disk_data, io.lba).c < Cylinders
  <2>1. /\ ToChs(disk_data, io.lba).c \in Nat /\ disk_data.cylinders \in Nat
        /\ Cylinders * Heads * Spt \in Nat
    BY <1>1, <1>2, ToChsTyped, SizesAssumption, MulTypes DEF Geometries
  <2> QED
    BY <2>1, <1>1, <1>3, <1>5, <1>6, <1>7 DEF Addressed
<1> QED
  BY <1>1, <1>2, <1>8, ChsRoundTrip

\* The firmware reads a sector by its number, or CHS mode is next.
LEMMA ExtReadFound == SearchInv /\ FoundInv /\ ExtRead => FoundInv'
<1> SUFFICES ASSUME SearchInv, FoundInv, ExtRead PROVE FoundInv'
  OBVIOUS
<1>1. Walking /\ machine.bios /\ io.lba \in Nat /\ io.state = "ext" /\ pc /= "probe"
  BY Parts, IoFacts DEF ExtRead, IoInv, PlaceInv, RequestsKnown, Walking, Pending, Places, Waiting
<1>2. UNCHANGED <<machine, pc, drive, walkVars, answer>>
  BY DEF ExtRead
<1>3. StackKnown' /\ GptKnown' /\ FoundIsWanted' /\ Disk' = Disk /\ Walking' = Walking
      /\ \A lba : Asked(lba)' = Asked(lba)
  BY <1>2, WalkStays
<1>4. /\ FillData(Disk) /= NoDisk
      /\ disk_data \in {FillData(Disk), [FillData(Disk) EXCEPT !.lba = FALSE]}
  BY <1>1 DEF FoundInv, GeometryKept
<1>5. pc /= "gpt_second" => Asked(io.lba) /\ Addressed(machine, Disk, io.lba)
  BY <1>1 DEF FoundInv, AskedKnown, Pending
<1>6. CASE /\ io.lba < Size(Disk) /\ io' = Got(io.lba, Sector(Disk, io.lba))
           /\ UNCHANGED <<disk_data, faults>>
  <2>1. io'.state = "ok" /\ io'.lba = io.lba /\ io'.data = Sector(Disk, io.lba)
    BY <1>6 DEF Got
  <2>2. GeometryKept'
    BY <1>1, <1>2, <1>6, GeometryStays
  <2>3. AskedKnown' /\ ChsKnown' /\ SectorKnown'
    BY <1>2, <1>3, <1>5, <1>6, <2>1 DEF AskedKnown, ChsKnown, SectorKnown
  <2> QED
    BY <1>3, <2>2, <2>3 DEF FoundInv
<1>7. CASE /\ disk_data' = [disk_data EXCEPT !.lba = FALSE]
           /\ io' = ChsRead(disk_data, io.lba)
  <2>1. /\ disk_data \in Geometries /\ disk_data.heads > 0 /\ disk_data.sectors > 0
        /\ FillData(Disk) \in Geometries
    BY <1>1, GeometryFacts, FillDataTyped
  <2>2. /\ io'.state \in {"fail", "chs"}
        /\ io'.state = "chs" => /\ io'.lba = io.lba /\ io'.chs.c < disk_data.cylinders
                                /\ io.lba =< Cylinders * Heads * Spt
    <3>1. ToChs(disk_data, io.lba).c \in Nat /\ disk_data.cylinders \in Nat
      BY <1>1, <2>1, ToChsTyped DEF Geometries
    <3>2. Cylinders * Heads * Spt \in Nat
      BY SizesAssumption, MulTypes
    <3> QED
      BY <1>1, <1>7, <3>1, <3>2 DEF ChsRead, Try, Failed
  <2>3. disk_data' = [FillData(Disk) EXCEPT !.lba = FALSE] /\ disk_data'.cylinders = disk_data.cylinders
    BY <1>4, <1>7, <2>1 DEF Geometries
  <2>4. GeometryKept'
    BY <1>3, <1>4, <2>3 DEF GeometryKept
  <2>5. AskedKnown' /\ ChsKnown' /\ SectorKnown'
    BY <1>2, <1>3, <1>5, <2>2, <2>3 DEF AskedKnown, ChsKnown, SectorKnown, Pending
  <2> QED
    BY <1>3, <2>4, <2>5 DEF FoundInv
<1> QED
  BY <1>6, <1>7 DEF ExtRead

\* The firmware reads the sector at an address, or is asked again, or gives up.
LEMMA ChsTryFound == SearchInv /\ FoundInv /\ ChsTry => FoundInv'
<1> SUFFICES ASSUME SearchInv, FoundInv, ChsTry PROVE FoundInv'
  OBVIOUS
<1>1. UNCHANGED <<machine, pc, drive, walkVars, answer>> /\ UNCHANGED disk_data /\ io.state = "chs"
  BY DEF ChsTry
<1>2. StackKnown' /\ GptKnown' /\ FoundIsWanted' /\ Disk' = Disk /\ Walking' = Walking
      /\ \A lba : Asked(lba)' = Asked(lba)
  BY <1>1, WalkStays
<1>3. GeometryKept'
  BY <1>1, <1>2 DEF FoundInv, GeometryKept
<1>4. Walking /\ pc /= "gpt_second" => Asked(io.lba) /\ Addressed(machine, Disk, io.lba)
  BY <1>1 DEF FoundInv, AskedKnown, Pending
<1>5. CASE /\ FromChs(Disk, io.chs) < Size(Disk)
           /\ io' = Got(io.lba, Sector(Disk, FromChs(Disk, io.chs)))
  <2>1. io'.state = "ok" /\ io'.lba = io.lba /\ io'.data = Sector(Disk, FromChs(Disk, io.chs))
    BY <1>5 DEF Got
  <2>2. SectorKnown'
    BY <1>1, <1>2, <1>4, <1>5, <2>1, AddressIsRight DEF SectorKnown
  <2>3. AskedKnown' /\ ChsKnown'
    BY <1>1, <1>2, <1>4, <2>1 DEF AskedKnown, ChsKnown
  <2> QED
    BY <1>2, <1>3, <2>2, <2>3 DEF FoundInv
<1>6. CASE io' = IF io.tries >= Tries THEN Failed ELSE [io EXCEPT !.tries = @ + 1]
  <2>1. /\ io'.state \in {"fail", "chs"}
        /\ io'.state = "chs" => io'.lba = io.lba /\ io'.chs = io.chs
    <3>1. io \in [state : {"chs"}, lba : Nat, tries : 1..3, chs : [c : Nat, h : Nat, s : Nat \ {0}]]
      BY <1>1, IoFacts DEF SearchInv, TypeOK
    <3> QED
      BY <1>6, <3>1 DEF Failed
  <2>2. AskedKnown' /\ ChsKnown' /\ SectorKnown'
    BY <1>1, <1>2, <1>4, <2>1 DEF FoundInv, AskedKnown, ChsKnown, SectorKnown, Pending
  <2> QED
    BY <1>2, <1>3, <2>2 DEF FoundInv
<1> QED
  BY <1>5, <1>6 DEF ChsTry

\* The firmware reads a page.
LEMMA EfiReadFound == SearchInv /\ FoundInv /\ EfiRead => FoundInv'
<1> SUFFICES ASSUME SearchInv, FoundInv, EfiRead PROVE FoundInv'
  OBVIOUS
<1>1. UNCHANGED <<machine, pc, drive, walkVars, answer>> /\ UNCHANGED disk_data /\ io.state = "efi"
  BY DEF EfiRead
<1>2. StackKnown' /\ GptKnown' /\ FoundIsWanted' /\ Disk' = Disk /\ Walking' = Walking
      /\ \A lba : Asked(lba)' = Asked(lba)
  BY <1>1, WalkStays
<1>3. GeometryKept'
  BY <1>1, <1>2 DEF FoundInv, GeometryKept
<1>4. Walking /\ pc /= "gpt_second" => Asked(io.lba) /\ Addressed(machine, Disk, io.lba)
  BY <1>1 DEF FoundInv, AskedKnown, Pending
<1>5. CASE io.lba + PageSectors =< Size(Disk) /\ io' = Got(io.lba, Sector(Disk, io.lba))
  <2>1. io'.state = "ok" /\ io'.lba = io.lba /\ io'.data = Sector(Disk, io.lba)
    BY <1>5 DEF Got
  <2>2. Walking => io.lba < Size(Disk)
    <3>1. Walking => Size(Disk) \in Nat
      BY GeometryFacts DEF DiskOK, Size
    <3>2. io.lba \in Nat
      BY <1>1, IoFacts DEF SearchInv, TypeOK
    <3>3. PageSectors \in Nat \ {0}
      BY SizesAssumption
    <3> QED
      BY <1>5, <3>1, <3>2, <3>3
  <2>3. AskedKnown' /\ ChsKnown' /\ SectorKnown'
    BY <1>1, <1>2, <1>4, <2>1, <2>2 DEF AskedKnown, ChsKnown, SectorKnown
  <2> QED
    BY <1>2, <1>3, <2>3 DEF FoundInv
<1>6. CASE io' = Failed
  <2>1. io'.state = "fail"
    BY <1>6 DEF Failed
  <2>2. AskedKnown' /\ ChsKnown' /\ SectorKnown'
    BY <2>1 DEF AskedKnown, ChsKnown, SectorKnown, Pending
  <2> QED
    BY <1>2, <1>3, <2>2 DEF FoundInv
<1> QED
  BY <1>5, <1>6 DEF EfiRead

-----------------------------------------------------------------------------

\* A step after which no disk is walked, and the answer is unchanged.
LEMMA LeaveFound ==
    ASSUME FoundInv, pc' \in {"drive", "probe", "done"}, stack' = << >>,
           UNCHANGED <<machine, answer>>
    PROVE  FoundInv'
<1>1. ~Walking'
  BY DEF Walking
<1>2. GeometryKept' /\ AskedKnown' /\ ChsKnown' /\ SectorKnown'
  BY <1>1 DEF GeometryKept, AskedKnown, ChsKnown, SectorKnown
<1>3. StackKnown' /\ GptKnown'
  BY DEF StackKnown, Tabled, GptKnown, Listed
<1>4. FoundIsWanted'
  BY AnswerStays
<1> QED
  BY <1>2, <1>3, <1>4 DEF FoundInv

\* The next drive is tried; a disk of EFI is walked at once.
LEMMA NextDriveFound == SearchInv /\ FoundInv /\ NextDrive => FoundInv'
<1> SUFFICES ASSUME SearchInv, FoundInv, NextDrive PROVE FoundInv'
  OBVIOUS
<1>1. stack = << >> /\ UNCHANGED <<machine, drive, stack, answer, disk_data>> /\ machine.bios \in BOOLEAN
  BY MachinesAssumption DEF NextDrive, FoundInv, StackKnown, Tabled, SearchInv, TypeOK
<1>2. CASE pc' \in {"probe", "done"}
  BY <1>1, <1>2, LeaveFound
<1>3. CASE ~machine.bios /\ io' = Request(disk_data, 0) /\ pc' = "mbr"
  <2>1. io' = [state |-> "efi", lba |-> 0]
    BY <1>3 DEF Request
  <2>2. SearchInv'
    BY NextDriveInv
  <2>3. 0 \in Disk'.tables /\ Addressed(machine, Disk, 0)'
    <3>1. (TablesOK(machine, Disk) /\ GptOK(machine, Disk) /\ machine.wanted /= Unknown)'
      <4>1. machine' \in Machines /\ Present'
        BY <1>3, <2>2 DEF SearchInv, TypeOK
      <4> QED
        BY <4>1, TablesAssumption DEF Present, Disk, Disks
    <3> QED
      BY <3>1 DEF TablesOK
  <2>4. AskedKnown' /\ ChsKnown' /\ SectorKnown'
    BY <1>3, <2>1, <2>3 DEF AskedKnown, ChsKnown, SectorKnown, Asked
  <2>5. GeometryKept' /\ StackKnown' /\ GptKnown'
    BY <1>1, <1>3 DEF GeometryKept, StackKnown, Tabled, GptKnown, Listed
  <2>6. FoundIsWanted'
    BY <1>1, AnswerStays
  <2> QED
    BY <2>4, <2>5, <2>6 DEF FoundInv
<1> QED
  BY <1>1, <1>2, <1>3 DEF NextDrive

\* The first sector of a drive was read, or not.
LEMMA ProbedFound == SearchInv /\ FoundInv /\ Probed => FoundInv'
<1> SUFFICES ASSUME SearchInv, FoundInv, Probed PROVE FoundInv'
  OBVIOUS
<1>1. stack = << >> /\ UNCHANGED <<machine, stack, answer>>
  BY DEF Probed, FoundInv, StackKnown, Tabled
<1>2. CASE pc' \in {"drive", "done"}
  BY <1>1, <1>2, LeaveFound
<1>3. CASE /\ disk_data' = FillData(Disk) /\ disk_data' /= NoDisk
           /\ pc' = "mbr" /\ io' = Request(disk_data', 0) /\ UNCHANGED drive
  <2>1. SearchInv'
    BY ProbedInv
  <2>2. Disk' = Disk /\ machine \in Machines /\ Present /\ DiskOK(Disk)
    <3>1. machine' \in Machines /\ Present'
      BY <1>3, <2>1 DEF SearchInv, TypeOK
    <3>2. Disk' = Disk /\ machine \in Machines /\ Present
      BY <1>1, <1>3, <3>1 DEF Disk, Disks, Present
    <3> QED
      BY <3>2, DiskTyped
  <2>3. GeometryKept'
    BY <1>3, <2>2 DEF GeometryKept
  <2>4. 0 \in Disk.tables /\ Addressed(machine, Disk, 0)
    BY <2>2, TablesFacts DEF TablesOK
  <2>5. /\ io'.state \in {"efi", "ext", "chs", "fail"}
        /\ io'.state \in {"efi", "ext", "chs"} => io'.lba = 0
        /\ io'.state = "chs" =>
                io'.chs.c < disk_data'.cylinders /\ io'.lba =< Cylinders * Heads * Spt
    <3>1. disk_data' \in Geometries /\ disk_data'.heads > 0 /\ disk_data'.sectors > 0
      BY <1>3, <2>2, FillDataTyped DEF DiskOK
    <3>2. ToChs(disk_data', 0).c \in Nat /\ disk_data'.cylinders \in Nat
      BY <3>1, ToChsTyped DEF Geometries
    <3>3. Cylinders * Heads * Spt \in Nat
      BY SizesAssumption, MulTypes
    <3> QED
      BY <1>3, <3>2, <3>3 DEF Request, ChsRead, Try, Failed
  <2>6. AskedKnown' /\ ChsKnown' /\ SectorKnown'
    BY <1>1, <1>3, <2>2, <2>4, <2>5 DEF AskedKnown, ChsKnown, SectorKnown, Asked, Pending
  <2>7. StackKnown' /\ GptKnown'
    BY <1>1, <1>3 DEF StackKnown, Tabled, GptKnown, Listed
  <2>8. FoundIsWanted'
    BY <1>1, AnswerStays
  <2> QED
    BY <2>3, <2>6, <2>7, <2>8 DEF FoundInv
<1> QED
  BY <1>2, <1>3 DEF Probed

-----------------------------------------------------------------------------
(* check_mbr, and what it finds.                                           *)

\* The calls that wait for the innermost one, each at an extended entry.
WaitingCalls(s) == \A n \in DOMAIN s : TableKnown(s[n]) /\ Visited(s[n].mbr, s[n].i)

\* An entry was visited, and the loop goes on.
LEMMA AdvanceKnown ==
    ASSUME NEW s \in Seq(Frames), s /= << >>, LowAll(s),
           \A n \in DOMAIN s : TableKnown(s[n]) /\ (n > 1 => Visited(s[n].mbr, s[n].i)),
           \A k \in 1..s[1].i : s[1].mbr.entries[k].type /= "gpt"
    PROVE  \A n \in DOMAIN Advance(s) :
                /\ TableKnown(Advance(s)[n])
                /\ n > 1 => Visited(Advance(s)[n].mbr, Advance(s)[n].i)
<1> DEFINE f == [s[1] EXCEPT !.i = @ + 1]
<1>1. 1 \in DOMAIN s /\ s[1] \in Frames /\ s[1].i \in 1..5
  <2>1. Len(s) \in Nat /\ Len(s) /= 0 /\ DOMAIN s = 1..Len(s)
    OBVIOUS
  <2>2. 1 \in DOMAIN s
    BY <2>1
  <2>3. s[1] \in Frames
    BY <2>2
  <2> QED
    BY <2>2, <2>3 DEF Frames
<1>2. f.lba = s[1].lba /\ f.mbr = s[1].mbr /\ f.i = s[1].i + 1
  BY <1>1 DEF Frames
<1>3. Advance(s) = [s EXCEPT ![1] = f]
  BY DEF Advance
<1>4. TableKnown(f)
  <2>1. TableKnown(s[1])
    BY <1>1
  <2>2. \A k \in 1..(f.i - 1) : f.mbr.entries[k].type /= "gpt"
    BY <1>1, <1>2
  <2> QED
    BY <1>2, <2>1, <2>2 DEF TableKnown
<1> HIDE DEF f
<1>5. Advance(s)[1] = f /\ DOMAIN Advance(s) = DOMAIN s
      /\ \A n \in DOMAIN s : n > 1 => Advance(s)[n] = s[n]
  BY <1>1, <1>3
<1>6. ASSUME NEW n \in DOMAIN Advance(s)
      PROVE  /\ TableKnown(Advance(s)[n])
             /\ n > 1 => Visited(Advance(s)[n].mbr, Advance(s)[n].i)
  <2>1. n = 1 \/ n > 1
    BY <1>5
  <2>2. CASE n = 1
    BY <1>4, <1>5, <2>2
  <2>3. CASE n > 1
    BY <1>5, <2>3
  <2> QED
    BY <2>1, <2>2, <2>3
<1> QED
  BY <1>6

\* A call of check_mbr returns.
LEMMA MbrReturnsFound ==
    ASSUME SearchInv, FoundInv, Walking, NEW callers \in Seq(Frames), LowAll(callers),
           WaitingCalls(callers), MbrReturns(callers),
           UNCHANGED <<machine, drive, disk_data, gpt, i, entry, answer>>
    PROVE  FoundInv'
<1>1. GeometryKept' /\ FoundIsWanted' /\ Disk' = Disk
  BY GeometryStays, AnswerStays DEF Disk, Disks
<1>2. CASE callers = << >>
  <2>1. stack' = << >> /\ pc' = "gpt" /\ io' = Request(disk_data, 1)
    BY <1>2 DEF MbrReturns
  <2>2. Addressed(machine, Disk, 1)
    BY TablesFacts DEF GptOK, SearchInv, TypeOK, Walking
  <2>3. Asked(1)'
    BY <2>1 DEF Asked
  <2>4. AskedKnown' /\ ChsKnown' /\ SectorKnown'
    BY <2>1, <2>2, <2>3, RequestKnown DEF Waiting
  <2>5. StackKnown' /\ GptKnown'
    BY <2>1 DEF StackKnown, Tabled, GptKnown, Listed
  <2> QED
    BY <1>1, <2>4, <2>5 DEF FoundInv
<1>3. CASE callers /= << >>
  <2>1. stack' = Advance(callers) /\ pc' = "entry" /\ io' = NoIo
    BY <1>3 DEF MbrReturns
  <2>2. AskedKnown' /\ ChsKnown' /\ SectorKnown'
    BY <2>1, NoRequest
  <2>3. \A n \in DOMAIN stack' :
            TableKnown(stack'[n]) /\ (n > 1 => Visited(stack'[n].mbr, stack'[n].i))
    <3>1. 1 \in DOMAIN callers
      <4>1. Len(callers) \in Nat /\ Len(callers) /= 0 /\ DOMAIN callers = 1..Len(callers)
        BY <1>3
      <4> QED
        BY <4>1
    <3>2. \A k \in 1..callers[1].i : callers[1].mbr.entries[k].type /= "gpt"
      BY <3>1 DEF WaitingCalls, Visited
    <3>3. \A n \in DOMAIN callers :
              TableKnown(callers[n]) /\ (n > 1 => Visited(callers[n].mbr, callers[n].i))
      BY DEF WaitingCalls
    <3> QED
      BY <1>3, <2>1, <3>2, <3>3, AdvanceKnown
  <2>4. StackKnown'
    BY <1>1, <2>1, <2>3 DEF StackKnown, Tabled, TableKnown
  <2>5. GptKnown'
    BY <2>1 DEF GptKnown, Listed
  <2> QED
    BY <1>1, <2>2, <2>4, <2>5 DEF FoundInv
<1> QED
  BY <1>2, <1>3

\* A table has been read, or not.
LEMMA GotMbrFound == SearchInv /\ FoundInv /\ GotMbr => FoundInv'
<1> SUFFICES ASSUME SearchInv, FoundInv, GotMbr PROVE FoundInv'
  OBVIOUS
<1>1. /\ pc = "mbr" /\ Walking /\ stack \in Seq(Frames) /\ LowAll(stack) /\ WaitingCalls(stack)
      /\ UNCHANGED <<machine, drive, disk_data, gpt, i, entry, answer>>
  BY Parts DEF GotMbr, CallsInv, Walking, FoundInv, StackKnown, Tabled, WaitingCalls
<1>2. GeometryKept' /\ FoundIsWanted' /\ Disk' = Disk
  BY <1>1, GeometryStays, AnswerStays DEF Disk, Disks
<1>3. CASE io.state = "ok" /\ io.data.aa55
  <2> DEFINE f == [lba |-> io.lba, i |-> 1, mbr |-> io.data]
  <2>1. stack' = <<f>> \o stack /\ pc' = "entry" /\ io' = NoIo
    BY <1>3 DEF GotMbr
  <2>2. io.lba < Size(Disk) /\ io.data = Sector(Disk, io.lba) /\ io.lba \in Disk.tables
    BY <1>1, <1>3 DEF FoundInv, SectorKnown, AskedKnown, Asked, Signed
  <2>3. f \in Frames
    BY <1>3, IoFacts DEF Frames, SearchInv, TypeOK
  <2>4. TableKnown(f)
    BY <1>3, <2>2 DEF TableKnown, Signed
  <2> HIDE DEF f
  <2>5. \A n \in DOMAIN stack' : TableKnown(stack'[n])
                                    /\ (n > 1 => Visited(stack'[n].mbr, stack'[n].i))
    <3>1. ASSUME NEW n \in DOMAIN stack'
          PROVE  \/ n = 1 /\ stack'[n] = f
                 \/ n > 1 /\ n - 1 \in DOMAIN stack /\ stack'[n] = stack[n - 1]
      <4>1. Len(stack) \in Nat /\ DOMAIN stack = 1..Len(stack)
        BY <1>1
      <4>2. n \in 1..(Len(stack) + 1)
        BY <1>1, <2>1, <2>3
      <4>3. CASE n = 1
        <5>1. (<<f>> \o stack)[1] = f
          BY <1>1, <2>3, <4>1
        <5>2. stack'[1] = f
          BY <2>1, <5>1, Zenon
        <5> QED
          BY <4>3, <5>2
      <4>4. CASE n > 1
        <5>1. n - 1 \in DOMAIN stack
          BY <4>1, <4>2, <4>4
        <5>2. (<<f>> \o stack)[n] = stack[n - 1]
          BY <1>1, <2>3, <4>1, <4>2, <4>4
        <5> QED
          BY <2>1, <4>4, <5>1, <5>2
      <4> QED
        BY <4>2, <4>3, <4>4
    <3> QED
      BY <1>1, <2>4, <3>1 DEF WaitingCalls
  <2>6. StackKnown'
    BY <1>2, <2>1, <2>5 DEF StackKnown, Tabled, TableKnown
  <2>7. AskedKnown' /\ ChsKnown' /\ SectorKnown'
    BY <2>1, NoRequest
  <2>8. GptKnown'
    BY <2>1 DEF GptKnown, Listed
  <2> QED
    BY <1>2, <2>6, <2>7, <2>8 DEF FoundInv
<1>4. CASE MbrReturns(stack)
  BY <1>1, <1>4, MbrReturnsFound
<1> QED
  BY <1>3, <1>4 DEF GotMbr

\* One iteration over the entries of a table.
LEMMA CheckEntryFound == SearchInv /\ FoundInv /\ CheckEntry => FoundInv'
<1> SUFFICES ASSUME SearchInv, FoundInv, CheckEntry PROVE FoundInv'
  OBVIOUS
<1> DEFINE top == Head(stack)
           e == top.mbr.entries[top.i]
           lba == (top.lba + e.start) % U32Mod
<1>1. /\ pc = "entry" /\ Walking /\ stack \in Seq(Frames) /\ stack /= << >> /\ LowCallers(stack)
      /\ \A n \in DOMAIN stack :
            TableKnown(stack[n]) /\ (n > 1 => Visited(stack[n].mbr, stack[n].i))
      /\ UNCHANGED <<machine, drive, disk_data, gpt, i, entry, answer>>
  BY Parts DEF CheckEntry, CallsInv, Walking, FoundInv, StackKnown, Tabled
<1>2. top \in Frames /\ stack[1] = top /\ 1 \in DOMAIN stack /\ TableKnown(top)
  <2>1. Len(stack) \in Nat /\ Len(stack) /= 0 /\ DOMAIN stack = 1..Len(stack)
    BY <1>1
  <2>2. top \in Frames /\ stack[1] = top /\ 1 \in DOMAIN stack
    BY <1>1, <2>1
  <2> QED
    BY <1>1, <2>2
<1>3. GeometryKept' /\ FoundIsWanted' /\ Disk' = Disk
  BY <1>1, GeometryStays, AnswerStays DEF Disk, Disks
<1>4. CASE MbrReturns(Tail(stack))
  <2>1. Tail(stack) \in Seq(Frames) /\ LowAll(Tail(stack))
    BY <1>1, TailTyped
  <2>2. WaitingCalls(Tail(stack))
    <3>1. ASSUME NEW n \in DOMAIN Tail(stack)
          PROVE  n + 1 \in DOMAIN stack /\ n + 1 > 1 /\ Tail(stack)[n] = stack[n + 1]
      BY <1>1
    <3> QED
      BY <1>1, <3>1 DEF WaitingCalls
  <2> QED
    BY <1>1, <1>4, <2>1, <2>2, MbrReturnsFound
<1>5. ASSUME ~(top.i > 4 \/ TooMany \/ e.type = "gpt")
      PROVE  LowAll(stack) /\ top.i \in 1..4 /\ \A k \in 1..top.i : top.mbr.entries[k].type /= "gpt"
  <2>1. top.i \in 1..4
    BY <1>2, <1>5 DEF Frames
  <2>2. LowAll(stack)
    BY <1>1, <1>2, <2>1 DEF LowAll, LowCallers
  <2>3. \A k \in 1..top.i : k = top.i \/ k \in 1..(top.i - 1)
    BY <2>1
  <2>4. \A k \in 1..top.i : top.mbr.entries[k].type /= "gpt"
    BY <1>2, <1>5, <2>3 DEF TableKnown
  <2> QED
    BY <2>1, <2>2, <2>4
<1>6. CASE /\ ~(top.i > 4 \/ TooMany \/ e.type = "gpt")
           /\ stack' = Advance(stack) /\ UNCHANGED <<pc, io>>
  <2>1. \A n \in DOMAIN stack' :
            TableKnown(stack'[n]) /\ (n > 1 => Visited(stack'[n].mbr, stack'[n].i))
    BY <1>1, <1>2, <1>5, <1>6, AdvanceKnown
  <2>2. StackKnown'
    BY <1>1, <1>3, <1>6, <2>1 DEF StackKnown, Tabled, TableKnown
  <2>3. AskedKnown' /\ ChsKnown' /\ SectorKnown'
    <3>1. ~Pending /\ io.state /= "ok"
      BY <1>1 DEF SearchInv, RequestsKnown
    <3> QED
      BY <1>6, <3>1 DEF AskedKnown, ChsKnown, SectorKnown, Pending
  <2>4. GptKnown'
    BY <1>1, <1>6 DEF GptKnown, Listed
  <2> QED
    BY <1>3, <2>2, <2>3, <2>4 DEF FoundInv
<1>7. CASE /\ ~(top.i > 4 \/ TooMany \/ e.type = "gpt")
           /\ ~(e.length = 0 \/ e.type = "none")
           /\ io' = Request(disk_data, lba)
           /\ pc' = IF e.type = "extended" THEN "mbr" ELSE "vbr"
           /\ UNCHANGED stack
  <2>1. LowAll(stack) /\ top.i \in 1..4 /\ Visited(top.mbr, top.i)
    BY <1>5, <1>7 DEF Visited
  <2>2. lba = Target(top.lba, top.mbr, top.i)
    BY DEF Target
  <2>3. /\ Addressed(machine, Disk, lba)
        /\ e.type = "extended" => lba \in Disk.tables \/ ~Signed(Disk, lba)
    <3>1. TablesOK(machine, Disk)
      BY <1>1, TablesFacts DEF SearchInv, TypeOK, Walking
    <3>2. top.lba \in Disk.tables /\ Signed(Disk, top.lba) /\ top.mbr = Sector(Disk, top.lba)
      BY <1>2 DEF TableKnown
    <3> HIDE DEF top, e, lba
    <3>3. e = top.mbr.entries[top.i]
      BY DEF e
    <3> QED
      BY <2>1, <2>2, <3>1, <3>2, <3>3 DEF TablesOK
  <2>4. lba \in Nat
    <3>1. e \in MbrEntries
      BY <1>2, <2>1, ContentsFacts DEF Frames
    <3>2. top.lba + e.start \in Nat
      BY <1>2, <3>1 DEF Frames, MbrEntries
    <3> QED
      BY <3>2, SizesAssumption, DivMod
  <2>5. PICK to \in Nat : to = lba
    BY <2>4
  <2>6. Asked(to)'
    <3>1. CASE e.type = "extended"
      BY <1>3, <1>7, <2>3, <2>5, <3>1 DEF Asked
    <3>2. CASE e.type /= "extended"
      <4>1. pc' = "vbr" /\ stack' = stack /\ stack[1] = top
        BY <1>2, <1>7, <3>2
      <4>2. to = Target(stack[1].lba, stack[1].mbr, stack[1].i)
        BY <2>2, <2>5, <4>1
      <4>3. to = Target(stack'[1].lba, stack'[1].mbr, stack'[1].i)
        BY <4>1, <4>2
      <4> QED
        BY <4>1, <4>3 DEF Asked
    <3> QED
      BY <3>1, <3>2
  <2>7. /\ pc' \in Waiting /\ pc' /= "gpt_second" /\ pc' \in {"mbr", "vbr"}
        /\ pc' = "vbr" => e.type /= "extended"
    BY <1>7 DEF Waiting
  <2>8. AskedKnown' /\ ChsKnown' /\ SectorKnown'
    <3>1. io' = Request(disk_data, to)
      BY <1>7, <2>5
    <3>2. Addressed(machine, Disk, to)
      BY <2>3, <2>5
    <3> QED
      BY <1>1, <2>5, <2>6, <2>7, <3>1, <3>2, RequestKnown
  <2>9. StackKnown'
    <3>1. \A n \in DOMAIN stack : n = 1 \/ n > 1
      BY <1>1
    <3>2. \A n \in DOMAIN stack : TableKnown(stack[n]) /\ Visited(stack[n].mbr, stack[n].i)
      BY <1>1, <1>2, <2>1, <3>1
    <3>3. stack[1].mbr.entries[stack[1].i] = e
      BY <1>2
    <3> HIDE DEF e
    <3>4. stack' = stack
      BY <1>7
    <3> QED
      BY <1>3, <2>7, <3>2, <3>3, <3>4 DEF StackKnown, Tabled, TableKnown
  <2>10. GptKnown'
    BY <2>7 DEF GptKnown, Listed
  <2> QED
    BY <1>3, <2>8, <2>9, <2>10 DEF FoundInv
<1> QED
  <2> HIDE DEF lba, e
  <2> QED
    BY <1>4, <1>6, <1>7 DEF CheckEntry, lba, e

\* The boot sector of a partition has been read, or not.
LEMMA GotVbrFound == SearchInv /\ FoundInv /\ GotVbr => FoundInv'
<1> SUFFICES ASSUME SearchInv, FoundInv, GotVbr PROVE FoundInv'
  OBVIOUS
<1> DEFINE top == Head(stack)
<1>1. /\ pc = "vbr" /\ Walking /\ stack \in Seq(Frames) /\ stack /= << >> /\ LowAll(stack)
      /\ WaitingCalls(stack) /\ stack[1].mbr.entries[stack[1].i].type /= "extended"
      /\ UNCHANGED <<machine, drive, disk_data, gpt, i, entry>> /\ io' = NoIo
  BY Parts DEF GotVbr, CallsInv, Walking, FoundInv, StackKnown, Tabled, WaitingCalls
<1>2. /\ top \in Frames /\ stack[1] = top /\ 1 \in DOMAIN stack
      /\ TableKnown(top) /\ Visited(top.mbr, top.i) /\ top.i \in 1..4
  <2>1. Len(stack) \in Nat /\ Len(stack) /= 0 /\ DOMAIN stack = 1..Len(stack)
    BY <1>1
  <2>2. top \in Frames /\ stack[1] = top /\ 1 \in DOMAIN stack
    BY <1>1, <2>1
  <2>3. top.i \in 1..5 /\ top.i =< 4
    BY <1>1, <2>2 DEF Frames, LowAll
  <2> QED
    BY <1>1, <2>2, <2>3 DEF WaitingCalls
<1>3. GeometryKept' /\ Disk' = Disk
  BY <1>1, GeometryStays DEF Disk, Disks
<1>4. CASE /\ Matches /\ stack' = << >> /\ pc' = "done"
           /\ answer' = [partid |-> PartId(top), partmap |-> "msdos", diskid |-> top.mbr.id]
  <2>1. /\ io.lba = Target(top.lba, top.mbr, top.i)
        /\ io.lba < Size(Disk) /\ io.data = Sector(Disk, io.lba)
    BY <1>1, <1>2, <1>4 DEF Matches, FoundInv, AskedKnown, SectorKnown, Asked
  <2>2. Lists(Disk, io.lba, PartId(top), "msdos", top.mbr.id)
    <3>1. TablesOK(machine, Disk)
      BY <1>1, TablesFacts DEF SearchInv, TypeOK, Walking
    <3>2. top.lba \in Disk.tables /\ Signed(Disk, top.lba) /\ top.mbr = Sector(Disk, top.lba)
      BY <1>2 DEF TableKnown
    <3>3. top.mbr.entries[top.i].type /= "extended"
      BY <1>1, <1>2
    <3>4. PartId(top) = top.lba + top.mbr.entries[top.i].start
      BY DEF PartId
    <3> HIDE DEF top
    <3> QED
      BY <1>2, <2>1, <3>1, <3>2, <3>3, <3>4 DEF TablesOK
  <2>3. FoundIsWanted'
    <3> HIDE DEF top
    <3>1. Uuid(Sector(Disk, io.lba)) = machine.wanted
      BY <1>4, <2>1 DEF Matches
    <3> QED
      BY <1>1, <1>4, <2>1, <2>2, <3>1, MatchIsWanted
  <2>4. AskedKnown' /\ ChsKnown' /\ SectorKnown'
    BY <1>1, NoRequest
  <2>5. StackKnown' /\ GptKnown'
    BY <1>4 DEF StackKnown, Tabled, GptKnown, Listed
  <2> QED
    BY <1>3, <2>3, <2>4, <2>5 DEF FoundInv
<1>5. CASE stack' = Advance(stack) /\ pc' = "entry" /\ UNCHANGED answer
  <2>1. \A n \in DOMAIN stack' :
            TableKnown(stack'[n]) /\ (n > 1 => Visited(stack'[n].mbr, stack'[n].i))
    <3>1. \A k \in 1..stack[1].i : stack[1].mbr.entries[k].type /= "gpt"
      BY <1>2 DEF Visited
    <3>2. \A n \in DOMAIN stack :
              TableKnown(stack[n]) /\ (n > 1 => Visited(stack[n].mbr, stack[n].i))
      BY <1>1 DEF WaitingCalls
    <3> QED
      BY <1>1, <1>5, <3>1, <3>2, AdvanceKnown
  <2>2. StackKnown'
    BY <1>3, <1>5, <2>1 DEF StackKnown, Tabled, TableKnown
  <2>3. AskedKnown' /\ ChsKnown' /\ SectorKnown'
    BY <1>1, NoRequest
  <2>4. GptKnown' /\ FoundIsWanted'
    BY <1>1, <1>5, AnswerStays DEF GptKnown, Listed
  <2> QED
    BY <1>3, <2>2, <2>3, <2>4 DEF FoundInv
<1> QED
  BY <1>4, <1>5 DEF GotVbr

-----------------------------------------------------------------------------
(* check_gpt_partmap, and what it finds.                                   *)

\* The header and the entry that check_gpt_partmap has.
LEMMA GptFacts ==
    ASSUME SearchInv, FoundInv, pc \in Listed
    PROVE  /\ Walking /\ stack = << >> /\ HasGpt(Disk) /\ gpt = Header(Disk)
           /\ EntryLba = LbaIn(gpt, i) /\ EntryOfs = OfsIn(gpt, i)
           /\ i \in Nat /\ gpt.maxpart \in Nat /\ EntryLba \in Nat
           /\ GptOK(machine, Disk)
<1>1. Walking /\ stack = << >> /\ HasGpt(Disk) /\ gpt = Header(Disk)
  BY DEF Listed, Walking, FoundInv, StackKnown, Tabled, GptKnown
<1>2. EntryLba = LbaIn(gpt, i) /\ EntryOfs = OfsIn(gpt, i)
  BY DEF EntryLba, EntryOfs, LbaIn, OfsIn
<1>3. i \in Nat /\ gpt.maxpart \in Nat /\ EntryLba \in Nat
  BY EntryPlace, Parts DEF PlaceInv, GptHeaders
<1>4. GptOK(machine, Disk)
  BY <1>1, TablesFacts DEF SearchInv, TypeOK, Walking
<1> QED
  BY <1>1, <1>2, <1>3, <1>4

\* A step of the GPT's loop that stays on the disk.
LEMMA GptStays ==
    ASSUME FoundInv, Walking, stack = << >>, UNCHANGED <<machine, drive, disk_data, stack, answer>>,
           pc' \in Listed, AskedKnown', ChsKnown', SectorKnown', GptKnown'
    PROVE  FoundInv'
<1>1. GeometryKept' /\ FoundIsWanted'
  BY GeometryStays, AnswerStays
<1>2. StackKnown'
  BY DEF StackKnown, Tabled, Listed
<1> QED
  BY <1>1, <1>2 DEF FoundInv

\* The header has been read, or not.
LEMMA GotGptFound == SearchInv /\ FoundInv /\ GotGpt => FoundInv'
<1> SUFFICES ASSUME SearchInv, FoundInv, GotGpt PROVE FoundInv'
  OBVIOUS
<1>1. pc = "gpt" /\ Walking /\ stack = << >> /\ UNCHANGED <<machine, disk_data, stack, answer>>
  BY DEF GotGpt, Walking, FoundInv, StackKnown, Tabled
<1>2. CASE NextDisk
  BY <1>1, <1>2, LeaveFound DEF NextDisk
<1>3. CASE /\ io.state = "ok" /\ io.data.gpt.magic /\ gpt' = io.data.gpt
           /\ pc' = "gpt_entry" /\ io' = NoIo /\ UNCHANGED drive
  <2>1. 1 < Size(Disk) /\ io.data = Sector(Disk, 1)
    BY <1>1, <1>3 DEF FoundInv, AskedKnown, SectorKnown, Asked
  <2>2. Disk' = Disk
    BY <1>1, <1>3 DEF Disk, Disks
  <2>3. GptKnown'
    BY <1>3, <2>1, <2>2 DEF GptKnown, HasGpt, Header
  <2> QED
    BY <1>1, <1>3, <2>3, NoRequest, GptStays DEF Listed
<1> QED
  BY <1>2, <1>3 DEF GotGpt

\* The next entry is read.
LEMMA CheckGptEntryFound == SearchInv /\ FoundInv /\ CheckGptEntry => FoundInv'
<1> SUFFICES ASSUME SearchInv, FoundInv, CheckGptEntry PROVE FoundInv'
  OBVIOUS
<1>1. pc = "gpt_entry" /\ UNCHANGED <<machine, disk_data, stack, answer>>
  BY DEF CheckGptEntry
<1>2. /\ Walking /\ stack = << >> /\ HasGpt(Disk) /\ gpt = Header(Disk) /\ EntryLba = LbaIn(gpt, i)
      /\ i \in Nat /\ gpt.maxpart \in Nat /\ EntryLba \in Nat /\ GptOK(machine, Disk)
  BY <1>1, GptFacts DEF Listed
<1>3. CASE NextDisk
  BY <1>1, <1>2, <1>3, LeaveFound DEF NextDisk
<1>4. CASE /\ ~(i >= gpt.maxpart) /\ io' = Request(disk_data, EntryLba) /\ pc' = "gpt_first"
           /\ UNCHANGED <<drive, gpt, i, entry>>
  <2>1. PICK at \in Nat : at = EntryLba
    BY <1>2
  <2>2. i \in 0..(gpt.maxpart - 1) /\ i < gpt.maxpart
    BY <1>2, <1>4
  <2>3. Addressed(machine, Disk, at)
    BY <1>2, <2>1, <2>2 DEF GptOK
  <2>4. Asked(at)'
    <3>1. LbaIn(gpt, i)' = LbaIn(gpt, i)
      BY <1>4
    <3> QED
      BY <1>2, <1>4, <2>1, <3>1 DEF Asked
  <2>5. AskedKnown' /\ ChsKnown' /\ SectorKnown'
    BY <1>1, <1>2, <1>4, <2>1, <2>3, <2>4, RequestKnown DEF Waiting
  <2>6. Disk' = Disk
    BY <1>1, <1>4 DEF Disk, Disks
  <2>7. GptKnown'
    BY <1>2, <1>4, <2>2, <2>6 DEF GptKnown, Listed
  <2> QED
    BY <1>1, <1>2, <1>4, <2>5, <2>7, GptStays DEF Listed
<1> QED
  BY <1>3, <1>4 DEF CheckGptEntry

\* The first of the two sectors of an entry has been read, or not.
LEMMA GotFirstFound == SearchInv /\ FoundInv /\ GotFirst => FoundInv'
<1> SUFFICES ASSUME SearchInv, FoundInv, GotFirst PROVE FoundInv'
  OBVIOUS
<1>1. pc = "gpt_first" /\ UNCHANGED <<machine, disk_data, stack, answer>>
  BY DEF GotFirst
<1>2. /\ Walking /\ stack = << >> /\ HasGpt(Disk) /\ gpt = Header(Disk)
      /\ EntryLba = LbaIn(gpt, i) /\ EntryOfs = OfsIn(gpt, i) /\ EntryLba \in Nat
  BY <1>1, GptFacts DEF Listed
<1>3. CASE NextDisk
  BY <1>1, <1>2, <1>3, LeaveFound DEF NextDisk
<1>4. CASE /\ io.state = "ok" /\ entry' = io.data.unit[EntryOfs % Units]
           /\ io' = Request(disk_data, EntryLba + 1) /\ pc' = "gpt_second"
           /\ UNCHANGED <<drive, gpt, i>>
  <2>1. PICK next \in Nat : next = EntryLba + 1
    BY <1>2
  <2>2. AskedKnown' /\ ChsKnown' /\ SectorKnown'
    BY <1>1, <1>2, <1>4, <2>1, RequestKnown DEF Waiting
  <2>3. EntryLba < Size(Disk) /\ io.data = Sector(Disk, EntryLba)
    BY <1>1, <1>2, <1>4 DEF FoundInv, AskedKnown, SectorKnown, Asked
  <2>4. entry' = EntryIn(Disk, i)
    BY <1>2, <1>4, <2>3 DEF EntryIn
  <2>5. Disk' = Disk /\ LbaIn(gpt, i)' = LbaIn(gpt, i)
    BY <1>1, <1>4 DEF Disk, Disks
  <2>6. i < gpt.maxpart
    BY <1>1 DEF FoundInv, GptKnown, Listed
  <2>7. GptKnown'
    BY <1>2, <1>4, <2>3, <2>4, <2>5, <2>6 DEF GptKnown, Listed
  <2> QED
    BY <1>1, <1>2, <1>4, <2>2, <2>7, GptStays DEF Listed
<1> QED
  BY <1>3, <1>4 DEF GotFirst

\* The second of the two sectors of an entry has been read, or not.
LEMMA GotSecondFound == SearchInv /\ FoundInv /\ GotSecond => FoundInv'
<1> SUFFICES ASSUME SearchInv, FoundInv, GotSecond PROVE FoundInv'
  OBVIOUS
<1>1. pc = "gpt_second" /\ UNCHANGED <<machine, disk_data, stack, answer>>
  BY DEF GotSecond
<1>2. /\ Walking /\ stack = << >> /\ HasGpt(Disk) /\ gpt = Header(Disk)
      /\ i \in Nat /\ gpt.maxpart \in Nat /\ GptOK(machine, Disk)
  BY <1>1, GptFacts DEF Listed
<1>3. LbaIn(gpt, i) < Size(Disk) /\ entry = EntryIn(Disk, i) /\ i < gpt.maxpart
  BY <1>1 DEF FoundInv, GptKnown, Listed
<1>4. CASE NextDisk
  BY <1>1, <1>2, <1>4, LeaveFound DEF NextDisk
<1>5. CASE UNCHANGED <<drive, gpt, entry>> /\ i' = i + 1 /\ pc' = "gpt_entry" /\ io' = NoIo
  <2>1. Disk' = Disk
    BY <1>1, <1>5 DEF Disk, Disks
  <2>2. GptKnown'
    BY <1>2, <1>5, <2>1 DEF GptKnown, Listed
  <2> QED
    BY <1>1, <1>2, <1>5, <2>2, NoRequest, GptStays DEF Listed
<1>6. CASE /\ entry.type /= "none" /\ UNCHANGED <<drive, gpt, i, entry>>
           /\ pc' = "gpt_vbr" /\ io' = Request(disk_data, entry.start)
  <2>1. PICK at \in Nat : at = entry.start
    BY Parts DEF PlaceInv, GptEntries
  <2>2. i \in 0..(gpt.maxpart - 1)
    BY <1>2, <1>3
  <2>3. Addressed(machine, Disk, at)
    BY <1>2, <1>3, <1>6, <2>1, <2>2 DEF GptOK
  <2>4. Asked(at)'
    BY <1>6, <2>1 DEF Asked
  <2>5. AskedKnown' /\ ChsKnown' /\ SectorKnown'
    BY <1>1, <1>2, <1>6, <2>1, <2>3, <2>4, RequestKnown DEF Waiting
  <2>6. Disk' = Disk /\ LbaIn(gpt, i)' = LbaIn(gpt, i) /\ EntryIn(Disk, i)' = EntryIn(Disk, i)
    BY <1>1, <1>6 DEF Disk, Disks
  <2>7. GptKnown'
    BY <1>2, <1>3, <1>6, <2>6 DEF GptKnown, Listed
  <2> QED
    BY <1>1, <1>2, <1>6, <2>5, <2>7, GptStays DEF Listed
<1> QED
  BY <1>4, <1>5, <1>6 DEF GotSecond

\* The boot sector of a GPT partition has been read, or not.
LEMMA GotGptVbrFound == SearchInv /\ FoundInv /\ GotGptVbr => FoundInv'
<1> SUFFICES ASSUME SearchInv, FoundInv, GotGptVbr PROVE FoundInv'
  OBVIOUS
<1>1. /\ pc = "gpt_vbr" /\ io' = NoIo
      /\ UNCHANGED <<machine, drive, disk_data, stack, gpt, entry>>
  BY DEF GotGptVbr
<1>2. /\ Walking /\ stack = << >> /\ HasGpt(Disk) /\ gpt = Header(Disk)
      /\ i \in Nat /\ gpt.maxpart \in Nat /\ GptOK(machine, Disk)
  BY <1>1, GptFacts DEF Listed
<1>3. /\ LbaIn(gpt, i) < Size(Disk) /\ entry = EntryIn(Disk, i) /\ i < gpt.maxpart
      /\ entry.type /= "none"
  BY <1>1 DEF FoundInv, GptKnown, Listed
<1>4. GeometryKept' /\ Disk' = Disk
  BY <1>1, <1>2, GeometryStays DEF Disk, Disks
<1>5. CASE /\ Matches /\ pc' = "done"
           /\ answer' = [partid |-> entry.guid, partmap |-> "gpt", diskid |-> gpt.guid]
  <2>1. io.lba = entry.start /\ io.lba < Size(Disk) /\ io.data = Sector(Disk, io.lba)
    BY <1>1, <1>2, <1>5 DEF Matches, FoundInv, AskedKnown, SectorKnown, Asked
  <2>2. Lists(Disk, io.lba, entry.guid, "gpt", gpt.guid)
    <3>1. i \in 0..(gpt.maxpart - 1)
      BY <1>2, <1>3
    <3> QED
      BY <1>2, <1>3, <2>1, <3>1 DEF GptOK
  <2>3. FoundIsWanted'
    <3>1. Uuid(Sector(Disk, io.lba)) = machine.wanted
      BY <1>5, <2>1 DEF Matches
    <3> QED
      BY <1>1, <1>2, <1>5, <2>1, <2>2, <3>1, MatchIsWanted
  <2>4. AskedKnown' /\ ChsKnown' /\ SectorKnown'
    BY <1>1, NoRequest
  <2>5. StackKnown' /\ GptKnown'
    BY <1>1, <1>2, <1>5 DEF StackKnown, Tabled, GptKnown, Listed
  <2> QED
    BY <1>4, <2>3, <2>4, <2>5 DEF FoundInv
<1>6. CASE i' = i + 1 /\ pc' = "gpt_entry" /\ UNCHANGED answer
  <2>1. GptKnown'
    BY <1>1, <1>2, <1>4, <1>6 DEF GptKnown, Listed
  <2> QED
    BY <1>1, <1>2, <1>6, <2>1, NoRequest, GptStays DEF Listed
<1> QED
  BY <1>5, <1>6 DEF GotGptVbr

\* A step that changes nothing.
LEMMA StutterFound == FoundInv /\ UNCHANGED vars => FoundInv'
<1> SUFFICES ASSUME FoundInv, UNCHANGED vars PROVE FoundInv'
  OBVIOUS
<1>1. /\ UNCHANGED <<machine, pc, drive, walkVars, answer>> /\ UNCHANGED <<disk_data, io>>
  BY DEF vars, walkVars
<1>2. StackKnown' /\ GptKnown' /\ FoundIsWanted' /\ Disk' = Disk /\ Walking' = Walking
      /\ \A lba : Asked(lba)' = Asked(lba)
  BY <1>1, WalkStays
<1>3. GeometryKept' /\ ChsKnown' /\ SectorKnown'
  BY <1>1, <1>2 DEF FoundInv, GeometryKept, ChsKnown, SectorKnown
<1>4. AskedKnown'
  BY <1>1, <1>2 DEF FoundInv, AskedKnown, Pending
<1> QED
  BY <1>2, <1>3, <1>4 DEF FoundInv
-----------------------------------------------------------------------------
(* The theorems.                                                           *)

\* A step that changes nothing.
LEMMA StutterInv == SearchInv /\ UNCHANGED vars => SearchInv'
<1> SUFFICES ASSUME SearchInv, UNCHANGED vars PROVE SearchInv'
  OBVIOUS
<1>1. PlaceInv /\ IoInv /\ CallsInv
  BY Parts
<1>2. PlaceInv'
  BY <1>1 DEF vars, PlaceInv, Walking, Present, Disks
<1>3. IoInv'
  BY <1>1 DEF vars, IoInv, IoOK, GeometryKnown, RequestsKnown, ReadsRightSector, Pending, Walking,
     Disk, Disks, Present, ToChs, Sector
<1>4. CallsInv'
  BY <1>1 DEF vars, CallsInv
<1> QED
  BY <1>2, <1>3, <1>4, PartsNext

\* The inductive invariant holds throughout the search, on every machine and
\* whatever reads fail.
THEOREM SearchIsSound == Spec => []SearchInv
<1>1. SearchInv /\ [Next]_vars => SearchInv'
  BY NextDriveInv, ProbedInv, ExtReadInv, ChsTryInv, EfiReadInv, GotMbrInv, CheckEntryInv, GotVbrInv,
     GotGptInv, CheckGptEntryInv, GotFirstInv, GotSecondInv, GotGptVbrInv, StutterInv
     DEF Next, Search, Finished
<1> QED
  BY <1>1, InitInv, PTL DEF Spec

\* A read by biosdisk_read or efidisk_read that succeeds returns the sector that
\* check_mbr, check_gpt_partmap or check_fsuuid asked for: in LBA mode, after the
\* change to CHS mode, and at whichever of the three tries.
THEOREM SectorsAreRight == Spec => []ReadsRightSector
<1>1. SearchInv => ReadsRightSector
  BY DEF SearchInv
<1> QED
  BY <1>1, SearchIsSound, PTL

\* The variables of the search have their types; in particular the loops over the
\* entries of nested tables stay within a table and on a disk that is there.
THEOREM SearchTyped == Spec => []TypeOK
<1>1. SearchInv => TypeOK
  BY DEF SearchInv
<1> QED
  BY <1>1, SearchIsSound, PTL

\* The inductive invariant of what is found holds throughout the search.
THEOREM FoundAlways == Spec => []FoundInv
<1>1. SearchInv /\ FoundInv /\ [Next]_vars => FoundInv'
  BY NextDriveFound, ProbedFound, ExtReadFound, ChsTryFound, EfiReadFound, GotMbrFound,
     CheckEntryFound, GotVbrFound, GotGptFound, CheckGptEntryFound, GotFirstFound, GotSecondFound,
     GotGptVbrFound, StutterFound DEF Next, Search, Finished
<1> QED
  BY <1>1, InitFound, SearchIsSound, PTL DEF Spec

\* Whatever reads fail, and in whichever of the three modes the sectors are read,
\* what is left in nt_cmdline for the BCD is the identity of a partition whose file
\* system has the UUID of the command line.
THEOREM FoundPartitionIsWanted == Spec => []FoundIsWanted
<1>1. FoundInv => FoundIsWanted
  BY DEF FoundInv
<1> QED
  BY <1>1, FoundAlways, PTL

\* The calls of a stack, each made for an entry of the next one's table.
Linked(s) ==
    s /= << >> => /\ s[Len(s)].lba = 0
                  /\ \A n \in 2..Len(s) : Leads(s[n], s[n - 1].lba)

\* A call is put on the stack, is taken off, or goes on.
LEMMA PushFacts ==
    ASSUME NEW s \in Seq(Frames), NEW f \in Frames
    PROVE  /\ Len(<<f>> \o s) = Len(s) + 1 /\ (<<f>> \o s)[1] = f /\ <<f>> \o s /= << >>
           /\ \A n \in 2..(Len(s) + 1) : (<<f>> \o s)[n] = s[n - 1]
  OBVIOUS

\* What a call leaves on the stack when it returns.
LEMMA TailFacts ==
    ASSUME NEW s \in Seq(Frames), s /= << >>
    PROVE  /\ Len(s) \in Nat \ {0} /\ Len(Tail(s)) = Len(s) - 1 /\ Tail(s) \in Seq(Frames)
           /\ \A n \in 1..(Len(s) - 1) : Tail(s)[n] = s[n + 1]
           /\ Head(s) = s[1]
  OBVIOUS

\* The innermost call is a frame, and so are the others.
LEMMA FrameTyped ==
    ASSUME NEW s \in Seq(Frames), s /= << >>
    PROVE  /\ Len(s) \in Nat \ {0} /\ 1 \in DOMAIN s /\ DOMAIN s = 1..Len(s)
           /\ s[1] \in Frames /\ \A n \in 1..Len(s) : s[n] \in Frames
<1>1. Len(s) \in Nat /\ Len(s) /= 0 /\ DOMAIN s = 1..Len(s)
  OBVIOUS
<1>2. 1 \in DOMAIN s
  BY <1>1
<1>3. \A n \in 1..Len(s) : s[n] \in Frames
  BY <1>1
<1> QED
  BY <1>1, <1>2, <1>3

\* A loop that goes on changes the number of its entry and nothing else.
LEMMA AdvanceFacts ==
    ASSUME NEW s \in Seq(Frames), s /= << >>
    PROVE  /\ Len(Advance(s)) = Len(s) /\ Advance(s) /= << >> /\ DOMAIN Advance(s) = DOMAIN s
           /\ Advance(s)[1].lba = s[1].lba /\ Advance(s)[1].mbr = s[1].mbr
           /\ Advance(s)[1].i = s[1].i + 1
           /\ \A n \in 2..Len(s) : Advance(s)[n] = s[n]
<1>1. 1 \in DOMAIN s /\ s[1] \in Frames /\ Len(s) \in Nat \ {0} /\ DOMAIN s = 1..Len(s)
  BY FrameTyped
<1> DEFINE f == [s[1] EXCEPT !.i = @ + 1]
<1>2. f.lba = s[1].lba /\ f.mbr = s[1].mbr /\ f.i = s[1].i + 1
  BY <1>1 DEF Frames
<1>3. Advance(s) = [s EXCEPT ![1] = f]
  BY DEF Advance
<1> HIDE DEF f
<1>4. DOMAIN Advance(s) = 1..Len(s) /\ Advance(s)[1] = f
      /\ \A n \in 2..Len(s) : Advance(s)[n] = s[n]
  BY <1>1, <1>3
<1>5. Len(Advance(s)) = Len(s) /\ Advance(s) /= << >>
  BY <1>1, <1>3
<1> QED
  BY <1>1, <1>2, <1>4, <1>5

\* A call of check_mbr for a table that the innermost call leads to extends the chain.
LEMMA PushLinked ==
    ASSUME NEW s \in Seq(Frames), NEW f \in Frames, Linked(s),
           IF s = << >> THEN f.lba = 0 ELSE Leads(s[1], f.lba)
    PROVE  Linked(<<f>> \o s)
<1> DEFINE t == <<f>> \o s
<1>1. Len(s) \in Nat /\ Len(t) = Len(s) + 1 /\ t[1] = f /\ \A n \in 2..(Len(s) + 1) : t[n] = s[n - 1]
  BY PushFacts
<1> HIDE DEF t
<1>2. t[Len(t)].lba = 0
  <2>1. CASE s = << >>
    <3>1. Len(t) = 1
      BY <1>1, <2>1
    <3> QED
      BY <1>1, <2>1, <3>1
  <2>2. CASE s /= << >>
    <3>1. Len(s) > 0 /\ s[Len(s)].lba = 0
      BY <1>1, <2>2, FrameTyped DEF Linked
    <3>2. Len(t) \in 2..(Len(s) + 1) /\ Len(t) - 1 = Len(s)
      BY <1>1, <3>1
    <3>3. t[Len(t)] = s[Len(s)]
      BY <1>1, <3>2
    <3> QED
      BY <3>1, <3>3
  <2> QED
    BY <2>1, <2>2
<1>3. ASSUME NEW n \in 2..Len(t)
      PROVE  Leads(t[n], t[n - 1].lba)
  <2>1. t[n] = s[n - 1] /\ n \in 2..(Len(s) + 1)
    BY <1>1
  <2>2. s /= << >> /\ Len(s) >= 1
    BY <1>1, <2>1, FrameTyped
  <2>3. CASE n = 2
    <3>1. t[n - 1] = f /\ t[n] = s[1]
      BY <1>1, <2>1, <2>3
    <3> QED
      BY <2>2, <3>1
  <2>4. CASE n > 2
    <3>1. n - 1 \in 2..Len(s) /\ n - 1 \in 2..(Len(s) + 1)
      BY <1>1, <2>1, <2>4
    <3>2. t[n - 1] = s[(n - 1) - 1]
      BY <1>1, <3>1
    <3>3. Leads(s[n - 1], s[(n - 1) - 1].lba)
      BY <2>2, <3>1 DEF Linked
    <3> QED
      BY <2>1, <3>2, <3>3
  <2> QED
    BY <1>1, <2>3, <2>4
<1> QED
  BY <1>2, <1>3 DEF Linked, t

\* The chain stays linked when a call returns,
LEMMA TailLinked ==
    ASSUME NEW s \in Seq(Frames), s /= << >>, Linked(s)
    PROVE  Linked(Tail(s))
<1> DEFINE t == Tail(s)
<1>1. /\ Len(s) \in Nat \ {0} /\ Len(t) = Len(s) - 1
      /\ \A n \in 1..(Len(s) - 1) : t[n] = s[n + 1]
      /\ t \in Seq(Frames)
  BY TailFacts
<1> HIDE DEF t
<1>2. SUFFICES ASSUME t /= << >> PROVE Linked(t)
  BY DEF Linked, t
<1>3. Len(t) \in Nat \ {0}
  BY <1>1, <1>2, FrameTyped
<1>4. t[Len(t)].lba = 0
  <2>1. Len(t) \in 1..(Len(s) - 1) /\ Len(t) + 1 = Len(s)
    BY <1>1, <1>3
  <2>2. t[Len(t)] = s[Len(s)]
    BY <1>1, <2>1
  <2> QED
    BY <2>2 DEF Linked
<1>5. ASSUME NEW n \in 2..Len(t)
      PROVE  Leads(t[n], t[n - 1].lba)
  <2>1. n + 1 \in 2..Len(s) /\ n \in 1..(Len(s) - 1) /\ n - 1 \in 1..(Len(s) - 1)
    BY <1>1, <1>3
  <2>2. t[n] = s[n + 1] /\ t[n - 1] = s[(n - 1) + 1]
    BY <1>1, <2>1
  <2>3. Leads(s[n + 1], s[(n + 1) - 1].lba)
    BY <2>1 DEF Linked
  <2>4. (n + 1) - 1 = (n - 1) + 1
    BY <2>1
  <2> QED
    BY <2>2, <2>3, <2>4
<1> QED
  BY <1>4, <1>5 DEF Linked

\* and when the innermost loop goes on: the calls outside of it wait where they were.
LEMMA AdvanceLinked ==
    ASSUME NEW s \in Seq(Frames), s /= << >>, Linked(s)
    PROVE  Linked(Advance(s))
<1> DEFINE t == Advance(s)
<1>1. /\ Len(t) = Len(s) /\ t[1].lba = s[1].lba /\ \A n \in 2..Len(s) : t[n] = s[n]
      /\ Len(s) \in Nat \ {0}
  BY AdvanceFacts, FrameTyped
<1> HIDE DEF t
<1>2. ASSUME NEW n \in 1..Len(s)
      PROVE  t[n].lba = s[n].lba
  <2>1. n = 1 \/ n \in 2..Len(s)
    BY <1>1
  <2> QED
    BY <1>1, <2>1
<1>3. t[Len(t)].lba = 0
  <2>1. Len(s) \in 1..Len(s)
    BY <1>1
  <2> QED
    BY <1>1, <1>2, <2>1 DEF Linked
<1>4. ASSUME NEW n \in 2..Len(t)
      PROVE  Leads(t[n], t[n - 1].lba)
  <2>1. n \in 2..Len(s) /\ n - 1 \in 1..Len(s)
    BY <1>1
  <2>2. t[n] = s[n] /\ t[n - 1].lba = s[n - 1].lba
    BY <1>1, <1>2, <2>1
  <2> QED
    BY <2>1, <2>2 DEF Linked
<1> QED
  BY <1>3, <1>4 DEF Linked, t

\* The invariant of the calls, in its parts.
CallLinks ==
    /\ pc \in Tabled => Linked(stack)
    /\ pc = "mbr" /\ stack /= << >> => stack[1].mbr.entries[stack[1].i].type = "extended"
AskLink == pc \in Waiting /\ (Pending \/ io.state = "ok") => io.lba = AskedAt

NoAnswer == pc /= "done" => answer = Nothing

\* LinkInv in parts: no answer yet, the calls on the stack, and the sector asked for.
LEMMA LinkParts == LinkInv <=> NoAnswer /\ CallLinks /\ AskLink
  BY DEF LinkInv, NoAnswer, CallLinks, AskLink, Linked

\* A step keeps LinkInv if it keeps each of its parts.
LEMMA LinkPartsNext ==
    (pc' /= "done" => answer' = Nothing) /\ CallLinks' /\ AskLink' => LinkInv'
<1>1. NoAnswer' /\ CallLinks' /\ AskLink' => LinkInv'
  BY LinkParts, PTL
<1> QED
  BY <1>1 DEF NoAnswer, Nothing

\* The search starts without calls and without an answer.
LEMMA InitLink == Init => LinkInv
  BY DEF Init, LinkInv, Tabled, Waiting, Nothing

\* What is asked for is what is read.
LEMMA RequestLba ==
    ASSUME NEW dd, NEW lba, io' = Request(dd, lba)
    PROVE  io'.state \in {"efi", "ext", "chs", "fail"} /\ (io'.state /= "fail" => io'.lba = lba)
  BY DEF Request, ChsRead, Try, Failed

\* After a request the sector waited for is the one requested,
LEMMA RequestLinks ==
    ASSUME NEW dd, NEW lba, io' = Request(dd, lba), lba = AskedAt'
    PROVE  AskLink'
<1>1. io'.state \in {"efi", "ext", "chs", "fail"} /\ (io'.state /= "fail" => io'.lba = lba)
  BY RequestLba
<1> QED
  BY <1>1 DEF AskLink, Pending

\* and without one nothing is waited for.
LEMMA IdleLinks ==
    ASSUME io' = NoIo
    PROVE  AskLink'
  BY DEF AskLink, Pending, NoIo

\* The steps of a read.
LEMMA ReadLinks ==
    ASSUME SearchInv, LinkInv, ExtRead \/ ChsTry \/ EfiRead
    PROVE  LinkInv'
<1>1. UNCHANGED <<pc, stack, gpt, i, entry, answer>>
  BY DEF ExtRead, ChsTry, EfiRead, walkVars
<1>2. AskedAt' = AskedAt
  BY <1>1 DEF AskedAt
<1>3. Pending /\ (Pending' \/ io'.state = "ok" => io'.lba = io.lba)
  <2>1. CASE ExtRead
    BY <2>1 DEF ExtRead, Pending, Got, ChsRead, Try, Failed
  <2>2. CASE EfiRead
    BY <2>2 DEF EfiRead, Pending, Got, Failed
  <2>3. CASE ChsTry
    <3>1. io.state = "chs" /\ io \in [state : {"chs"}, lba : Nat, tries : 1..3,
                                      chs : [c : Nat, h : Nat, s : Nat \ {0}]]
      BY <2>3, IoFacts DEF ChsTry, SearchInv, TypeOK
    <3> QED
      BY <2>3, <3>1 DEF ChsTry, Pending, Got, Failed
  <2> QED
    BY <2>1, <2>2, <2>3
<1>4. CallLinks'
  BY <1>1, LinkParts DEF CallLinks
<1>5. AskLink'
  BY <1>1, <1>2, <1>3, LinkParts DEF AskLink
<1> QED
  BY <1>1, <1>4, <1>5, LinkParts, LinkPartsNext DEF NoAnswer, Nothing

\* The steps between disks.
LEMMA DriveLinks ==
    ASSUME SearchInv, FoundInv, LinkInv, NextDrive \/ Probed
    PROVE  LinkInv'
<1>1. stack' = << >> /\ answer' = answer /\ answer = Nothing
  BY LinkParts DEF NoAnswer, NextDrive, Probed, FoundInv, StackKnown, Tabled
<1>2. CallLinks'
  BY <1>1 DEF CallLinks, Linked
<1>3. AskLink'
  <2>1. CASE pc' \notin Waiting
    BY <2>1 DEF AskLink
  <2>2. CASE pc' \in Waiting
    <3>1. \E dd : pc' = "mbr" /\ io' = Request(dd, 0)
      BY <2>2 DEF NextDrive, Probed, Waiting
    <3>2. AskedAt' = 0
      BY <1>1, <3>1 DEF AskedAt
    <3> QED
      BY <3>1, <3>2, RequestLinks
  <2> QED
    BY <2>1, <2>2
<1> QED
  BY <1>1, <1>2, <1>3, LinkPartsNext

\* A call returns.
LEMMA MbrReturnsLinks ==
    ASSUME NEW callers \in Seq(Frames), Linked(callers), MbrReturns(callers),
           answer' = Nothing
    PROVE  LinkInv'
<1>1. CASE callers = << >>
  <2>1. pc' = "gpt" /\ io' = Request(disk_data, 1)
    BY <1>1 DEF MbrReturns
  <2>2. AskedAt' = 1
    BY <2>1 DEF AskedAt
  <2>3. CallLinks'
    BY <2>1 DEF CallLinks, Tabled
  <2> QED
    BY <2>1, <2>2, <2>3, RequestLinks, LinkPartsNext
<1>2. CASE callers /= << >>
  <2>1. pc' = "entry" /\ io' = NoIo /\ stack' = Advance(callers)
    BY <1>2 DEF MbrReturns
  <2>2. Linked(stack')
    BY <1>2, <2>1, AdvanceLinked
  <2>3. CallLinks'
    BY <2>1, <2>2 DEF CallLinks, Linked
  <2> QED
    BY <2>1, <2>3, IdleLinks, LinkPartsNext
<1> QED
  BY <1>1, <1>2

\* A table that was read becomes the innermost call, and a call without one returns.
LEMMA GotMbrLinks ==
    ASSUME SearchInv, FoundInv, LinkInv, GotMbr
    PROVE  LinkInv'
<1>1. pc = "mbr" /\ answer' = Nothing /\ stack \in Seq(Frames) /\ Linked(stack)
  BY LinkParts, Parts DEF NoAnswer, GotMbr, CallsInv, CallLinks, Tabled
<1>2. CASE io.state = "ok" /\ io.data.aa55
  <2> DEFINE f == [lba |-> io.lba, i |-> 1, mbr |-> io.data]
  <2>1. stack' = <<f>> \o stack /\ pc' = "entry" /\ io' = NoIo
    BY <1>2 DEF GotMbr
  <2>2. f \in Frames /\ f.lba = io.lba
    BY <1>2, IoFacts DEF Frames, SearchInv, TypeOK
  <2> HIDE DEF f
  <2>3. IF stack = << >> THEN f.lba = 0 ELSE Leads(stack[1], f.lba)
    <3>1. io.lba = AskedAt
      BY <1>1, <1>2, LinkParts DEF AskLink, Waiting
    <3> QED
      BY <1>1, <2>2, <3>1, LinkParts DEF AskedAt, Leads, CallLinks
  <2>4. Linked(stack')
    BY <1>1, <2>1, <2>2, <2>3, PushLinked
  <2>5. CallLinks'
    BY <2>1, <2>4 DEF CallLinks, Linked
  <2> QED
    BY <1>1, <2>1, <2>5, IdleLinks, LinkPartsNext
<1>3. CASE MbrReturns(stack)
  BY <1>1, <1>3, MbrReturnsLinks
<1> QED
  BY <1>2, <1>3 DEF GotMbr

\* One iteration over a table: a return, the next entry, or a request for what the
\* entry leads to.
LEMMA CheckEntryLinks ==
    ASSUME SearchInv, FoundInv, LinkInv, CheckEntry
    PROVE  LinkInv'
<1> DEFINE top == Head(stack)
           e == top.mbr.entries[top.i]
           lba == (top.lba + e.start) % U32Mod
<1>1. /\ pc = "entry" /\ answer' = Nothing /\ stack \in Seq(Frames) /\ stack /= << >>
      /\ Linked(stack) /\ top = stack[1]
  BY LinkParts, Parts DEF NoAnswer, CheckEntry, CallsInv, CallLinks, Tabled
<1>2. CASE MbrReturns(Tail(stack))
  BY <1>1, <1>2, MbrReturnsLinks, TailLinked, TailFacts
<1>3. CASE stack' = Advance(stack) /\ UNCHANGED <<pc, io>>
  <2>1. Linked(stack') /\ pc' = "entry"
    BY <1>1, <1>3, AdvanceLinked
  <2>2. CallLinks'
    BY <2>1 DEF CallLinks, Linked
  <2>3. AskLink'
    BY <2>1 DEF AskLink, Waiting
  <2> QED
    BY <1>1, <2>1, <2>2, <2>3, LinkPartsNext
<1>4. CASE /\ io' = Request(disk_data, lba)
           /\ pc' = IF e.type = "extended" THEN "mbr" ELSE "vbr"
           /\ UNCHANGED stack
  <2>1. stack' = stack /\ stack'[1] = top
    BY <1>1, <1>4
  <2>2. pc' = "mbr" => stack'[1].mbr.entries[stack'[1].i].type = "extended"
    BY <1>4, <2>1
  <2>3. CallLinks'
    BY <1>1, <2>1, <2>2 DEF CallLinks, Linked
  <2>4. lba = Target(stack'[1].lba, stack'[1].mbr, stack'[1].i)
    BY <2>1 DEF Target
  <2>5. lba = AskedAt'
    BY <1>1, <1>4, <2>1, <2>4 DEF AskedAt
  <2> HIDE DEF lba
  <2>6. AskLink'
    BY <1>4, <2>5, RequestLinks
  <2>7. pc' /= "done"
    BY <1>4
  <2> QED
    BY <1>1, <2>3, <2>6, LinkPartsNext
<1> QED
  <2> HIDE DEF lba, e
  <2> QED
    BY <1>2, <1>3, <1>4 DEF CheckEntry, lba, e

\* The boot sector of a partition ends the search, or the loop goes on.
LEMMA GotVbrLinks ==
    ASSUME SearchInv, FoundInv, LinkInv, GotVbr
    PROVE  LinkInv'
<1>1. /\ pc = "vbr" /\ answer = Nothing /\ stack \in Seq(Frames) /\ stack /= << >> /\ Linked(stack)
      /\ io' = NoIo
  BY LinkParts, Parts DEF NoAnswer, GotVbr, CallsInv, CallLinks, Tabled
<1>2. CASE pc' = "done"
  BY <1>1, <1>2, IdleLinks, LinkPartsNext DEF CallLinks, Tabled
<1>3. CASE stack' = Advance(stack) /\ pc' = "entry" /\ UNCHANGED answer
  <2>1. Linked(stack')
    BY <1>1, <1>3, AdvanceLinked
  <2>2. CallLinks'
    BY <1>3, <2>1 DEF CallLinks, Linked
  <2> QED
    BY <1>1, <1>3, <2>2, IdleLinks, LinkPartsNext
<1> QED
  BY <1>2, <1>3 DEF GotVbr

\* The steps through the GPT, where no call of check_mbr is left.
LEMMA GptLinks ==
    ASSUME SearchInv, FoundInv, LinkInv,
           GotGpt \/ CheckGptEntry \/ GotFirst \/ GotSecond \/ GotGptVbr
    PROVE  LinkInv'
<1>1. answer = Nothing /\ pc' \notin Tabled /\ (pc' /= "done" => answer' = answer)
  BY LinkParts DEF NoAnswer, GotGpt, CheckGptEntry, GotFirst, GotSecond, GotGptVbr, NextDisk, Tabled
<1>2. CallLinks'
  BY <1>1 DEF CallLinks, Tabled
<1>3. AskLink'
  <2>1. CASE io' = NoIo
    BY <2>1, IdleLinks
  <2>2. CASE io' /= NoIo
    <3>1. \/ /\ pc' = "gpt_first" /\ io' = Request(disk_data, EntryLba) /\ UNCHANGED <<gpt, i, entry>>
          \/ /\ pc' = "gpt_second" /\ io' = Request(disk_data, EntryLba + 1) /\ UNCHANGED <<gpt, i>>
          \/ /\ pc' = "gpt_vbr" /\ io' = Request(disk_data, entry.start) /\ UNCHANGED <<gpt, i, entry>>
      BY <2>2 DEF GotGpt, CheckGptEntry, GotFirst, GotSecond, GotGptVbr, NextDisk
    <3>2. EntryLba = LbaIn(gpt, i)
      BY DEF EntryLba, LbaIn, EntryOfs, OfsIn
    <3>3. CASE pc' = "gpt_first" /\ io' = Request(disk_data, EntryLba) /\ UNCHANGED <<gpt, i, entry>>
      <4>1. AskedAt' = EntryLba
        BY <3>2, <3>3 DEF AskedAt
      <4> QED
        BY <3>3, <4>1, RequestLinks
    <3>4. CASE pc' = "gpt_second" /\ io' = Request(disk_data, EntryLba + 1) /\ UNCHANGED <<gpt, i>>
      <4>1. AskedAt' = EntryLba + 1
        BY <3>2, <3>4 DEF AskedAt
      <4> QED
        BY <3>4, <4>1, RequestLinks
    <3>5. CASE pc' = "gpt_vbr" /\ io' = Request(disk_data, entry.start) /\ UNCHANGED <<gpt, i, entry>>
      <4>1. AskedAt' = entry.start
        BY <3>5 DEF AskedAt
      <4> QED
        BY <3>5, <4>1, RequestLinks
    <3> QED
      BY <3>1, <3>3, <3>4, <3>5
  <2> QED
    BY <2>1, <2>2
<1> QED
  BY <1>1, <1>2, <1>3, LinkPartsNext

\* What is assumed of the disk in progress.
LEMMA OrderFacts ==
    ASSUME machine \in Machines, Present
    PROVE  /\ Size(Disk) > 0 /\ (Disk.std => Disk.heads =< Heads /\ Disk.spt =< Spt)
           /\ Len(Disk.parts) \in 0..MaxParts /\ DOMAIN Disk.parts = 1..Len(Disk.parts)
           /\ machine.debug => Len(Disk.parts) =< PartLimit
           /\ ~machine.bios \/ FillData(Disk) /= NoDisk =>
                    MbrOrder(machine, Disk) /\ GptOrder(machine, Disk)
  BY OrderAssumption DEF Present, Disk, Disks

\* What is known of the disk whose tables are walked.
LEMMA WalkingFacts ==
    ASSUME SearchInv, FoundInv, Walking
    PROVE  /\ machine \in Machines /\ Present /\ DiskOK(Disk)
           /\ machine.bios \in BOOLEAN /\ machine.debug \in BOOLEAN
           /\ machine.bios => /\ FillData(Disk) /= NoDisk
                              /\ disk_data \in {FillData(Disk), [FillData(Disk) EXCEPT !.lba = FALSE]}
           /\ MbrOrder(machine, Disk) /\ GptOrder(machine, Disk)
           /\ drive \in Searchable
<1>1. machine \in Machines /\ Present
  BY Parts DEF PlaceInv
<1>2. machine.bios \in BOOLEAN /\ machine.debug \in BOOLEAN
  BY <1>1, MachinesAssumption
<1>3. machine.bios => /\ FillData(Disk) /= NoDisk
                      /\ disk_data \in {FillData(Disk), [FillData(Disk) EXCEPT !.lba = FALSE]}
  BY DEF FoundInv, GeometryKept
<1>4. MbrOrder(machine, Disk) /\ GptOrder(machine, Disk)
  BY <1>1, <1>2, <1>3, OrderFacts
<1>5. drive \in Searchable
  BY <1>1, <1>2, <1>3 DEF Searchable, Present, Disk
<1> QED
  BY <1>1, <1>2, <1>3, <1>4, <1>5, DiskTyped

\* A failure that is tolerated after a step was tolerated before it.
LEMMA ToleratedBack ==
    ASSUME SearchInv, machine' = machine, faults' \in {faults, faults + 1}, Tolerated'
    PROVE  /\ Tolerated
           /\ faults' /= 0 => /\ machine.bios /\ faults' =< 2
                              /\ \A k \in Searchable : ChsReaches(Disks[k])
<1>1. faults \in Nat /\ faults' \in Nat
  BY SizesAssumption DEF SearchInv, TypeOK
<1>2. Searchable' = Searchable /\ Disks' = Disks
  BY DEF Searchable, Disks
<1> QED
  BY <1>1, <1>2 DEF Tolerated

\* A sector whose cylinder can be addressed is within the size of the addresses.
LEMMA ReachBound ==
    ASSUME NEW lba \in Nat, NEW h \in Nat \ {0}, NEW s \in Nat \ {0},
           NEW C \in Nat, NEW H \in Nat, NEW S \in Nat, h =< H, s =< S,
           (lba \div s) \div h < C
    PROVE  lba =< C * H * S
<1> DEFINE head == lba \div s
           c == head \div h
<1>1. head \in Nat /\ lba % s \in Nat /\ lba % s < s /\ lba = s * head + (lba % s)
  BY DivMod
<1>2. c \in Nat /\ head % h \in Nat /\ head % h < h /\ head = h * c + (head % h)
  BY <1>1, DivMod
<1>3. c < C
  OBVIOUS
<1> HIDE DEF head, c
<1>4. c * h + h =< C * h
  BY <1>2, <1>3, MulApart
<1>5. h * c = c * h /\ C * h \in Nat /\ c * h \in Nat
  BY <1>2, MulTypes
<1>6. head + 1 =< C * h
  BY <1>1, <1>2, <1>4, <1>5
<1>7. h * C =< H * C
  BY MulMono
<1>8. h * C = C * h /\ H * C = C * H /\ C * H \in Nat
  BY MulTypes
<1>9. head < C * H
  BY <1>1, <1>5, <1>6, <1>7, <1>8
<1> DEFINE ch == C * H
<1>10. ch \in Nat /\ head < ch
  BY <1>8, <1>9
<1> HIDE DEF ch
<1>11. head * s + s =< ch * s
  BY <1>1, <1>10, MulApart
<1>12. s * ch =< S * ch
  BY <1>10, MulMono
<1>13. s * ch = ch * s /\ S * ch = ch * S /\ s * head = head * s
  BY <1>1, <1>10
<1>14. head * s \in Nat /\ ch * s \in Nat /\ ch * S \in Nat
  BY <1>1, <1>10, MulTypes
<1>15. lba =< ch * S
  BY <1>1, <1>11, <1>12, <1>13, <1>14
<1> QED
  BY <1>15 DEF ch

\* A sector that CHS mode reaches is one that biosdisk_read_real asks for.
LEMMA ReachesOpen ==
    ASSUME machine \in Machines, Present, FillData(Disk) /= NoDisk, ChsReaches(Disk),
           NEW lba \in Nat, lba < Size(Disk)
    PROVE  ChsOpen(Disk, lba)
<1> DEFINE geo == FillData(Disk)
<1>1. DiskOK(Disk) /\ Size(Disk) \in Nat
  BY DiskTyped DEF DiskOK, Size
<1>2. geo.heads = Disk.heads /\ geo.sectors = Disk.spt
  BY <1>1, FillDataTyped
<1>3. geo.heads \in Nat \ {0} /\ geo.sectors \in Nat \ {0}
  BY <1>1, <1>2 DEF DiskOK
<1>4. geo.heads =< Heads /\ geo.sectors =< Spt
  <2>1. Disk.std \/ (Disk.heads = AssumedHeads /\ Disk.spt = Spt)
    BY <1>1 DEF DiskOK
  <2>2. AssumedHeads =< Heads /\ Spt =< Spt
    BY OrderAssumption, SizesAssumption
  <2> QED
    BY <1>2, <2>1, <2>2, OrderFacts
<1>5. ToChs(geo, lba).c < geo.cylinders /\ ToChs(geo, lba).c < Cylinders
  <2>1. lba \in 0..(Size(Disk) - 1)
    BY <1>1
  <2> QED
    BY <2>1 DEF ChsReaches
<1>6. ToChs(geo, lba).c = (lba \div geo.sectors) \div geo.heads
  BY DEF ToChs, Chs
<1> HIDE DEF geo
<1>7. Cylinders \in Nat /\ Heads \in Nat /\ Spt \in Nat
  BY SizesAssumption
<1>8. lba =< Cylinders * Heads * Spt
  BY <1>3, <1>4, <1>5, <1>6, <1>7, ReachBound
<1> QED
  BY <1>5, <1>8 DEF ChsOpen, geo

\* A call of biosdisk_read_real refuses only a sector that is out of reach.
LEMMA ChsReadReach ==
    ASSUME machine \in Machines, Present, machine.bios, FillData(Disk) /= NoDisk,
           NEW dd \in {FillData(Disk), [FillData(Disk) EXCEPT !.lba = FALSE]},
           FillData(Disk).lba => ChsReaches(Disk),
           NEW lba \in Nat
    PROVE  LET r == ChsRead(dd, lba)
           IN  /\ r.state \in {"fail", "chs"}
               /\ r.state = "fail" => ~Reached(machine, Disk, lba)
               /\ r.state = "chs" => r.tries = 1 /\ r.lba = lba /\ ChsOpen(Disk, lba)
<1>1. FillData(Disk) \in Geometries
  BY DiskTyped, FillDataTyped
<1>2. /\ dd.heads = FillData(Disk).heads /\ dd.sectors = FillData(Disk).sectors
      /\ dd.cylinders = FillData(Disk).cylinders
  BY <1>1 DEF Geometries
<1>3. ToChs(dd, lba) = ToChs(FillData(Disk), lba)
  BY <1>2 DEF ToChs
<1>4. DiskOK(Disk) /\ FillData(Disk).heads > 0 /\ FillData(Disk).sectors > 0
  BY DiskTyped, FillDataTyped DEF DiskOK
<1>5. ToChs(FillData(Disk), lba).c \in Nat /\ FillData(Disk).cylinders \in Nat
  BY <1>1, <1>4, ToChsTyped DEF Geometries
<1>6. Cylinders * Heads * Spt \in Nat
  BY SizesAssumption, MulTypes
<1>7. lba > Cylinders * Heads * Spt \/ ToChs(dd, lba).c >= dd.cylinders <=> ~ChsOpen(Disk, lba)
  BY <1>2, <1>3, <1>5, <1>6 DEF ChsOpen
<1>8. ~ChsOpen(Disk, lba) => ~Reached(machine, Disk, lba)
  BY ReachesOpen DEF Reached
<1> QED
  BY <1>7, <1>8 DEF ChsRead, Try, Failed

\* The same of a read of any kind.
LEMMA RequestReach ==
    ASSUME machine \in Machines, Present, NEW dd,
           machine.bios => /\ FillData(Disk) /= NoDisk
                           /\ dd \in {FillData(Disk), [FillData(Disk) EXCEPT !.lba = FALSE]}
                           /\ FillData(Disk).lba /\ ~dd.lba => ChsReaches(Disk),
           NEW lba \in Nat
    PROVE  LET r == Request(dd, lba)
           IN  /\ r.state \in {"fail", "chs", "ext", "efi"}
               /\ r.state = "fail" => ~Reached(machine, Disk, lba)
               /\ r.state = "ext" => dd.lba
               /\ r.state = "efi" => ~machine.bios
               /\ r.state = "chs" => r.tries = 1
<1>1. CASE ~machine.bios
  BY <1>1 DEF Request
<1>2. CASE machine.bios /\ dd.lba
  BY <1>2 DEF Request
<1>3. CASE machine.bios /\ ~dd.lba
  BY <1>3, ChsReadReach DEF Request
<1> QED
  BY <1>1, <1>2, <1>3, MachinesAssumption

\* The parts of the invariant while the search goes on.
FirstWalk ==
    /\ NonePassed /\ ReadsReach /\ ProbeReaches /\ ModeReaches
    /\ TablesReached /\ ListReached /\ PartsCounted

\* FirstInv in parts: what holds during the walk, and what it found.
LEMMA FirstParts == FirstInv <=> (Tolerated /\ pc /= "done" => FirstWalk) /\ FindsFirst
  BY DEF FirstInv, FirstWalk

\* A step that does not end the search has to keep what holds during the walk.
LEMMA FirstOngoing ==
    ASSUME pc' /= "done", Tolerated' => FirstWalk'
    PROVE  FirstInv'
<1>1. FindsFirst'
  BY DEF FindsFirst
<1> QED
  BY <1>1 DEF FirstInv, FirstWalk

\* What a read waits for.
LEMMA WaitFacts ==
    ASSUME SearchInv, FoundInv, LinkInv, pc \in Waiting
    PROVE  /\ Walking /\ pc /= "probe" /\ pc /= "done"
           /\ Pending \/ io.state = "ok" => io.lba = AskedAt /\ io.lba \in Nat
<1>1. Walking
  BY DEF Walking, Waiting
<1>2. Pending \/ io.state = "ok" => io.lba \in Nat
  BY IoFacts DEF SearchInv, TypeOK, Pending
<1> QED
  BY <1>1, <1>2, LinkParts DEF AskLink, Waiting

\* A step of a read leaves the walk where it is.
LEMMA WalkKept ==
    ASSUME SearchInv, FoundInv, FirstWalk, UNCHANGED <<machine, pc, drive, walkVars, answer>>
    PROVE  /\ NonePassed' /\ TablesReached' /\ ListReached' /\ PartsCounted' /\ AskedAt' = AskedAt
           /\ Disk' = Disk /\ Walking' = Walking
<1>1. UNCHANGED <<machine, pc, drive, stack, part_count, gpt, i, entry>> /\ Disk' = Disk
  BY DEF walkVars, Disk, Disks
<1>2. Wanted' = Wanted
  BY <1>1 DEF Wanted, Searchable, Disks
<1>3. Place' = Place
  BY <1>1 DEF Place
<1>4. NonePassed'
  BY <1>1, <1>2, <1>3 DEF FirstWalk, NonePassed
<1>5. TablesReached'
  BY <1>1 DEF FirstWalk, TablesReached
<1>6. PartsCounted'
  <2>1. NoneAhead' = NoneAhead
    BY <1>1, <1>2 DEF NoneAhead
  <2> QED
    BY <1>1, <1>3, <2>1 DEF FirstWalk, PartsCounted
<1>7. AskedAt' = AskedAt
  BY <1>1 DEF AskedAt
<1>8. ListReached'
  BY <1>1 DEF FirstWalk, ListReached
<1> QED
  BY <1>1, <1>4, <1>5, <1>6, <1>7, <1>8 DEF Walking

\* The firmware reads a sector by its number, or CHS mode is next for good.
LEMMA ExtReadFirst ==
    ASSUME SearchInv, FoundInv, LinkInv, FirstInv, ExtRead
    PROVE  FirstInv'
<1>1. /\ pc \in Waiting /\ machine.bios /\ io.state = "ext" /\ Pending
      /\ UNCHANGED <<machine, pc, drive, walkVars, answer>>
  BY Parts DEF ExtRead, PlaceInv, Places, IoInv, RequestsKnown, Pending
<1>2. /\ Walking /\ pc /= "probe" /\ pc /= "done" /\ io.lba = AskedAt /\ io.lba \in Nat
  BY <1>1, WaitFacts
<1>3. /\ machine \in Machines /\ Present /\ FillData(Disk) /= NoDisk /\ drive \in Searchable
      /\ disk_data \in {FillData(Disk), [FillData(Disk) EXCEPT !.lba = FALSE]}
  BY <1>1, <1>2, WalkingFacts
<1>4. SUFFICES ASSUME Tolerated' PROVE FirstWalk'
  BY <1>1, <1>2, FirstOngoing
<1>5. faults' \in {faults, faults + 1}
  BY DEF ExtRead, ReadFails
<1>6. Tolerated /\ (faults' /= 0 => ChsReaches(Disk))
  BY <1>1, <1>3, <1>4, <1>5, ToleratedBack DEF Disk
<1>7. FirstWalk
  BY <1>2, <1>6, FirstParts
<1>8. /\ NonePassed' /\ TablesReached' /\ ListReached' /\ PartsCounted' /\ AskedAt' = AskedAt
      /\ Disk' = Disk /\ Walking' = Walking
  BY <1>1, <1>7, WalkKept
<1>9. /\ Asks(machine, Disk, AskedAt) /\ disk_data.lba
  BY <1>1, <1>7 DEF FirstWalk, ReadsReach
<1>10. FillData(Disk) \in Geometries /\ FillData(Disk).lba
  <2>1. FillData(Disk) \in Geometries
    BY <1>3, DiskTyped, FillDataTyped
  <2> QED
    BY <1>3, <1>9, <2>1 DEF Geometries
<1>11. ProbeReaches'
  BY <1>1, <1>2 DEF ProbeReaches
<1>12. CASE /\ io.lba < Size(Disk) /\ io' = Got(io.lba, Sector(Disk, io.lba))
            /\ UNCHANGED <<disk_data, faults>>
  <2>1. io'.state = "ok"
    BY <1>12 DEF Got
  <2>2. Reached(machine, Disk, AskedAt)
    BY <1>1, <1>2, <1>10, <1>12 DEF Reached
  <2>3. ReadsReach'
    BY <1>1, <1>8, <1>9, <2>1, <2>2 DEF ReadsReach
  <2>4. ModeReaches'
    BY <1>1, <1>8, <1>9, <1>12 DEF ModeReaches
  <2> QED
    BY <1>8, <1>11, <2>3, <2>4 DEF FirstWalk
<1>13. CASE /\ ReadFails(io.lba < Size(Disk))
            /\ disk_data' = [disk_data EXCEPT !.lba = FALSE]
            /\ io' = ChsRead(disk_data, io.lba)
  <2>1. ChsReaches(Disk)
    <3>1. CASE io.lba < Size(Disk)
      <4>1. faults' = faults + 1 /\ faults \in Nat
        BY <1>13, <3>1, SizesAssumption DEF ReadFails, SearchInv, TypeOK
      <4> QED
        BY <1>6, <4>1
    <3>2. CASE ~(io.lba < Size(Disk))
      BY <1>1, <1>2, <1>9, <1>10, <3>2 DEF Asks
    <3> QED
      BY <3>1, <3>2
  <2>2. /\ io'.state \in {"fail", "chs"}
        /\ io'.state = "fail" => ~Reached(machine, Disk, io.lba)
        /\ io'.state = "chs" => io'.tries = 1
    BY <1>1, <1>2, <1>3, <1>13, <2>1, ChsReadReach
  <2>3. io'.state = "chs" => io'.tries =< faults' + 1
    <3>1. faults' \in Nat
      BY <1>5, SizesAssumption DEF SearchInv, TypeOK
    <3> QED
      BY <2>2, <3>1
  <2>4. ReadsReach'
    BY <1>1, <1>2, <1>8, <1>9, <2>2, <2>3 DEF ReadsReach
  <2>5. ModeReaches'
    BY <1>8, <2>1 DEF ModeReaches
  <2> QED
    BY <1>8, <1>11, <2>4, <2>5 DEF FirstWalk
<1> QED
  BY <1>12, <1>13 DEF ExtRead

\* The firmware reads a page.
LEMMA EfiReadFirst ==
    ASSUME SearchInv, FoundInv, LinkInv, FirstInv, EfiRead
    PROVE  FirstInv'
<1>1. /\ pc \in Waiting /\ io.state = "efi" /\ Pending /\ UNCHANGED disk_data
      /\ UNCHANGED <<machine, pc, drive, walkVars, answer>>
  BY Parts DEF EfiRead, PlaceInv, Places, IoInv, RequestsKnown, Pending
<1>2. /\ Walking /\ pc /= "probe" /\ pc /= "done" /\ io.lba = AskedAt /\ io.lba \in Nat
  BY <1>1, WaitFacts
<1>3. SUFFICES ASSUME Tolerated' PROVE FirstWalk'
  BY <1>1, <1>2, FirstOngoing
<1>4. faults' \in {faults, faults + 1} /\ faults \in Nat
  BY SizesAssumption DEF EfiRead, ReadFails, SearchInv, TypeOK
<1>5. Tolerated /\ (faults' /= 0 => machine.bios)
  BY <1>1, <1>3, <1>4, ToleratedBack
<1>6. FirstWalk
  BY <1>2, <1>5, FirstParts
<1>7. /\ NonePassed' /\ TablesReached' /\ ListReached' /\ PartsCounted' /\ AskedAt' = AskedAt
      /\ Disk' = Disk /\ Walking' = Walking
  BY <1>1, <1>6, WalkKept
<1>8. Asks(machine, Disk, AskedAt) /\ ~machine.bios
  BY <1>1, <1>6 DEF FirstWalk, ReadsReach
<1>9. Reached(machine, Disk, AskedAt) <=> io.lba + PageSectors =< Size(Disk)
  BY <1>2, <1>8 DEF Reached
<1>10. ProbeReaches' /\ ModeReaches'
  BY <1>1, <1>2, <1>8 DEF ProbeReaches, ModeReaches
<1>11. CASE io.lba + PageSectors =< Size(Disk) /\ io' = Got(io.lba, Sector(Disk, io.lba))
  <2>1. io'.state = "ok"
    BY <1>11 DEF Got
  <2>2. ReadsReach'
    BY <1>1, <1>7, <1>8, <1>9, <1>11, <2>1 DEF ReadsReach
  <2> QED
    BY <1>7, <1>10, <2>2 DEF FirstWalk
<1>12. CASE ReadFails(io.lba + PageSectors =< Size(Disk)) /\ io' = Failed
  <2>1. io'.state = "fail"
    BY <1>12 DEF Failed
  <2>2. ~(io.lba + PageSectors =< Size(Disk))
    BY <1>4, <1>5, <1>8, <1>12 DEF ReadFails
  <2>3. ReadsReach'
    BY <1>1, <1>7, <1>8, <1>9, <2>1, <2>2 DEF ReadsReach
  <2> QED
    BY <1>7, <1>10, <2>3 DEF FirstWalk
<1> QED
  BY <1>11, <1>12 DEF EfiRead

\* One of three tries fails: the third only if the sector is out of reach.
LEMMA TryAgain ==
    ASSUME SearchInv, Tolerated', NEW possible \in BOOLEAN, machine' = machine,
           ReadFails(possible), io.state = "chs",
           io' = IF io.tries >= Tries THEN Failed ELSE [io EXCEPT !.tries = @ + 1],
           io.tries =< faults + 1 \/ ~possible
    PROVE  /\ io'.state \in {"fail", "chs"}
           /\ io'.state = "fail" => ~possible
           /\ io'.state = "chs" => io'.chs = io.chs /\ (io'.tries =< faults' + 1 \/ ~possible)
<1>1. /\ io \in [state : {"chs"}, lba : Nat, tries : 1..3, chs : [c : Nat, h : Nat, s : Nat \ {0}]]
      /\ faults \in Nat
  BY IoFacts, SizesAssumption DEF SearchInv, TypeOK
<1>2. faults' \in {faults, faults + 1} /\ (possible => faults' = faults + 1)
  BY DEF ReadFails
<1>3. faults' /= 0 => faults' =< 2
  BY <1>2, ToleratedBack
<1>4. CASE io.tries >= 3
  <2>1. io'.state = "fail"
    BY <1>4 DEF Tries, Failed
  <2>2. ~possible
    BY <1>1, <1>2, <1>3, <1>4
  <2> QED
    BY <2>1, <2>2
<1>5. CASE ~(io.tries >= 3)
  <2>1. io' = [io EXCEPT !.tries = @ + 1]
    BY <1>5 DEF Tries
  <2>2. io'.state = "chs" /\ io'.chs = io.chs /\ io'.tries = io.tries + 1
    BY <1>1, <2>1
  <2>3. io'.tries =< faults' + 1 \/ ~possible
    BY <1>1, <1>2, <2>2
  <2> QED
    BY <2>2, <2>3
<1> QED
  BY <1>4, <1>5

\* One of the tries of biosdisk_rw_std.
LEMMA ChsTryFirst ==
    ASSUME SearchInv, FoundInv, LinkInv, FirstInv, ChsTry
    PROVE  FirstInv'
<1> DEFINE possible == Present /\ FromChs(Disk, io.chs) < Size(Disk)
<1>1. /\ pc \in Waiting \cup {"probe"} /\ machine.bios /\ io.state = "chs" /\ Pending
      /\ UNCHANGED <<machine, pc, drive, walkVars, answer>> /\ UNCHANGED disk_data
      /\ machine \in Machines
  BY Parts DEF ChsTry, PlaceInv, Places, IoInv, RequestsKnown, Pending
<1>2. pc' /= "done"
  BY <1>1 DEF Waiting
<1>3. SUFFICES ASSUME Tolerated' PROVE FirstWalk'
  BY <1>2, FirstOngoing
<1>4. faults' \in {faults, faults + 1} /\ possible \in BOOLEAN
  BY DEF ChsTry, ReadFails
<1>5. Tolerated
  BY <1>1, <1>3, <1>4, ToleratedBack
<1>6. FirstWalk
  BY <1>1, <1>2, <1>5, FirstParts
<1>7. /\ NonePassed' /\ TablesReached' /\ ListReached' /\ PartsCounted' /\ AskedAt' = AskedAt
      /\ Disk' = Disk /\ Walking' = Walking
  BY <1>1, <1>6, WalkKept
<1>8. ModeReaches'
  BY <1>1, <1>6, <1>7 DEF FirstWalk, ModeReaches
<1>9. Present' = Present
  BY <1>1 DEF Present, Disks
<1>10. \/ possible /\ io' = Got(io.lba, Sector(Disk, FromChs(Disk, io.chs)))
       \/ /\ ReadFails(possible)
          /\ io' = IF io.tries >= Tries THEN Failed ELSE [io EXCEPT !.tries = @ + 1]
  BY DEF ChsTry
<1>11. CASE pc = "probe"
  <2>1. io.chs = Chs(0, 0, 1) /\ (io.tries =< faults + 1 \/ ~Present)
    BY <1>1, <1>6, <1>11 DEF FirstWalk, ProbeReaches
  <2>2. possible <=> Present
    <3>1. SUFFICES ASSUME Present PROVE FromChs(Disk, io.chs) < Size(Disk)
      OBVIOUS
    <3>2. DiskOK(Disk) /\ Size(Disk) > 0
      BY <1>1, <3>1, DiskTyped, OrderFacts
    <3>3. Disk.heads \in Nat /\ Disk.spt \in Nat /\ Size(Disk) \in Nat
      BY <3>2 DEF DiskOK, Size
    <3>4. 0 % Cylinders = 0
      BY ModSmall, SizesAssumption
    <3>5. FromChs(Disk, io.chs) = ((0 % Cylinders) * Disk.heads + 0) * Disk.spt + 1 - 1
      BY <2>1 DEF FromChs, Chs
    <3>6. FromChs(Disk, io.chs) = (0 * Disk.heads + 0) * Disk.spt + 1 - 1
      BY <3>4, <3>5
    <3>7. 0 * Disk.heads = 0 /\ (0 + 0) * Disk.spt = 0
      BY <3>3
    <3> QED
      BY <3>2, <3>3, <3>6, <3>7
  <2>3. ReadsReach'
    BY <1>1, <1>11 DEF ReadsReach, Waiting
  <2> HIDE DEF possible
  <2>4. CASE possible /\ io' = Got(io.lba, Sector(Disk, FromChs(Disk, io.chs)))
    <3>1. io'.state = "ok"
      BY <2>4 DEF Got
    <3>2. ProbeReaches'
      BY <1>1, <3>1 DEF ProbeReaches
    <3> QED
      BY <1>7, <1>8, <2>3, <3>2 DEF FirstWalk
  <2>5. CASE /\ ReadFails(possible)
             /\ io' = IF io.tries >= Tries THEN Failed ELSE [io EXCEPT !.tries = @ + 1]
    <3>1. /\ io'.state \in {"fail", "chs"}
          /\ io'.state = "fail" => ~possible
          /\ io'.state = "chs" => io'.chs = io.chs /\ (io'.tries =< faults' + 1 \/ ~possible)
      BY <1>1, <1>3, <1>4, <2>1, <2>2, <2>5, TryAgain
    <3>2. ProbeReaches'
      BY <1>1, <1>9, <2>1, <2>2, <3>1 DEF ProbeReaches
    <3> QED
      BY <1>7, <1>8, <2>3, <3>2 DEF FirstWalk
  <2> QED
    BY <1>10, <2>4, <2>5
<1>12. CASE pc \in Waiting
  <2>1. Walking /\ io.lba = AskedAt /\ io.lba \in Nat /\ pc /= "probe"
    BY <1>1, <1>12, WaitFacts
  <2>2. /\ Present /\ FillData(Disk) /= NoDisk
        /\ disk_data \in {FillData(Disk), [FillData(Disk) EXCEPT !.lba = FALSE]}
    BY <1>1, <2>1, WalkingFacts
  <2>3. /\ Asks(machine, Disk, io.lba)
        /\ io.tries =< faults + 1 \/ ~Reached(machine, Disk, io.lba)
    BY <1>1, <1>6, <1>12, <2>1 DEF FirstWalk, ReadsReach
  <2>4. FromChs(Disk, io.chs) = io.lba
    BY <1>1, <2>1, <2>3, AddressIsRight DEF Asks
  <2>5. io.chs.c < disk_data.cylinders /\ io.lba =< Cylinders * Heads * Spt
        /\ io.chs = ToChs(disk_data, io.lba)
    BY <1>1, <2>1 DEF FoundInv, ChsKnown, SearchInv, RequestsKnown
  <2>6. ChsOpen(Disk, io.lba)
    <3>1. FillData(Disk) \in Geometries
      BY <1>1, <2>2, DiskTyped, FillDataTyped
    <3>2. /\ disk_data.heads = FillData(Disk).heads /\ disk_data.sectors = FillData(Disk).sectors
          /\ disk_data.cylinders = FillData(Disk).cylinders
      BY <2>2, <3>1 DEF Geometries
    <3>3. ToChs(disk_data, io.lba) = ToChs(FillData(Disk), io.lba)
      BY <3>2 DEF ToChs
    <3> QED
      BY <2>5, <3>2, <3>3 DEF ChsOpen
  <2>7. possible <=> Reached(machine, Disk, io.lba)
    BY <1>1, <2>2, <2>4, <2>6 DEF Reached
  <2>8. ProbeReaches'
    BY <1>1, <2>1 DEF ProbeReaches
  <2> HIDE DEF possible
  <2>9. CASE possible /\ io' = Got(io.lba, Sector(Disk, FromChs(Disk, io.chs)))
    <3>1. io'.state = "ok"
      BY <2>9 DEF Got
    <3>2. ReadsReach'
      BY <1>1, <1>7, <2>1, <2>3, <2>7, <2>9, <3>1 DEF ReadsReach
    <3> QED
      BY <1>7, <1>8, <2>8, <3>2 DEF FirstWalk
  <2>10. CASE /\ ReadFails(possible)
              /\ io' = IF io.tries >= Tries THEN Failed ELSE [io EXCEPT !.tries = @ + 1]
    <3>1. /\ io'.state \in {"fail", "chs"}
          /\ io'.state = "fail" => ~possible
          /\ io'.state = "chs" => io'.chs = io.chs /\ (io'.tries =< faults' + 1 \/ ~possible)
      BY <1>1, <1>3, <1>4, <2>3, <2>7, <2>10, TryAgain
    <3>2. ReadsReach'
      BY <1>1, <1>7, <2>1, <2>3, <2>7, <3>1 DEF ReadsReach
    <3> QED
      BY <1>7, <1>8, <2>8, <3>2 DEF FirstWalk
  <2> QED
    BY <1>10, <2>9, <2>10
<1> QED
  BY <1>1, <1>11, <1>12

\* The wanted partitions have numbers, and stay what they are.
LEMMA WantedTyped ==
    ASSUME machine \in Machines, NEW p \in Wanted
    PROVE  /\ p[1] \in Searchable /\ p[1] \in 1..Len(Disks) /\ p[1] \in Nat
           /\ p[2] \in 1..MaxParts /\ p[2] \in Nat \ {0} /\ p = <<p[1], p[2]>>
           /\ p[2] \in DOMAIN Disks[p[1]].parts /\ Part(p).uuid = machine.wanted
<1>1. p \in Searchable \X (1..MaxParts)
  BY DEF Wanted
<1>2. p[1] \in Searchable /\ p[2] \in 1..MaxParts /\ p = <<p[1], p[2]>>
  BY <1>1
<1>3. p[1] \in DOMAIN Disks
  BY <1>2 DEF Searchable
<1>4. Len(Disks) \in Nat /\ DOMAIN Disks = 1..Len(Disks)
  BY DisksTyped
<1>5. p[2] \in Nat \ {0}
  BY <1>2, SizesAssumption
<1>6. p[2] \in DOMAIN Disks[p[1]].parts /\ Part(p).uuid = machine.wanted
  BY DEF Wanted, Part
<1> QED
  BY <1>2, <1>3, <1>4, <1>5, <1>6

\* What is searched for and where does not change.
LEMMA WantedStays ==
    ASSUME UNCHANGED machine
    PROVE  Wanted' = Wanted /\ Searchable' = Searchable /\ Disks' = Disks
  BY DEF Wanted, Searchable, Disks

\* A step asks for a sector of the disk in progress.
LEMMA RequestFirst ==
    ASSUME machine \in Machines, Present, UNCHANGED <<machine, drive>>, faults' \in Nat,
           pc' \in Waiting, NEW lba \in Nat, io' = Request(disk_data', lba), AskedAt' = lba,
           Asks(machine, Disk, lba),
           machine.bios => /\ FillData(Disk) /= NoDisk
                           /\ disk_data' \in {FillData(Disk), [FillData(Disk) EXCEPT !.lba = FALSE]}
                           /\ FillData(Disk).lba /\ ~disk_data'.lba => ChsReaches(Disk)
    PROVE  ReadsReach' /\ ProbeReaches' /\ ModeReaches'
<1>1. Disk' = Disk
  BY DEF Disk, Disks
<1>2. /\ io'.state \in {"fail", "chs", "ext", "efi"}
      /\ io'.state = "fail" => ~Reached(machine, Disk, lba)
      /\ io'.state = "ext" => disk_data'.lba
      /\ io'.state = "efi" => ~machine.bios
      /\ io'.state = "chs" => io'.tries = 1
  BY RequestReach
<1>3. ReadsReach'
  BY <1>1, <1>2 DEF ReadsReach
<1>4. ProbeReaches'
  BY DEF ProbeReaches, Waiting
<1>5. ModeReaches'
  BY <1>1 DEF ModeReaches
<1> QED
  BY <1>3, <1>4, <1>5

\* A step that asks for nothing.
LEMMA IdleFirst ==
    ASSUME UNCHANGED <<machine, drive, disk_data>>, pc' \in {"entry", "gpt_entry"}, Walking,
           ModeReaches
    PROVE  ReadsReach' /\ ProbeReaches' /\ ModeReaches'
<1>1. Disk' = Disk
  BY DEF Disk, Disks
<1>2. ReadsReach' /\ ProbeReaches'
  BY DEF ReadsReach, ProbeReaches, Waiting
<1>3. ModeReaches'
  BY <1>1 DEF ModeReaches
<1> QED
  BY <1>2, <1>3

\* The search leaves a disk on which nothing is ahead.
LEMMA LeaveFirst ==
    ASSUME machine \in Machines, drive \in Nat, UNCHANGED <<machine, faults>>,
           pc' = "drive", drive' = drive + 1,
           part_count' \in {0, part_count}, Tolerated => NoneAhead /\ PartsCounted
    PROVE  FirstInv'
<1>1. Wanted' = Wanted
  BY WantedStays
<1>2. SUFFICES ASSUME Tolerated' PROVE FirstWalk'
  BY FirstOngoing
<1>3. Tolerated
  BY <1>2 DEF Tolerated, Searchable, Disks
<1>4. Place' = 0
  BY DEF Place, Tabled, Listed
<1>5. NonePassed'
  <2>1. ASSUME NEW p \in Wanted PROVE p[1] > drive' \/ (p[1] = drive' /\ p[2] > 0)
    <3>1. p[1] > drive /\ p[1] \in Nat /\ p[2] \in Nat \ {0}
      BY <1>3, WantedTyped DEF NoneAhead
    <3> QED
      BY <3>1
  <2> QED
    BY <1>1, <1>4, <2>1 DEF NonePassed
<1>6. ReadsReach' /\ ProbeReaches' /\ ModeReaches' /\ TablesReached' /\ ListReached'
  BY DEF ReadsReach, ProbeReaches, ModeReaches, TablesReached, ListReached, Waiting, Walking, Tabled,
     Listed
<1>7. PartsCounted'
  BY <1>3 DEF PartsCounted, Tabled
<1> QED
  BY <1>5, <1>6, <1>7 DEF FirstWalk

\* The search ends without a partition when no disk is left.
LEMMA EndFirst ==
    ASSUME machine \in Machines, UNCHANGED <<machine, faults, answer>>, pc' = "done",
           answer = Nothing, Tolerated => Wanted = {}
    PROVE  FirstInv'
<1>1. Wanted' = Wanted
  BY WantedStays
<1>2. Tolerated' => Tolerated
  BY DEF Tolerated, Searchable, Disks
<1>3. FindsFirst'
  BY <1>1, <1>2 DEF FindsFirst, Nothing
<1> QED
  BY <1>3 DEF FirstInv

\* The next drive is tried; a disk of EFI is walked at once.
LEMMA NextDriveFirst ==
    ASSUME SearchInv, FoundInv, LinkInv, FirstInv, NextDrive
    PROVE  FirstInv'
<1>1. /\ pc = "drive" /\ machine \in Machines /\ drive \in Nat \ {0} /\ faults \in Nat
      /\ UNCHANGED <<machine, drive, disk_data, stack, gpt, i, entry, answer, faults>>
      /\ answer = Nothing /\ stack = << >>
  BY LinkParts, SizesAssumption
     DEF NextDrive, SearchInv, TypeOK, NoAnswer, FoundInv, StackKnown, Tabled
<1>2. machine.bios \in BOOLEAN /\ Len(Disks) \in Nat /\ DOMAIN Disks = 1..Len(Disks)
      /\ (machine.bios => Len(Disks) =< MaxDrives)
  BY <1>1, DisksTyped, MachinesAssumption, OrderAssumption DEF Disks
<1>3. Wanted' = Wanted /\ Disks' = Disks /\ Disk' = Disk
  BY <1>1, WantedStays DEF Disk, Disks
<1>4. Place = 0
  BY <1>1 DEF Place, Tabled, Listed
<1>5. Tolerated => FirstWalk
  BY <1>1, FirstParts
<1>6. Tolerated => \A p \in Wanted : p[1] >= drive
  <2>1. SUFFICES ASSUME Tolerated, NEW p \in Wanted PROVE p[1] >= drive
    OBVIOUS
  <2>2. p[1] > drive \/ p[1] = drive
    BY <1>5, <2>1 DEF FirstWalk, NonePassed
  <2> QED
    BY <1>1, <2>1, <2>2, WantedTyped
<1>7. CASE pc' = "done"
  <2>1. drive > Len(Disks)
    <3>1. drive > (IF machine.bios THEN MaxDrives ELSE Len(Disks))
      BY <1>7 DEF NextDrive
    <3> QED
      BY <1>1, <1>2, <3>1, SizesAssumption
  <2>2. Tolerated => Wanted = {}
    <3>1. SUFFICES ASSUME Tolerated, NEW p \in Wanted PROVE FALSE
      OBVIOUS
    <3>2. p[1] >= drive /\ p[1] \in 1..Len(Disks)
      BY <1>1, <1>6, <3>1, WantedTyped
    <3> QED
      BY <1>1, <1>2, <2>1, <3>2
  <2>3. UNCHANGED <<machine, faults, answer>>
    BY <1>1
  <2> QED
    BY <1>1, <1>7, <2>2, <2>3, EndFirst
<1>8. CASE machine.bios /\ pc' = "probe" /\ io' = Try(0, Chs(0, 0, 1), 1) /\ UNCHANGED part_count
  <2>1. SUFFICES ASSUME Tolerated' PROVE FirstWalk'
    BY <1>8, FirstOngoing
  <2>2. Tolerated
    BY <1>1, <2>1 DEF Tolerated, Searchable, Disks
  <2>3. Place' = 0
    BY <1>8 DEF Place, Tabled, Listed
  <2>4. NonePassed'
    BY <1>1, <1>3, <1>4, <1>5, <2>2, <2>3 DEF FirstWalk, NonePassed
  <2>5. ReadsReach' /\ ModeReaches' /\ TablesReached' /\ ListReached'
    BY <1>8 DEF ReadsReach, ModeReaches, TablesReached, ListReached, Waiting, Walking, Tabled, Listed
  <2>6. ProbeReaches'
    <3>1. io'.state = "chs" /\ io'.chs = Chs(0, 0, 1) /\ io'.tries = 1
      BY <1>8 DEF Try
    <3> QED
      BY <1>1, <1>8, <3>1 DEF ProbeReaches
  <2>7. PartsCounted'
    BY <1>1, <1>5, <1>8, <2>2 DEF FirstWalk, PartsCounted, Tabled
  <2> QED
    BY <2>4, <2>5, <2>6, <2>7 DEF FirstWalk
<1>9. CASE /\ ~machine.bios /\ drive =< Len(Disks)
           /\ io' = Request(disk_data, 0) /\ part_count' = 0 /\ pc' = "mbr"
  <2>1. SUFFICES ASSUME Tolerated' PROVE FirstWalk'
    BY <1>9, FirstOngoing
  <2>2. Tolerated
    BY <1>1, <2>1 DEF Tolerated, Searchable, Disks
  <2>3. Present
    BY <1>1, <1>2, <1>9 DEF Present
  <2>4. Place' = 0 /\ AskedAt' = 0 /\ pc' \in Waiting
    <3>1. pc' = "mbr" /\ stack' = << >>
      BY <1>1, <1>9
    <3>2. Place' = 0
      BY <3>1 DEF Place, Tabled, Listed
    <3>3. AskedAt' = 0
      BY <3>1 DEF AskedAt
    <3> QED
      BY <3>1, <3>2, <3>3 DEF Waiting
  <2>5. NonePassed'
    BY <1>1, <1>3, <1>4, <1>5, <2>2, <2>4 DEF FirstWalk, NonePassed
  <2>6. Asks(machine, Disk, 0)
    BY <1>1, <1>9, <2>3, OrderFacts DEF MbrOrder
  <2>7. ReadsReach' /\ ProbeReaches' /\ ModeReaches'
    <3>1. io' = Request(disk_data', 0) /\ faults' \in Nat
      BY <1>1, <1>9
    <3> QED
      BY <1>1, <1>9, <2>3, <2>4, <2>6, <3>1, RequestFirst
  <2>8. TablesReached' /\ ListReached'
    BY <1>1, <1>9 DEF TablesReached, ListReached, Listed
  <2>9. PartsCounted'
    BY <1>9, <2>4 DEF PartsCounted
  <2> QED
    BY <2>5, <2>7, <2>8, <2>9 DEF FirstWalk
<1>10. \/ pc' = "done"
       \/ machine.bios /\ pc' = "probe" /\ io' = Try(0, Chs(0, 0, 1), 1) /\ UNCHANGED part_count
       \/ /\ ~machine.bios /\ drive =< Len(Disks)
          /\ io' = Request(disk_data, 0) /\ part_count' = 0 /\ pc' = "mbr"
  <2>1. CASE drive > (IF machine.bios THEN MaxDrives ELSE Len(Disks))
    BY <2>1 DEF NextDrive
  <2>2. CASE ~(drive > (IF machine.bios THEN MaxDrives ELSE Len(Disks))) /\ machine.bios
    BY <2>2 DEF NextDrive
  <2>3. CASE ~(drive > (IF machine.bios THEN MaxDrives ELSE Len(Disks))) /\ ~machine.bios
    <3>1. drive =< Len(Disks)
      BY <1>1, <1>2, <2>3
    <3> QED
      BY <2>3, <3>1 DEF NextDrive
  <2> QED
    BY <2>1, <2>2, <2>3
<1> QED
  BY <1>7, <1>8, <1>9, <1>10

\* The first sector of a drive was read, or there is no such drive.
LEMMA ProbedFirst ==
    ASSUME SearchInv, FoundInv, LinkInv, FirstInv, Probed
    PROVE  FirstInv'
<1>1. /\ pc = "probe" /\ machine \in Machines /\ drive \in Nat \ {0} /\ faults \in Nat
      /\ UNCHANGED <<machine, stack, answer, faults>>
      /\ answer = Nothing /\ stack = << >> /\ part_count' = 0
      /\ io.state \in {"ok", "fail"} /\ (io.state = "ok" => Present)
  BY LinkParts, SizesAssumption
     DEF Probed, SearchInv, TypeOK, RequestsKnown, NoAnswer, FoundInv, StackKnown, Tabled
<1>2. Len(Disks) \in Nat /\ DOMAIN Disks = 1..Len(Disks)
  BY <1>1, DisksTyped
<1>3. Wanted' = Wanted /\ Disks' = Disks
  BY <1>1, WantedStays
<1>4. Place = 0
  BY <1>1 DEF Place, Tabled, Listed
<1>5. Tolerated => FirstWalk
  BY <1>1, FirstParts
<1>6. Tolerated => machine.bios /\ (io.state = "fail" => ~Present)
  BY <1>1, <1>5 DEF FirstWalk, ProbeReaches
<1>7. Tolerated => \A p \in Wanted : p[1] >= drive
  <2>1. SUFFICES ASSUME Tolerated, NEW p \in Wanted PROVE p[1] >= drive
    OBVIOUS
  <2>2. p[1] > drive \/ p[1] = drive
    BY <1>5, <2>1 DEF FirstWalk, NonePassed
  <2> QED
    BY <1>1, <2>1, <2>2, WantedTyped
<1>8. CASE io.state = "fail"
  <2>1. Tolerated => Wanted = {}
    <3>1. SUFFICES ASSUME Tolerated, NEW p \in Wanted PROVE FALSE
      OBVIOUS
    <3>2. p[1] >= drive /\ p[1] \in 1..Len(Disks) /\ drive \notin DOMAIN Disks
      BY <1>1, <1>6, <1>7, <1>8, <3>1, WantedTyped DEF Present
    <3> QED
      BY <1>1, <1>2, <3>2
  <2>2. UNCHANGED <<machine, faults, answer>> /\ pc' = "done"
    BY <1>1, <1>8 DEF Probed
  <2> QED
    BY <1>1, <2>1, <2>2, EndFirst
<1>9. CASE io.state = "ok" /\ disk_data' = FillData(Disk) /\ disk_data' = NoDisk
  <2>1. pc' = "drive" /\ drive' = drive + 1
    BY <1>9 DEF Probed
  <2>2. Tolerated => NoneAhead /\ PartsCounted
    <3>1. SUFFICES ASSUME Tolerated PROVE NoneAhead /\ PartsCounted
      OBVIOUS
    <3>2. drive \notin Searchable
      BY <1>6, <1>9, <3>1 DEF Searchable, Disk
    <3>3. ASSUME NEW p \in Wanted PROVE p[1] > drive
      <4>1. p[1] >= drive /\ p[1] \in Nat /\ p[1] \in Searchable
        BY <1>1, <1>7, <3>1, WantedTyped
      <4>2. p[1] /= drive
        BY <3>2, <4>1
      <4> QED
        BY <1>1, <4>1, <4>2
    <3> QED
      BY <1>5, <3>1, <3>3 DEF FirstWalk, NoneAhead
  <2> QED
    BY <1>1, <2>1, <2>2, LeaveFirst
<1>10. CASE /\ io.state = "ok" /\ disk_data' = FillData(Disk) /\ disk_data' /= NoDisk
            /\ pc' = "mbr" /\ io' = Request(disk_data', 0) /\ UNCHANGED drive
  <2>1. SUFFICES ASSUME Tolerated' PROVE FirstWalk'
    BY <1>10, FirstOngoing
  <2>2. Tolerated
    BY <1>1, <2>1 DEF Tolerated, Searchable, Disks
  <2>3. Present /\ machine.bios
    BY <1>1, <1>6, <1>10, <2>2
  <2>4. Place' = 0 /\ AskedAt' = 0 /\ pc' \in Waiting
    <3>1. pc' = "mbr" /\ stack' = << >>
      BY <1>1, <1>10
    <3>2. Place' = 0
      BY <3>1 DEF Place, Tabled, Listed
    <3>3. AskedAt' = 0
      BY <3>1 DEF AskedAt
    <3> QED
      BY <3>1, <3>2, <3>3 DEF Waiting
  <2>5. NonePassed'
    BY <1>3, <1>4, <1>5, <1>10, <2>2, <2>4 DEF FirstWalk, NonePassed
  <2>6. Asks(machine, Disk, 0)
    BY <1>1, <1>10, <2>3, OrderFacts DEF MbrOrder
  <2>7. ReadsReach' /\ ProbeReaches' /\ ModeReaches'
    <3>1. faults' \in Nat /\ UNCHANGED <<machine, drive>>
      BY <1>1, <1>10
    <3> QED
      BY <1>1, <1>10, <2>3, <2>4, <2>6, <3>1, RequestFirst
  <2>8. TablesReached' /\ ListReached'
    BY <1>1, <1>10 DEF TablesReached, ListReached, Listed
  <2>9. PartsCounted'
    BY <1>1, <2>4 DEF PartsCounted
  <2> QED
    BY <2>5, <2>7, <2>8, <2>9 DEF FirstWalk
<1>11. io.state = "ok" =>
        \/ disk_data' = FillData(Disk) /\ disk_data' = NoDisk
        \/ /\ disk_data' = FillData(Disk) /\ disk_data' /= NoDisk
           /\ pc' = "mbr" /\ io' = Request(disk_data', 0) /\ UNCHANGED drive
  BY DEF Probed
<1> QED
  BY <1>1, <1>8, <1>9, <1>10, <1>11

\* No partition up to a place on the disk in progress has the wanted UUID.
AheadOf(place) == \A p \in Wanted : p[1] > drive \/ (p[1] = drive /\ p[2] > place)

\* The table of partitions of the disk in progress is walked.
LEMMA TabledFacts ==
    ASSUME SearchInv, FoundInv, LinkInv, FirstInv, Tolerated, pc \in Tabled
    PROVE  /\ machine \in Machines /\ Present /\ Walking /\ drive \in Searchable
           /\ drive \in Nat \ {0} /\ part_count \in Nat /\ faults \in Nat
           /\ machine.bios \in BOOLEAN /\ machine.debug \in BOOLEAN
           /\ machine.bios => /\ FillData(Disk) /= NoDisk
                              /\ disk_data \in {FillData(Disk), [FillData(Disk) EXCEPT !.lba = FALSE]}
                              /\ FillData(Disk).lba /\ ~disk_data.lba => ChsReaches(Disk)
           /\ MbrOrder(machine, Disk) /\ GptOrder(machine, Disk)
           /\ FirstWalk /\ stack \in Seq(Frames) /\ Linked(stack)
<1>1. Walking /\ pc /= "done"
  BY DEF Walking, Tabled
<1>2. FirstWalk
  BY <1>1, FirstParts
<1>3. machine.bios => (FillData(Disk).lba /\ ~disk_data.lba => ChsReaches(Disk))
  BY <1>1, <1>2 DEF FirstWalk, ModeReaches
<1>4. drive \in Nat \ {0} /\ part_count \in Nat /\ faults \in Nat
  BY SizesAssumption DEF SearchInv, TypeOK
<1>5. stack \in Seq(Frames) /\ Linked(stack)
  BY Parts, LinkParts DEF CallsInv, CallLinks
<1> QED
  BY <1>1, <1>2, <1>3, <1>4, <1>5, WalkingFacts

\* What is assumed of the entry at which a call of check_mbr is.
LEMMA FrameOrder ==
    ASSUME SearchInv, FoundInv, LinkInv, FirstInv, Tolerated, pc \in Tabled, NEW n \in DOMAIN stack
    PROVE  LET f == stack[n]
           IN  /\ f \in Frames /\ f.lba \in Disk.tables /\ f.mbr = Sector(Disk, f.lba)
               /\ TableRead(machine, Disk, f.lba) /\ Reached(machine, Disk, f.lba)
               /\ Disk.before.mbr[f.lba] \in [1..5 -> Nat]
               /\ f.i =< 4 => TableOrder(machine, Disk, f.lba, f.i)
               /\ \A k \in 1..(f.i - 1) : f.mbr.entries[k].type /= "gpt"
               /\ n > 1 \/ pc /= "entry" => f.i =< 4 /\ Visited(f.mbr, f.i)
<1> DEFINE f == stack[n]
<1>1. stack \in Seq(Frames) /\ MbrOrder(machine, Disk) /\ FirstWalk
  BY TabledFacts
<1>2. f \in Frames
  BY <1>1
<1>3. TableKnown(f) /\ (n > 1 \/ pc /= "entry" => f.i =< 4 /\ Visited(f.mbr, f.i))
  BY DEF FoundInv, StackKnown, SearchInv, TypeOK
<1>4. Reached(machine, Disk, f.lba)
  BY <1>1 DEF FirstWalk, TablesReached
<1> HIDE DEF f
<1>5. f.lba \in Disk.tables /\ f.mbr = Sector(Disk, f.lba) /\ Signed(Disk, f.lba)
      /\ \A k \in 1..(f.i - 1) : f.mbr.entries[k].type /= "gpt"
  BY <1>3 DEF TableKnown
<1>6. TableRead(machine, Disk, f.lba)
  BY <1>4, <1>5 DEF TableRead
<1>7. Disk.before.mbr[f.lba] \in [1..5 -> Nat]
  BY <1>1, <1>5 DEF MbrOrder
<1>8. ASSUME f.i =< 4 PROVE TableOrder(machine, Disk, f.lba, f.i)
  <2>1. f.i \in 1..4
    BY <1>2, <1>8 DEF Frames
  <2> QED
    BY <1>1, <1>5, <1>6, <2>1 DEF MbrOrder
<1> QED
  BY <1>2, <1>3, <1>4, <1>5, <1>6, <1>7, <1>8 DEF f

\* A step of check_mbr, by the place that it comes to.
LEMMA TabledNext ==
    ASSUME UNCHANGED <<machine, drive, faults>>, machine \in Machines, drive \in Nat \ {0},
           part_count' \in Nat, pc' \in Tabled \cup {"gpt"},
           NEW place, Place' = place, AheadOf(place),
           ~machine.debug => part_count' = 0,
           machine.debug => NoneAhead \/ part_count' =< (IF pc' = "vbr" THEN place + 1 ELSE place),
           ReadsReach' /\ ProbeReaches' /\ ModeReaches' /\ TablesReached'
    PROVE  FirstInv'
<1>1. Wanted' = Wanted /\ NoneAhead' = NoneAhead
  BY WantedStays DEF NoneAhead
<1>2. NonePassed'
  BY <1>1 DEF NonePassed, AheadOf
<1>3. PartsCounted'
  BY <1>1 DEF PartsCounted
<1>4. ListReached'
  BY DEF ListReached, Tabled, Listed
<1>5. FirstWalk'
  BY <1>2, <1>3, <1>4 DEF FirstWalk
<1> QED
  BY <1>5, FirstOngoing DEF Tabled

\* If none is ahead, none is at whatever place.
LEMMA AheadAnywhere ==
    ASSUME NoneAhead, NEW place
    PROVE  AheadOf(place)
  BY DEF NoneAhead, AheadOf

\* A call returns.
LEMMA MbrReturnsFirst ==
    ASSUME SearchInv, FoundInv, LinkInv, FirstInv, Tolerated, pc \in Tabled,
           NEW callers \in Seq(Frames), MbrReturns(callers),
           \A n \in DOMAIN callers : Reached(machine, Disk, callers[n].lba),
           UNCHANGED <<machine, drive, disk_data, part_count, faults>>,
           NEW place \in Nat,
           place = IF callers = << >> THEN Disk.before.mbr[0][5]
                   ELSE Disk.before.mbr[callers[1].lba][callers[1].i + 1],
           AheadOf(place),
           ~machine.debug => part_count = 0,
           machine.debug => NoneAhead \/ part_count =< place
    PROVE  FirstInv'
<1>1. Disk' = Disk
  BY DEF Disk, Disks
<1>2. CASE callers = << >>
  <2>1. pc' = "gpt" /\ io' = Request(disk_data', 1) /\ stack' = << >>
    BY <1>2 DEF MbrReturns
  <2>2. Place' = place
    BY <1>1, <1>2, <2>1 DEF Place, Tabled, Listed
  <2>3. AskedAt' = 1 /\ pc' \in Waiting
    BY <2>1 DEF AskedAt, Waiting
  <2>4. ReadsReach' /\ ProbeReaches' /\ ModeReaches'
    <3>1. Asks(machine, Disk, 1) /\ faults' \in Nat
      BY TabledFacts DEF GptOrder
    <3> QED
      BY <2>1, <2>3, <3>1, TabledFacts, RequestFirst
  <2>5. TablesReached'
    BY <2>1 DEF TablesReached
  <2> QED
    BY <2>1, <2>2, <2>4, <2>5, TabledFacts, TabledNext
<1>3. CASE callers /= << >>
  <2>1. pc' = "entry" /\ stack' = Advance(callers) /\ stack' /= << >>
    BY <1>3, AdvanceFacts DEF MbrReturns
  <2>2. stack'[1].lba = callers[1].lba /\ stack'[1].i = callers[1].i + 1
    BY <1>3, <2>1, AdvanceFacts
  <2>3. Place' = place
    BY <1>1, <1>3, <2>1, <2>2 DEF Place, Tabled, Listed
  <2>4. ReadsReach' /\ ProbeReaches' /\ ModeReaches'
    BY <2>1, TabledFacts, IdleFirst DEF FirstWalk
  <2>5. TablesReached'
    <3>1. ASSUME NEW n \in DOMAIN stack' PROVE Reached(machine, Disk, stack'[n].lba)
      <4>1. DOMAIN stack' = DOMAIN callers /\ DOMAIN callers = 1..Len(callers)
            /\ Len(callers) \in Nat
        BY <1>3, <2>1, AdvanceFacts, FrameTyped
      <4>2. n = 1 \/ n \in 2..Len(callers)
        BY <4>1
      <4>3. stack'[n].lba = callers[n].lba
        BY <1>3, <2>1, <2>2, <4>2, AdvanceFacts
      <4> QED
        BY <4>1, <4>3
    <3> QED
      BY <1>1, <3>1 DEF TablesReached
  <2>6. pc' \in Tabled \cup {"gpt"} /\ pc' /= "vbr" /\ part_count' \in Nat
    BY <2>1, TabledFacts DEF Tabled
  <2> QED
    BY <2>3, <2>4, <2>5, <2>6, TabledFacts, TabledNext
<1> QED
  BY <1>2, <1>3

\* What FindsFirst says nothing of.
LEMMA NotTolerated ==
    ASSUME UNCHANGED <<machine, faults>>, ~Tolerated
    PROVE  FirstInv'
<1>1. ~Tolerated'
  BY DEF Tolerated, Searchable, Disks
<1> QED
  BY <1>1 DEF FirstInv, FindsFirst

\* The place in the tables is a number.
LEMMA PlaceTabled ==
    ASSUME SearchInv, FoundInv, LinkInv, FirstInv, Tolerated, pc \in Tabled
    PROVE  /\ Place \in Nat /\ AheadOf(Place)
           /\ stack = << >> => Place = 0
           /\ stack /= << >> => Place = Disk.before.mbr[stack[1].lba][stack[1].i]
<1>1. stack = << >> => Place = 0
  BY DEF Place, Tabled, Listed
<1>2. stack /= << >> => Place = Disk.before.mbr[stack[1].lba][stack[1].i]
  BY DEF Place, Tabled, Listed
<1>3. ASSUME stack /= << >> PROVE Disk.before.mbr[stack[1].lba][stack[1].i] \in Nat
  <2>1. 1 \in DOMAIN stack
    BY <1>3, TabledFacts, FrameTyped
  <2>2. stack[1] \in Frames /\ Disk.before.mbr[stack[1].lba] \in [1..5 -> Nat]
    BY <2>1, FrameOrder
  <2> QED
    BY <2>2 DEF Frames
<1>4. AheadOf(Place)
  BY TabledFacts DEF FirstWalk, NonePassed, AheadOf
<1> QED
  BY <1>1, <1>2, <1>3, <1>4

\* The entry of a call leads to a table, or to nothing.
LEMMA LinkOrder ==
    ASSUME SearchInv, FoundInv, LinkInv, FirstInv, Tolerated, pc \in Tabled, NEW n \in DOMAIN stack,
           stack[n].i =< 4, Visited(stack[n].mbr, stack[n].i),
           stack[n].mbr.entries[stack[n].i].type = "extended"
    PROVE  LET f == stack[n]
               to == Target(f.lba, f.mbr, f.i)
               here == Disk.before.mbr[f.lba][f.i]
               next == Disk.before.mbr[f.lba][f.i + 1]
           IN  /\ Asks(machine, Disk, to) /\ next \in Nat /\ here \in Nat
               /\ IF TableRead(machine, Disk, to)
                  THEN /\ to \in Disk.tables
                       /\ Disk.before.mbr[to][1] = here /\ next = Disk.before.mbr[to][5]
                  ELSE next = here
<1> DEFINE f == stack[n]
<1>1. f \in Frames /\ f.mbr = Sector(Disk, f.lba) /\ TableOrder(machine, Disk, f.lba, f.i)
      /\ Disk.before.mbr[f.lba] \in [1..5 -> Nat]
  BY FrameOrder
<1>2. f.i \in 1..4 /\ f.i + 1 \in 1..5
  BY <1>1 DEF Frames
<1>3. Disk.before.mbr[f.lba][f.i] \in Nat /\ Disk.before.mbr[f.lba][f.i + 1] \in Nat
  BY <1>1, <1>2
<1> QED
  BY <1>1, <1>3 DEF TableOrder

\* A table was read, or not.
LEMMA GotMbrFirst ==
    ASSUME SearchInv, FoundInv, LinkInv, FirstInv, GotMbr
    PROVE  FirstInv'
<1>1. /\ pc = "mbr" /\ pc \in Tabled /\ pc \in Waiting /\ io.state \in {"ok", "fail"}
      /\ UNCHANGED <<machine, drive, disk_data, part_count, gpt, i, entry, answer, faults>>
  BY DEF GotMbr, Tabled, Waiting
<1>2. SUFFICES ASSUME Tolerated PROVE FirstInv'
  BY <1>1, NotTolerated
<1>3. /\ machine \in Machines /\ drive \in Nat \ {0} /\ part_count \in Nat /\ FirstWalk
      /\ stack \in Seq(Frames) /\ Walking /\ MbrOrder(machine, Disk) /\ Disk' = Disk
  BY <1>1, <1>2, TabledFacts DEF Disk, Disks
<1>4. /\ Place \in Nat /\ AheadOf(Place)
      /\ stack = << >> => Place = 0
      /\ stack /= << >> => Place = Disk.before.mbr[stack[1].lba][stack[1].i]
  BY <1>1, <1>2, PlaceTabled
<1>5. /\ ~machine.debug => part_count = 0
      /\ machine.debug => NoneAhead \/ part_count =< Place
  BY <1>1, <1>3 DEF FirstWalk, PartsCounted
<1>6. /\ io.state = "ok" => Reached(machine, Disk, AskedAt)
      /\ io.state = "fail" => ~Reached(machine, Disk, AskedAt)
  BY <1>1, <1>3 DEF FirstWalk, ReadsReach
<1>7. io.state = "ok" => /\ io.lba = AskedAt /\ io.lba < Size(Disk)
                         /\ io.data = Sector(Disk, io.lba)
  BY <1>1, <1>3, LinkParts DEF AskLink, FoundInv, SectorKnown
<1>8. io.state = "ok" /\ io.data.aa55 <=> TableRead(machine, Disk, AskedAt)
  BY <1>1, <1>6, <1>7 DEF TableRead, Signed
<1>9. stack = << >> => AskedAt = 0
  BY <1>1 DEF AskedAt
<1>10. stack /= << >> =>
        /\ 1 \in DOMAIN stack /\ stack[1].i =< 4 /\ Visited(stack[1].mbr, stack[1].i)
        /\ stack[1].mbr.entries[stack[1].i].type = "extended"
        /\ AskedAt = Target(stack[1].lba, stack[1].mbr, stack[1].i)
  <2>1. SUFFICES ASSUME stack /= << >>
        PROVE  /\ 1 \in DOMAIN stack /\ stack[1].i =< 4 /\ Visited(stack[1].mbr, stack[1].i)
               /\ stack[1].mbr.entries[stack[1].i].type = "extended"
               /\ AskedAt = Target(stack[1].lba, stack[1].mbr, stack[1].i)
    OBVIOUS
  <2>2. 1 \in DOMAIN stack
    BY <1>3, <2>1, FrameTyped
  <2>3. stack[1].i =< 4 /\ Visited(stack[1].mbr, stack[1].i)
    BY <1>1, <1>2, <2>2, FrameOrder
  <2>4. stack[1].mbr.entries[stack[1].i].type = "extended"
    BY <1>1, <2>1, LinkParts DEF CallLinks
  <2>5. AskedAt = Target(stack[1].lba, stack[1].mbr, stack[1].i)
    BY <1>1, <2>1 DEF AskedAt
  <2> QED
    BY <2>2, <2>3, <2>4, <2>5
<1>11. CASE io.state = "ok" /\ io.data.aa55
  <2> DEFINE f == [lba |-> io.lba, i |-> 1, mbr |-> io.data]
  <2>1. stack' = <<f>> \o stack /\ pc' = "entry" /\ io' = NoIo
    BY <1>11 DEF GotMbr
  <2>2. f \in Frames /\ f.lba = AskedAt /\ f.i = 1
    BY <1>7, <1>11, IoFacts DEF Frames, SearchInv, TypeOK
  <2> HIDE DEF f
  <2>3. stack'[1] = f /\ stack' /= << >> /\ Len(stack') = Len(stack) + 1 /\ Len(stack) \in Nat
        /\ \A n \in 2..(Len(stack) + 1) : stack'[n] = stack[n - 1]
    BY <1>3, <2>1, <2>2, PushFacts
  <2>4. Place' = Disk.before.mbr[AskedAt][1]
    BY <1>3, <2>1, <2>2, <2>3 DEF Place, Tabled, Listed
  <2>5. Disk.before.mbr[AskedAt][1] = Place
    <3>1. CASE stack = << >>
      BY <1>3, <1>4, <1>9, <3>1 DEF MbrOrder
    <3>2. CASE stack /= << >>
      BY <1>1, <1>2, <1>4, <1>8, <1>10, <1>11, <3>2, LinkOrder
    <3> QED
      BY <3>1, <3>2
  <2>6. ReadsReach' /\ ProbeReaches' /\ ModeReaches'
    BY <1>1, <1>3, <2>1, IdleFirst DEF FirstWalk
  <2>7. TablesReached'
    <3>1. ASSUME NEW n \in DOMAIN stack' PROVE Reached(machine, Disk, stack'[n].lba)
      <4>1. stack' \in Seq(Frames) /\ DOMAIN stack' = 1..(Len(stack) + 1)
        BY <1>3, <2>1, <2>2, <2>3
      <4>2. CASE n = 1
        BY <1>6, <1>11, <2>2, <2>3, <4>2
      <4>3. CASE n /= 1
        <5>1. n \in 2..(Len(stack) + 1) /\ n - 1 \in DOMAIN stack
          BY <1>3, <2>3, <4>1, <4>3
        <5> QED
          BY <1>1, <1>3, <2>3, <5>1 DEF FirstWalk, TablesReached
      <4> QED
        BY <4>2, <4>3
    <3> QED
      BY <1>1, <1>3, <3>1 DEF TablesReached
  <2>8. pc' \in Tabled \cup {"gpt"} /\ pc' /= "vbr" /\ part_count' = part_count
    BY <1>1, <2>1 DEF Tabled
  <2> QED
    BY <1>1, <1>3, <1>4, <1>5, <2>4, <2>5, <2>6, <2>7, <2>8, TabledNext
<1>12. CASE ~(io.state = "ok" /\ io.data.aa55)
  <2>1. MbrReturns(stack)
    BY <1>12 DEF GotMbr
  <2>2. Place = IF stack = << >> THEN Disk.before.mbr[0][5]
                ELSE Disk.before.mbr[stack[1].lba][stack[1].i + 1]
    <3>1. CASE stack = << >>
      BY <1>3, <1>4, <1>8, <1>9, <1>12, <3>1 DEF MbrOrder
    <3>2. CASE stack /= << >>
      BY <1>1, <1>2, <1>4, <1>8, <1>10, <1>12, <3>2, LinkOrder
    <3> QED
      BY <3>1, <3>2
  <2>3. \A n \in DOMAIN stack : Reached(machine, Disk, stack[n].lba)
    BY <1>1, <1>3 DEF FirstWalk, TablesReached
  <2> DEFINE place == Place
  <2>4. /\ place \in Nat /\ AheadOf(place)
        /\ place = IF stack = << >> THEN Disk.before.mbr[0][5]
                   ELSE Disk.before.mbr[stack[1].lba][stack[1].i + 1]
        /\ (machine.debug => NoneAhead \/ part_count =< place)
    BY <1>4, <1>5, <2>2
  <2>5. UNCHANGED <<machine, drive, disk_data, part_count, faults>>
    BY <1>1
  <2> HIDE DEF place
  <2> QED
    BY <1>1, <1>2, <1>3, <1>5, <2>1, <2>3, <2>4, <2>5, MbrReturnsFirst
<1> QED
  BY <1>11, <1>12

\* The next partition is the first one that is wanted.
LEMMA FoundFirst ==
    ASSUME machine \in Machines, drive \in Nat, NEW place \in Nat, AheadOf(place),
           <<drive, place + 1>> \in Wanted,
           UNCHANGED machine, pc' = "done",
           answer'.partid = Disk.parts[place + 1].partid,
           answer'.partmap = Disk.parts[place + 1].partmap
    PROVE  FirstInv'
<1> DEFINE q == <<drive, place + 1>>
           Least(p) == \A r \in Wanted : p[1] < r[1] \/ (p[1] = r[1] /\ p[2] =< r[2])
<1>1. q[1] = drive /\ q[2] = place + 1 /\ q \in Wanted
  OBVIOUS
<1>2. Least(q)
  <2>1. SUFFICES ASSUME NEW r \in Wanted PROVE q[1] < r[1] \/ (q[1] = r[1] /\ q[2] =< r[2])
    OBVIOUS
  <2>2. r[1] \in Nat /\ r[2] \in Nat
    BY <2>1, WantedTyped
  <2>3. r[1] > drive \/ (r[1] = drive /\ r[2] > place)
    BY <2>1 DEF AheadOf
  <2> QED
    BY <1>1, <2>2, <2>3
<1>3. First = CHOOSE p \in Wanted : Least(p)
  BY DEF First
<1>4. First \in Wanted /\ Least(First)
  BY <1>1, <1>2, <1>3
<1>5. First = q
  <2>1. First[1] \in Nat /\ First[2] \in Nat /\ First = <<First[1], First[2]>>
    BY <1>4, WantedTyped
  <2>2. First[1] < q[1] \/ (First[1] = q[1] /\ First[2] =< q[2])
    BY <1>1, <1>4
  <2>3. q[1] < First[1] \/ (q[1] = First[1] /\ q[2] =< First[2])
    BY <1>2, <1>4
  <2>4. First[1] = q[1] /\ First[2] = q[2]
    BY <1>1, <2>1, <2>2, <2>3
  <2> QED
    BY <2>1, <2>4
<1>6. Wanted' = Wanted /\ Disks' = Disks
  BY WantedStays
<1>7. First' = First
  BY <1>6 DEF First
<1>8. Part(First)' = Disk.parts[place + 1]
  BY <1>1, <1>5, <1>6, <1>7 DEF Part, Disk
<1>9. FindsFirst'
  BY <1>1, <1>6, <1>8 DEF FindsFirst
<1> QED
  BY <1>9 DEF FirstInv

\* The boot sector at an entry is that of the next partition, or of none.
LEMMA EntryPassed ==
    ASSUME machine \in Machines, Present, drive \in Nat, drive \in Searchable,
           NEW here \in Nat, NEW next \in Nat, NEW lba, NEW partid, NEW partmap,
           Counts(machine, Disk, here, next, lba, partid, partmap), AheadOf(here),
           io.state \in {"ok", "fail"},
           io.state = "ok" => Reached(machine, Disk, lba) /\ io.data = Sector(Disk, lba),
           io.state = "fail" => ~Reached(machine, Disk, lba)
    PROVE  IF Matches
           THEN /\ <<drive, here + 1>> \in Wanted
                /\ Disk.parts[here + 1].partid = partid /\ Disk.parts[here + 1].partmap = partmap
           ELSE AheadOf(next)
<1> DEFINE known == Reached(machine, Disk, lba) /\ Uuid(Sector(Disk, lba)) /= Unknown
<1>1. machine.wanted /= Unknown
  BY TablesAssumption
<1>2. Len(Disk.parts) \in 0..MaxParts /\ DOMAIN Disk.parts = 1..Len(Disk.parts) /\ MaxParts \in Nat
  BY OrderFacts, SizesAssumption
<1>3. \/ next = here /\ ~known
      \/ /\ next = here + 1 /\ next =< Len(Disk.parts)
         /\ IF known THEN /\ Disk.parts[next].partid = partid /\ Disk.parts[next].partmap = partmap
                          /\ Disk.parts[next].uuid = Uuid(Sector(Disk, lba))
            ELSE Disk.parts[next].uuid = Unknown
  BY DEF Counts
<1>4. CASE Matches
  <2>1. known /\ Uuid(Sector(Disk, lba)) = machine.wanted
    BY <1>1, <1>4 DEF Matches
  <2>2. /\ next = here + 1 /\ next =< Len(Disk.parts)
        /\ Disk.parts[next].partid = partid /\ Disk.parts[next].partmap = partmap
        /\ Disk.parts[next].uuid = machine.wanted
    BY <1>3, <2>1
  <2>3. next \in 1..MaxParts /\ next \in DOMAIN Disk.parts
    BY <1>2, <2>2
  <2>4. <<drive, next>> \in Wanted
    BY <2>2, <2>3 DEF Wanted, Disk
  <2> QED
    BY <1>4, <2>2, <2>4
<1>5. CASE ~Matches
  <2>1. next = here + 1 => Disk.parts[next].uuid /= machine.wanted
    <3>1. known => Uuid(Sector(Disk, lba)) /= machine.wanted
      BY <1>5 DEF Matches
    <3> QED
      BY <1>1, <1>3, <3>1
  <2>2. ASSUME NEW p \in Wanted PROVE p[1] > drive \/ (p[1] = drive /\ p[2] > next)
    <3>1. /\ p[1] \in Nat /\ p[2] \in Nat
          /\ Disks[p[1]].parts[p[2]].uuid = machine.wanted
      BY <2>2, WantedTyped DEF Part
    <3>2. p[1] > drive \/ (p[1] = drive /\ p[2] > here)
      BY <2>2 DEF AheadOf
    <3>3. p[1] = drive /\ next = here + 1 => p[2] /= next
      BY <2>1, <3>1 DEF Disk
    <3> QED
      BY <1>3, <3>1, <3>2, <3>3
  <2> QED
    BY <1>5, <2>2 DEF AheadOf
<1> QED
  BY <1>4, <1>5

\* Past all partitions of the disk none is ahead.
LEMMA AllPassed ==
    ASSUME machine \in Machines, Present, drive \in Nat, NEW place \in Nat,
           place >= Len(Disk.parts), AheadOf(place)
    PROVE  NoneAhead
<1>1. Len(Disk.parts) \in Nat /\ DOMAIN Disk.parts = 1..Len(Disk.parts)
  BY OrderFacts, SizesAssumption
<1>2. ASSUME NEW p \in Wanted PROVE p[1] > drive
  <2>1. p[1] > drive \/ (p[1] = drive /\ p[2] > place)
    BY <1>2 DEF AheadOf
  <2>2. p[2] \in DOMAIN Disks[p[1]].parts /\ p[2] \in Nat
    BY <1>2, WantedTyped
  <2>3. p[1] = drive => p[2] =< Len(Disk.parts)
    BY <1>1, <2>2 DEF Disk
  <2> QED
    BY <1>1, <2>1, <2>2, <2>3
<1> QED
  BY <1>2 DEF NoneAhead

\* The end of a table is where its caller goes on.
LEMMA PopOrder ==
    ASSUME SearchInv, FoundInv, LinkInv, FirstInv, Tolerated, pc \in Tabled, stack /= << >>
    PROVE  Disk.before.mbr[stack[1].lba][5] =
              IF Tail(stack) = << >> THEN Disk.before.mbr[0][5]
              ELSE Disk.before.mbr[Tail(stack)[1].lba][Tail(stack)[1].i + 1]
<1>1. stack \in Seq(Frames) /\ Linked(stack)
  BY TabledFacts
<1>2. /\ Len(stack) \in Nat \ {0} /\ Len(Tail(stack)) = Len(stack) - 1
      /\ Tail(stack) \in Seq(Frames) /\ 1 \in DOMAIN stack /\ DOMAIN stack = 1..Len(stack)
      /\ \A n \in 1..(Len(stack) - 1) : Tail(stack)[n] = stack[n + 1]
  BY <1>1, TailFacts, FrameTyped
<1>3. CASE Tail(stack) = << >>
  <2>1. Len(stack) = 1
    BY <1>2, <1>3
  <2>2. stack[1].lba = 0
    BY <1>1, <2>1 DEF Linked
  <2> QED
    BY <1>3, <2>2
<1>4. CASE Tail(stack) /= << >>
  <2>1. Len(stack) >= 2
    BY <1>2, <1>4, FrameTyped
  <2>2. Tail(stack)[1] = stack[2] /\ 2 \in DOMAIN stack /\ 2 \in 2..Len(stack)
    BY <1>2, <2>1
  <2>3. Leads(stack[2], stack[1].lba)
    BY <1>1, <2>2 DEF Linked
  <2>4. stack[2].i =< 4 /\ Visited(stack[2].mbr, stack[2].i)
    BY <2>2, FrameOrder
  <2>5. TableRead(machine, Disk, stack[1].lba)
    BY <1>2, FrameOrder
  <2>6. Disk.before.mbr[stack[2].lba][stack[2].i + 1] = Disk.before.mbr[stack[1].lba][5]
    BY <2>2, <2>3, <2>4, <2>5, LinkOrder DEF Leads
  <2> QED
    BY <1>4, <2>2, <2>6
<1> QED
  BY <1>3, <1>4

\* One iteration over a table.
LEMMA CheckEntryFirst ==
    ASSUME SearchInv, FoundInv, LinkInv, FirstInv, CheckEntry
    PROVE  FirstInv'
<1> DEFINE top == Head(stack)
           e == top.mbr.entries[top.i]
           lba == (top.lba + e.start) % U32Mod
           before == Disk.before.mbr[top.lba]
<1>1. /\ pc = "entry" /\ pc \in Tabled
      /\ UNCHANGED <<machine, drive, disk_data, gpt, i, entry, answer, faults>>
  BY DEF CheckEntry, Tabled
<1>2. SUFFICES ASSUME Tolerated PROVE FirstInv'
  BY <1>1, NotTolerated
<1>3. /\ machine \in Machines /\ Present /\ drive \in Nat \ {0} /\ part_count \in Nat
      /\ faults \in Nat /\ FirstWalk /\ machine.debug \in BOOLEAN
      /\ machine.bios => /\ FillData(Disk) /= NoDisk
                         /\ disk_data \in {FillData(Disk), [FillData(Disk) EXCEPT !.lba = FALSE]}
                         /\ FillData(Disk).lba /\ ~disk_data.lba => ChsReaches(Disk)
      /\ stack \in Seq(Frames) /\ Walking /\ MbrOrder(machine, Disk)
  BY <1>1, <1>2, TabledFacts
<1>4. stack /= << >>
  BY <1>1 DEF SearchInv, TypeOK
<1>5. 1 \in DOMAIN stack /\ top = stack[1]
  BY <1>3, <1>4, FrameTyped, TailFacts
<1>6. /\ top \in Frames /\ top.mbr = Sector(Disk, top.lba) /\ before \in [1..5 -> Nat]
      /\ top.i =< 4 => TableOrder(machine, Disk, top.lba, top.i)
      /\ \A k \in 1..(top.i - 1) : top.mbr.entries[k].type /= "gpt"
  BY <1>1, <1>2, <1>5, FrameOrder
<1>7. Place \in Nat /\ AheadOf(Place) /\ Place = before[top.i]
  BY <1>1, <1>2, <1>4, <1>5, PlaceTabled
<1>8. /\ ~machine.debug => part_count = 0
      /\ machine.debug => NoneAhead \/ part_count =< Place
  BY <1>1, <1>3 DEF FirstWalk, PartsCounted
<1>9. Disk' = Disk /\ (\A n \in DOMAIN stack : Reached(machine, Disk, stack[n].lba))
  BY <1>1, <1>3 DEF FirstWalk, TablesReached, Disk, Disks
<1>10. top.i \in 1..5 /\ top.lba \in Nat /\ top.mbr \in Contents
  BY <1>6 DEF Frames
<1>11. CASE /\ top.i > 4 \/ TooMany \/ e.type = "gpt"
            /\ MbrReturns(Tail(stack)) /\ UNCHANGED part_count
  <2> DEFINE place == before[5]
  <2>1. place \in Nat
    BY <1>6
  <2>2. place = IF Tail(stack) = << >> THEN Disk.before.mbr[0][5]
                ELSE Disk.before.mbr[Tail(stack)[1].lba][Tail(stack)[1].i + 1]
    BY <1>1, <1>2, <1>4, <1>5, PopOrder
  <2>3. (place = Place) \/ NoneAhead
    <3>1. CASE top.i > 4
      BY <1>7, <1>10, <3>1
    <3>2. CASE top.i =< 4 /\ e.type = "gpt"
      BY <1>6, <1>7, <3>2 DEF TableOrder
    <3>3. CASE TooMany
      <4>1. part_count >= PartLimit /\ PartLimit > 0 /\ PartLimit \in Nat
        BY <3>3, SizesAssumption, OrderAssumption DEF TooMany
      <4>2. machine.debug
        BY <1>3, <1>8, <4>1
      <4>3. NoneAhead \/ Place >= PartLimit
        BY <1>3, <1>7, <1>8, <4>1, <4>2
      <4>4. Len(Disk.parts) =< PartLimit /\ Len(Disk.parts) \in Nat
        BY <1>3, <4>2, OrderFacts, SizesAssumption
      <4>5. Place >= PartLimit => NoneAhead
        <5> DEFINE here == Place
        <5>1. here \in Nat /\ AheadOf(here)
          BY <1>7
        <5>2. here >= PartLimit => here >= Len(Disk.parts)
          BY <4>1, <4>4, <5>1
        <5> HIDE DEF here
        <5>3. here >= PartLimit => NoneAhead
          BY <1>3, <5>1, <5>2, AllPassed
        <5> QED
          BY <5>3 DEF here
      <4> QED
        BY <4>3, <4>5
    <3> QED
      BY <1>10, <1>11, <3>1, <3>2, <3>3
  <2> HIDE DEF place
  <2>4. AheadOf(place) /\ (machine.debug => NoneAhead \/ part_count =< place)
    <3>1. CASE place = Place
      BY <1>7, <1>8, <3>1
    <3>2. CASE NoneAhead
      BY <3>2, AheadAnywhere
    <3> QED
      BY <2>3, <3>1, <3>2
  <2>5. /\ Tail(stack) \in Seq(Frames)
        /\ \A n \in DOMAIN Tail(stack) : Reached(machine, Disk, Tail(stack)[n].lba)
    <3>1. /\ Len(stack) \in Nat \ {0} /\ Len(Tail(stack)) = Len(stack) - 1
          /\ Tail(stack) \in Seq(Frames) /\ DOMAIN stack = 1..Len(stack)
          /\ \A n \in 1..(Len(stack) - 1) : Tail(stack)[n] = stack[n + 1]
      BY <1>3, <1>4, TailFacts, FrameTyped
    <3>2. ASSUME NEW n \in DOMAIN Tail(stack) PROVE Reached(machine, Disk, Tail(stack)[n].lba)
      <4>1. n \in 1..(Len(stack) - 1)
        BY <3>1
      <4>2. Tail(stack)[n] = stack[n + 1] /\ n + 1 \in DOMAIN stack
        BY <3>1, <4>1
      <4> QED
        BY <1>9, <4>2
    <3> QED
      BY <3>1, <3>2
  <2>6. UNCHANGED <<machine, drive, disk_data, part_count, faults>>
    BY <1>1, <1>11
  <2>7. MbrReturns(Tail(stack))
    BY <1>11
  <2> QED
    BY <1>1, <1>2, <1>8, <2>1, <2>2, <2>4, <2>5, <2>6, <2>7, MbrReturnsFirst DEF place
<1>12. CASE /\ top.i =< 4 /\ e.type /= "gpt" /\ (e.length = 0 \/ e.type = "none")
            /\ stack' = Advance(stack) /\ UNCHANGED <<pc, io, part_count>>
  <2> DEFINE place == before[top.i + 1]
  <2>1. ~Visited(top.mbr, top.i)
    BY <1>12 DEF Visited
  <2>2. place = Place
    BY <1>6, <1>7, <1>12, <2>1 DEF TableOrder
  <2>3. /\ stack' /= << >> /\ stack'[1].lba = top.lba /\ stack'[1].i = top.i + 1
        /\ DOMAIN stack' = DOMAIN stack /\ DOMAIN stack = 1..Len(stack) /\ Len(stack) \in Nat
        /\ \A n \in 2..Len(stack) : stack'[n] = stack[n]
    BY <1>3, <1>4, <1>5, <1>12, AdvanceFacts, FrameTyped
  <2>4. pc' = "entry" /\ pc' \in Tabled
    BY <1>1, <1>12
  <2>5. Place' = place
    BY <1>9, <2>3, <2>4 DEF Place, Tabled, Listed
  <2>6. ReadsReach' /\ ProbeReaches' /\ ModeReaches'
    BY <1>1, <1>3, <2>4, IdleFirst DEF FirstWalk
  <2>7. TablesReached'
    <3>1. ASSUME NEW n \in DOMAIN stack' PROVE Reached(machine, Disk, stack'[n].lba)
      <4>1. n = 1 \/ n \in 2..Len(stack)
        BY <2>3
      <4>2. stack'[n].lba = stack[n].lba
        BY <1>5, <2>3, <4>1
      <4> QED
        BY <1>9, <2>3, <4>2
    <3> QED
      BY <1>1, <1>9, <3>1 DEF TablesReached
  <2> HIDE DEF place
  <2>8. AheadOf(place) /\ part_count' = part_count /\ pc' /= "vbr"
    BY <1>7, <1>12, <2>2, <2>4
  <2>9. machine.debug => NoneAhead \/ part_count' =< place
    BY <1>8, <2>2, <2>8
  <2> QED
    BY <1>1, <1>3, <1>8, <2>4, <2>5, <2>6, <2>7, <2>8, <2>9, TabledNext
<1>13. CASE /\ top.i =< 4 /\ e.type /= "gpt" /\ ~(e.length = 0 \/ e.type = "none")
            /\ io' = Request(disk_data, lba)
            /\ pc' = IF e.type = "extended" THEN "mbr" ELSE "vbr"
            /\ part_count' = IF e.type /= "extended" /\ machine.debug
                             THEN part_count + 1 ELSE part_count
            /\ UNCHANGED stack
  <2>1. Visited(top.mbr, top.i)
    <3>1. ASSUME NEW k \in 1..top.i PROVE top.mbr.entries[k].type /= "gpt"
      <4>1. k = top.i \/ k \in 1..(top.i - 1)
        BY <1>10
      <4> QED
        BY <1>6, <1>13, <4>1
    <3> QED
      BY <1>13, <3>1 DEF Visited
  <2>2. lba = Target(top.lba, top.mbr, top.i)
    BY DEF Target
  <2>3. Asks(machine, Disk, lba)
    BY <1>6, <1>13, <2>1, <2>2 DEF TableOrder
  <2>4. pc' \in {"mbr", "vbr"} /\ pc' \in Waiting /\ pc' \in Tabled /\ stack' = stack
    BY <1>13 DEF Waiting, Tabled
  <2>5. lba \in Nat
    <3>1. e.start \in Nat
      <4>1. top.mbr.entries \in [1..4 -> MbrEntries] /\ top.i \in 1..4
        BY <1>10, <1>13 DEF Contents
      <4>2. e \in MbrEntries
        BY <4>1
      <4> QED
        BY <4>2 DEF MbrEntries
    <3>2. top.lba + e.start \in Nat
      BY <1>10, <3>1
    <3> QED
      BY <3>2, DivMod, SizesAssumption
  <2>6. AskedAt' = lba
    <3>1. AskedAt' = Target(stack'[1].lba, stack'[1].mbr, stack'[1].i)
      BY <1>4, <2>4 DEF AskedAt
    <3> QED
      BY <1>5, <2>2, <2>4, <3>1
  <2>7. io' = Request(disk_data', lba)
    BY <1>1, <1>13
  <2> HIDE DEF lba
  <2>8. ReadsReach' /\ ProbeReaches' /\ ModeReaches'
    BY <1>1, <1>3, <2>3, <2>4, <2>5, <2>6, <2>7, RequestFirst
  <2>9. TablesReached'
    BY <1>1, <1>9, <2>4 DEF TablesReached
  <2>10. Place' = Place
    <3>1. Place' = Disk.before.mbr[stack[1].lba][stack[1].i]
      BY <1>4, <1>9, <2>4 DEF Place, Tabled, Listed
    <3> QED
      BY <1>5, <1>7, <3>1
  <2> DEFINE place == Place
  <2>11. place \in Nat /\ AheadOf(place) /\ Place' = place
    BY <1>7, <2>10
  <2>12. /\ part_count' \in Nat /\ (~machine.debug => part_count' = 0)
         /\ part_count' \in {part_count, part_count + 1}
         /\ pc' /= "vbr" => part_count' = part_count
    BY <1>3, <1>8, <1>13
  <2>13. machine.debug => NoneAhead \/ part_count =< place
    BY <1>8
  <2> HIDE DEF place
  <2>14. machine.debug => NoneAhead \/ part_count' =< (IF pc' = "vbr" THEN place + 1 ELSE place)
    BY <1>3, <2>11, <2>12, <2>13
  <2>15. pc' \in Tabled \cup {"gpt"}
    BY <2>4
  <2> QED
    BY <1>1, <1>3, <2>8, <2>9, <2>11, <2>12, <2>14, <2>15, TabledNext
<1>14. top.i =< 4 \/ top.i > 4
  BY <1>10
<1>15. \/ /\ top.i > 4 \/ TooMany \/ e.type = "gpt"
          /\ MbrReturns(Tail(stack)) /\ UNCHANGED part_count
       \/ /\ top.i =< 4 /\ e.type /= "gpt" /\ (e.length = 0 \/ e.type = "none")
          /\ stack' = Advance(stack) /\ UNCHANGED <<pc, io, part_count>>
       \/ /\ top.i =< 4 /\ e.type /= "gpt" /\ ~(e.length = 0 \/ e.type = "none")
          /\ io' = Request(disk_data, lba)
          /\ pc' = IF e.type = "extended" THEN "mbr" ELSE "vbr"
          /\ part_count' = IF e.type /= "extended" /\ machine.debug
                           THEN part_count + 1 ELSE part_count
          /\ UNCHANGED stack
  <2> DEFINE ends == top.i > 4 \/ TooMany \/ e.type = "gpt"
             skips == e.length = 0 \/ e.type = "none"
             pops == MbrReturns(Tail(stack)) /\ UNCHANGED part_count
             moves == stack' = Advance(stack) /\ UNCHANGED <<pc, io, part_count>>
             asks == /\ io' = Request(disk_data, lba)
                     /\ pc' = IF e.type = "extended" THEN "mbr" ELSE "vbr"
                     /\ part_count' = IF e.type /= "extended" /\ machine.debug
                                      THEN part_count + 1 ELSE part_count
                     /\ UNCHANGED stack
  <2>1. IF ends THEN pops ELSE IF skips THEN moves ELSE asks
    BY DEF CheckEntry
  <2>2. ~ends => top.i =< 4 /\ e.type /= "gpt"
    BY <1>14
  <2> HIDE DEF pops, moves, asks, skips
  <2>3. (ends /\ pops) \/ (~ends /\ skips /\ moves) \/ (~ends /\ ~skips /\ asks)
    BY <2>1
  <2> QED
    BY <2>2, <2>3 DEF pops, moves, asks, skips
<1> QED
  <2> HIDE DEF lba, e
  <2> QED
    BY <1>11, <1>12, <1>13, <1>15 DEF lba, e

\* The boot sector of a partition was read, or not.
LEMMA GotVbrFirst ==
    ASSUME SearchInv, FoundInv, LinkInv, FirstInv, GotVbr
    PROVE  FirstInv'
<1> DEFINE top == Head(stack)
           here == Place
           next == Disk.before.mbr[top.lba][top.i + 1]
           lba == Target(top.lba, top.mbr, top.i)
<1>1. /\ pc = "vbr" /\ pc \in Tabled /\ pc \in Waiting /\ io.state \in {"ok", "fail"} /\ io' = NoIo
      /\ UNCHANGED <<machine, drive, disk_data, part_count, gpt, i, entry, faults>>
  BY DEF GotVbr, Tabled, Waiting
<1>2. SUFFICES ASSUME Tolerated PROVE FirstInv'
  BY <1>1, NotTolerated
<1>3. /\ machine \in Machines /\ Present /\ drive \in Nat \ {0} /\ drive \in Searchable
      /\ part_count \in Nat /\ FirstWalk /\ machine.debug \in BOOLEAN
      /\ stack \in Seq(Frames) /\ Walking
  BY <1>1, <1>2, TabledFacts
<1>4. stack /= << >> /\ 1 \in DOMAIN stack /\ top = stack[1]
  <2>1. stack /= << >>
    BY <1>1 DEF SearchInv, TypeOK
  <2> QED
    BY <1>3, <2>1, FrameTyped, TailFacts
<1>5. /\ top \in Frames /\ top.mbr = Sector(Disk, top.lba)
      /\ Disk.before.mbr[top.lba] \in [1..5 -> Nat]
      /\ TableOrder(machine, Disk, top.lba, top.i) /\ top.i =< 4 /\ Visited(top.mbr, top.i)
  BY <1>1, <1>2, <1>4, FrameOrder
<1>6. top.mbr.entries[top.i].type /= "extended"
  BY <1>1, <1>4 DEF FoundInv, StackKnown
<1>7. here \in Nat /\ AheadOf(here) /\ here = Disk.before.mbr[top.lba][top.i]
  BY <1>1, <1>2, <1>4, PlaceTabled
<1>8. next \in Nat /\ top.i \in 1..4
  <2>1. top.i + 1 \in 1..5 /\ top.i \in 1..4
    BY <1>5 DEF Frames
  <2> QED
    BY <1>5, <2>1
<1>9. /\ Counts(machine, Disk, here, next, lba, PartId(top), "msdos")
      /\ machine.debug /\ Disk.parts /= << >> => next = here + 1
  <2> DEFINE mbr == Sector(Disk, top.lba)
  <2>1. Visited(mbr, top.i) /\ mbr.entries[top.i].type /= "extended"
    BY <1>5, <1>6
  <2>2. /\ Counts(machine, Disk, Disk.before.mbr[top.lba][top.i], next, Target(top.lba, mbr, top.i),
                  top.lba + mbr.entries[top.i].start, "msdos")
        /\ machine.debug /\ Disk.parts /= << >> => next = Disk.before.mbr[top.lba][top.i] + 1
    BY <1>5, <2>1 DEF TableOrder
  <2>3. Target(top.lba, mbr, top.i) = lba /\ top.lba + mbr.entries[top.i].start = PartId(top)
    BY <1>5 DEF PartId
  <2> QED
    BY <1>7, <2>2, <2>3
<1>10. AskedAt = lba
  BY <1>1, <1>4 DEF AskedAt
<1>11. /\ io.state = "ok" => Reached(machine, Disk, lba) /\ io.data = Sector(Disk, lba)
       /\ io.state = "fail" => ~Reached(machine, Disk, lba)
  <2>1. /\ io.state = "ok" => Reached(machine, Disk, AskedAt)
        /\ io.state = "fail" => ~Reached(machine, Disk, AskedAt)
    BY <1>1, <1>3 DEF FirstWalk, ReadsReach
  <2>2. io.state = "ok" => io.lba = AskedAt /\ io.data = Sector(Disk, io.lba)
    BY <1>1, <1>3, LinkParts DEF AskLink, FoundInv, SectorKnown
  <2> QED
    BY <1>10, <2>1, <2>2
<1>12. /\ ~machine.debug => part_count = 0
       /\ machine.debug => NoneAhead \/ part_count =< here + 1
  BY <1>1, <1>3 DEF FirstWalk, PartsCounted
<1> HIDE DEF here, lba
<1> DEFINE id == PartId(top)
<1>13. IF Matches
       THEN /\ <<drive, here + 1>> \in Wanted
            /\ Disk.parts[here + 1].partid = id /\ Disk.parts[here + 1].partmap = "msdos"
       ELSE AheadOf(next)
  <2>1. Counts(machine, Disk, here, next, lba, id, "msdos")
    BY <1>9
  <2> HIDE DEF id, next
  <2> QED
    BY <1>1, <1>3, <1>7, <1>8, <1>11, <2>1, EntryPassed
<1>14. CASE Matches
  <2>1. answer' = [partid |-> id, partmap |-> "msdos", diskid |-> top.mbr.id] /\ pc' = "done"
    BY <1>14 DEF GotVbr
  <2>2. answer'.partid = Disk.parts[here + 1].partid /\ answer'.partmap = Disk.parts[here + 1].partmap
    BY <1>13, <1>14, <2>1
  <2> QED
    BY <1>1, <1>3, <1>7, <1>13, <1>14, <2>1, <2>2, FoundFirst
<1>15. CASE ~Matches
  <2>1. stack' = Advance(stack) /\ pc' = "entry"
    BY <1>15 DEF GotVbr
  <2>2. /\ stack' /= << >> /\ stack'[1].lba = top.lba /\ stack'[1].i = top.i + 1
        /\ DOMAIN stack' = DOMAIN stack /\ DOMAIN stack = 1..Len(stack) /\ Len(stack) \in Nat
        /\ \A n \in 2..Len(stack) : stack'[n] = stack[n]
    BY <1>3, <1>4, <2>1, AdvanceFacts, FrameTyped
  <2>3. Disk' = Disk
    BY <1>1 DEF Disk, Disks
  <2>4. Place' = next
    BY <2>1, <2>2, <2>3 DEF Place, Tabled, Listed
  <2>5. ReadsReach' /\ ProbeReaches' /\ ModeReaches'
    BY <1>1, <1>3, <2>1, IdleFirst DEF FirstWalk
  <2>6. TablesReached'
    <3>1. \A n \in DOMAIN stack : Reached(machine, Disk, stack[n].lba)
      BY <1>1, <1>3 DEF FirstWalk, TablesReached
    <3>2. ASSUME NEW n \in DOMAIN stack' PROVE Reached(machine, Disk, stack'[n].lba)
      <4>1. n = 1 \/ n \in 2..Len(stack)
        BY <2>2
      <4>2. stack'[n].lba = stack[n].lba
        BY <1>4, <2>2, <4>1
      <4> QED
        BY <2>2, <3>1, <4>2
    <3> QED
      BY <1>1, <2>3, <3>2 DEF TablesReached
  <2>7. machine.debug => NoneAhead \/ part_count =< next
    <3>1. CASE Disk.parts = << >>
      <4>1. here >= Len(Disk.parts)
        BY <1>7, <3>1
      <4> QED
        BY <1>3, <1>7, <4>1, AllPassed
    <3>2. CASE Disk.parts /= << >>
      BY <1>9, <1>12, <3>2
    <3> QED
      BY <3>1, <3>2
  <2>8. part_count' = part_count /\ pc' \in Tabled \cup {"gpt"} /\ pc' /= "vbr"
    BY <1>1, <2>1 DEF Tabled
  <2> HIDE DEF next
  <2> QED
    BY <1>1, <1>3, <1>12, <1>13, <1>15, <2>4, <2>5, <2>6, <2>7, <2>8, TabledNext
<1> QED
  BY <1>14, <1>15

\* The GPT of the disk in progress is walked.
LEMMA GptWalkFacts ==
    ASSUME SearchInv, FoundInv, LinkInv, FirstInv, Tolerated, pc \in Listed \cup {"gpt"}
    PROVE  /\ machine \in Machines /\ Present /\ Walking /\ drive \in Searchable
           /\ drive \in Nat \ {0} /\ faults \in Nat /\ part_count \in Nat
           /\ machine.bios \in BOOLEAN
           /\ machine.bios => /\ FillData(Disk) /= NoDisk
                              /\ disk_data \in {FillData(Disk), [FillData(Disk) EXCEPT !.lba = FALSE]}
                              /\ FillData(Disk).lba /\ ~disk_data.lba => ChsReaches(Disk)
           /\ MbrOrder(machine, Disk) /\ GptOrder(machine, Disk)
           /\ FirstWalk /\ AheadOf(Place) /\ PartsCounted
<1>1. Walking /\ pc /= "done"
  BY DEF Walking, Listed
<1>2. FirstWalk
  BY <1>1, FirstParts
<1>3. machine.bios => (FillData(Disk).lba /\ ~disk_data.lba => ChsReaches(Disk))
  BY <1>1, <1>2 DEF FirstWalk, ModeReaches
<1>4. drive \in Nat \ {0} /\ part_count \in Nat /\ faults \in Nat
  BY SizesAssumption DEF SearchInv, TypeOK
<1>5. AheadOf(Place) /\ PartsCounted
  BY <1>2 DEF FirstWalk, NonePassed, AheadOf
<1> QED
  BY <1>1, <1>2, <1>3, <1>4, <1>5, WalkingFacts

\* What a read that has ended says of the sector.
LEMMA ReadEnds ==
    ASSUME FirstWalk, pc \in Waiting
    PROVE  /\ io.state = "ok" => Reached(machine, Disk, AskedAt)
           /\ io.state = "fail" => ~Reached(machine, Disk, AskedAt)
  BY DEF FirstWalk, ReadsReach

\* The GPT is there, and its entries list the partitions in their order.
LEMMA ListedOrder ==
    ASSUME SearchInv, FoundInv, LinkInv, FirstInv, Tolerated, pc \in Listed
    PROVE  LET b == Disk.before.gpt
               at == LbaIn(gpt, i)
               e == EntryIn(Disk, i)
           IN  /\ gpt = Header(Disk) /\ gpt.maxpart \in Nat /\ i \in Nat /\ Place = b[i]
               /\ EntryLba = at /\ at \in Nat /\ stack = << >>
               /\ b \in [0..gpt.maxpart -> Nat] /\ b[gpt.maxpart] >= Len(Disk.parts)
               /\ i < gpt.maxpart =>
                    /\ i \in 0..gpt.maxpart /\ i + 1 \in 0..gpt.maxpart
                    /\ b[i] \in Nat /\ b[i + 1] \in Nat
                    /\ Asks(machine, Disk, at) /\ Asks(machine, Disk, at + 1)
                    /\ IF Reached(machine, Disk, at) /\ Reached(machine, Disk, at + 1)
                       THEN IF e.type = "none" THEN b[i + 1] = b[i]
                            ELSE /\ Asks(machine, Disk, e.start)
                                 /\ Counts(machine, Disk, b[i], b[i + 1], e.start, e.guid, "gpt")
                       ELSE b[i] >= Len(Disk.parts)
<1> DEFINE g == Header(Disk)
           b == Disk.before.gpt
<1>1. /\ HasGpt(Disk) /\ gpt = g /\ gpt.maxpart \in Nat /\ i \in Nat
      /\ EntryLba = LbaIn(gpt, i) /\ EntryLba \in Nat /\ stack = << >>
  BY GptFacts
<1>2. Reached(machine, Disk, 1)
  BY GptWalkFacts DEF FirstWalk, ListReached
<1>3. Place = b[i]
  BY DEF Place, Tabled, Listed
<1>4. /\ b \in [0..g.maxpart -> Nat] /\ b[g.maxpart] >= Len(Disk.parts)
      /\ \A k \in 0..(g.maxpart - 1) :
            LET at == LbaIn(g, k)
                e == EntryIn(Disk, k)
            IN  /\ Asks(machine, Disk, at) /\ Asks(machine, Disk, at + 1)
                /\ IF Reached(machine, Disk, at) /\ Reached(machine, Disk, at + 1)
                   THEN IF e.type = "none" THEN b[k + 1] = b[k]
                        ELSE /\ Asks(machine, Disk, e.start)
                             /\ Counts(machine, Disk, b[k], b[k + 1], e.start, e.guid, "gpt")
                   ELSE b[k] >= Len(Disk.parts)
  BY <1>1, <1>2, GptWalkFacts DEF GptOrder
<1> HIDE DEF g, b
<1>5. i < gpt.maxpart => /\ i \in 0..(g.maxpart - 1) /\ i \in 0..g.maxpart /\ i + 1 \in 0..g.maxpart
  BY <1>1
<1>6. i < gpt.maxpart => b[i] \in Nat /\ b[i + 1] \in Nat
  BY <1>4, <1>5
<1> QED
  BY <1>1, <1>3, <1>4, <1>5, <1>6 DEF g, b

\* A step that stays in the GPT, by the place that it comes to.
LEMMA ListedNext ==
    ASSUME UNCHANGED <<machine, drive, part_count, faults>>, PartsCounted,
           pc' \in Listed, NEW place, Place' = place, AheadOf(place),
           ReadsReach' /\ ProbeReaches' /\ ModeReaches' /\ ListReached'
    PROVE  FirstInv'
<1>1. Wanted' = Wanted
  BY WantedStays
<1>2. NonePassed'
  BY <1>1 DEF NonePassed, AheadOf
<1>3. PartsCounted' /\ TablesReached' /\ pc' /= "done"
  BY DEF PartsCounted, TablesReached, Tabled, Listed
<1>4. FirstWalk'
  BY <1>2, <1>3 DEF FirstWalk
<1> QED
  BY <1>3, <1>4, FirstOngoing

\* The place in the GPT.
LEMMA ListedPlace ==
    ASSUME UNCHANGED <<machine, drive>>, pc' \in Listed
    PROVE  Place' = Disk.before.gpt[i']
<1>1. Disk' = Disk
  BY DEF Disk, Disks
<1> QED
  BY <1>1 DEF Place, Tabled, Listed

\* The search goes on to the next disk.
LEMMA NextDiskFirst ==
    ASSUME SearchInv, FoundInv, LinkInv, FirstInv, Tolerated, pc \in Listed \cup {"gpt"},
           UNCHANGED <<machine, part_count, faults>>, NextDisk,
           NEW place \in Nat, place = Place, place >= Len(Disk.parts)
    PROVE  FirstInv'
<1>1. AheadOf(place)
  BY GptWalkFacts
<1>2. NoneAhead
  BY <1>1, GptWalkFacts, AllPassed
<1>3. pc' = "drive" /\ drive' = drive + 1
  BY DEF NextDisk
<1> QED
  BY <1>2, <1>3, GptWalkFacts, LeaveFirst

\* The header was read, or not.
LEMMA GotGptFirst ==
    ASSUME SearchInv, FoundInv, LinkInv, ListInv, FirstInv, GotGpt
    PROVE  FirstInv'
<1>1. /\ pc = "gpt" /\ pc \in Waiting /\ io.state \in {"ok", "fail"}
      /\ UNCHANGED <<machine, disk_data, stack, part_count, answer, faults>>
  BY DEF GotGpt, Waiting
<1>2. SUFFICES ASSUME Tolerated PROVE FirstInv'
  BY <1>1, NotTolerated
<1>3. /\ FirstWalk /\ AheadOf(Place) /\ PartsCounted /\ Walking
      /\ MbrOrder(machine, Disk) /\ GptOrder(machine, Disk)
  BY <1>1, <1>2, GptWalkFacts
<1>4. AskedAt = 1
  BY <1>1 DEF AskedAt
<1>5. Place = Disk.before.mbr[0][5]
  BY <1>1 DEF Place, Tabled, Listed
<1>6. Place \in Nat
  <2>1. 0 \in Disk.tables
    BY <1>1, <1>3, TablesFacts DEF TablesOK, SearchInv, TypeOK
  <2>2. Disk.before.mbr[0] \in [1..5 -> Nat]
    BY <1>3, <2>1 DEF MbrOrder
  <2> QED
    BY <1>5, <2>2
<1>7. i = 0
  BY <1>1 DEF ListInv, Listed
<1>8. /\ io.state = "ok" => Reached(machine, Disk, 1)
      /\ io.state = "fail" => ~Reached(machine, Disk, 1)
  BY <1>1, <1>3, <1>4, ReadEnds
<1>9. io.state = "ok" => 1 < Size(Disk) /\ io.data = Sector(Disk, 1)
  <2>1. io.state = "ok" => io.lba = AskedAt /\ io.lba < Size(Disk) /\ io.data = Sector(Disk, io.lba)
    BY <1>1, <1>3, LinkParts DEF AskLink, FoundInv, SectorKnown
  <2> QED
    BY <1>4, <2>1
<1>10. io.state = "ok" /\ io.data.gpt.magic <=> HasGpt(Disk) /\ Reached(machine, Disk, 1)
  BY <1>1, <1>8, <1>9 DEF HasGpt, Header
<1>11. CASE io.state = "ok" /\ io.data.gpt.magic
  <2>1. pc' = "gpt_entry" /\ pc' \in Listed /\ UNCHANGED drive /\ i' = 0 /\ io' = NoIo
    BY <1>7, <1>11 DEF GotGpt, Listed
  <2> DEFINE place == Place
  <2>2. Place' = place
    <3>1. Place' = Disk.before.gpt[0]
      BY <1>1, <2>1, ListedPlace
    <3>2. Disk.before.gpt[0] = Disk.before.mbr[0][5]
      BY <1>3, <1>10, <1>11 DEF GptOrder
    <3> QED
      BY <1>5, <3>1, <3>2
  <2>3. AheadOf(place)
    BY <1>3
  <2> HIDE DEF place
  <2>4. ReadsReach' /\ ProbeReaches' /\ ModeReaches'
    BY <1>1, <1>3, <2>1, IdleFirst DEF FirstWalk
  <2>5. ListReached'
    <3>1. Disk' = Disk
      BY <1>1, <2>1 DEF Disk, Disks
    <3> QED
      BY <1>1, <1>8, <1>11, <2>1, <3>1 DEF ListReached
  <2> QED
    BY <1>1, <1>3, <2>1, <2>2, <2>3, <2>4, <2>5, ListedNext
<1>12. CASE ~(io.state = "ok" /\ io.data.gpt.magic)
  <2> DEFINE place == Place
  <2>1. place \in Nat /\ place = Place /\ place >= Len(Disk.parts)
    BY <1>3, <1>5, <1>6, <1>10, <1>12 DEF GptOrder
  <2> HIDE DEF place
  <2>2. NextDisk
    BY <1>12 DEF GotGpt
  <2> QED
    BY <1>1, <1>2, <2>1, <2>2, NextDiskFirst
<1> QED
  BY <1>11, <1>12

\* A step that asks for a sector because of an entry of the GPT.
LEMMA ListedRequest ==
    ASSUME SearchInv, FoundInv, LinkInv, FirstInv, Tolerated, pc \in Listed,
           UNCHANGED <<machine, drive, disk_data, part_count, i, faults>>,
           pc' \in Listed, pc' \in Waiting, NEW lba \in Nat,
           io' = Request(disk_data, lba), AskedAt' = lba, Asks(machine, Disk, lba), ListReached'
    PROVE  FirstInv'
<1>1. ReadsReach' /\ ProbeReaches' /\ ModeReaches'
  <2>1. io' = Request(disk_data', lba) /\ faults' \in Nat
    BY GptWalkFacts
  <2> QED
    BY <2>1, GptWalkFacts, RequestFirst
<1> DEFINE place == Place
<1>2. Place' = place
  <2>1. Place' = Disk.before.gpt[i]
    BY ListedPlace
  <2> QED
    BY <2>1, ListedOrder
<1>3. AheadOf(place) /\ PartsCounted
  BY GptWalkFacts
<1> HIDE DEF place
<1> QED
  BY <1>1, <1>2, <1>3, ListedNext

\* A step to the next entry of the GPT.
LEMMA ListedAdvance ==
    ASSUME SearchInv, FoundInv, LinkInv, FirstInv, Tolerated, pc \in Listed,
           UNCHANGED <<machine, drive, disk_data, part_count, faults>>,
           pc' = "gpt_entry", i' = i + 1, AheadOf(Disk.before.gpt[i + 1])
    PROVE  FirstInv'
<1>1. ReadsReach' /\ ProbeReaches' /\ ModeReaches'
  BY GptWalkFacts, IdleFirst DEF FirstWalk
<1> DEFINE place == Disk.before.gpt[i + 1]
<1>2. pc' \in Listed
  BY DEF Listed
<1>3. Place' = place
  BY <1>2, ListedPlace
<1>4. ListReached'
  <2>1. Disk' = Disk /\ Reached(machine, Disk, 1)
    BY GptWalkFacts DEF FirstWalk, ListReached, Disk, Disks
  <2> QED
    BY <2>1 DEF ListReached
<1>5. AheadOf(place) /\ PartsCounted
  BY GptWalkFacts
<1> HIDE DEF place
<1> QED
  BY <1>1, <1>2, <1>3, <1>4, <1>5, ListedNext

\* The iterations end, or the next entry's sectors are asked for.
LEMMA CheckGptEntryFirst ==
    ASSUME SearchInv, FoundInv, LinkInv, ListInv, FirstInv, CheckGptEntry
    PROVE  FirstInv'
<1>1. /\ pc = "gpt_entry" /\ pc \in Listed
      /\ UNCHANGED <<machine, disk_data, stack, part_count, answer, faults>>
  BY DEF CheckGptEntry, Listed
<1>2. SUFFICES ASSUME Tolerated PROVE FirstInv'
  BY <1>1, NotTolerated
<1> DEFINE b == Disk.before.gpt
           at == LbaIn(gpt, i)
           place == b[i]
<1>3. /\ gpt.maxpart \in Nat /\ i \in Nat /\ Place = place /\ EntryLba = at /\ at \in Nat
      /\ b \in [0..gpt.maxpart -> Nat] /\ b[gpt.maxpart] >= Len(Disk.parts)
      /\ i < gpt.maxpart => Asks(machine, Disk, at)
  BY <1>1, <1>2, ListedOrder
<1>4. i =< gpt.maxpart
  BY <1>1 DEF ListInv
<1>5. CASE i >= gpt.maxpart /\ NextDisk
  <2>1. i = gpt.maxpart
    BY <1>3, <1>4, <1>5
  <2>2. place \in Nat /\ place = Place /\ place >= Len(Disk.parts)
    BY <1>3, <2>1
  <2> HIDE DEF place
  <2> QED
    BY <1>1, <1>2, <1>5, <2>2, NextDiskFirst
<1>6. CASE /\ i < gpt.maxpart /\ io' = Request(disk_data, EntryLba) /\ pc' = "gpt_first"
           /\ UNCHANGED <<drive, gpt, i, entry>>
  <2>1. pc' \in Listed /\ pc' \in Waiting
    BY <1>6 DEF Listed, Waiting
  <2>2. AskedAt' = at
    BY <1>6 DEF AskedAt
  <2>3. ListReached'
    <3>1. Disk' = Disk /\ Reached(machine, Disk, 1)
      BY <1>1, <1>2, <1>6, GptWalkFacts DEF FirstWalk, ListReached, Disk, Disks
    <3> QED
      BY <1>1, <1>6, <3>1 DEF ListReached
  <2>4. UNCHANGED <<machine, drive, disk_data, part_count, i, faults>>
    BY <1>1, <1>6
  <2> HIDE DEF at
  <2>5. io' = Request(disk_data, at) /\ Asks(machine, Disk, at) /\ at \in Nat
    BY <1>3, <1>6
  <2> QED
    BY <1>1, <1>2, <2>1, <2>2, <2>3, <2>4, <2>5, ListedRequest
<1>7. i >= gpt.maxpart \/ i < gpt.maxpart
  BY <1>3
<1> QED
  BY <1>5, <1>6, <1>7 DEF CheckGptEntry

\* The first of the two sectors of an entry was read, or not.
LEMMA GotFirstFirst ==
    ASSUME SearchInv, FoundInv, LinkInv, ListInv, FirstInv, GotFirst
    PROVE  FirstInv'
<1>1. /\ pc = "gpt_first" /\ pc \in Listed /\ pc \in Waiting /\ io.state \in {"ok", "fail"}
      /\ UNCHANGED <<machine, disk_data, stack, part_count, answer, faults>>
  BY DEF GotFirst, Listed, Waiting
<1>2. SUFFICES ASSUME Tolerated PROVE FirstInv'
  BY <1>1, NotTolerated
<1> DEFINE b == Disk.before.gpt
           at == LbaIn(gpt, i)
           place == b[i]
<1>3. i < gpt.maxpart
  BY <1>1 DEF FoundInv, GptKnown, Listed
<1>4. /\ Place = place /\ place \in Nat /\ EntryLba = at /\ at \in Nat
      /\ Asks(machine, Disk, at + 1)
      /\ ~Reached(machine, Disk, at) => place >= Len(Disk.parts)
  BY <1>1, <1>2, <1>3, ListedOrder
<1>5. AskedAt = at /\ FirstWalk
  BY <1>1, <1>2, GptWalkFacts DEF AskedAt
<1>6. /\ io.state = "ok" => Reached(machine, Disk, at)
      /\ io.state = "fail" => ~Reached(machine, Disk, at)
  BY <1>1, <1>5, ReadEnds
<1>7. CASE io.state = "fail" /\ NextDisk
  <2>1. place \in Nat /\ place = Place /\ place >= Len(Disk.parts)
    BY <1>4, <1>6, <1>7
  <2> HIDE DEF place
  <2> QED
    BY <1>1, <1>2, <1>7, <2>1, NextDiskFirst
<1>8. CASE /\ io.state = "ok" /\ io' = Request(disk_data, EntryLba + 1) /\ pc' = "gpt_second"
           /\ UNCHANGED <<drive, gpt, i>>
  <2>1. pc' \in Listed /\ pc' \in Waiting
    BY <1>8 DEF Listed, Waiting
  <2>2. AskedAt' = at + 1
    BY <1>8 DEF AskedAt
  <2>3. ListReached'
    <3>1. Disk' = Disk /\ Reached(machine, Disk, 1)
      BY <1>1, <1>2, <1>8, GptWalkFacts DEF FirstWalk, ListReached, Disk, Disks
    <3> QED
      BY <1>1, <1>6, <1>8, <3>1 DEF ListReached
  <2>4. UNCHANGED <<machine, drive, disk_data, part_count, i, faults>>
    BY <1>1, <1>8
  <2> DEFINE next == at + 1
  <2>5. /\ io' = Request(disk_data, next) /\ Asks(machine, Disk, next) /\ next \in Nat
        /\ AskedAt' = next
    BY <1>4, <1>8, <2>2
  <2> HIDE DEF next
  <2> QED
    BY <1>1, <1>2, <2>1, <2>3, <2>4, <2>5, ListedRequest
<1> QED
  BY <1>1, <1>7, <1>8 DEF GotFirst

\* The second of the two sectors of an entry was read, or not.
LEMMA GotSecondFirst ==
    ASSUME SearchInv, FoundInv, LinkInv, ListInv, FirstInv, GotSecond
    PROVE  FirstInv'
<1>1. /\ pc = "gpt_second" /\ pc \in Listed /\ pc \in Waiting /\ io.state \in {"ok", "fail"}
      /\ UNCHANGED <<machine, disk_data, stack, part_count, answer, faults>>
  BY DEF GotSecond, Listed, Waiting
<1>2. SUFFICES ASSUME Tolerated PROVE FirstInv'
  BY <1>1, NotTolerated
<1> DEFINE b == Disk.before.gpt
           at == LbaIn(gpt, i)
           place == b[i]
<1>3. i < gpt.maxpart /\ entry = EntryIn(Disk, i)
  BY <1>1 DEF FoundInv, GptKnown, Listed
<1>4. /\ Place = place /\ place \in Nat /\ at \in Nat
      /\ IF Reached(machine, Disk, at) /\ Reached(machine, Disk, at + 1)
         THEN IF entry.type = "none" THEN b[i + 1] = b[i] ELSE Asks(machine, Disk, entry.start)
         ELSE place >= Len(Disk.parts)
  BY <1>1, <1>2, <1>3, ListedOrder
<1>5. AskedAt = at + 1 /\ FirstWalk
  BY <1>1, <1>2, GptWalkFacts DEF AskedAt
<1>6. /\ io.state = "ok" => Reached(machine, Disk, at + 1)
      /\ io.state = "fail" => ~Reached(machine, Disk, at + 1)
  BY <1>1, <1>5, ReadEnds
<1>7. Reached(machine, Disk, 1) /\ Reached(machine, Disk, at)
  BY <1>1, <1>5 DEF FirstWalk, ListReached
<1>8. CASE io.state = "fail" /\ NextDisk
  <2>1. place \in Nat /\ place = Place /\ place >= Len(Disk.parts)
    BY <1>4, <1>6, <1>8
  <2> HIDE DEF place
  <2> QED
    BY <1>1, <1>2, <1>8, <2>1, NextDiskFirst
<1>9. CASE /\ io.state = "ok" /\ entry.type = "none"
           /\ i' = i + 1 /\ pc' = "gpt_entry" /\ UNCHANGED drive
  <2>1. AheadOf(place)
    BY <1>1, <1>2, <1>4, GptWalkFacts
  <2>2. b[i + 1] = place
    BY <1>4, <1>6, <1>7, <1>9
  <2>3. AheadOf(Disk.before.gpt[i + 1])
    BY <2>1, <2>2
  <2>4. UNCHANGED <<machine, drive, disk_data, part_count, faults>>
    BY <1>1, <1>9
  <2> QED
    BY <1>1, <1>2, <1>9, <2>3, <2>4, ListedAdvance
<1>10. CASE /\ io.state = "ok" /\ entry.type /= "none" /\ pc' = "gpt_vbr"
            /\ io' = Request(disk_data, entry.start) /\ UNCHANGED <<drive, gpt, i, entry>>
  <2>1. pc' \in Listed /\ pc' \in Waiting
    BY <1>10 DEF Listed, Waiting
  <2>2. AskedAt' = entry.start
    BY <1>10 DEF AskedAt
  <2>3. ListReached'
    <3>1. Disk' = Disk
      BY <1>1, <1>10 DEF Disk, Disks
    <3> QED
      BY <1>1, <1>6, <1>7, <1>10, <3>1 DEF ListReached
  <2>4. UNCHANGED <<machine, drive, disk_data, part_count, i, faults>>
    BY <1>1, <1>10
  <2> DEFINE lba == entry.start
  <2>5. /\ io' = Request(disk_data, lba) /\ Asks(machine, Disk, lba) /\ AskedAt' = lba
    BY <1>4, <1>6, <1>7, <1>10, <2>2
  <2>6. lba \in Nat
    BY DEF SearchInv, TypeOK, GptEntries
  <2> HIDE DEF lba
  <2> QED
    BY <1>1, <1>2, <2>1, <2>3, <2>4, <2>5, <2>6, ListedRequest
<1> QED
  BY <1>1, <1>8, <1>9, <1>10 DEF GotSecond

\* The boot sector of an entry's partition was read, or not.
LEMMA GotGptVbrFirst ==
    ASSUME SearchInv, FoundInv, LinkInv, ListInv, FirstInv, GotGptVbr
    PROVE  FirstInv'
<1>1. /\ pc = "gpt_vbr" /\ pc \in Listed /\ pc \in Waiting /\ io.state \in {"ok", "fail"}
      /\ UNCHANGED <<machine, drive, disk_data, stack, part_count, gpt, entry, faults>>
  BY DEF GotGptVbr, Listed, Waiting
<1>2. SUFFICES ASSUME Tolerated PROVE FirstInv'
  BY <1>1, NotTolerated
<1> DEFINE b == Disk.before.gpt
           at == LbaIn(gpt, i)
           here == b[i]
           next == b[i + 1]
           lba == entry.start
<1>3. i < gpt.maxpart /\ entry = EntryIn(Disk, i) /\ entry.type /= "none"
  BY <1>1 DEF FoundInv, GptKnown, Listed
<1>4. /\ FirstWalk /\ machine \in Machines /\ Present /\ Walking
      /\ drive \in Nat /\ drive \in Searchable /\ AheadOf(Place)
  BY <1>1, <1>2, GptWalkFacts
<1>5. Reached(machine, Disk, at) /\ Reached(machine, Disk, at + 1)
  BY <1>1, <1>4 DEF FirstWalk, ListReached
<1>6. /\ Place = here /\ here \in Nat /\ next \in Nat
      /\ Counts(machine, Disk, here, next, lba, entry.guid, "gpt")
  BY <1>1, <1>2, <1>3, <1>5, ListedOrder
<1>7. AheadOf(here)
  BY <1>4, <1>6
<1>8. AskedAt = lba
  BY <1>1 DEF AskedAt
<1>9. /\ io.state = "ok" => Reached(machine, Disk, lba) /\ io.data = Sector(Disk, lba)
      /\ io.state = "fail" => ~Reached(machine, Disk, lba)
  <2>1. /\ io.state = "ok" => Reached(machine, Disk, AskedAt)
        /\ io.state = "fail" => ~Reached(machine, Disk, AskedAt)
    BY <1>1, <1>4, ReadEnds
  <2>2. io.state = "ok" => io.lba = AskedAt /\ io.data = Sector(Disk, io.lba)
    BY <1>1, <1>4, LinkParts DEF AskLink, FoundInv, SectorKnown
  <2> QED
    BY <1>8, <2>1, <2>2
<1> DEFINE id == entry.guid
<1>10. Counts(machine, Disk, here, next, lba, id, "gpt")
  BY <1>6
<1>11. here \in Nat /\ next \in Nat
  BY <1>6
<1>12. CASE Matches
  <2>1. answer' = [partid |-> id, partmap |-> "gpt", diskid |-> gpt.guid] /\ pc' = "done"
    BY <1>12 DEF GotGptVbr
  <2> HIDE DEF here, next, lba, id
  <2>2. /\ <<drive, here + 1>> \in Wanted
        /\ Disk.parts[here + 1].partid = id /\ Disk.parts[here + 1].partmap = "gpt"
    BY <1>1, <1>4, <1>7, <1>9, <1>10, <1>11, <1>12, EntryPassed
  <2>3. answer'.partid = Disk.parts[here + 1].partid /\ answer'.partmap = Disk.parts[here + 1].partmap
    BY <2>1, <2>2
  <2> QED
    BY <1>1, <1>4, <1>7, <1>11, <2>1, <2>2, <2>3, FoundFirst
<1>13. CASE ~Matches
  <2>1. i' = i + 1 /\ pc' = "gpt_entry"
    BY <1>13 DEF GotGptVbr
  <2>2. AheadOf(next)
    <3> HIDE DEF here, next, lba, id
    <3> QED
      BY <1>1, <1>4, <1>7, <1>9, <1>10, <1>11, <1>13, EntryPassed
  <2>3. AheadOf(Disk.before.gpt[i + 1])
    BY <2>2
  <2>4. UNCHANGED <<machine, drive, disk_data, part_count, faults>>
    BY <1>1
  <2> QED
    BY <1>1, <1>2, <2>1, <2>3, <2>4, ListedAdvance
<1> QED
  BY <1>12, <1>13

\* The loop over the GPT stays within it.
LEMMA ListNext ==
    ASSUME SearchInv, FoundInv, ListInv, [Next]_vars
    PROVE  ListInv'
<1>1. i \in Nat /\ gpt.maxpart \in Nat
  BY DEF SearchInv, TypeOK, GptHeaders
<1>2. pc \in {"gpt_second", "gpt_vbr"} => i < gpt.maxpart
  BY DEF FoundInv, GptKnown, Listed
<1>3. CASE UNCHANGED vars
  BY <1>3 DEF ListInv, vars
<1>4. CASE NextDrive \/ Probed \/ ExtRead \/ ChsTry \/ EfiRead \/ GotMbr \/ CheckEntry \/ GotVbr
  <2>1. UNCHANGED <<gpt, i>>
    BY <1>4 DEF NextDrive, Probed, ExtRead, ChsTry, EfiRead, GotMbr, CheckEntry, GotVbr, walkVars
  <2>2. pc' = pc \/ (pc \notin Listed \cup {"done"} /\ pc' \notin Listed)
    <3>1. CASE ExtRead \/ ChsTry \/ EfiRead
      BY <3>1 DEF ExtRead, ChsTry, EfiRead
    <3>2. CASE NextDrive \/ Probed
      BY <3>2 DEF NextDrive, Probed, Listed
    <3>3. CASE GotMbr \/ CheckEntry \/ GotVbr
      BY <3>3 DEF GotMbr, CheckEntry, GotVbr, MbrReturns, Listed
    <3> QED
      BY <1>4, <3>1, <3>2, <3>3
  <2> QED
    BY <2>1, <2>2 DEF ListInv, Listed
<1>5. CASE NextDisk
  BY <1>5 DEF NextDisk, ListInv
<1>6. CASE GotGpt /\ ~NextDisk
  <2>1. pc' = "gpt_entry" /\ i' = 0 /\ gpt' = io.data.gpt /\ io.state = "ok"
    BY <1>6 DEF GotGpt, ListInv, Listed
  <2>2. gpt'.maxpart \in Nat
    BY <2>1, IoFacts, ContentsFacts DEF GptHeaders, SearchInv, TypeOK
  <2> QED
    BY <2>1, <2>2 DEF ListInv, Listed
<1>7. CASE (CheckGptEntry \/ GotFirst) /\ ~NextDisk
  BY <1>7 DEF CheckGptEntry, GotFirst, ListInv, Listed
<1>8. CASE (GotSecond \/ GotGptVbr) /\ ~NextDisk
  <2>1. UNCHANGED gpt /\ pc \in {"gpt_second", "gpt_vbr"}
    BY <1>8 DEF GotSecond, GotGptVbr
  <2>2. pc' \in {"gpt_vbr", "done"} \/ (pc' = "gpt_entry" /\ i' = i + 1)
    BY <1>8 DEF GotSecond, GotGptVbr
  <2>3. i < gpt.maxpart
    BY <1>2, <2>1
  <2> QED
    BY <1>1, <2>1, <2>2, <2>3 DEF ListInv, Listed
<1> QED
  BY <1>3, <1>4, <1>5, <1>6, <1>7, <1>8 DEF Next, Search, Finished

\* A step that changes nothing.
LEMMA StutterLink == LinkInv /\ UNCHANGED vars => LinkInv'
<1> SUFFICES ASSUME LinkInv, UNCHANGED vars PROVE LinkInv'
  OBVIOUS
<1>1. AskedAt' = AskedAt
  BY DEF vars, AskedAt
<1>2. CallLinks' /\ AskLink'
  BY <1>1, LinkParts DEF vars, CallLinks, AskLink, Pending
<1>3. pc' /= "done" => answer' = Nothing
  BY LinkParts DEF vars, NoAnswer
<1> QED
  BY <1>2, <1>3, LinkPartsNext

\* A step that changes nothing.
LEMMA StutterFirst ==
    ASSUME SearchInv, FoundInv, FirstInv, UNCHANGED vars
    PROVE  FirstInv'
<1>1. UNCHANGED <<machine, pc, drive, walkVars, answer, disk_data, io, faults>>
  BY DEF vars, walkVars
<1>2. Tolerated' = Tolerated /\ Wanted' = Wanted /\ First' = First /\ Disks' = Disks
      /\ Present' = Present
  BY <1>1, WantedStays DEF Tolerated, First, Disks, Present
<1>3. FindsFirst'
  <2>1. FindsFirst
    BY DEF FirstInv
  <2> QED
    BY <1>1, <1>2, <2>1 DEF FindsFirst, Part, Nothing
<1>4. ASSUME Tolerated', pc' /= "done" PROVE FirstWalk'
  <2>1. FirstWalk
    BY <1>1, <1>2, <1>4, FirstParts
  <2>2. /\ NonePassed' /\ TablesReached' /\ ListReached' /\ PartsCounted' /\ AskedAt' = AskedAt
        /\ Disk' = Disk /\ Walking' = Walking
    BY <1>1, <2>1, WalkKept
  <2>3. ReadsReach' /\ ProbeReaches' /\ ModeReaches'
    BY <1>1, <1>2, <2>1, <2>2 DEF FirstWalk, ReadsReach, ProbeReaches, ModeReaches
  <2> QED
    BY <2>2, <2>3 DEF FirstWalk
<1> QED
  BY <1>3, <1>4 DEF FirstInv, FirstWalk

\* The search starts before the first disk.
LEMMA InitFirst == Init => FirstInv
<1> SUFFICES ASSUME Init PROVE FirstInv
  OBVIOUS
<1>1. pc = "drive" /\ drive = 1 /\ machine \in Machines /\ part_count = 0
  BY DEF Init
<1>2. Place = 0
  BY <1>1 DEF Place, Tabled, Listed
<1>3. NonePassed
  <2>1. ASSUME NEW p \in Wanted PROVE p[1] > drive \/ (p[1] = drive /\ p[2] > 0)
    <3>1. p[1] \in 1..Len(Disks) /\ p[2] \in Nat \ {0} /\ Len(Disks) \in Nat
      BY <1>1, WantedTyped, DisksTyped
    <3> QED
      BY <1>1, <3>1
  <2> QED
    BY <1>2, <2>1 DEF NonePassed
<1>4. FirstWalk
  BY <1>1, <1>3 DEF FirstWalk, ReadsReach, ProbeReaches, ModeReaches, TablesReached, ListReached,
     PartsCounted, Waiting, Walking, Tabled, Listed
<1> QED
  BY <1>1, <1>4 DEF FirstInv, FirstWalk, FindsFirst

\* The loop over the GPT has not begun when the search starts.
LEMMA InitList == Init => ListInv
  BY DEF Init, ListInv, Listed

\* The calls of check_mbr always lead from the first sector to the table at hand, each
\* through the entry that its loop is at, and a read delivers the sector that this
\* entry leads to.
THEOREM CallsAreLinked == Spec => []LinkInv
<1>1. SearchInv /\ FoundInv /\ LinkInv /\ [Next]_vars => LinkInv'
  BY ReadLinks, DriveLinks, GotMbrLinks, CheckEntryLinks, GotVbrLinks, GptLinks, StutterLink
     DEF Next, Search, Finished
<1> QED
  BY <1>1, InitLink, SearchIsSound, FoundAlways, PTL DEF Spec

\* The loop of check_gpt_partmap starts with the first entry, and goes no further than
\* the end of the list.
THEOREM ListIsWalked == Spec => []ListInv
<1>1. SearchInv /\ FoundInv /\ ListInv /\ [Next]_vars => ListInv'
  BY ListNext
<1> QED
  BY <1>1, InitList, SearchIsSound, FoundAlways, PTL DEF Spec

\* Every partition that the walk has passed has another file system.
THEOREM FirstAlways == Spec => []FirstInv
<1>1. SearchInv /\ FoundInv /\ LinkInv /\ ListInv /\ FirstInv /\ [Next]_vars => FirstInv'
  BY NextDriveFirst, ProbedFirst, ExtReadFirst, ChsTryFirst, EfiReadFirst, GotMbrFirst,
     CheckEntryFirst, GotVbrFirst, GotGptFirst, CheckGptEntryFirst, GotFirstFirst, GotSecondFirst,
     GotGptVbrFirst, StutterFirst DEF Next, Search, Finished
<1> QED
  BY <1>1, InitFirst, SearchIsSound, FoundAlways, CallsAreLinked, ListIsWalked, PTL DEF Spec

\* The search ends with the first partition that has the wanted UUID, in the order
\* of the disks and of the entries of their tables, or with nothing if none has it;
\* two reads that fail for no reason do not change that on a BIOS machine.
THEOREM FirstIsFound == Spec => []FindsFirst
<1>1. FirstInv => FindsFirst
  BY DEF FirstInv
<1> QED
  BY <1>1, FirstAlways, PTL

\* The tables on a stack, by their nesting: a call is made, returns, or goes on.
Ranked(s, rank) == \A n \in DOMAIN s : Len(s) - n + rank[s[n].lba] =< PartLimit

\* A call for a table that is nested deeper keeps every call's depth within the limit,
LEMMA PushRanked ==
    ASSUME NEW s \in Seq(Frames), NEW f \in Frames, NEW T, NEW rank \in [T -> 0..PartLimit],
           f.lba \in T, \A n \in DOMAIN s : s[n].lba \in T, Ranked(s, rank),
           s /= << >> => rank[f.lba] < rank[s[1].lba]
    PROVE  Ranked(<<f>> \o s, rank)
<1> DEFINE t == <<f>> \o s
<1>1. Len(s) \in Nat /\ DOMAIN s = 1..Len(s) /\ PartLimit \in Nat
  BY SizesAssumption
<1>2. /\ Len(t) = Len(s) + 1 /\ t[1] = f /\ DOMAIN t = 1..(Len(s) + 1)
      /\ \A n \in 2..(Len(s) + 1) : t[n] = s[n - 1]
  BY PushFacts
<1> HIDE DEF t
<1>3. rank[f.lba] \in 0..PartLimit /\ (\A n \in DOMAIN s : rank[s[n].lba] \in 0..PartLimit)
  OBVIOUS
<1>4. ASSUME NEW n \in DOMAIN t PROVE Len(t) - n + rank[t[n].lba] =< PartLimit
  <2>1. CASE n = 1 /\ s = << >>
    <3>1. Len(s) = 0
      BY <2>1
    <3> QED
      BY <1>1, <1>2, <1>3, <2>1, <3>1
  <2>2. CASE n = 1 /\ s /= << >>
    <3>1. 1 \in DOMAIN s
      BY <1>1, <2>2, FrameTyped
    <3>2. Len(s) - 1 + rank[s[1].lba] =< PartLimit
      BY <3>1 DEF Ranked
    <3>3. rank[s[1].lba] \in 0..PartLimit
      BY <1>3, <3>1
    <3> QED
      BY <1>1, <1>2, <1>3, <2>2, <3>2, <3>3
  <2>3. CASE n /= 1
    <3>1. n \in 2..(Len(s) + 1) /\ n - 1 \in DOMAIN s
      BY <1>1, <1>2, <2>3
    <3>2. Len(s) - (n - 1) + rank[s[n - 1].lba] =< PartLimit
      BY <3>1 DEF Ranked
    <3>3. rank[s[n - 1].lba] \in 0..PartLimit
      BY <1>3, <3>1
    <3> QED
      BY <1>1, <1>2, <3>1, <3>2, <3>3
  <2> QED
    BY <2>1, <2>2, <2>3
<1> QED
  BY <1>4 DEF Ranked, t

\* and so does a return,
LEMMA TailRanked ==
    ASSUME NEW s \in Seq(Frames), s /= << >>, NEW rank, Ranked(s, rank)
    PROVE  Ranked(Tail(s), rank)
<1> DEFINE t == Tail(s)
<1>1. /\ Len(s) \in Nat \ {0} /\ Len(t) = Len(s) - 1 /\ t \in Seq(Frames) /\ DOMAIN s = 1..Len(s)
      /\ \A n \in 1..(Len(s) - 1) : t[n] = s[n + 1]
  BY TailFacts, FrameTyped
<1>2. DOMAIN t = 1..(Len(s) - 1)
  BY <1>1
<1> HIDE DEF t
<1>3. ASSUME NEW n \in DOMAIN t PROVE Len(t) - n + rank[t[n].lba] =< PartLimit
  <2>1. n + 1 \in DOMAIN s /\ t[n] = s[n + 1] /\ n \in Nat
    BY <1>1, <1>2
  <2>2. Len(s) - (n + 1) + rank[s[n + 1].lba] =< PartLimit
    BY <2>1 DEF Ranked
  <2>3. Len(t) - n = Len(s) - (n + 1)
    BY <1>1, <2>1
  <2> QED
    BY <2>1, <2>2, <2>3
<1> QED
  BY <1>3 DEF Ranked, t

\* and a loop that goes on.
LEMMA AdvanceRanked ==
    ASSUME NEW s \in Seq(Frames), s /= << >>, NEW rank, Ranked(s, rank)
    PROVE  Ranked(Advance(s), rank)
<1> DEFINE t == Advance(s)
<1>1. /\ Len(t) = Len(s) /\ DOMAIN t = DOMAIN s /\ t[1].lba = s[1].lba
      /\ \A n \in 2..Len(s) : t[n] = s[n]
      /\ Len(s) \in Nat \ {0} /\ DOMAIN s = 1..Len(s)
  BY AdvanceFacts, FrameTyped
<1> HIDE DEF t
<1>2. ASSUME NEW n \in DOMAIN t PROVE Len(t) - n + rank[t[n].lba] =< PartLimit
  <2>1. n = 1 \/ n \in 2..Len(s)
    BY <1>1
  <2>2. t[n].lba = s[n].lba
    BY <1>1, <2>1
  <2> QED
    BY <1>1, <2>2 DEF Ranked
<1> QED
  BY <1>2 DEF Ranked, t

\* The depth of the calls on the stack, by one nesting of the tables.
LEMMA NestedDepth ==
    DepthNested <=> \E rank \in [Disk.tables -> 0..PartLimit] : Nested(Disk, rank) /\ Ranked(stack, rank)
  BY DEF DepthNested, Ranked

\* A step on the same disk keeps the depth if it keeps it for every rank.
LEMMA NestedNext ==
    ASSUME DepthNested, UNCHANGED <<machine, drive>>,
           \A rank \in [Disk.tables -> 0..PartLimit] :
                Nested(Disk, rank) /\ Ranked(stack, rank) => Ranked(stack', rank)
    PROVE  DepthNested'
<1>1. Disk' = Disk
  BY DEF Disk, Disks
<1>2. PICK rank \in [Disk.tables -> 0..PartLimit] : Nested(Disk, rank) /\ Ranked(stack, rank)
  BY NestedDepth
<1>3. Ranked(stack', rank)
  BY <1>2
<1> QED
  BY <1>1, <1>2, <1>3 DEF DepthNested, Ranked

\* The calls of check_mbr, whatever reads fail.
LEMMA TableFrames ==
    ASSUME SearchInv, FoundInv, LinkInv, pc \in Tabled
    PROVE  /\ machine \in Machines /\ Present /\ part_count \in Nat /\ PartLimit \in Nat
           /\ stack \in Seq(Frames) /\ Linked(stack)
           /\ \A n \in DOMAIN stack :
                LET f == stack[n]
                IN  /\ f.lba \in Disk.tables /\ Signed(Disk, f.lba) /\ f.mbr = Sector(Disk, f.lba)
                    /\ f.i \in 1..5
                    /\ n > 1 \/ pc /= "entry" => f.i \in 1..4 /\ Visited(f.mbr, f.i)
<1>1. /\ machine \in Machines /\ Present /\ part_count \in Nat /\ stack \in Seq(Frames)
      /\ Linked(stack)
  BY Parts, LinkParts DEF PlaceInv, CallsInv, CallLinks, Walking, Tabled
<1>2. ASSUME NEW n \in DOMAIN stack
      PROVE  LET f == stack[n]
             IN  /\ f.lba \in Disk.tables /\ Signed(Disk, f.lba) /\ f.mbr = Sector(Disk, f.lba)
                 /\ f.i \in 1..5
                 /\ n > 1 \/ pc /= "entry" => f.i \in 1..4 /\ Visited(f.mbr, f.i)
  <2> DEFINE f == stack[n]
  <2>1. f \in Frames
    BY <1>1
  <2>2. TableKnown(f)
    BY DEF FoundInv, StackKnown
  <2>3. n > 1 \/ pc /= "entry" => f.i =< 4 /\ Visited(f.mbr, f.i)
    BY DEF FoundInv, StackKnown, SearchInv, TypeOK
  <2>4. f.i \in 1..5
    BY <2>1 DEF Frames
  <2> QED
    BY <2>2, <2>3, <2>4 DEF TableKnown
<1> QED
  BY <1>1, <1>2, SizesAssumption

\* A call that waits is at an entry that leads to the next call's table.
LEMMA CallExtends ==
    ASSUME SearchInv, FoundInv, LinkInv, pc \in Tabled, NEW n \in DOMAIN stack,
           n > 1 \/ pc = "mbr"
    PROVE  /\ Extends(Disk, stack[n].lba, stack[n].i) /\ stack[n].i \in 1..4
           /\ n > 1 => Target(stack[n].lba, Sector(Disk, stack[n].lba), stack[n].i)
                          = stack[n - 1].lba
           /\ n = 1 => Target(stack[n].lba, Sector(Disk, stack[n].lba), stack[n].i) = AskedAt
<1>1. /\ stack \in Seq(Frames) /\ Linked(stack)
      /\ Signed(Disk, stack[n].lba) /\ stack[n].mbr = Sector(Disk, stack[n].lba)
      /\ stack[n].i \in 1..4 /\ Visited(stack[n].mbr, stack[n].i)
  BY TableFrames
<1>2. n \in 1..Len(stack) /\ stack /= << >> /\ Len(stack) \in Nat
  BY <1>1
<1>3. CASE n > 1
  <2>1. n \in 2..Len(stack)
    BY <1>2, <1>3
  <2>2. Leads(stack[n], stack[n - 1].lba)
    BY <1>1, <1>2, <2>1 DEF Linked
  <2> QED
    BY <1>1, <1>3, <2>2 DEF Leads, Extends
<1>4. CASE n = 1 /\ pc = "mbr"
  <2>1. stack[n].mbr.entries[stack[n].i].type = "extended"
    BY <1>2, <1>4, LinkParts DEF CallLinks
  <2>2. AskedAt = Target(stack[1].lba, stack[1].mbr, stack[1].i)
    BY <1>2, <1>4 DEF AskedAt
  <2> QED
    BY <1>1, <1>4, <2>1, <2>2 DEF Extends
<1> QED
  BY <1>2, <1>3, <1>4

\* The steps that leave the calls alone, and those outside of check_mbr.
LEMMA ReadLimit ==
    ASSUME LimitInv, UNCHANGED <<machine, pc, drive, stack, part_count>>
    PROVE  LimitInv'
<1>1. Disk' = Disk
  BY DEF Disk, Disks
<1>2. DepthNested' = DepthNested
  BY <1>1 DEF DepthNested
<1>3. DepthCounted' = DepthCounted
  BY <1>1 DEF DepthCounted, TopCounted, PartitionsLimited
<1> QED
  BY <1>2, <1>3 DEF LimitInv

\* The walk of a disk starts.
LEMMA DriveLimit ==
    ASSUME SearchInv, FoundInv, NextDrive \/ Probed
    PROVE  LimitInv'
<1>1. SUFFICES ASSUME pc' \in Tabled PROVE LimitInv'
  BY DEF LimitInv
<1>2. pc' = "mbr" /\ stack' = << >> /\ part_count' = 0 /\ UNCHANGED <<machine, drive>>
  BY <1>1 DEF NextDrive, Probed, Tabled, FoundInv, StackKnown
<1>3. machine' \in Machines /\ Present'
  <2>1. SearchInv'
    BY NextDriveInv, ProbedInv
  <2> QED
    BY <1>2, <2>1 DEF SearchInv, TypeOK
<1>4. Disk' = Disk /\ machine \in Machines /\ Present
  BY <1>2, <1>3 DEF Disk, Disks, Present
<1>5. PartLimit \in Nat /\ Len(stack') = 0 /\ DOMAIN stack' = {}
  BY <1>2, SizesAssumption
<1>6. \/ \E rank \in [Disk.tables -> 0..PartLimit] : Nested(Disk, rank)
      \/ machine.debug /\ CountsAll(Disk)
  BY <1>4, LimitAssumption DEF Present, Disk, Disks
<1>7. CASE \E rank \in [Disk.tables -> 0..PartLimit] : Nested(Disk, rank)
  <2>1. DepthNested'
    BY <1>4, <1>5, <1>7 DEF DepthNested
  <2> QED
    BY <2>1 DEF LimitInv
<1>8. CASE machine.debug /\ CountsAll(Disk)
  <2>1. DepthCounted'
    BY <1>2, <1>4, <1>5, <1>8 DEF DepthCounted, PartitionsLimited
  <2> QED
    BY <2>1 DEF LimitInv
<1> QED
  BY <1>6, <1>7, <1>8

\* A call returns to its caller.
LEMMA PopLimit ==
    ASSUME SearchInv, FoundInv, LinkInv, LimitInv, pc \in Tabled, stack /= << >>,
           UNCHANGED <<machine, drive, part_count>>, MbrReturns(Tail(stack))
    PROVE  LimitInv'
<1>1. SUFFICES ASSUME pc' \in Tabled PROVE LimitInv'
  BY DEF LimitInv
<1>2. Tail(stack) /= << >> /\ stack' = Advance(Tail(stack)) /\ pc' = "entry"
  BY <1>1 DEF MbrReturns, Tabled
<1>3. stack \in Seq(Frames) /\ part_count \in Nat /\ PartLimit \in Nat /\ Disk' = Disk
  BY TableFrames DEF Disk, Disks
<1>4. /\ Tail(stack) \in Seq(Frames) /\ Len(Tail(stack)) = Len(stack) - 1 /\ Len(stack) \in Nat \ {0}
      /\ Len(stack') = Len(Tail(stack))
  BY <1>2, <1>3, TailFacts, AdvanceFacts
<1>5. CASE DepthNested
  <2>1. ASSUME NEW rank \in [Disk.tables -> 0..PartLimit], Ranked(stack, rank)
        PROVE  Ranked(stack', rank)
    BY <1>2, <1>3, <1>4, <2>1, TailRanked, AdvanceRanked
  <2>2. DepthNested'
    BY <1>5, <2>1, NestedNext
  <2> QED
    BY <2>2 DEF LimitInv
<1>6. CASE DepthCounted
  <2>1. Len(stack) =< part_count + 2 /\ Len(stack) =< PartLimit + 1
    BY <1>6 DEF DepthCounted, PartitionsLimited
  <2>2. Len(stack') =< part_count' + 1 /\ Len(stack') =< PartLimit + 1
    BY <1>3, <1>4, <2>1
  <2>3. Len(stack') =< part_count' + 2
    BY <1>3, <1>4, <2>2
  <2>4. DepthCounted'
    BY <1>2, <1>3, <1>6, <2>2, <2>3 DEF DepthCounted, PartitionsLimited
  <2> QED
    BY <2>4 DEF LimitInv
<1> QED
  BY <1>5, <1>6 DEF LimitInv

\* A loop goes on after an entry that did not count, or has been counted.
LEMMA AdvanceLimit ==
    ASSUME SearchInv, FoundInv, LinkInv, LimitInv, pc \in Tabled, stack /= << >>,
           UNCHANGED <<machine, drive, part_count>>, stack' = Advance(stack), pc' = "entry",
           stack[1].i \in 1..4,
           Counted(stack[1].mbr, stack[1].i) => pc = "vbr"
    PROVE  LimitInv'
<1>1. /\ stack \in Seq(Frames) /\ part_count \in Nat /\ PartLimit \in Nat /\ Disk' = Disk
  BY TableFrames DEF Disk, Disks
<1>2. /\ Len(stack') = Len(stack) /\ Len(stack) \in Nat
      /\ stack'[1].mbr = stack[1].mbr /\ stack'[1].i = stack[1].i + 1
  BY <1>1, AdvanceFacts
<1>3. CASE DepthNested
  <2>1. ASSUME NEW rank \in [Disk.tables -> 0..PartLimit], Ranked(stack, rank)
        PROVE  Ranked(stack', rank)
    BY <1>1, <2>1, AdvanceRanked
  <2>2. DepthNested'
    BY <1>3, <2>1, NestedNext
  <2> QED
    BY <2>2 DEF LimitInv
<1>4. CASE DepthCounted
  <2>1. TopCounted' => TopCounted
    <3>1. SUFFICES ASSUME TopCounted' PROVE TopCounted
      OBVIOUS
    <3>2. PICK k \in 1..4 : k < stack'[1].i /\ Counted(stack[1].mbr, k)
      BY <1>2, <3>1 DEF TopCounted, Counted, Visited
    <3>3. k < stack[1].i \/ (pc = "vbr" /\ k = stack[1].i)
      <4>1. k < stack[1].i \/ k = stack[1].i
        BY <1>2, <3>2
      <4> QED
        BY <3>2, <4>1
    <3> QED
      BY <3>2, <3>3 DEF TopCounted
  <2>2. DepthCounted'
    BY <1>1, <1>2, <1>4, <2>1 DEF DepthCounted, PartitionsLimited
  <2> QED
    BY <2>2 DEF LimitInv
<1> QED
  BY <1>3, <1>4 DEF LimitInv

\* A call is made.
LEMMA GotMbrLimit ==
    ASSUME SearchInv, FoundInv, LinkInv, LimitInv, GotMbr
    PROVE  LimitInv'
<1>1. /\ pc = "mbr" /\ pc \in Tabled /\ pc \in Waiting /\ Walking
      /\ UNCHANGED <<machine, drive, part_count>> /\ Disk' = Disk
  BY DEF GotMbr, Tabled, Waiting, Walking, Disk, Disks
<1>2. /\ stack \in Seq(Frames) /\ Linked(stack) /\ part_count \in Nat /\ PartLimit \in Nat
  BY <1>1, TableFrames
<1>3. CASE io.state = "ok" /\ io.data.aa55
  <2> DEFINE f == [lba |-> io.lba, i |-> 1, mbr |-> io.data]
  <2>1. stack' = <<f>> \o stack /\ pc' = "entry"
    BY <1>3 DEF GotMbr
  <2>2. f \in Frames /\ f.lba = io.lba /\ f.i = 1
    BY <1>3, IoFacts DEF Frames, SearchInv, TypeOK
  <2>3. f.lba \in Disk.tables /\ f.lba = AskedAt
    <3>1. io.lba \in Disk.tables \/ ~Signed(Disk, io.lba)
      BY <1>1, <1>3 DEF FoundInv, AskedKnown, Asked
    <3>2. Signed(Disk, io.lba)
      BY <1>1, <1>3 DEF FoundInv, SectorKnown, Signed
    <3> QED
      BY <1>1, <1>3, <2>2, <3>1, <3>2, LinkParts DEF AskLink
  <2> HIDE DEF f
  <2>4. /\ stack'[1] = f /\ stack' /= << >> /\ Len(stack') = Len(stack) + 1 /\ Len(stack) \in Nat
        /\ DOMAIN stack = 1..Len(stack)
    BY <1>2, <2>1, <2>2, PushFacts
  <2>5. CASE DepthNested
    <3>1. ASSUME NEW rank \in [Disk.tables -> 0..PartLimit], Nested(Disk, rank), Ranked(stack, rank)
          PROVE  Ranked(stack', rank)
      <4>1. ASSUME stack /= << >> PROVE rank[f.lba] < rank[stack[1].lba]
        <5>1. 1 \in DOMAIN stack
          BY <1>2, <4>1, FrameTyped
        <5>2. /\ Extends(Disk, stack[1].lba, stack[1].i) /\ stack[1].i \in 1..4
              /\ Target(stack[1].lba, Sector(Disk, stack[1].lba), stack[1].i) = f.lba
          BY <1>1, <2>3, <5>1, CallExtends
        <5>3. stack[1].lba \in Disk.tables
          BY <1>1, <5>1, TableFrames
        <5> QED
          BY <2>3, <3>1, <5>2, <5>3 DEF Nested
      <4>2. \A n \in DOMAIN stack : stack[n].lba \in Disk.tables
        BY <1>1, TableFrames
      <4> DEFINE T == Disk.tables
      <4>3. rank \in [T -> 0..PartLimit] /\ f.lba \in T /\ \A n \in DOMAIN stack : stack[n].lba \in T
        BY <2>3, <4>2
      <4> HIDE DEF T
      <4> QED
        BY <1>2, <2>1, <2>2, <3>1, <4>1, <4>3, PushRanked
    <3>2. DepthNested'
      BY <1>1, <2>5, <3>1, NestedNext
    <3> QED
      BY <3>2 DEF LimitInv
  <2>6. CASE DepthCounted
    <3>1. CountsAll(Disk) /\ (stack /= << >> => part_count < PartLimit)
      BY <1>1, <2>6 DEF DepthCounted
    <3>2. Len(stack) =< part_count + 1
      <4>1. CASE Len(stack) =< 1
        BY <1>2, <2>4, <4>1
      <4>2. CASE Len(stack) > 1
        <5>1. 1 \in DOMAIN stack /\ 2 \in DOMAIN stack /\ 2 > 1
          BY <2>4, <4>2
        <5>2. /\ Extends(Disk, stack[1].lba, stack[1].i) /\ stack[1].i \in 1..4
              /\ Extends(Disk, stack[2].lba, stack[2].i) /\ stack[2].i \in 1..4
              /\ Target(stack[2].lba, Sector(Disk, stack[2].lba), stack[2].i) = stack[2 - 1].lba
              /\ stack[1].lba \in Disk.tables /\ stack[2].lba \in Disk.tables
              /\ stack[1].mbr = Sector(Disk, stack[1].lba)
          BY <1>1, <5>1, CallExtends, TableFrames
        <5>3. stack[1].lba /= 0
          <6>1. 2 - 1 = 1
            OBVIOUS
          <6>2. Target(stack[2].lba, Sector(Disk, stack[2].lba), stack[2].i) = stack[1].lba
            BY <5>2, <6>1
          <6> QED
            BY <3>1, <5>2, <6>2 DEF CountsAll
        <5>4. PICK k \in 1..(stack[1].i - 1) : Counted(stack[1].mbr, k)
          BY <3>1, <5>2, <5>3 DEF CountsAll
        <5>5. k \in 1..4 /\ k < stack[1].i
          BY <5>2
        <5>6. TopCounted
          BY <5>4, <5>5 DEF TopCounted
        <5> QED
          BY <2>6, <4>2, <5>6 DEF DepthCounted
      <4> QED
        BY <2>4, <4>1, <4>2
    <3>3. Len(stack') =< part_count' + 2 /\ Len(stack') =< PartLimit + 1
      <4>1. Len(stack) =< PartLimit
        <5>1. CASE stack = << >>
          BY <1>2, <5>1
        <5>2. CASE stack /= << >>
          BY <1>2, <2>4, <3>1, <3>2, <5>2
        <5> QED
          BY <5>1, <5>2
      <4> QED
        BY <1>1, <1>2, <2>4, <3>2, <4>1
    <3>4. ~TopCounted'
      <4>1. ASSUME NEW k \in 1..4 PROVE ~(k < stack'[1].i)
        BY <2>2, <2>4
      <4> QED
        BY <2>1, <4>1 DEF TopCounted
    <3>5. DepthCounted'
      BY <1>1, <2>1, <2>6, <3>3, <3>4 DEF DepthCounted, PartitionsLimited
    <3> QED
      BY <3>5 DEF LimitInv
  <2> QED
    BY <1>1, <2>5, <2>6 DEF LimitInv
<1>4. CASE MbrReturns(stack)
  <2>1. CASE stack = << >>
    BY <1>4, <2>1 DEF MbrReturns, LimitInv, Tabled
  <2>2. CASE stack /= << >>
    <3>1. stack' = Advance(stack) /\ pc' = "entry" /\ 1 \in DOMAIN stack
      BY <1>2, <1>4, <2>2, FrameTyped DEF MbrReturns
    <3>2. Extends(Disk, stack[1].lba, stack[1].i) /\ stack[1].mbr = Sector(Disk, stack[1].lba)
          /\ stack[1].i \in 1..4
      BY <1>1, <3>1, CallExtends, TableFrames
    <3>3. ~Counted(stack[1].mbr, stack[1].i)
      BY <3>2 DEF Counted, Extends
    <3> QED
      BY <1>1, <2>2, <3>1, <3>2, <3>3, AdvanceLimit
  <2> QED
    BY <2>1, <2>2
<1> QED
  BY <1>3, <1>4 DEF GotMbr

\* One iteration over a table.
LEMMA CheckEntryLimit ==
    ASSUME SearchInv, FoundInv, LinkInv, LimitInv, CheckEntry
    PROVE  LimitInv'
<1> DEFINE top == Head(stack)
           e == top.mbr.entries[top.i]
           lba == (top.lba + e.start) % U32Mod
<1>1. /\ pc = "entry" /\ pc \in Tabled /\ UNCHANGED <<machine, drive>> /\ Disk' = Disk
  BY DEF CheckEntry, Tabled, Disk, Disks
<1>2. stack /= << >> /\ stack \in Seq(Frames) /\ part_count \in Nat /\ PartLimit \in Nat
  BY <1>1, TableFrames DEF SearchInv, TypeOK
<1>3. 1 \in DOMAIN stack /\ top = stack[1] /\ stack[1].i \in 1..5
  BY <1>1, <1>2, FrameTyped, TailFacts, TableFrames
<1>4. CASE MbrReturns(Tail(stack)) /\ UNCHANGED part_count
  BY <1>1, <1>2, <1>4, PopLimit
<1>5. CASE /\ top.i =< 4 /\ (e.length = 0 \/ e.type = "none")
           /\ stack' = Advance(stack) /\ UNCHANGED <<pc, part_count>>
  <2>1. ~Counted(stack[1].mbr, stack[1].i)
    BY <1>3, <1>5 DEF Counted, Visited
  <2>2. stack[1].i \in 1..4
    BY <1>3, <1>5
  <2>3. stack' = Advance(stack) /\ UNCHANGED part_count /\ pc' = "entry"
    BY <1>1, <1>5
  <2> QED
    BY <1>1, <1>2, <2>1, <2>2, <2>3, AdvanceLimit
<1>6. CASE /\ ~TooMany
           /\ pc' = IF e.type = "extended" THEN "mbr" ELSE "vbr"
           /\ part_count' = IF e.type /= "extended" /\ machine.debug
                            THEN part_count + 1 ELSE part_count
           /\ UNCHANGED stack
  <2>1. part_count < PartLimit
    BY <1>2, <1>6 DEF TooMany
  <2>2. UNCHANGED stack
    BY <1>6
  <2>3. CASE DepthNested
    <3>1. DepthNested'
      BY <1>1, <2>2, <2>3 DEF DepthNested
    <3> QED
      BY <3>1 DEF LimitInv
  <2>4. CASE DepthCounted
    <3>1. /\ machine.debug /\ CountsAll(Disk) /\ Len(stack) =< part_count + 2
          /\ Len(stack) > 1 /\ TopCounted => Len(stack) =< part_count + 1
          /\ Len(stack) =< PartLimit + 1 /\ Len(stack) \in Nat
      BY <1>2, <2>4 DEF DepthCounted, PartitionsLimited
    <3>2. CASE e.type = "extended"
      <4>1. pc' = "mbr" /\ part_count' = part_count
        BY <1>6, <3>2
      <4>2. TopCounted' => TopCounted
        BY <1>1, <2>2, <4>1 DEF TopCounted
      <4>3. DepthCounted'
        BY <1>1, <2>1, <2>2, <3>1, <4>1, <4>2 DEF DepthCounted, PartitionsLimited
      <4> QED
        BY <4>3 DEF LimitInv
    <3>3. CASE e.type /= "extended"
      <4>1. pc' = "vbr" /\ part_count' = part_count + 1
        BY <1>6, <3>1, <3>3
      <4>2. Len(stack') =< part_count' + 1 /\ Len(stack') =< part_count' + 2
        BY <1>2, <2>2, <3>1, <4>1
      <4>3. DepthCounted'
        BY <1>1, <2>2, <3>1, <4>1, <4>2 DEF DepthCounted, PartitionsLimited
      <4> QED
        BY <4>3 DEF LimitInv
    <3> QED
      BY <3>2, <3>3
  <2> QED
    BY <1>1, <2>3, <2>4 DEF LimitInv
<1>7. top.i > 4 \/ top.i =< 4
  BY <1>3
<1> QED
  BY <1>4, <1>5, <1>6, <1>7 DEF CheckEntry

\* The boot sector of a partition has another file system, or ends the search.
LEMMA GotVbrLimit ==
    ASSUME SearchInv, FoundInv, LinkInv, LimitInv, GotVbr
    PROVE  LimitInv'
<1>1. /\ pc = "vbr" /\ pc \in Tabled /\ UNCHANGED <<machine, drive, part_count>>
      /\ pc' = "done" \/ (stack' = Advance(stack) /\ pc' = "entry")
  BY DEF GotVbr, Tabled
<1>2. stack /= << >> /\ stack \in Seq(Frames)
  BY <1>1, TableFrames DEF SearchInv, TypeOK
<1>3. stack[1].i \in 1..4
  BY <1>1, <1>2, FrameTyped, TableFrames
<1>4. CASE pc' = "done"
  BY <1>4 DEF LimitInv, Tabled
<1>5. CASE stack' = Advance(stack) /\ pc' = "entry"
  BY <1>1, <1>2, <1>3, <1>5, AdvanceLimit
<1> QED
  BY <1>1, <1>4, <1>5

\* No table is open before the first disk is, nor while its GPT is walked.
LEMMA InitLimit == Init => LimitInv
  BY DEF Init, LimitInv, Tabled

\* While its GPT is walked no table of the disk is open.
LEMMA GptLimit ==
    ASSUME GotGpt \/ CheckGptEntry \/ GotFirst \/ GotSecond \/ GotGptVbr
    PROVE  LimitInv'
<1>1. pc' \notin Tabled
  BY DEF GotGpt, CheckGptEntry, GotFirst, GotSecond, GotGptVbr, NextDisk, Tabled
<1> QED
  BY <1>1 DEF LimitInv

\* The inductive invariant of the depth of the calls.
THEOREM LimitAlways == Spec => []LimitInv
<1>1. SearchInv /\ FoundInv /\ LinkInv /\ LimitInv /\ [Next]_vars => LimitInv'
  <2> SUFFICES ASSUME SearchInv, FoundInv, LinkInv, LimitInv, [Next]_vars PROVE LimitInv'
    OBVIOUS
  <2>1. CASE NextDrive \/ Probed
    BY <2>1, DriveLimit
  <2>2. CASE ExtRead \/ ChsTry \/ EfiRead
    <3>1. UNCHANGED <<machine, pc, drive, stack, part_count>>
      BY <2>2 DEF ExtRead, ChsTry, EfiRead, walkVars
    <3> QED
      BY <3>1, ReadLimit
  <2>3. CASE GotMbr
    BY <2>3, GotMbrLimit
  <2>4. CASE CheckEntry
    BY <2>4, CheckEntryLimit
  <2>5. CASE GotVbr
    BY <2>5, GotVbrLimit
  <2>6. CASE GotGpt \/ CheckGptEntry \/ GotFirst \/ GotSecond \/ GotGptVbr
    BY <2>6, GptLimit
  <2>7. CASE UNCHANGED vars
    <3>1. UNCHANGED <<machine, pc, drive, stack, part_count>>
      BY <2>7 DEF vars
    <3> QED
      BY <3>1, ReadLimit
  <2> QED
    BY <2>1, <2>2, <2>3, <2>4, <2>5, <2>6, <2>7 DEF Next, Search, Finished
<1> QED
  BY <1>1, InitLimit, SearchIsSound, FoundAlways, CallsAreLinked, PTL DEF Spec

\* check_mbr is never called deeper than the number of partitions it allows and
\* once more: because the tables of the disk are nested no deeper, or because in a
\* loader built with DEBUG every table on the way has counted a partition, so that
\* the limit also ends a chain of tables that forms a loop.
THEOREM ChainsAreLimited == Spec => []PartitionsLimited
<1>1. SearchInv /\ FoundInv /\ LinkInv /\ LimitInv => PartitionsLimited
  <2> SUFFICES ASSUME SearchInv, FoundInv, LinkInv, LimitInv PROVE PartitionsLimited
    OBVIOUS
  <2>1. CASE stack = << >>
    <3>1. Len(stack) = 0 /\ PartLimit \in Nat
      BY <2>1, SizesAssumption
    <3> QED
      BY <3>1 DEF PartitionsLimited
  <2>2. CASE stack /= << >>
    <3>1. pc \in Tabled
      BY <2>2 DEF FoundInv, StackKnown
    <3>2. CASE DepthCounted
      BY <3>2 DEF DepthCounted
    <3>3. CASE DepthNested
      <4>1. stack \in Seq(Frames) /\ PartLimit \in Nat
        BY <3>1, TableFrames
      <4>2. 1 \in DOMAIN stack /\ Len(stack) \in Nat
        BY <2>2, <4>1, FrameTyped
      <4>3. stack[1].lba \in Disk.tables
        BY <3>1, <4>2, TableFrames
      <4>4. PICK rank \in [Disk.tables -> 0..PartLimit] : Ranked(stack, rank)
        BY <3>3, NestedDepth
      <4>5. rank[stack[1].lba] \in 0..PartLimit
        BY <4>3
      <4>6. Len(stack) - 1 + rank[stack[1].lba] =< PartLimit
        BY <4>2, <4>4 DEF Ranked
      <4> QED
        BY <4>1, <4>2, <4>5, <4>6 DEF PartitionsLimited
    <3> QED
      BY <3>1, <3>2, <3>3 DEF LimitInv
  <2> QED
    BY <2>1, <2>2
<1> QED
  BY <1>1, LimitAlways, SearchIsSound, FoundAlways, CallsAreLinked, PTL
=============================================================================
