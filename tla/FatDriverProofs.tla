--------------------------- MODULE FatDriverProofs ---------------------------
(***************************************************************************)
(* The user of the virtual disk.  bootmgr finds the drive among any number *)
(* of drives, whatever the BIOS counts and however many of its drives go   *)
(* meanwhile.  The FAT driver then reads every file of the initrd through  *)
(* it, byte for byte, and never reads past its end, for every geometry,    *)
(* table of files and path that satisfies the assumptions of FatDriverInv. *)
(***************************************************************************)
EXTENDS FatDriverInv, VDiskProofs

-----------------------------------------------------------------------------
(* The search for the drive (Int13).                                       *)

Found == [drive : Nat, disk : {"virtual", "other"}]

BiosTyped ==
    /\ bios \in [hard : 0..127, floppies : Nat, reports : {"counter", "own", "none"}]
    /\ counter \in 0..255
    /\ vdisk_drive \in {0} \cup 128..255
    /\ scan \in [phase : {"none", "count", "probe", "done"}, drive : Nat, last : Nat,
                 found : SUBSET Found]

\* Before initialise_int13 nobody looks, and the counter is that of the BIOS;
\* then the virtual drive comes after every drive of the BIOS.
NumberInv ==
    IF vdisk_drive = 0 THEN counter = bios.hard /\ scan.phase = "none"
    ELSE 128 + bios.hard <= vdisk_drive

\* What bootmgr has found among the drives below one: there is nothing of the
\* virtual drive but that drive, and no drive of the BIOS is missing.
FoundBelow(n) ==
    /\ \A f \in scan.found : f.disk = "virtual" => f.drive = vdisk_drive
    /\ vdisk_drive < n => [drive |-> vdisk_drive, disk |-> "virtual"] \in scan.found
    /\ \A d \in HardDrives : d < n => [drive |-> d, disk |-> "other"] \in scan.found

\* The probe goes far enough, and has missed nothing so far.
ScanInv ==
    /\ scan.phase \in {"none", "count"} => scan.found = {}
    /\ scan.phase = "probe" =>
        /\ 128 <= scan.drive /\ scan.drive <= scan.last /\ vdisk_drive <= scan.last
        /\ FoundBelow(scan.drive)
    /\ scan.phase = "done" => vdisk_drive < scan.drive /\ FoundBelow(scan.drive)

DriveInv == BiosTyped /\ NumberInv /\ ScanInv

-----------------------------------------------------------------------------

LEMMA BiosInitInv == BiosInit => DriveInv
  BY BiosesAssumption DEF BiosInit, DriveInv, BiosTyped, NumberInv, ScanInv, NoScan, Found

\* The virtual drive gets the next number.
LEMMA InitialiseInv == DriveInv /\ InitialiseInt13 => DriveInv'
<1> SUFFICES ASSUME DriveInv, InitialiseInt13 PROVE DriveInv'
  OBVIOUS
<1>1. counter = bios.hard /\ scan.phase = "none" /\ scan.found = {}
  BY DEF DriveInv, NumberInv, ScanInv, InitialiseInt13
<1>2. vdisk_drive' = 128 + bios.hard /\ bios' = bios /\ scan' = [scan EXCEPT !.phase = "count"]
  BY <1>1 DEF InitialiseInt13
<1>3. counter' = (counter + 1) % 256 /\ counter' \in 0..255
  BY DEF InitialiseInt13, DriveInv, BiosTyped
<1>4. bios.hard \in 0..127
  BY DEF DriveInv, BiosTyped
<1>5. BiosTyped'
  BY <1>2, <1>3, <1>4 DEF DriveInv, BiosTyped
<1>6. NumberInv'
  BY <1>2, <1>4 DEF NumberInv
<1>7. scan'.phase = "count" /\ scan'.found = {}
  BY <1>1, <1>2 DEF DriveInv, BiosTyped
<1>8. ScanInv'
  BY <1>7 DEF ScanInv
<1> QED
  BY <1>5, <1>6, <1>8 DEF DriveInv

\* A drive that goes leaves the others, and what was found.
LEMMA UnplugInv == DriveInv /\ Unplug => DriveInv'
<1> SUFFICES ASSUME DriveInv, Unplug PROVE DriveInv'
  OBVIOUS
<1>1. /\ bios.hard \in 1..127 /\ bios' = [bios EXCEPT !.hard = bios.hard - 1]
      /\ counter' = bios.hard - 1 /\ vdisk_drive' = vdisk_drive /\ scan' = scan
      /\ scan.phase \in {"count", "probe"}
  BY DEF Unplug, DriveInv, BiosTyped
<1>2. BiosTyped' /\ bios'.hard = bios.hard - 1
  BY <1>1 DEF DriveInv, BiosTyped
<1>3. NumberInv'
  BY <1>1, <1>2 DEF DriveInv, NumberInv, BiosTyped
<1>4. HardDrives' \subseteq HardDrives
  BY <1>1, <1>2 DEF HardDrives
<1>5. ScanInv'
  BY <1>1, <1>4 DEF DriveInv, ScanInv, FoundBelow
<1> QED
  BY <1>2, <1>3, <1>5 DEF DriveInv

\* The answer to the question for their number includes the virtual drive.
LEMMA CountInv == DriveInv /\ CountDrives => DriveInv'
<1> SUFFICES ASSUME DriveInv, CountDrives PROVE DriveInv'
  OBVIOUS
<1> DEFINE n == EmulateInt13(GetParameters, 128).dl
<1>1. /\ bios' = bios /\ counter' = counter /\ vdisk_drive' = vdisk_drive /\ scan.phase = "count"
      /\ scan' = [phase |-> IF n = 0 THEN "done" ELSE "probe",
                  drive |-> 128, last |-> 127 + n, found |-> scan.found]
  BY DEF CountDrives
<1>2. vdisk_drive \in 128..255 /\ bios.hard \in 0..127 /\ counter \in 0..255 /\ bios.floppies \in Nat
  BY <1>1 DEF DriveInv, BiosTyped, NumberInv
<1>3. MinDrives = vdisk_drive - 127
  BY <1>2 DEF MinDrives
<1>4. BiosCall(GetParameters, 128).dl \in Nat
      /\ BiosCall(GetParameters, 128) \in [cf : BOOLEAN, dl : Nat, disk : {"none", "other"}]
  BY <1>2 DEF BiosCall, Fails, Answer, GetParameters
<1>5. n = AtLeast(counter, MinDrives) \/ n = AtLeast(BiosCall(GetParameters, 128).dl, MinDrives)
  BY <1>4 DEF EmulateInt13, Answer, GetParameters, GetDiskType, GetExtendedParameters
<1>6. n \in Nat /\ n >= vdisk_drive - 127
  BY <1>2, <1>3, <1>4, <1>5 DEF AtLeast
<1> HIDE DEF n
<1>7. scan' = [phase |-> "probe", drive |-> 128, last |-> 127 + n, found |-> scan.found]
  BY <1>1, <1>2, <1>6
<1>8. scan'.phase = "probe" /\ scan'.drive = 128 /\ scan'.last = 127 + n /\ scan'.found = {}
  BY <1>1, <1>7 DEF DriveInv, BiosTyped, ScanInv
<1>9. BiosTyped'
  BY <1>1, <1>6, <1>7 DEF DriveInv, BiosTyped
<1>10. NumberInv'
  BY <1>1, <1>2 DEF DriveInv, NumberInv
<1>11. \A d \in HardDrives' : ~(d < 128)
  BY <1>1, <1>2 DEF HardDrives
<1>12. ~(vdisk_drive' < 128) /\ vdisk_drive' <= 127 + n
  BY <1>1, <1>2, <1>6
<1>13. FoundBelow(scan.drive)'
  BY <1>8, <1>11, <1>12 DEF FoundBelow
<1>14. ScanInv'
  BY <1>1, <1>6, <1>8, <1>12, <1>13 DEF ScanInv
<1> QED
  BY <1>9, <1>10, <1>14 DEF DriveInv

\* Each drive that is asked says what it is.
LEMMA ProbeInv == DriveInv /\ ProbeDrive => DriveInv'
<1> SUFFICES ASSUME DriveInv, ProbeDrive PROVE DriveInv'
  OBVIOUS
<1> DEFINE answer == EmulateInt13(GetDiskType, scan.drive)
           this == [drive |-> scan.drive, disk |-> answer.disk]
<1>1. /\ bios' = bios /\ counter' = counter /\ vdisk_drive' = vdisk_drive /\ scan.phase = "probe"
      /\ scan' = [phase |-> IF scan.drive = scan.last THEN "done" ELSE "probe",
                  drive |-> scan.drive + 1, last |-> scan.last,
                  found |-> IF answer.cf THEN scan.found ELSE scan.found \cup {this}]
  BY DEF ProbeDrive
<1>2. /\ vdisk_drive \in 128..255 /\ bios.hard \in 0..127 /\ bios.floppies \in Nat
      /\ scan.drive \in Nat /\ scan.last \in Nat /\ 128 + bios.hard <= vdisk_drive
  BY <1>1 DEF DriveInv, BiosTyped, NumberInv
<1>3. /\ 128 <= scan.drive /\ scan.drive <= scan.last /\ vdisk_drive <= scan.last
      /\ FoundBelow(scan.drive)
  BY <1>1 DEF DriveInv, ScanInv
<1>4. /\ scan.drive = vdisk_drive => ~answer.cf /\ answer.disk = "virtual"
      /\ scan.drive /= vdisk_drive /\ ~answer.cf => answer.disk = "other"
      /\ scan.drive /= vdisk_drive /\ scan.drive \in HardDrives => ~answer.cf
  BY <1>2 DEF EmulateInt13, BiosCall, Answer, Fails, GetParameters, GetDiskType,
              GetExtendedParameters
<1>5. ~answer.cf => this \in Found
  BY <1>2, <1>4 DEF Found
<1>6. BiosTyped'
  BY <1>1, <1>2, <1>5 DEF DriveInv, BiosTyped
<1>7. NumberInv'
  BY <1>1, <1>2 DEF NumberInv
<1>8. vdisk_drive \notin HardDrives
  BY <1>2 DEF HardDrives
<1>9. \A f \in scan'.found : f.disk = "virtual" => f.drive = vdisk_drive
  BY <1>1, <1>3, <1>4 DEF FoundBelow
<1>10. vdisk_drive < scan.drive + 1 => [drive |-> vdisk_drive, disk |-> "virtual"] \in scan'.found
  BY <1>1, <1>2, <1>3, <1>4 DEF FoundBelow
<1>11. ASSUME NEW d \in HardDrives, d < scan.drive + 1
       PROVE  [drive |-> d, disk |-> "other"] \in scan'.found
  <2>1. d \in Nat
    BY <1>2 DEF HardDrives
  <2>2. CASE d < scan.drive
    BY <1>1, <1>3, <2>2 DEF FoundBelow
  <2>3. CASE d = scan.drive
    BY <1>1, <1>4, <1>8, <2>3
  <2> QED
    BY <1>2, <1>11, <2>1, <2>2, <2>3
<1>12. HardDrives' = HardDrives
  BY <1>1 DEF HardDrives
<1>13. scan'.drive = scan.drive + 1 /\ scan'.last = scan.last
       /\ scan'.phase = IF scan.drive = scan.last THEN "done" ELSE "probe"
  BY <1>1
<1>14. FoundBelow(scan.drive)'
  BY <1>1, <1>9, <1>10, <1>11, <1>12, <1>13 DEF FoundBelow
<1>15. ScanInv'
  BY <1>1, <1>2, <1>3, <1>13, <1>14 DEF ScanInv
<1> QED
  BY <1>6, <1>7, <1>15 DEF DriveInv

\* Nothing else in the composed system touches the drives.
LEMMA DriveNextInv == DriveInv /\ [DriverNext]_allVars => DriveInv'
<1> SUFFICES ASSUME DriveInv, [DriverNext]_allVars PROVE DriveInv'
  OBVIOUS
<1>1. CASE InitialiseInt13
  BY <1>1, InitialiseInv
<1>2. CASE Unplug
  BY <1>2, UnplugInv
<1>3. CASE CountDrives
  BY <1>3, CountInv
<1>4. CASE ProbeDrive
  BY <1>4, ProbeInv
<1>5. CASE UNCHANGED biosVars
  BY <1>5 DEF biosVars, DriveInv, BiosTyped, NumberInv, ScanInv, FoundBelow, HardDrives
<1>6. UNCHANGED biosVars \/ BiosNext
  BY DEF DriverNext, allVars
<1> QED
  BY <1>1, <1>2, <1>3, <1>4, <1>5, <1>6 DEF BiosNext

\* bootmgr's view of the drives is right at every moment of its search.
THEOREM DriveInvariant == DriverSpec => []DriveInv
<1>1. DriverInit => DriveInv
  BY BiosInitInv DEF DriverInit
<1>2. DriveInv /\ [DriverNext]_allVars => DriveInv'
  BY DriveNextInv
<1> QED
  BY <1>1, <1>2, PTL DEF DriverSpec

\* bootmgr finds the virtual drive, and every drive of the BIOS that is still
\* there, once emulate_int13 answers its questions.
THEOREM DriveIsFound == DriverSpec => []DriveFound
<1>1. ASSUME DriveInv PROVE DriveFound
  <2> SUFFICES ASSUME scan.phase = "done"
               PROVE  /\ {f.drive : f \in {g \in scan.found : g.disk = "virtual"}} = {vdisk_drive}
                      /\ \A d \in HardDrives : [drive |-> d, disk |-> "other"] \in scan.found
    BY DEF DriveFound
  <2>1. vdisk_drive < scan.drive /\ FoundBelow(scan.drive)
    BY <1>1 DEF DriveInv, ScanInv
  <2>2. bios.hard \in 0..127 /\ vdisk_drive \in Nat /\ scan.drive \in Nat
        /\ 128 + bios.hard <= vdisk_drive
    BY <1>1 DEF DriveInv, BiosTyped, NumberInv
  <2>3. \A d \in HardDrives : d < scan.drive
    BY <2>1, <2>2 DEF HardDrives
  <2>4. [drive |-> vdisk_drive, disk |-> "virtual"] \in {g \in scan.found : g.disk = "virtual"}
    BY <2>1 DEF FoundBelow
  <2>5. \A f \in {g \in scan.found : g.disk = "virtual"} : f.drive = vdisk_drive
    BY <2>1 DEF FoundBelow
  <2>6. {f.drive : f \in {g \in scan.found : g.disk = "virtual"}} = {vdisk_drive}
    BY <2>4, <2>5
  <2> QED
    BY <2>1, <2>3, <2>6 DEF FoundBelow
<1> QED
  BY <1>1, DriveInvariant, PTL

-----------------------------------------------------------------------------
(* Where things are on the disk.                                           *)

\* The slot of a file is the clusters of that file.
LEMMA ClusterOfSlot ==
    ASSUME NEW idx \in 0..(MaxFiles - 1), NEW c \in Nat
    PROVE  ClusterLba(FileCluster(idx) + c) = FileLba(idx) + c * ClusterCount
<1> DEFINE room == FileCount - PartitionLba - ReservedCount - SectorsPerFat
           q == room \div ClusterCount
<1>1. /\ ClusterCount \in Nat /\ ClusterCount > 0 /\ PartitionLba \in Nat /\ FileCount \in Nat
      /\ SectorsPerFat \in Nat /\ room \in Nat /\ ReservedCount = ClusterCount
  BY Layout DEF ReservedCount
<1>2. PICK f \in Nat : SectorsPerFat = f * ClusterCount
  BY FatWhole
<1>3. PartitionLba = ClusterCount * (PartitionLba \div ClusterCount)
      /\ PartitionLba \div ClusterCount \in Nat
  <2>1. PartitionLba % ClusterCount = 0
    BY GeometryAssumption DEF GeometryOK
  <2> QED
    BY <1>1, <2>1, DivMod
<1>4. FileCount = ClusterCount * FileClusters /\ FileClusters \in Nat
  BY SlotSize
<1> DEFINE p == PartitionLba \div ClusterCount
           m == FileClusters - p - 1 - f
<1>5. room = m * ClusterCount /\ m \in Int
  BY <1>1, <1>2, <1>3, <1>4
<1>6. m * ClusterCount =< room /\ room < m * ClusterCount + ClusterCount
  BY <1>1, <1>5
<1>7. q = m
  BY <1>1, <1>5, <1>6, DivUnique
<1>8. FileCluster(idx) = m + 2 + idx * FileClusters
  BY <1>7 DEF FileCluster
<1> HIDE DEF m, room, q
<1>9. /\ ClusterLba(FileCluster(idx) + c) =
            PartitionLba + (m + idx * FileClusters + c) * ClusterCount + ClusterCount + SectorsPerFat
      /\ m \in Int /\ idx \in Nat /\ idx * FileClusters \in Nat
  <2>1. m \in Int /\ idx \in Nat /\ idx * FileClusters \in Nat
    BY <1>4, <1>5, Layout, MulTypes
  <2>2. (FileCluster(idx) + c) - 2 = m + idx * FileClusters + c
    BY <1>8, <2>1
  <2>3. ClusterLba(FileCluster(idx) + c) =
          PartitionLba + ((FileCluster(idx) + c) - 2) * ClusterCount + ClusterCount + SectorsPerFat
    BY Zenon DEF ClusterLba, VbrLba, ReservedCount
  <2> QED
    BY <2>1, <2>2, <2>3, Zenon
<1> DEFINE all == (m + idx * FileClusters + c) * ClusterCount
           below == m * ClusterCount
           slots == (idx * FileClusters) * ClusterCount
           part == c * ClusterCount
<1>10. all = below + slots + part
  BY <1>1, <1>9
<1>11. slots = idx * FileCount
  BY <1>1, <1>4, <1>9
<1>12. FileLba(idx) = slots + FileCount
  BY <1>1, <1>9, <1>11 DEF FileLba
<1>13. below \in Int /\ part \in Nat /\ slots \in Nat
  BY <1>1, <1>9, MulTypes
<1>14. below = FileCount - PartitionLba - ClusterCount - SectorsPerFat
  BY <1>1, <1>5 DEF room
<1>15. ClusterLba(FileCluster(idx) + c) = PartitionLba + all + ClusterCount + SectorsPerFat
  BY <1>9
<1> HIDE DEF all, below, slots, part
<1>16. ClusterLba(FileCluster(idx) + c) = FileLba(idx) + part
  BY <1>1, <1>10, <1>12, <1>13, <1>14, <1>15
<1> QED
  BY <1>16 DEF part

\* A read up to the end of the last slot that does not run into the first one
\* is one that vdisk_read answers as promised.
LEMMA RequestFits ==
    ASSUME NEW lba \in Nat, NEW count \in {1, ClusterCount},
           lba + count =< FileLba(MaxFiles), lba + count =< FileCount \/ FileCount =< lba
    PROVE  RequestOK(lba, count)
<1>1. /\ ClusterCount \in Nat /\ ClusterCount > 2 /\ SectorSize \in Nat /\ SectorSize > 0
      /\ FileCount \in Nat /\ FileCount > 0 /\ MaxFiles \in Nat
      /\ UIntMod \in Nat /\ ULongMod \in Nat /\ U64Mod \in Nat
  BY Layout
<1>2. ClusterSize < UIntMod /\ FileLba(MaxFiles + 1) < ULongMod /\ FileLba(MaxFiles) < U64Mod
  BY ReadsAssumption DEF ReadsOK
<1>3. count * SectorSize < UIntMod
  <2>1. ClusterCount * SectorSize < UIntMod /\ ClusterCount * SectorSize \in Nat
    BY <1>1, <1>2 DEF ClusterSize
  <2>2. SectorSize =< ClusterCount * SectorSize
    BY <1>1, MulMono
  <2> QED
    BY <1>1, <2>1, <2>2
<1>4. /\ FileLba(MaxFiles) \in Int /\ FileLba(MaxFiles + 1) \in Int
      /\ FileLba(MaxFiles + 1) = FileLba(MaxFiles) + FileCount
  BY <1>1, SlotOrder
<1>5. lba + count \in Nat /\ count \in Nat
  BY <1>1
<1> DEFINE idx == FileIdx(lba + count)
<1>6. /\ idx \in Int /\ FileLba(idx) =< lba + count
      /\ FileLba(idx + 1) = FileLba(idx) + FileCount /\ FileLba(idx) \in Int
  BY <1>5, Slot, SlotOrder
<1> HIDE DEF idx
<1>7. FileLba(idx + 1) < ULongMod
  BY <1>1, <1>2, <1>4, <1>5, <1>6
<1>8. lba + count < U64Mod
  BY <1>1, <1>2, <1>4, <1>5
<1> QED
  BY <1>3, <1>5, <1>7, <1>8 DEF RequestOK, idx

-----------------------------------------------------------------------------
(* How many sectors a number of bytes takes.                               *)

LEMMA SectorsOfSum ==
    ASSUME NEW c \in Nat, NEW n \in Nat
    PROVE  /\ SectorsOf(n) \in Nat
           /\ SectorsOf(c * SectorSize + n) = c + SectorsOf(n)
           /\ (SectorsOf(n) - 1) * SectorSize < n /\ n =< SectorsOf(n) * SectorSize
<1>1. SectorSize \in Nat /\ SectorSize > 0 /\ n + SectorSize - 1 \in Nat
  BY Layout
<1> DEFINE q == (n + SectorSize - 1) \div SectorSize
           r == (n + SectorSize - 1) % SectorSize
<1>2. q \in Nat /\ r \in Nat /\ r < SectorSize /\ n + SectorSize - 1 = SectorSize * q + r
  BY <1>1, DivMod
<1>3. SectorsOf(n) = q
  BY DEF SectorsOf
<1>4. SectorSize * q = q * SectorSize /\ q * SectorSize \in Nat
      /\ (q - 1) * SectorSize = q * SectorSize - SectorSize
  BY <1>1, <1>2
<1>5. c * SectorSize \in Nat /\ (c + q) * SectorSize = c * SectorSize + q * SectorSize
  BY <1>1, <1>2
<1> HIDE DEF q, r
<1> DEFINE bytes == c * SectorSize
           up == bytes + n + SectorSize - 1
           whole == (c + q) * SectorSize
<1>6. up \in Nat /\ whole =< up /\ up < whole + SectorSize
  BY <1>1, <1>2, <1>4, <1>5
<1>7. up \div SectorSize = c + q
  BY <1>1, <1>2, <1>6, DivUnique
<1>8. SectorsOf(c * SectorSize + n) = c + q
  BY <1>7 DEF SectorsOf
<1> QED
  BY <1>1, <1>2, <1>3, <1>4, <1>8

-----------------------------------------------------------------------------
(* Names in a directory.                                                   *)

\* A string of C: no character of it is the terminator.
IsName(name) ==
    /\ Len(name) \in Nat /\ name = [p \in 1..Len(name) |-> name[p]]
    /\ \A p \in 1..Len(name) : name[p] /= "nul"

\* The record of entry j, and the long filename records before it.
Named8(E, j, name) ==
    /\ j \in Nat /\ LfnCount(name) < j
    /\ \A i \in 1..LfnCount(name) : E[j - i] = Lfn(name, i)

LEMMA LfnRecords ==
    ASSUME NEW name, Len(name) \in Nat
    PROVE  /\ LfnCount(name) \in Nat /\ LfnCount(name) > 0
           /\ Len(name) < LfnCount(name) * LfnChars
<1>1. /\ Len(name) \div 13 \in Nat /\ Len(name) % 13 < 13 /\ Len(name) % 13 \in Nat
      /\ Len(name) = 13 * (Len(name) \div 13) + (Len(name) % 13)
  BY DivMod
<1> QED
  BY <1>1 DEF LfnCount, LfnChars

LEMMA LfnIs ==
    ASSUME NEW name, NEW i
    PROVE  /\ IsLfn(Lfn(name, i)) /\ Lfn(name, i).sequence = i
           /\ Lfn(name, i).last <=> i = LfnCount(name)
           /\ \A q \in 1..LfnChars :
                 LET p == (i - 1) * LfnChars + q
                 IN  Lfn(name, i).chars[q] = IF p =< Len(name) THEN name[p]
                                             ELSE IF p = Len(name) + 1 THEN "nul" ELSE "fill"
  BY DEF Lfn, IsLfn

\* The long name goes back as far as it is long, and no further.
LEMMA NameLength ==
    ASSUME NEW E, NEW j, NEW name, IsName(name), Named8(E, j, name),
           NEW n \in 1..(DirentPerSector - 1)
    PROVE  HasName(E, j, n) <=> n = LfnCount(name)
<1> DEFINE L == LfnCount(name)
<1>1. L \in Nat /\ L > 0 /\ j \in Nat /\ L < j /\ n \in Nat /\ n > 0
  BY LfnRecords DEF IsName, Named8, DirentPerSector
<1>2. \A i \in 1..L : IsLfn(E[j - i]) /\ E[j - i].sequence = i /\ (E[j - i].last <=> i = L)
  BY LfnIs DEF Named8
<1> HIDE DEF L
<1>3. HasName(E, j, L)
  BY <1>1, <1>2 DEF HasName
<1>4. ASSUME HasName(E, j, n) PROVE n = L
  <2>1. \A i \in 1..n : E[j - i].last <=> i = n
    BY <1>4 DEF HasName
  <2>2. CASE n < L
    <3>1. n \in 1..L /\ n \in 1..n
      BY <1>1, <2>2
    <3>2. E[j - n].last <=> n = n
      BY <2>1, <3>1
    <3>3. E[j - n].last <=> n = L
      BY <1>2, <3>1
    <3> QED
      BY <3>2, <3>3
  <2>3. CASE L < n
    <3>1. L \in 1..L /\ L \in 1..n
      BY <1>1, <2>3
    <3>2. E[j - L].last <=> L = n
      BY <2>1, <3>1
    <3>3. E[j - L].last <=> L = L
      BY <1>2, <3>1
    <3> QED
      BY <3>2, <3>3
  <2> QED
    BY <1>1, <2>2, <2>3
<1> QED
  BY <1>3, <1>4 DEF L

\* The characters of the records, one after the other.
CharAt(E, j, p) == E[j - 1 - (p - 1) \div LfnChars].chars[((p - 1) % LfnChars) + 1]

LEMMA NameChars ==
    ASSUME NEW E, NEW j, NEW name, IsName(name), Named8(E, j, name),
           NEW p \in 1..(LfnCount(name) * LfnChars)
    PROVE  CharAt(E, j, p) = IF p =< Len(name) THEN name[p]
                             ELSE IF p = Len(name) + 1 THEN "nul" ELSE "fill"
<1> DEFINE k == (p - 1) \div 13
           r == (p - 1) % 13
<1>1. LfnCount(name) \in Nat /\ p \in Nat /\ p >= 1 /\ p =< LfnCount(name) * 13 /\ j \in Nat
  BY LfnRecords DEF IsName, Named8, LfnChars
<1>2. k \in Nat /\ r \in 0..12 /\ p - 1 = 13 * k + r
  BY <1>1, DivMod
<1>3. CharAt(E, j, p) = E[j - 1 - k].chars[r + 1]
  BY DEF CharAt, LfnChars
<1> HIDE DEF k, r
<1>4. k + 1 \in 1..LfnCount(name) /\ j - (k + 1) = j - 1 - k
  BY <1>1, <1>2
<1>5. E[j - 1 - k] = Lfn(name, k + 1)
  BY <1>4 DEF Named8
<1>6. r + 1 \in 1..LfnChars /\ ((k + 1) - 1) * LfnChars + (r + 1) = p
  BY <1>2 DEF LfnChars
<1> QED
  BY <1>3, <1>5, <1>6, LfnIs

\* The name that is read is the one that was written.
LEMMA NameDecoded ==
    ASSUME NEW E, NEW j, NEW name, IsName(name), Named8(E, j, name)
    PROVE  Decoded(E, j, LfnCount(name)) = name
<1> DEFINE L == LfnCount(name)
           n == Len(name)
           all == L * LfnChars
           Stops(p) == /\ p = all \/ CharAt(E, j, p + 1) = "nul"
                       /\ \A q \in 1..p : CharAt(E, j, q) /= "nul"
           stop == CHOOSE p \in 0..all : Stops(p)
<1>1. L \in Nat /\ n \in Nat /\ all \in Nat /\ n < all
  BY LfnRecords DEF IsName, LfnChars
<1>2. Decoded(E, j, L) = [p \in 1..stop |-> CharAt(E, j, p)]
  BY DEF Decoded, CharAt
<1>3. \A p \in 1..n : CharAt(E, j, p) = name[p] /\ name[p] /= "nul"
  <2> SUFFICES ASSUME NEW p \in 1..n PROVE CharAt(E, j, p) = name[p] /\ name[p] /= "nul"
    OBVIOUS
  <2>1. p \in 1..all /\ p =< n
    BY <1>1
  <2> QED
    BY <2>1, NameChars DEF IsName
<1>4. CharAt(E, j, n + 1) = "nul"
  <2>1. n + 1 \in 1..all /\ ~(n + 1 =< n)
    BY <1>1
  <2> QED
    BY <2>1, NameChars
<1> HIDE DEF all
<1>5. Stops(n) /\ n \in 0..all
  BY <1>1, <1>3, <1>4
<1>6. \A p \in 0..all : Stops(p) => p = n
  <2> SUFFICES ASSUME NEW p \in 0..all, Stops(p) PROVE p = n
    OBVIOUS
  <2>1. CASE p < n
    <3>1. p + 1 \in 1..n /\ p /= all
      BY <1>1, <2>1
    <3> QED
      BY <1>3, <3>1
  <2>2. CASE n < p
    <3>1. n + 1 \in 1..p
      BY <1>1, <2>2
    <3> QED
      BY <1>4, <3>1
  <2> QED
    BY <1>1, <2>1, <2>2
<1> HIDE DEF Stops
<1>7. stop = n
  BY <1>5, <1>6
<1> HIDE DEF stop, n
<1>8. [p \in 1..stop |-> CharAt(E, j, p)] = [p \in 1..n |-> name[p]]
  BY <1>3, <1>7
<1> QED
  BY <1>2, <1>8 DEF IsName, n

-----------------------------------------------------------------------------
(* The entries of a directory sector.                                      *)

Short(attr, len, c) == [attr |-> attr, size |-> len % UIntMod, cluster |-> c]

LEMMA Joined ==
    ASSUME NEW S, NEW s \in Seq(S), NEW t \in Seq(S)
    PROVE  /\ s \o t \in Seq(S) /\ Len(s \o t) = Len(s) + Len(t)
           /\ Len(s) \in Nat /\ Len(t) \in Nat
           /\ \A i \in 1..Len(s) : (s \o t)[i] = s[i]
           /\ \A i \in 1..Len(t) : (s \o t)[Len(s) + i] = t[i]
  OBVIOUS

LEMMA Repeated ==
    ASSUME NEW S, NEW x \in S, NEW n \in Nat
    PROVE  [j \in 1..n |-> x] \in Seq(S) /\ Len([j \in 1..n |-> x]) = n
  OBVIOUS

LEMMA OneMore ==
    ASSUME NEW S, NEW s \in Seq(S), NEW x \in S
    PROVE  /\ s \o <<x>> \in Seq(S) /\ Len(s \o <<x>>) = Len(s) + 1
           /\ (s \o <<x>>)[Len(s) + 1] = x
           /\ \A i \in 1..Len(s) : (s \o <<x>>)[i] = s[i]
  OBVIOUS

LEMMA SeqOfMore ==
    ASSUME NEW S, NEW T, S \subseteq T, NEW s \in Seq(S)
    PROVE  s \in Seq(T)
  OBVIOUS

\* A sector is filled from its end.
LEMMA SectorFilled ==
    ASSUME NEW S, NEW es \in Seq(S), Len(es) =< DirentPerSector
    PROVE  LET E == DirSector(es).entry
           IN  /\ DOMAIN E = 1..16 /\ DirSector(es).kind = "dir"
               /\ \A j \in 1..(16 - Len(es)) : E[j] = Deleted
               /\ \A i \in 1..Len(es) : E[(16 - Len(es)) + i] = es[i]
<1> DEFINE free == [j \in 1..(DirentPerSector - Len(es)) |-> Deleted]
           T == S \cup {Deleted}
<1>1. Len(es) \in Nat /\ Len(es) =< 16 /\ DirentPerSector = 16
  BY DEF DirentPerSector
<1>2. free \in Seq(T) /\ Len(free) = 16 - Len(es) /\ es \in Seq(T)
  <2> DEFINE n == 16 - Len(es)
  <2>1. n \in Nat /\ Deleted \in T /\ S \subseteq T
    BY <1>1
  <2>2. free = [j \in 1..n |-> Deleted]
    BY <1>1
  <2> HIDE DEF T, n, free
  <2>3. free \in Seq(T) /\ Len(free) = n
    BY <2>1, <2>2, Repeated
  <2>4. es \in Seq(T)
    BY <2>1, SeqOfMore
  <2> QED
    BY <2>3, <2>4 DEF n
<1>3. \A j \in 1..(16 - Len(es)) : free[j] = Deleted
  BY <1>1
<1> HIDE DEF free, T
<1>4. DirSector(es).entry = free \o es /\ DirSector(es).kind = "dir"
  BY DEF DirSector, free
<1>5. /\ Len(free \o es) = 16 /\ free \o es \in Seq(T)
      /\ \A i \in 1..Len(free) : (free \o es)[i] = free[i]
      /\ \A i \in 1..Len(es) : (free \o es)[Len(free) + i] = es[i]
  BY <1>1, <1>2, Joined
<1>6. DOMAIN (free \o es) = 1..16
  BY <1>5
<1> QED
  BY <1>2, <1>3, <1>4, <1>5, <1>6

RecordsOf(name, short) == {Lfn(name, i) : i \in 1..LfnCount(name)} \cup {short}

\* An entry: its long filename records, and the short one.
LEMMA EntryRecords ==
    ASSUME NEW name, Len(name) \in Nat, NEW len, NEW attr, NEW c
    PROVE  LET e == DirectoryEntry(name, len, attr, c)
               L == LfnCount(name)
               S == RecordsOf(name, Short(attr, len, c))
           IN  /\ e \in Seq(S) /\ Len(e) = L + 1 /\ e[L + 1] = Short(attr, len, c)
               /\ \A i \in 1..L : e[(L + 1) - i] = Lfn(name, i)
<1> DEFINE L == LfnCount(name)
           S == RecordsOf(name, Short(attr, len, c))
           s == [j \in 1..L |-> Lfn(name, L + 1 - j)]
           t == <<Short(attr, len, c)>>
<1>1. L \in Nat
  BY LfnRecords
<1>2. \A j \in 1..L : L + 1 - j \in 1..L /\ L + 1 - ((L + 1) - j) = j /\ (L + 1) - j \in 1..L
  BY <1>1
<1>3. \A j \in 1..L : Lfn(name, L + 1 - j) \in S
  BY <1>2 DEF RecordsOf
<1>4. DirectoryEntry(name, len, attr, c) = s \o t
  BY Zenon DEF DirectoryEntry, Short
<1>5. Short(attr, len, c) \in S
  BY DEF RecordsOf
<1> HIDE DEF L, S
<1>6. s \in Seq(S) /\ Len(s) = L
  BY <1>1, <1>3
<1>7. \A i \in 1..L : s[(L + 1) - i] = Lfn(name, i)
  BY <1>2
<1> HIDE DEF s
<1>8. /\ s \o t \in Seq(S) /\ Len(s \o t) = L + 1 /\ (s \o t)[L + 1] = Short(attr, len, c)
      /\ \A i \in 1..L : (s \o t)[i] = s[i]
  BY <1>5, <1>6, OneMore DEF t
<1>9. \A i \in 1..L : (s \o t)[(L + 1) - i] = Lfn(name, i)
  BY <1>2, <1>7, <1>8
<1> QED
  BY <1>4, <1>8, <1>9 DEF S, L

LEMMA Records ==
    /\ ~IsShort(Deleted) /\ ~IsLfn(Deleted)
    /\ \A name, i : ~IsShort(Lfn(name, i))
    /\ \A attr, len, c : IsShort(Short(attr, len, c))
  BY DEF IsShort, IsLfn, Deleted, Lfn, Short

\* A short record after the long name is found under that name alone.
LEMMA FoundUnder ==
    ASSUME NEW content, content.kind = "dir", NEW j \in DOMAIN content.entry,
           IsShort(content.entry[j]), NEW name, IsName(name),
           Named8(content.entry, j, name), LfnCount(name) < DirentPerSector, NEW n
    PROVE  j \in Matches(content, n) <=> n = name
<1>1. LfnCount(name) \in 1..(DirentPerSector - 1)
  BY LfnRecords DEF IsName, DirentPerSector
<1>2. \A k \in 1..(DirentPerSector - 1) : HasName(content.entry, j, k) <=> k = LfnCount(name)
  BY NameLength
<1>3. Decoded(content.entry, j, LfnCount(name)) = name
  BY NameDecoded
<1> QED
  BY <1>1, <1>2, <1>3, Zenon DEF Matches

\* The first sector with an entry lists it alone.
LEMMA OneEntry ==
    ASSUME NEW name, IsName(name), LfnCount(name) < DirentPerSector, NEW len, NEW attr, NEW c, NEW n
    PROVE  LET content == DirSector(DirectoryEntry(name, len, attr, c))
           IN  /\ Matches(content, n) = IF n = name THEN {16} ELSE {}
               /\ content.entry[16] = Short(attr, len, c)
<1> DEFINE es == DirectoryEntry(name, len, attr, c)
           content == DirSector(es)
           E == content.entry
           L == LfnCount(name)
           S == RecordsOf(name, Short(attr, len, c))
<1>1. L \in Nat /\ L > 0 /\ L + 1 =< 16 /\ DirentPerSector = 16 /\ Len(name) \in Nat
  BY LfnRecords DEF IsName, DirentPerSector
<1>2. /\ es \in Seq(S) /\ Len(es) = L + 1 /\ es[L + 1] = Short(attr, len, c)
      /\ \A i \in 1..L : es[(L + 1) - i] = Lfn(name, i)
  BY <1>1, EntryRecords
<1> HIDE DEF es, S
<1>3. /\ DOMAIN E = 1..16 /\ content.kind = "dir"
      /\ \A j \in 1..(16 - Len(es)) : E[j] = Deleted
      /\ \A i \in 1..Len(es) : E[(16 - Len(es)) + i] = es[i]
  BY <1>1, <1>2, SectorFilled
<1> HIDE DEF content, L
<1>4. E[16] = Short(attr, len, c)
  <2>1. L + 1 \in 1..Len(es) /\ (16 - Len(es)) + (L + 1) = 16
    BY <1>1, <1>2
  <2> QED
    BY <1>2, <1>3, <2>1
<1>5. \A i \in 1..L : E[16 - i] = Lfn(name, i)
  <2> SUFFICES ASSUME NEW i \in 1..L PROVE E[16 - i] = Lfn(name, i)
    OBVIOUS
  <2>1. (L + 1) - i \in 1..Len(es) /\ (16 - Len(es)) + ((L + 1) - i) = 16 - i
    BY <1>1, <1>2
  <2> QED
    BY <1>2, <1>3, <2>1
<1>6. \A j \in 1..15 : ~IsShort(E[j])
  <2> SUFFICES ASSUME NEW j \in 1..15 PROVE ~IsShort(E[j])
    OBVIOUS
  <2>1. CASE j \in 1..(16 - Len(es))
    BY <1>3, <2>1, Records
  <2>2. CASE j \notin 1..(16 - Len(es))
    <3>1. 16 - j \in 1..L /\ 16 - (16 - j) = j
      BY <1>1, <1>2, <2>2
    <3>2. E[j] = Lfn(name, 16 - j)
      BY <1>5, <3>1
    <3> QED
      BY <3>2, Records
  <2> QED
    BY <2>1, <2>2
<1>7. Matches(content, n) \subseteq {16}
  <2> SUFFICES ASSUME NEW j \in Matches(content, n) PROVE j = 16
    OBVIOUS
  <2>1. j \in 1..16 /\ IsShort(E[j])
    BY <1>3 DEF Matches
  <2> QED
    BY <1>6, <2>1
<1>8. 16 \in Matches(content, n) <=> n = name
  <2>1. Named8(E, 16, name) /\ L < DirentPerSector /\ 16 \in DOMAIN E /\ IsShort(E[16])
    BY <1>1, <1>3, <1>4, <1>5, Records DEF Named8, L
  <2> QED
    BY <1>3, <2>1, FoundUnder DEF L
<1>9. Matches(content, n) = IF n = name THEN {16} ELSE {}
  BY <1>7, <1>8
<1> QED
  BY <1>4, <1>9 DEF content, es

\* A sector without entries lists nothing.
LEMMA NoEntry == ASSUME NEW n PROVE Matches(EmptyDir, n) = {}
<1> DEFINE none == << >>
<1>1. none \in Seq({Deleted}) /\ Len(none) = 0 /\ 0 =< DirentPerSector
  BY DEF DirentPerSector
<1>2. EmptyDir = DirSector(none)
  BY DEF EmptyDir
<1> HIDE DEF none
<1>3. /\ DOMAIN DirSector(none).entry = 1..16
      /\ \A j \in 1..(16 - Len(none)) : DirSector(none).entry[j] = Deleted
  BY <1>1, SectorFilled
<1>4. DOMAIN EmptyDir.entry = 1..16 /\ \A j \in 1..16 : EmptyDir.entry[j] = Deleted
  BY <1>1, <1>2, <1>3
<1> QED
  BY <1>4, Records DEF Matches

\* The names of the directories fit one record each.
LEMMA DirNameOK ==
    ASSUME NEW name \in DirNames
    PROVE  IsName(name) /\ LfnCount(name) = 1 /\ Len(name) \in 3..9
<1>1. CASE name = BootName
  <2>1. Len(name) = 4 /\ name = [p \in 1..4 |-> name[p]] /\ \A p \in 1..4 : name[p] /= "nul"
    BY <1>1 DEF BootName
  <2> QED
    BY <2>1 DEF IsName, LfnCount, LfnChars
<1>2. CASE name = SourcesName
  <2>1. Len(name) = 7 /\ name = [p \in 1..7 |-> name[p]] /\ \A p \in 1..7 : name[p] /= "nul"
    BY <1>2 DEF SourcesName
  <2> QED
    BY <2>1 DEF IsName, LfnCount, LfnChars
<1>3. CASE name = EfiName
  <2>1. Len(name) = 3 /\ name = [p \in 1..3 |-> name[p]] /\ \A p \in 1..3 : name[p] /= "nul"
    BY <1>3 DEF EfiName
  <2> QED
    BY <2>1 DEF IsName, LfnCount, LfnChars
<1>4. CASE name = FontsName
  <2>1. Len(name) = 5 /\ name = [p \in 1..5 |-> name[p]] /\ \A p \in 1..5 : name[p] /= "nul"
    BY <1>4 DEF FontsName
  <2> QED
    BY <2>1 DEF IsName, LfnCount, LfnChars
<1>5. CASE name = ResourcesName
  <2>1. Len(name) = 9 /\ name = [p \in 1..9 |-> name[p]] /\ \A p \in 1..9 : name[p] /= "nul"
    BY <1>5 DEF ResourcesName
  <2> QED
    BY <2>1 DEF IsName, LfnCount, LfnChars
<1>6. CASE name = MicrosoftName
  <2>1. Len(name) = 9 /\ name = [p \in 1..9 |-> name[p]] /\ \A p \in 1..9 : name[p] /= "nul"
    BY <1>6 DEF MicrosoftName
  <2> QED
    BY <2>1 DEF IsName, LfnCount, LfnChars
<1> QED
  BY <1>1, <1>2, <1>3, <1>4, <1>5, <1>6 DEF DirNames

\* The lengths tell them apart, where it matters.
LEMMA NameLens ==
    /\ Len(EfiName) = 3 /\ Len(BootName) = 4 /\ Len(FontsName) = 5 /\ Len(SourcesName) = 7
    /\ Len(ResourcesName) = 9 /\ Len(MicrosoftName) = 9
  BY DEF EfiName, BootName, FontsName, SourcesName, ResourcesName, MicrosoftName

\* A sector of subdirectories: m pairs of records, each with another name.
Pairs(es, m, nm, cl) ==
    /\ m \in 0..3 /\ Len(es) = 2 * m
    /\ \A i \in 1..m : /\ es[2 * i - 1] = Lfn(nm[i], 1)
                       /\ es[2 * i] = Short("directory", 0, cl[i])
                       /\ nm[i] \in DirNames
    /\ \A i, k \in 1..m : nm[i] = nm[k] => i = k

LEMMA PairsFound ==
    ASSUME NEW S, NEW es \in Seq(S), NEW m, NEW nm, NEW cl, Pairs(es, m, nm, cl), NEW n
    PROVE  LET content == DirSector(es)
           IN  /\ (\A i \in 1..m : nm[i] /= n) => Matches(content, n) = {}
               /\ \A i \in 1..m : nm[i] = n =>
                     /\ Matches(content, n) /= {}
                     /\ FirstMatch(content, n) = Short("directory", 0, cl[i])
<1> DEFINE content == DirSector(es)
           E == content.entry
           At(i) == (16 - 2 * m) + 2 * i
<1>0. /\ m \in 0..3 /\ Len(es) = 2 * m
      /\ \A i \in 1..m : /\ es[2 * i - 1] = Lfn(nm[i], 1)
                         /\ es[2 * i] = Short("directory", 0, cl[i])
                         /\ nm[i] \in DirNames
      /\ \A i, k \in 1..m : nm[i] = nm[k] => i = k
  BY DEF Pairs
<1> USE <1>0
<1>1. /\ DOMAIN E = 1..16 /\ content.kind = "dir"
      /\ \A j \in 1..(16 - 2 * m) : E[j] = Deleted
      /\ \A i \in 1..(2 * m) : E[(16 - 2 * m) + i] = es[i]
  <2>1. Len(es) =< DirentPerSector
    BY DEF DirentPerSector
  <2>2. /\ DOMAIN E = 1..16 /\ content.kind = "dir"
        /\ \A j \in 1..(16 - Len(es)) : E[j] = Deleted
        /\ \A i \in 1..Len(es) : E[(16 - Len(es)) + i] = es[i]
    BY <2>1, SectorFilled
  <2> QED
    BY <2>2
<1> HIDE DEF content
<1>2. \A i \in 1..m :
         /\ At(i) \in 2..16 /\ E[At(i)] = Short("directory", 0, cl[i])
         /\ E[At(i) - 1] = Lfn(nm[i], 1)
  <2> SUFFICES ASSUME NEW i \in 1..m
               PROVE  /\ At(i) \in 2..16 /\ E[At(i)] = Short("directory", 0, cl[i])
                      /\ E[At(i) - 1] = Lfn(nm[i], 1)
    OBVIOUS
  <2>1. 2 * i \in 1..(2 * m) /\ 2 * i - 1 \in 1..(2 * m) /\ At(i) \in 2..16
        /\ (16 - 2 * m) + (2 * i - 1) = At(i) - 1
    OBVIOUS
  <2> QED
    BY <1>1, <2>1
<1>3. \A j \in 1..16 : IsShort(E[j]) => \E i \in 1..m : j = At(i)
  <2> SUFFICES ASSUME NEW j \in 1..16, \A i \in 1..m : j /= At(i) PROVE ~IsShort(E[j])
    OBVIOUS
  <2>1. CASE j =< 16 - 2 * m
    <3>1. E[j] = Deleted
      BY <1>1, <2>1
    <3> QED
      BY <3>1, Records
  <2>2. CASE j > 16 - 2 * m
    <3> DEFINE a == (j + 1) - (16 - 2 * m)
               i == a \div 2
    <3>1. i \in Nat /\ a % 2 \in 0..1 /\ a = 2 * i + (a % 2)
      <4>1. a \in Nat
        BY <2>2
      <4> HIDE DEF a
      <4> QED
        BY <4>1, DivMod
    <3>2. a \in 2..(2 * m + 1)
      BY <2>2
    <3> HIDE DEF i
    <3>3. i \in 1..m /\ (j = At(i) - 1 \/ j = At(i))
      BY <3>1, <3>2
    <3>4. E[j] = Lfn(nm[i], 1)
      BY <1>2, <3>3
    <3> QED
      BY <3>4, Records
  <2> QED
    BY <2>1, <2>2
<1>4. \A i \in 1..m : At(i) \in Matches(content, n) <=> n = nm[i]
  <2> SUFFICES ASSUME NEW i \in 1..m PROVE At(i) \in Matches(content, n) <=> n = nm[i]
    OBVIOUS
  <2>1. IsName(nm[i]) /\ LfnCount(nm[i]) = 1
    BY DirNameOK
  <2>2. At(i) \in DOMAIN E /\ IsShort(E[At(i)]) /\ LfnCount(nm[i]) < DirentPerSector
    BY <1>1, <1>2, <2>1, Records DEF DirentPerSector
  <2>3. Named8(E, At(i), nm[i])
    BY <1>2, <2>1, SMTT(30) DEF Named8
  <2>4. At(i) \in DOMAIN content.entry /\ IsShort(content.entry[At(i)])
        /\ Named8(content.entry, At(i), nm[i])
    BY <2>2, <2>3
  <2> HIDE DEF At, E
  <2> QED
    BY <1>1, <2>1, <2>2, <2>4, FoundUnder, SMTT(30)
<1>5. \A j \in Matches(content, n) : \E i \in 1..m : j = At(i) /\ n = nm[i]
  <2> SUFFICES ASSUME NEW j \in Matches(content, n) PROVE \E i \in 1..m : j = At(i) /\ n = nm[i]
    OBVIOUS
  <2>1. j \in 1..16 /\ IsShort(E[j])
    BY <1>1 DEF Matches
  <2> QED
    BY <1>3, <1>4, <2>1
<1>6. ASSUME NEW i \in 1..m, nm[i] = n
      PROVE  Matches(content, n) /= {} /\ FirstMatch(content, n) = Short("directory", 0, cl[i])
  <2>1. At(i) \in Nat
    BY <1>6, <1>0
  <2> HIDE DEF At
  <2>2. Matches(content, n) = {At(i)}
    BY <1>4, <1>5, <1>6
  <2>3. (CHOOSE j \in {At(i)} : \A k \in {At(i)} : j =< k) = At(i)
    BY <2>1
  <2>4. FirstMatch(content, n) = E[At(i)]
    BY <2>2, <2>3 DEF FirstMatch
  <2> QED
    BY <1>2, <2>2, <2>4
<1>7. (\A i \in 1..m : nm[i] /= n) => Matches(content, n) = {}
  BY <1>5
<1> QED
  BY <1>6, <1>7 DEF content

\* The entry of a subdirectory.
LEMMA SubDirPair ==
    ASSUME NEW name \in DirNames, NEW c
    PROVE  SubDir(name, c) = << Lfn(name, 1), Short("directory", 0, c) >>
<1> DEFINE dir == "directory"
           none == 0
           e == DirectoryEntry(name, none, dir, c)
           S == RecordsOf(name, Short(dir, none, c))
<1>1. Len(name) \in Nat
  BY DirNameOK
<1> HIDE DEF dir, none
<1>2. /\ e \in Seq(S) /\ Len(e) = LfnCount(name) + 1
      /\ e[LfnCount(name) + 1] = Short(dir, none, c)
      /\ \A i \in 1..LfnCount(name) : e[(LfnCount(name) + 1) - i] = Lfn(name, i)
  BY <1>1, EntryRecords
<1> USE DEF dir, none
<1> HIDE DEF e, S
<1>3. LfnCount(name) = 1
  BY DirNameOK
<1>4. e \in Seq(S) /\ Len(e) = 2 /\ e[2] = Short("directory", 0, c) /\ e[1] = Lfn(name, 1)
  BY <1>2, <1>3
<1>5. e = << e[1], e[2] >>
  BY <1>4
<1> QED
  BY <1>4, <1>5 DEF SubDir, e

\* The names of the subdirectories of a directory, and their clusters, in order.
SubNames(dir) ==
    CASE dir = RootCluster -> <<EfiName, SourcesName, BootName>>
      [] dir = BootCluster -> <<ResourcesName, FontsName>>
      [] dir = EfiCluster -> <<MicrosoftName, BootName>>
      [] dir = MicrosoftCluster -> <<BootName>>
      [] OTHER -> << >>
SubClusters(dir) ==
    CASE dir = RootCluster -> <<EfiCluster, SourcesCluster, BootCluster>>
      [] dir = BootCluster -> <<ResourcesCluster, FontsCluster>>
      [] dir = EfiCluster -> <<MicrosoftCluster, BootCluster>>
      [] dir = MicrosoftCluster -> <<BootCluster>>
      [] OTHER -> << >>
LEMMA SubNamesOK ==
    ASSUME NEW dir \in Directories
    PROVE  /\ Len(SubNames(dir)) \in 0..3
           /\ \A i \in 1..Len(SubNames(dir)) :
                 SubNames(dir)[i] \in DirNames /\ SubClusters(dir)[i] \in Directories
           /\ \A i, k \in 1..Len(SubNames(dir)) : SubNames(dir)[i] = SubNames(dir)[k] => i = k
           /\ Subs(dir) = {<<SubNames(dir)[i], SubClusters(dir)[i]>> : i \in 1..Len(SubNames(dir))}
<1> USE DEF SubNames, SubClusters, Subs, DirNames, Directories, RootCluster, BootCluster,
            SourcesCluster, FontsCluster, ResourcesCluster, EfiCluster, MicrosoftCluster
<1>1. CASE dir = 2
  BY <1>1, NameLens
<1>2. CASE dir = 3
  BY <1>2, NameLens
<1>3. CASE dir = 7
  BY <1>3, NameLens
<1>4. CASE dir = 8
  BY <1>4, NameLens
<1>5. CASE dir \in 4..6
  BY <1>5
<1>6. dir = 2 \/ dir = 3 \/ dir = 7 \/ dir = 8 \/ dir \in 4..6
  OBVIOUS
<1> QED
  BY <1>1, <1>2, <1>3, <1>4, <1>5, <1>6, Zenon

LEMMA SubsNames ==
    ASSUME NEW dir \in Directories, NEW n, NEW d, <<n, d>> \in Subs(dir)
    PROVE  n \in DirNames /\ d \in Directories
<1>1. PICK i \in 1..Len(SubNames(dir)) : <<n, d>> = <<SubNames(dir)[i], SubClusters(dir)[i]>>
  BY SubNamesOK
<1> QED
  BY <1>1, SubNamesOK

\* No two subdirectories of a directory have the same name.
LEMMA SubsUnique ==
    ASSUME NEW dir \in Directories, NEW n, NEW d, NEW e,
           <<n, d>> \in Subs(dir), <<n, e>> \in Subs(dir)
    PROVE  d = e
<1>1. PICK i \in 1..Len(SubNames(dir)) : <<n, d>> = <<SubNames(dir)[i], SubClusters(dir)[i]>>
  BY SubNamesOK
<1>2. PICK k \in 1..Len(SubNames(dir)) : <<n, e>> = <<SubNames(dir)[k], SubClusters(dir)[k]>>
  BY SubNamesOK
<1>3. i = k
  BY <1>1, <1>2, SubNamesOK
<1> QED
  BY <1>1, <1>2, <1>3

LEMMA Tuples ==
    ASSUME NEW a, NEW b, NEW c, NEW d, NEW e, NEW f
    PROVE  /\ <<a, b>> \o <<c, d>> = <<a, b, c, d>>
           /\ (<<a, b>> \o <<c, d>>) \o <<e, f>> = <<a, b, c, d, e, f>>
<1> DEFINE S == {a, b, c, d, e, f}
           s == <<a, b>>
           t == <<c, d>>
           u == <<e, f>>
           r == s \o t
           q == r \o u
<1>1. /\ s \in Seq(S) /\ t \in Seq(S) /\ u \in Seq(S) /\ Len(s) = 2 /\ Len(t) = 2 /\ Len(u) = 2
      /\ s[1] = a /\ s[2] = b /\ t[1] = c /\ t[2] = d /\ u[1] = e /\ u[2] = f
  OBVIOUS
<1> HIDE DEF s, t, u, S
<1>2. /\ r \in Seq(S) /\ Len(r) = 4
      /\ r[1] = a /\ r[2] = b /\ r[2 + 1] = c /\ r[2 + 2] = d
  <2>1. /\ r \in Seq(S) /\ Len(r) = Len(s) + Len(t)
        /\ \A i \in 1..Len(s) : r[i] = s[i]
        /\ \A i \in 1..Len(t) : r[Len(s) + i] = t[i]
    BY <1>1, Joined, SMTT(30)
  <2> QED
    BY <1>1, <2>1
<1>3. r = <<r[1], r[2], r[3], r[4]>>
  <2> HIDE DEF r
  <2> QED
    BY <1>2
<1> HIDE DEF r
<1>4. /\ q \in Seq(S) /\ Len(q) = 6
      /\ q[1] = a /\ q[2] = b /\ q[3] = c /\ q[4] = d /\ q[4 + 1] = e /\ q[4 + 2] = f
  <2>1. /\ q \in Seq(S) /\ Len(q) = Len(r) + Len(u)
        /\ \A i \in 1..Len(r) : q[i] = r[i]
        /\ \A i \in 1..Len(u) : q[Len(r) + i] = u[i]
    <3>1. r \in Seq(S) /\ u \in Seq(S)
      BY <1>1, <1>2
    <3> QED
      BY <3>1, Joined
  <2> QED
    BY <1>1, <1>2, <2>1
<1>5. q = <<q[1], q[2], q[3], q[4], q[5], q[6]>>
  <2> HIDE DEF q
  <2> QED
    BY <1>4
<1> QED
  BY <1>2, <1>3, <1>4, <1>5 DEF r, s, t, u

\* The records of the first sector of a directory.
LEMMA SubDirsRecords ==
    ASSUME NEW dir \in Directories
    PROVE  \E S : \E es \in Seq(S) :
              /\ SubDirs(dir) = DirSector(es)
              /\ Len(es) = 2 * Len(SubNames(dir))
              /\ \A i \in 1..Len(SubNames(dir)) :
                    /\ es[2 * i - 1] = Lfn(SubNames(dir)[i], 1)
                    /\ es[2 * i] = Short("directory", 0, SubClusters(dir)[i])
<1> DEFINE nm == SubNames(dir)
           cl == SubClusters(dir)
           Is(es) == /\ SubDirs(dir) = DirSector(es)
                     /\ Len(es) = 2 * Len(nm)
                     /\ \A i \in 1..Len(nm) : es[2 * i - 1] = Lfn(nm[i], 1)
                                              /\ es[2 * i] = Short("directory", 0, cl[i])
           L(n) == Lfn(n, 1)
           P(c) == Short("directory", 0, c)
<1>1. \A n \in DirNames : \A c : SubDir(n, c) = << L(n), P(c) >>
  BY SubDirPair
<1> HIDE DEF L, P
<1>2. /\ RootCluster = 2 /\ BootCluster = 3 /\ EfiCluster = 7 /\ MicrosoftCluster = 8
  BY DEF RootCluster, BootCluster, EfiCluster, MicrosoftCluster
<1>8. /\ RootCluster /= BootCluster /\ RootCluster /= EfiCluster /\ RootCluster /= MicrosoftCluster
      /\ EfiCluster /= BootCluster /\ EfiCluster /= MicrosoftCluster /\ BootCluster /= MicrosoftCluster
  BY <1>2
<1>3. CASE dir = RootCluster
  <2> DEFINE S == {L(EfiName), P(EfiCluster), L(SourcesName), P(SourcesCluster),
                   L(BootName), P(BootCluster)}
             es == <<L(EfiName), P(EfiCluster), L(SourcesName), P(SourcesCluster),
                     L(BootName), P(BootCluster)>>
  <2>1. es \in Seq(S) /\ Len(es) = 6
    OBVIOUS
  <2>2. (SubDir(EfiName, EfiCluster) \o SubDir(SourcesName, SourcesCluster))
          \o SubDir(BootName, BootCluster) = es
    <3>1. /\ SubDir(EfiName, EfiCluster) = <<L(EfiName), P(EfiCluster)>>
          /\ SubDir(SourcesName, SourcesCluster) = <<L(SourcesName), P(SourcesCluster)>>
          /\ SubDir(BootName, BootCluster) = <<L(BootName), P(BootCluster)>>
      BY <1>1 DEF DirNames
    <3> QED
      BY <3>1, Tuples
  <2>3. SubDirs(dir) = DirSector(es)
    BY <1>8, <1>3, <2>2, Zenon DEF SubDirs
  <2>4. nm = <<EfiName, SourcesName, BootName>> /\ cl = <<EfiCluster, SourcesCluster, BootCluster>>
    BY <1>2, <1>3 DEF SubNames, SubClusters
  <2>5. \A i \in 1..Len(nm) : es[2 * i - 1] = L(nm[i]) /\ es[2 * i] = P(cl[i])
    <3> SUFFICES ASSUME NEW i \in 1..3 PROVE es[2 * i - 1] = L(nm[i]) /\ es[2 * i] = P(cl[i])
      BY <2>4
    <3>1. i = 1 \/ i = 2 \/ i = 3
      OBVIOUS
    <3> QED
      BY <2>4, <3>1
  <2>6. Is(es)
    BY <2>1, <2>3, <2>4, <2>5 DEF L, P
  <2> QED
    BY <2>1, <2>6
<1>4. CASE dir = BootCluster
  <2> DEFINE S == {L(ResourcesName), P(ResourcesCluster), L(FontsName), P(FontsCluster)}
             es == <<L(ResourcesName), P(ResourcesCluster), L(FontsName), P(FontsCluster)>>
  <2>1. es \in Seq(S) /\ Len(es) = 4
    OBVIOUS
  <2>2. SubDir(ResourcesName, ResourcesCluster) \o SubDir(FontsName, FontsCluster) = es
    <3>1. /\ SubDir(ResourcesName, ResourcesCluster) = <<L(ResourcesName), P(ResourcesCluster)>>
          /\ SubDir(FontsName, FontsCluster) = <<L(FontsName), P(FontsCluster)>>
      BY <1>1 DEF DirNames
    <3> QED
      BY <3>1, Tuples
  <2>3. SubDirs(dir) = DirSector(es)
    BY <1>8, <1>4, <2>2, Zenon DEF SubDirs
  <2>4. nm = <<ResourcesName, FontsName>> /\ cl = <<ResourcesCluster, FontsCluster>>
    BY <1>2, <1>4 DEF SubNames, SubClusters
  <2>5. \A i \in 1..Len(nm) : es[2 * i - 1] = L(nm[i]) /\ es[2 * i] = P(cl[i])
    <3> SUFFICES ASSUME NEW i \in 1..2 PROVE es[2 * i - 1] = L(nm[i]) /\ es[2 * i] = P(cl[i])
      BY <2>4
    <3>1. i = 1 \/ i = 2
      OBVIOUS
    <3> QED
      BY <2>4, <3>1
  <2>6. Is(es)
    BY <2>1, <2>3, <2>4, <2>5 DEF L, P
  <2> QED
    BY <2>1, <2>6
<1>5. CASE dir = EfiCluster
  <2> DEFINE S == {L(MicrosoftName), P(MicrosoftCluster), L(BootName), P(BootCluster)}
             es == <<L(MicrosoftName), P(MicrosoftCluster), L(BootName), P(BootCluster)>>
  <2>1. es \in Seq(S) /\ Len(es) = 4
    OBVIOUS
  <2>2. SubDir(MicrosoftName, MicrosoftCluster) \o SubDir(BootName, BootCluster) = es
    <3>1. /\ SubDir(MicrosoftName, MicrosoftCluster) = <<L(MicrosoftName), P(MicrosoftCluster)>>
          /\ SubDir(BootName, BootCluster) = <<L(BootName), P(BootCluster)>>
      BY <1>1 DEF DirNames
    <3> QED
      BY <3>1, Tuples
  <2>3. SubDirs(dir) = DirSector(es)
    BY <1>8, <1>5, <2>2, Zenon DEF SubDirs
  <2>4. nm = <<MicrosoftName, BootName>> /\ cl = <<MicrosoftCluster, BootCluster>>
    BY <1>2, <1>5 DEF SubNames, SubClusters
  <2>5. \A i \in 1..Len(nm) : es[2 * i - 1] = L(nm[i]) /\ es[2 * i] = P(cl[i])
    <3> SUFFICES ASSUME NEW i \in 1..2 PROVE es[2 * i - 1] = L(nm[i]) /\ es[2 * i] = P(cl[i])
      BY <2>4
    <3>1. i = 1 \/ i = 2
      OBVIOUS
    <3> QED
      BY <2>4, <3>1
  <2>6. Is(es)
    BY <2>1, <2>3, <2>4, <2>5 DEF L, P
  <2> QED
    BY <2>1, <2>6
<1>6. CASE dir = MicrosoftCluster
  <2> DEFINE S == {L(BootName), P(BootCluster)}
             es == <<L(BootName), P(BootCluster)>>
  <2>1. es \in Seq(S) /\ Len(es) = 2
    OBVIOUS
  <2>2. SubDir(BootName, BootCluster) = es
    BY <1>1 DEF DirNames
  <2>3. SubDirs(dir) = DirSector(es)
    BY <1>8, <1>6, <2>2, Zenon DEF SubDirs
  <2>4. nm = <<BootName>> /\ cl = <<BootCluster>>
    BY <1>2, <1>6 DEF SubNames, SubClusters
  <2>5. \A i \in 1..Len(nm) : es[2 * i - 1] = L(nm[i]) /\ es[2 * i] = P(cl[i])
    <3> SUFFICES ASSUME NEW i \in 1..1 PROVE es[2 * i - 1] = L(nm[i]) /\ es[2 * i] = P(cl[i])
      BY <2>4
    <3>1. i = 1
      OBVIOUS
    <3> QED
      BY <2>4, <3>1
  <2>6. Is(es)
    BY <2>1, <2>3, <2>4, <2>5 DEF L, P
  <2> QED
    BY <2>1, <2>6
<1>7. CASE dir \notin {RootCluster, BootCluster, EfiCluster, MicrosoftCluster}
  <2> DEFINE es == << >>
  <2>1. es \in Seq({}) /\ Len(es) = 0
    OBVIOUS
  <2>2. SubDirs(dir) = DirSector(es)
    BY <1>7, Zenon DEF SubDirs
  <2>3. nm = << >>
    BY <1>7 DEF SubNames
  <2>4. Is(es)
    BY <2>1, <2>2, <2>3
  <2> QED
    BY <2>1, <2>4
<1> QED
  BY <1>3, <1>4, <1>5, <1>6, <1>7

\* The first sector of a directory lists its subdirectories and nothing else.
LEMMA SubDirsFound ==
    ASSUME NEW dir \in Directories, NEW n
    PROVE  /\ (\A d \in Directories : <<n, d>> \notin Subs(dir)) => Matches(SubDirs(dir), n) = {}
           /\ \A d \in Directories : <<n, d>> \in Subs(dir) =>
                 /\ Matches(SubDirs(dir), n) /= {}
                 /\ FirstMatch(SubDirs(dir), n) = Short("directory", 0, d)
<1> DEFINE nm == SubNames(dir)
           cl == SubClusters(dir)
           m == Len(nm)
<1>1. PICK S : \E es \in Seq(S) :
              /\ SubDirs(dir) = DirSector(es)
              /\ Len(es) = 2 * m
              /\ \A i \in 1..m : es[2 * i - 1] = Lfn(nm[i], 1)
                                 /\ es[2 * i] = Short("directory", 0, cl[i])
  BY SubDirsRecords
<1>2. PICK es \in Seq(S) :
              /\ SubDirs(dir) = DirSector(es)
              /\ Len(es) = 2 * m
              /\ \A i \in 1..m : es[2 * i - 1] = Lfn(nm[i], 1)
                                 /\ es[2 * i] = Short("directory", 0, cl[i])
  BY <1>1
<1>3. /\ m \in 0..3
      /\ \A i \in 1..m : nm[i] \in DirNames /\ cl[i] \in Directories
      /\ \A i, k \in 1..m : nm[i] = nm[k] => i = k
      /\ Subs(dir) = {<<nm[i], cl[i]>> : i \in 1..m}
  BY SubNamesOK
<1> HIDE DEF nm, cl, m
<1>4. /\ (\A i \in 1..m : nm[i] /= n) => Matches(SubDirs(dir), n) = {}
      /\ \A i \in 1..m : nm[i] = n =>
            /\ Matches(SubDirs(dir), n) /= {}
            /\ FirstMatch(SubDirs(dir), n) = Short("directory", 0, cl[i])
  <2>1. /\ (\A i \in 1..m : nm[i] /= n) => Matches(DirSector(es), n) = {}
        /\ \A i \in 1..m : nm[i] = n =>
              /\ Matches(DirSector(es), n) /= {}
              /\ FirstMatch(DirSector(es), n) = Short("directory", 0, cl[i])
    <3>1. Pairs(es, m, nm, cl)
      BY <1>2, <1>3 DEF Pairs
    <3> QED
      BY <3>1, PairsFound
  <2> QED
    BY <1>2, <2>1
<1>5. ASSUME \A d \in Directories : <<n, d>> \notin Subs(dir)
      PROVE  Matches(SubDirs(dir), n) = {}
  <2>1. \A i \in 1..m : nm[i] /= n
    BY <1>3, <1>5
  <2> QED
    BY <1>4, <2>1
<1>6. ASSUME NEW d \in Directories, <<n, d>> \in Subs(dir)
      PROVE  /\ Matches(SubDirs(dir), n) /= {}
             /\ FirstMatch(SubDirs(dir), n) = Short("directory", 0, d)
  <2>1. PICK i \in 1..m : <<n, d>> = <<nm[i], cl[i]>>
    BY <1>3, <1>6
  <2>2. nm[i] = n /\ cl[i] = d
    BY <2>1
  <2> QED
    BY <1>4, <2>2
<1> QED
  BY <1>5, <1>6

\* A name of the initrd, cut, fits the records of one sector, and is not the name
\* of a directory.
LEMMA StoredName ==
    ASSUME NEW name \in Names
    PROVE  /\ IsName(Cut(name)) /\ LfnCount(Cut(name)) < DirentPerSector
           /\ Cut(name) \notin DirNames
<1> DEFINE S == {name[p] : p \in DOMAIN name} \ {"nul"}
<1>1. name \in Seq(S) /\ "nul" \notin S /\ Cut(name) \notin DirNames
  BY NamesAssumption
<1> HIDE DEF S
<1>2. \A s \in Seq(S) : IsName(s)
  BY <1>1 DEF IsName
<1>3. Cut(name) \in Seq(S) /\ Len(Cut(name)) =< 31
  <2>1. CASE Len(name) =< NameLen
    BY <1>1, <2>1 DEF Cut, NameLen
  <2>2. CASE ~(Len(name) =< NameLen)
    <3> DEFINE n == Len(name)
    <3>0. n \in Nat /\ n > 31
      BY <1>1, <2>2 DEF NameLen
    <3>1. Cut(name) = SubSeq(name, 1, 31) /\ Len(name) \in Nat /\ Len(name) > 31
      BY <1>1, <2>2 DEF Cut, NameLen
    <3>2. \A p \in 1..31 : name[p] \in S
      <4> SUFFICES ASSUME NEW p \in 1..31 PROVE name[p] \in S
        OBVIOUS
      <4>1. p \in 1..n
        <5> HIDE DEF n
        <5> QED
          BY <3>0
      <4> QED
        BY <1>1, <4>1
    <3>3. SubSeq(name, 1, 31) \in Seq(S) /\ Len(SubSeq(name, 1, 31)) = 31
      BY <1>1, <3>1, <3>2
    <3> QED
      BY <3>1, <3>3
  <2> QED
    BY <2>1, <2>2
<1>4. LfnCount(Cut(name)) < DirentPerSector
  <2>1. Len(Cut(name)) \in Nat
    BY <1>3
  <2> QED
    BY <1>3, <2>1, DivMod DEF LfnCount, LfnChars, DirentPerSector
<1> QED
  BY <1>1, <1>2, <1>3, <1>4

\* The other sectors of a directory list one file each.
LEMMA ListingFound ==
    ASSUME FilesOK, StoredInv, NEW idx \in 0..(MaxFiles - 1), NEW n
    PROVE  /\ ~(files[idx].used /\ files[idx].name = n) => Matches(Listing(files, idx), n) = {}
           /\ files[idx].used /\ files[idx].name = n =>
                /\ Matches(Listing(files, idx), n) /= {}
                /\ FirstMatch(Listing(files, idx), n)
                     = Short("read_only", files[idx].len, FileCluster(idx))
<1>1. CASE ~files[idx].used
  <2>1. Listing(files, idx) = EmptyDir
    BY <1>1 DEF Listing
  <2> QED
    BY <1>1, <2>1, NoEntry
<1>2. CASE files[idx].used
  <2> DEFINE name == files[idx].name
             len == files[idx].len
             attr == "read_only"
             c == FileCluster(idx)
             content == DirSector(DirectoryEntry(name, len, attr, c))
             short == Short(attr, len, c)
  <2>1. IsName(name) /\ LfnCount(name) < DirentPerSector
    BY <1>2, StoredName DEF StoredInv
  <2>2. Listing(files, idx) = content
    BY <1>2, Zenon DEF Listing
  <2>3. /\ Matches(content, n) = IF n = name THEN {16} ELSE {}
        /\ content.entry[16] = short
    <3> HIDE DEF name, len, attr, c
    <3> QED
      BY <2>1, OneEntry
  <2> HIDE DEF content, short
  <2>4. (CHOOSE j \in {16} : \A i \in {16} : j =< i) = 16
    OBVIOUS
  <2>5. n = name => FirstMatch(content, n) = content.entry[16]
    BY <2>3, <2>4 DEF FirstMatch
  <2> QED
    BY <1>2, <2>2, <2>3, <2>5 DEF short
<1> QED
  BY <1>1, <1>2

-----------------------------------------------------------------------------
(* What the sectors that the driver reads hold.                            *)

LEMMA ReadMbr == ASSUME NEW content, Shows(files, 0, content) PROVE content = Mbr
  BY DEF Shows

LEMMA ReadVbr == ASSUME NEW content, Shows(files, VbrLba, content) PROVE content = Vbr
  BY DEF Shows

LEMMA ReadDir ==
    ASSUME NEW dir \in Directories, NEW s \in 0..(ClusterCount - 1), NEW content,
           Shows(files, ClusterLba(dir) + s, content)
    PROVE  content = IF s = 0 THEN SubDirs(dir) ELSE Listing(files, s - 1)
<1> DEFINE l == ClusterLba(dir) + s
<1>1. ClusterLba(dir) \in Nat /\ ClusterCount \in Nat
  BY DirPlace, Layout
<1>2. InDir(l, dir)
  BY <1>1 DEF InDir
<1>3. content = IF l = ClusterLba(dir) THEN SubDirs(dir) ELSE Listing(files, l - ClusterLba(dir) - 1)
  BY <1>2 DEF Shows
<1>4. (l = ClusterLba(dir) <=> s = 0) /\ l - ClusterLba(dir) - 1 = s - 1
  BY <1>1
<1> QED
  BY <1>3, <1>4

\* The FAT sector of a cluster, and the entry in it.
LEMMA FatSectorOf ==
    ASSUME NEW c \in Nat, c < SectorsPerFat * FatEntries
    PROVE  LET q == c \div FatEntries
               r == c % FatEntries
           IN  /\ q \in 0..(SectorsPerFat - 1) /\ r \in 0..(FatEntries - 1)
               /\ c = q * FatEntries + r
<1> DEFINE q == c \div FatEntries
           r == c % FatEntries
<1>1. FatEntries \in Nat /\ FatEntries > 0 /\ SectorsPerFat \in Nat
  BY Layout
<1>2. q \in Nat /\ r \in 0..(FatEntries - 1) /\ c = q * FatEntries + r
  BY <1>1, DivMod
<1> HIDE DEF q, r
<1>3. CASE q >= SectorsPerFat
  <2>1. SectorsPerFat * FatEntries =< q * FatEntries /\ q * FatEntries \in Nat
        /\ SectorsPerFat * FatEntries \in Nat
    BY <1>1, <1>2, <1>3, MulMono, MulTypes
  <2> QED
    BY <1>2, <2>1
<1> QED
  BY <1>1, <1>2, <1>3 DEF q, r

LEMMA ReadFat ==
    ASSUME NEW c \in Nat, c < SectorsPerFat * FatEntries, NEW content,
           Shows(files, FatLba + c \div FatEntries, content)
    PROVE  FatEntryOK(files, c, content.next[c % FatEntries])
<1> DEFINE q == c \div FatEntries
           r == c % FatEntries
<1>1. q \in 0..(SectorsPerFat - 1) /\ r \in 0..(FatEntries - 1) /\ c = q * FatEntries + r
  BY FatSectorOf
<1>2. SectorsPerFat \in Nat /\ FatLba \in Nat
  BY Layout, MetadataPlace
<1>3. Shows(files, FatLba + q, content)
  OBVIOUS
<1> HIDE DEF q, r
<1>4. InFat(FatLba + q) /\ (FatLba + q) - FatLba = q
  BY <1>1, <1>2 DEF InFat
<1>5. FatEntryOK(files, ((FatLba + q) - FatLba) * FatEntries + r, content.next[r])
  BY <1>1, <1>3, <1>4 DEF Shows
<1>6. FatEntryOK(files, c, content.next[r])
  BY <1>1, <1>4, <1>5
<1> QED
  BY <1>6 DEF r

LEMMA ReadData ==
    ASSUME NEW idx \in 0..(MaxFiles - 1), NEW o \in 0..(FileCount - 1), NEW content,
           Shows(files, FileLba(idx) + o, content)
    PROVE  content = FileData(files[idx], o * SectorSize, BytesAt(files[idx].len, o * SectorSize))
<1> DEFINE l == FileLba(idx) + o
<1>1. FileLba(idx) \in Int /\ FileCount \in Nat /\ idx \in Int
  BY Layout, SlotOrder
<1>2. FileLba(idx) =< l /\ l < FileLba(idx) + FileCount /\ l - FileLba(idx) = o
  BY <1>1
<1>3. content = FileData(files[idx], (l - FileLba(idx)) * SectorSize,
                         BytesAt(files[idx].len, (l - FileLba(idx)) * SectorSize))
  BY <1>2 DEF Shows
<1> QED
  BY <1>2, <1>3

-----------------------------------------------------------------------------
(* The reads that the driver asks for.                                     *)

\* The part of a file before a cluster.
Before(idx, c) == (c - FileCluster(idx)) * ClusterSize

\* A cluster of a file lies in the file's slot, and its entry in the FAT.
LEMMA FilePlace ==
    ASSUME NEW idx \in 0..(MaxFiles - 1), NEW c \in Nat, c >= FileCluster(idx),
           NEW len \in 0..(UIntMod - 1), Before(idx, c) < len
    PROVE  LET k == c - FileCluster(idx)
           IN  /\ k \in Nat /\ k < FileClusters
               /\ Before(idx, c) = (k * ClusterCount) * SectorSize /\ Before(idx, c) \in Nat
               /\ ClusterLba(c) = FileLba(idx) + k * ClusterCount
               /\ k * ClusterCount \in Nat /\ k * ClusterCount + ClusterCount =< FileCount
               /\ c \notin Directories /\ c < FileCluster(idx + 1)
               /\ c < SectorsPerFat * FatEntries
<1> DEFINE k == c - FileCluster(idx)
<1>1. /\ ClusterCount \in Nat /\ ClusterCount > 0 /\ SectorSize \in Nat /\ SectorSize > 0
      /\ FileCount \in Nat /\ FileClusters \in Nat /\ ClusterSize \in Nat /\ ClusterSize > 0
      /\ FatEntries > 8 /\ FatEntries \in Nat /\ MaxFiles \in Nat /\ UIntMod \in Nat
      /\ FileClusters * ClusterSize = FileCount * SectorSize
      /\ FileCount = ClusterCount * FileClusters
  BY Layout, SlotSize
<1>2. /\ FileCluster(idx) \in Int /\ FatEntries =< FileCluster(idx)
      /\ FileCluster(idx + 1) \in Int /\ FileCluster(idx + 1) = FileCluster(idx) + FileClusters
  BY SlotLimits
<1>3. k \in Nat /\ FileCluster(idx) + k = c
  BY <1>2
<1>4. ClusterLba(c) = FileLba(idx) + k * ClusterCount
  BY <1>3, ClusterOfSlot
<1> HIDE DEF k
<1>5. k < FileClusters
  <2>1. CASE FileClusters =< k
    <3>1. FileClusters * ClusterSize =< k * ClusterSize
      BY <1>1, <1>3, <2>1, MulMono
    <3>2. UIntMod =< FileCount * SectorSize
      BY WidthsAssumption DEF WidthsOK
    <3>3. k * ClusterSize \in Nat /\ FileCount * SectorSize \in Nat
      BY <1>1, <1>3, MulTypes
    <3>4. k * ClusterSize < len
      BY DEF Before, k
    <3> QED
      BY <1>1, <3>1, <3>2, <3>3, <3>4
  <2> QED
    BY <1>1, <1>3, <2>1
<1>6. k * ClusterCount \in Nat /\ k * ClusterCount + ClusterCount =< FileCount
  <2>1. k * ClusterCount + ClusterCount =< FileClusters * ClusterCount
    BY <1>1, <1>3, <1>5, MulApart
  <2> QED
    BY <1>1, <1>3, <2>1, MulTypes
<1>7. Before(idx, c) = (k * ClusterCount) * SectorSize /\ Before(idx, c) \in Nat
  <2>1. Before(idx, c) = k * (ClusterCount * SectorSize)
    BY DEF Before, ClusterSize, k
  <2>2. k * (ClusterCount * SectorSize) = (k * ClusterCount) * SectorSize
    BY <1>1, <1>3
  <2> QED
    BY <1>1, <1>6, <2>1, <2>2, MulTypes
<1>8. c < FileCluster(idx + 1)
  BY <1>1, <1>2, <1>3, <1>5
<1>9. c < SectorsPerFat * FatEntries
  <2>1. FileCluster(idx + 1) =< FileCluster(MaxFiles) /\ FileCluster(MaxFiles) \in Int
    <3> DEFINE i == idx + 1
    <3>1. i \in Int /\ MaxFiles \in Int /\ i =< MaxFiles
      BY <1>1
    <3> HIDE DEF i
    <3>2. FileCluster(i) =< FileCluster(MaxFiles) /\ FileCluster(MaxFiles) \in Int
      BY <3>1, SlotClusters
    <3> QED
      BY <3>2 DEF i
  <2>2. FileCluster(MaxFiles) =< SectorsPerFat * FatEntries /\ SectorsPerFat * FatEntries \in Nat
    BY Layout, MulTypes, GeometryAssumption DEF GeometryOK
  <2> QED
    BY <1>2, <1>8, <2>1, <2>2
<1>10. c \notin Directories
  BY <1>1, <1>2 DEF Directories
<1> QED
  BY <1>3, <1>4, <1>5, <1>6, <1>7, <1>8, <1>9, <1>10 DEF k

LEMMA DirFat ==
    ASSUME NEW dir \in Directories
    PROVE  dir \in Nat /\ dir < SectorsPerFat * FatEntries
<1>1. FatEntries \in Nat /\ FatEntries > 8 /\ SectorsPerFat \in Nat
  BY Layout
<1>2. FatEntries =< SectorsPerFat * FatEntries
  <2>1. MaxFiles \in Nat /\ MaxFiles > 0
    BY Layout
  <2>2. FileCluster(0) =< FileCluster(MaxFiles) /\ FileCluster(0) \in Int
        /\ FileCluster(MaxFiles) \in Int
    BY <2>1, SlotClusters
  <2>3. FatEntries =< FileCluster(0) /\ FileCluster(MaxFiles) =< SectorsPerFat * FatEntries
        /\ SectorsPerFat * FatEntries \in Nat
    BY <1>1, MulTypes, GeometryAssumption DEF GeometryOK
  <2> QED
    BY <1>1, <2>2, <2>3
<1> QED
  BY <1>1, <1>2, MulTypes DEF Directories

\* Whatever the driver asks for lies on the device, and is answered as promised.
Asked == /\ AskLba \in Nat /\ AskCount \in {1, ClusterCount} /\ RequestOK(AskLba, AskCount)
         /\ device.lba =< AskLba /\ AskLba + AskCount =< VDiskCount

\* What it takes for that.
Askable(lba, count) ==
    /\ lba \in Nat
    /\ lba = 0 \/ VbrLba =< lba
    /\ \/ lba + count =< FileCount
       \/ \E idx \in 0..(MaxFiles - 1) : FileLba(idx) =< lba /\ lba + count =< FileLba(idx + 1)

LEMMA Askables ==
    ASSUME NEW lba, NEW count \in {1, ClusterCount}, Askable(lba, count)
    PROVE  RequestOK(lba, count) /\ lba + count =< VDiskCount
<1>1. /\ FileCount \in Nat /\ ClusterCount \in Nat /\ MaxFiles \in Nat /\ MaxFiles > 0
      /\ lba \in Nat /\ count \in Nat
  BY Layout DEF Askable
<1>2. FileLba(MaxFiles) \in Int /\ FileCount =< FileLba(MaxFiles)
  <2>1. MaxFiles \in Int /\ MaxFiles =< MaxFiles /\ 0 =< MaxFiles
    BY <1>1
  <2> QED
    BY <2>1, SlotOrder
<1>3. lba + count =< FileLba(MaxFiles) /\ (lba + count =< FileCount \/ FileCount =< lba)
  <2>1. CASE lba + count =< FileCount
    BY <1>1, <1>2, <2>1
  <2>2. ASSUME NEW idx \in 0..(MaxFiles - 1), FileLba(idx) =< lba, lba + count =< FileLba(idx + 1)
        PROVE  lba + count =< FileLba(MaxFiles) /\ FileCount =< lba
    <3> DEFINE i == idx + 1
    <3>1. /\ i \in Int /\ idx \in Int /\ MaxFiles \in Int
          /\ i =< MaxFiles /\ idx =< idx /\ 0 =< idx
      BY <1>1
    <3> HIDE DEF i
    <3>2. FileLba(idx) \in Int /\ FileCount =< FileLba(idx)
      BY <3>1, SlotOrder
    <3>3. FileLba(i) \in Int /\ FileLba(i) =< FileLba(MaxFiles)
      BY <3>1, SlotOrder
    <3>4. lba + count =< FileLba(i)
      BY <2>2 DEF i
    <3> QED
      BY <1>1, <1>2, <2>2, <3>2, <3>3, <3>4
  <2> QED
    BY <2>1, <2>2 DEF Askable
<1>4. FileLba(MaxFiles) =< VDiskCount
  BY GeometryAssumption DEF GeometryOK
<1>5. VDiskCount \in Int
  <2>1. Clusters \in Nat
    BY GeometryAssumption DEF GeometryOK
  <2> QED
    BY <2>1, Layout, MulTypes DEF VDiskCount, PartitionCount, ReservedCount
<1> QED
  BY <1>1, <1>2, <1>3, <1>4, <1>5, RequestFits

LEMMA DataPlace ==
    ASSUME FilesOK, DataInv, step \in {"data", "fat"}, path = << >>
    PROVE  \E idx \in Named :
              /\ Progress(idx) /\ \A i \in Named : idx =< i
              /\ idx \in 0..(MaxFiles - 1) /\ files[idx].len \in 0..(UIntMod - 1)
              /\ cluster \in Nat /\ cluster >= FileCluster(idx)
              /\ Before(idx, cluster) < files[idx].len
<1>1. PICK idx \in Named : Progress(idx) /\ \A i \in Named : idx =< i
  BY DEF DataInv
<1>2. idx \in 0..(MaxFiles - 1)
  BY DEF Named
<1>3. files[idx].len \in 0..(UIntMod - 1)
  BY <1>2 DEF FilesOK
<1>4. cluster \in Nat /\ cluster >= FileCluster(idx) /\ Before(idx, cluster) < files[idx].len
  BY <1>1 DEF Progress, Before
<1> QED
  BY <1>1, <1>2, <1>3, <1>4

LEMMA AskInv ==
    ASSUME ReadInv, DriverInv, step \in Busy
    PROVE  Asked
<1>1. /\ VbrLba \in Nat /\ VbrLba > 0 /\ FatLba \in Nat /\ VbrLba < FatLba
      /\ FatLba + SectorsPerFat =< FileCount /\ FileCount \in Nat /\ FileCount > 0
      /\ ClusterCount \in Nat /\ ClusterCount > 0 /\ SectorsPerFat \in Nat /\ VbrLba < FileCount
      /\ VbrLba = PartitionLba
  BY Layout, MetadataPlace DEF VbrLba
<1>2. device.lba \in {0, VbrLba} /\ (step = "mbr" => device.lba = 0)
  BY DEF DriverInv, VolumeInv, Devices, Int13Drive, EfiVDisk, EfiVPartition, VbrLba
<1>3. AskCount \in {1, ClusterCount}
  BY DEF AskCount
<1>4. SUFFICES Askable(AskLba, AskCount) /\ (step /= "mbr" => VbrLba =< AskLba)
  <2>1. Askable(AskLba, AskCount) => RequestOK(AskLba, AskCount) /\ AskLba + AskCount =< VDiskCount
    BY <1>3, Askables
  <2>2. Askable(AskLba, AskCount) => AskLba \in Nat
    BY DEF Askable
  <2>3. (step /= "mbr" => VbrLba =< AskLba) /\ AskLba \in Nat => device.lba =< AskLba
    BY <1>1, <1>2
  <2> QED
    BY <1>3, <2>1, <2>2, <2>3 DEF Asked
<1>5. CASE step = "mbr"
  <2>1. AskLba = 0 /\ AskCount = 1
    BY <1>5 DEF AskLba, AskCount
  <2> QED
    BY <1>1, <1>5, <2>1 DEF Askable
<1>6. CASE step = "vbr"
  <2>1. AskLba = VbrLba /\ AskCount = 1
    BY <1>6 DEF AskLba, AskCount
  <2> QED
    BY <1>1, <1>6, <2>1 DEF Askable
<1>7. CASE step = "dir"
  <2>1. AskLba = ClusterLba(cluster) + sector /\ AskCount = 1
    BY <1>7 DEF AskLba, AskCount
  <2>2. cluster \in Directories /\ sector \in 0..(ClusterCount - 1)
    BY <1>7 DEF DriverInv, PathInv
  <2>3. /\ ClusterLba(cluster) \in Nat /\ FatLba + SectorsPerFat =< ClusterLba(cluster)
        /\ ClusterLba(cluster) + ClusterCount =< FileCount
    BY <2>2, DirPlace
  <2> QED
    BY <1>1, <2>1, <2>2, <2>3 DEF Askable
<1>8. CASE step = "data"
  <2>1. AskLba = ClusterLba(cluster) /\ AskCount = ClusterCount
    BY <1>8 DEF AskLba, AskCount
  <2>2. path = << >>
    BY <1>8 DEF DriverInv, PathInv
  <2>3. PICK idx \in Named :
              /\ idx \in 0..(MaxFiles - 1) /\ files[idx].len \in 0..(UIntMod - 1)
              /\ cluster \in Nat /\ cluster >= FileCluster(idx)
              /\ Before(idx, cluster) < files[idx].len
    BY <1>8, <2>2, DataPlace DEF ReadInv, DriverInv
  <2> DEFINE o == (cluster - FileCluster(idx)) * ClusterCount
  <2>4. ClusterLba(cluster) = FileLba(idx) + o /\ o \in Nat /\ o + ClusterCount =< FileCount
    BY <2>3, FilePlace
  <2> HIDE DEF o
  <2>5. idx \in Int /\ idx =< idx /\ 0 =< idx
    BY <2>3
  <2>6. FileLba(idx) \in Int /\ FileLba(idx + 1) = FileLba(idx) + FileCount
        /\ FileCount =< FileLba(idx)
    BY <2>5, SlotOrder
  <2> QED
    BY <1>1, <2>1, <2>3, <2>4, <2>6 DEF Askable
<1>9. CASE step = "fat"
  <2> DEFINE q == cluster \div FatEntries
  <2>1. AskLba = FatLba + q /\ AskCount = 1
    BY <1>9 DEF AskLba, AskCount
  <2>2. cluster \in Nat /\ cluster < SectorsPerFat * FatEntries
    <3>1. CASE path = << >>
      <4>1. PICK idx \in Named :
              /\ idx \in 0..(MaxFiles - 1) /\ files[idx].len \in 0..(UIntMod - 1)
              /\ cluster \in Nat /\ cluster >= FileCluster(idx)
              /\ Before(idx, cluster) < files[idx].len
        BY <1>9, <3>1, DataPlace DEF ReadInv, DriverInv
      <4> QED
        BY <4>1, FilePlace
    <3>2. CASE path /= << >>
      <4>1. cluster \in Directories
        BY <1>9, <3>2 DEF DriverInv, PathInv
      <4> QED
        BY <4>1, DirFat
    <3> QED
      BY <3>1, <3>2
  <2>3. q \in 0..(SectorsPerFat - 1)
    BY <2>2, FatSectorOf
  <2> HIDE DEF q
  <2> QED
    BY <1>1, <2>1, <2>3 DEF Askable
<1> QED
  BY <1>5, <1>6, <1>7, <1>8, <1>9 DEF Busy

-----------------------------------------------------------------------------
(* Walks through the directories.                                          *)

\* From the root through the directories of a path to one of them.
Walk(d, e) ==
    /\ d \in Seq(DirNames)
    /\ \E w \in [1..(Len(d) + 1) -> Directories] :
          /\ w[1] = RootCluster /\ w[Len(d) + 1] = e
          /\ \A k \in 1..Len(d) : <<d[k], w[k + 1]>> \in Subs(w[k])

LEMMA WalkOn ==
    ASSUME NEW d, NEW e, Walk(d, e), NEW n \in DirNames, NEW f \in Directories,
           <<n, f>> \in Subs(e)
    PROVE  Walk(d \o <<n>>, f)
<1> DEFINE p == d \o <<n>>
           m == Len(d)
<1>1. d \in Seq(DirNames) /\ m \in Nat
  BY DEF Walk
<1>2. /\ p \in Seq(DirNames) /\ Len(p) = m + 1 /\ p[m + 1] = n
      /\ \A i \in 1..m : p[i] = d[i]
  BY <1>1, OneMore
<1>3. PICK w \in [1..(m + 1) -> Directories] :
          /\ w[1] = RootCluster /\ w[m + 1] = e
          /\ \A k \in 1..m : <<d[k], w[k + 1]>> \in Subs(w[k])
  BY DEF Walk
<1> HIDE DEF p, m
<1> DEFINE v == [k \in 1..(m + 2) |-> IF k =< m + 1 THEN w[k] ELSE f]
<1>4. v \in [1..(m + 2) -> Directories] /\ v[1] = RootCluster /\ v[m + 2] = f
  BY <1>1, <1>3
<1>5. \A k \in 1..(m + 1) : v[k] = w[k]
  BY <1>1
<1> HIDE DEF v
<1>6. ASSUME NEW k \in 1..(m + 1) PROVE <<p[k], v[k + 1]>> \in Subs(v[k])
  <2>1. CASE k \in 1..m
    <3>1. k + 1 \in 1..(m + 1)
      BY <1>1, <2>1
    <3>2. p[k] = d[k] /\ v[k + 1] = w[k + 1] /\ v[k] = w[k]
      BY <1>2, <1>5, <2>1, <3>1
    <3> QED
      BY <1>3, <2>1, <3>2
  <2>2. CASE k = m + 1
    <3>1. p[k] = n /\ v[k] = e
      BY <1>2, <1>3, <1>5, <2>2
    <3>2. v[k + 1] = f
      BY <1>1, <1>4, <2>2
    <3> QED
      BY <3>1, <3>2
  <2> QED
    BY <1>1, <2>1, <2>2
<1>7. Len(p) + 1 = m + 2
  BY <1>1, <1>2
<1> QED
  BY <1>2, <1>4, <1>6, <1>7 DEF Walk, p

LEMMA WalkStart == Walk(<< >>, RootCluster)
<1> DEFINE d == << >>
           w == [k \in 1..1 |-> RootCluster]
<1>1. d \in Seq(DirNames) /\ Len(d) = 0
  OBVIOUS
<1>2. w \in [1..1 -> Directories] /\ w[1] = RootCluster
  BY DEF Directories, RootCluster
<1> HIDE DEF d, w
<1>3. w \in [1..(Len(d) + 1) -> Directories] /\ w[Len(d) + 1] = RootCluster
  BY <1>1, <1>2
<1>4. \A k \in 1..Len(d) : <<d[k], w[k + 1]>> \in Subs(w[k])
  BY <1>1
<1>5. Walk(d, RootCluster)
  BY <1>1, <1>2, <1>3, <1>4 DEF Walk
<1> QED
  BY <1>5 DEF d

\* What the directories list.
LEMMA SubsList ==
    /\ {<<EfiName, EfiCluster>>, <<SourcesName, SourcesCluster>>, <<BootName, BootCluster>>}
          \subseteq Subs(RootCluster)
    /\ {<<ResourcesName, ResourcesCluster>>, <<FontsName, FontsCluster>>} \subseteq Subs(BootCluster)
    /\ {<<MicrosoftName, MicrosoftCluster>>, <<BootName, BootCluster>>} \subseteq Subs(EfiCluster)
    /\ <<BootName, BootCluster>> \in Subs(MicrosoftCluster)
    /\ {RootCluster, BootCluster, SourcesCluster, FontsCluster, ResourcesCluster, EfiCluster,
        MicrosoftCluster} \subseteq Directories
  BY DEF Subs, Directories, RootCluster, BootCluster, SourcesCluster, FontsCluster,
         ResourcesCluster, EfiCluster, MicrosoftCluster

LEMMA DirNamesList ==
    {EfiName, SourcesName, BootName, ResourcesName, FontsName, MicrosoftName} \subseteq DirNames
  BY DEF DirNames

LEMMA Singles ==
    ASSUME NEW a, NEW b, NEW c
    PROVE  /\ << >> \o <<a>> = <<a>>
           /\ <<a>> \o <<b>> = <<a, b>>
           /\ <<a, b>> \o <<c>> = <<a, b, c>>
<1> DEFINE S == {a, b, c}
           none == << >>
           s == <<a>>
           t == <<a, b>>
<1>1. /\ none \in Seq(S) /\ Len(none) = 0
      /\ s \in Seq(S) /\ Len(s) = 1 /\ s[1] = a
      /\ t \in Seq(S) /\ Len(t) = 2 /\ t[1] = a /\ t[2] = b
      /\ a \in S /\ b \in S /\ c \in S
  OBVIOUS
<1> HIDE DEF S, none, s, t
<1>2. none \o <<a>> = <<a>>
  <2> DEFINE q == none \o <<a>>
  <2>1. q \in Seq(S) /\ Len(q) = Len(none) + 1 /\ q[Len(none) + 1] = a
    <3>1. none \in Seq(S) /\ a \in S
      BY <1>1
    <3> QED
      BY <3>1, OneMore
  <2> HIDE DEF q
  <2>2. q = <<q[1]>> /\ q[1] = a
    BY <1>1, <2>1
  <2> QED
    BY <2>2 DEF q
<1>3. s \o <<b>> = <<a, b>>
  <2> DEFINE q == s \o <<b>>
  <2>1. /\ q \in Seq(S) /\ Len(q) = Len(s) + 1 /\ q[Len(s) + 1] = b
        /\ \A i \in 1..Len(s) : q[i] = s[i]
    <3>1. s \in Seq(S) /\ b \in S
      BY <1>1
    <3> QED
      BY <3>1, OneMore
  <2> HIDE DEF q
  <2>2. q = <<q[1], q[2]>> /\ q[1] = a /\ q[2] = b
    BY <1>1, <2>1
  <2> QED
    BY <2>2 DEF q
<1>4. t \o <<c>> = <<a, b, c>>
  <2> DEFINE q == t \o <<c>>
  <2>1. /\ q \in Seq(S) /\ Len(q) = Len(t) + 1 /\ q[Len(t) + 1] = c
        /\ \A i \in 1..Len(t) : q[i] = t[i]
    <3>1. t \in Seq(S) /\ c \in S
      BY <1>1
    <3> QED
      BY <3>1, OneMore
  <2> HIDE DEF q
  <2>2. q = <<q[1], q[2], q[3]>> /\ q[1] = a /\ q[2] = b /\ q[3] = c
    BY <1>1, <2>1
  <2> QED
    BY <2>2 DEF q
<1> QED
  BY <1>2, <1>3, <1>4 DEF none, s, t

\* There is a walk to every directory in which the files must appear.
LEMMA DirPathsWalk == \A d \in DirPaths : \E e : Walk(d, e)
<1> USE SubsList, DirNamesList
<1>1. Walk(<< >>, RootCluster)
  BY WalkStart
<1>2. /\ Walk(<<SourcesName>>, SourcesCluster) /\ Walk(<<EfiName>>, EfiCluster)
      /\ Walk(<<BootName>>, BootCluster)
  <2>1. /\ Walk(<< >> \o <<SourcesName>>, SourcesCluster)
        /\ Walk(<< >> \o <<EfiName>>, EfiCluster)
        /\ Walk(<< >> \o <<BootName>>, BootCluster)
    BY <1>1, WalkOn
  <2> QED
    BY <2>1, Singles
<1>3. Walk(<<EfiName, MicrosoftName>>, MicrosoftCluster) /\ Walk(<<EfiName, BootName>>, BootCluster)
  <2>1. /\ Walk(<<EfiName>> \o <<MicrosoftName>>, MicrosoftCluster)
        /\ Walk(<<EfiName>> \o <<BootName>>, BootCluster)
    BY <1>2, WalkOn
  <2> QED
    BY <2>1, Singles
<1>4. Walk(<<EfiName, MicrosoftName, BootName>>, BootCluster)
  <2>1. Walk(<<EfiName, MicrosoftName>> \o <<BootName>>, BootCluster)
    BY <1>3, WalkOn
  <2> QED
    BY <2>1, Singles
<1> DEFINE boots == {<<BootName>>, <<EfiName, BootName>>, <<EfiName, MicrosoftName, BootName>>}
<1>5. \A b \in boots : Walk(b, BootCluster)
  BY <1>2, <1>3, <1>4
<1> HIDE DEF boots
<1>6. \A b \in boots : /\ Walk(b \o <<FontsName>>, FontsCluster)
                       /\ Walk(b \o <<ResourcesName>>, ResourcesCluster)
  BY <1>5, WalkOn
<1>7. DirPaths = {<< >>, <<SourcesName>>, <<EfiName>>, <<EfiName, MicrosoftName>>} \cup boots
          \cup {b \o <<sub>> : b \in boots, sub \in {FontsName, ResourcesName}}
  BY DEF DirPaths, boots
<1> SUFFICES ASSUME NEW d \in DirPaths PROVE \E e : Walk(d, e)
  OBVIOUS
<1>8. CASE d \in {<< >>, <<SourcesName>>, <<EfiName>>, <<EfiName, MicrosoftName>>}
  BY <1>1, <1>2, <1>3, <1>8
<1>9. CASE d \in boots
  BY <1>5, <1>9
<1>10. CASE \E b \in boots : d = b \o <<FontsName>> \/ d = b \o <<ResourcesName>>
  BY <1>6, <1>10
<1>11. \/ d \in {<< >>, <<SourcesName>>, <<EfiName>>, <<EfiName, MicrosoftName>>}
       \/ d \in boots
       \/ \E b \in boots, sub \in {FontsName, ResourcesName} : d = b \o <<sub>>
  BY <1>7
<1>12. (\E b \in boots, sub \in {FontsName, ResourcesName} : d = b \o <<sub>>)
          => \E b \in boots : d = b \o <<FontsName>> \/ d = b \o <<ResourcesName>>
  OBVIOUS
<1> QED
  BY <1>8, <1>9, <1>10, <1>11, <1>12

\* The driver's path goes through the directory in which the file is opened.
LEMMA DirectoryOf ==
    ASSUME wanted \in Paths
    PROVE  /\ wanted \in Seq({wanted[k] : k \in DOMAIN wanted}) /\ Len(wanted) \in Nat \ {0}
           /\ Len(Directory) = Len(wanted) - 1
           /\ \A k \in 1..(Len(wanted) - 1) : Directory[k] = wanted[k]
<1> DEFINE S == {wanted[k] : k \in DOMAIN wanted}
<1>1. wanted \in Seq(S) /\ wanted /= << >>
  BY PathsAssumption
<1> HIDE DEF S
<1> DEFINE n == Len(wanted)
<1>2. n \in Nat /\ n /= 0
  BY <1>1
<1>3. Len(SubSeq(wanted, 1, n - 1)) = n - 1
      /\ \A k \in 1..(n - 1) : SubSeq(wanted, 1, n - 1)[k] = wanted[k]
  BY <1>1, <1>2
<1> QED
  BY <1>1, <1>2, <1>3 DEF Directory, S

LEMMA RootReaches ==
    ASSUME wanted \in Paths, Directory \in DirPaths
    PROVE  Reaches(RootCluster, wanted)
<1> DEFINE n == Len(wanted)
<1>1. /\ n \in Nat \ {0} /\ Len(Directory) = n - 1
      /\ \A k \in 1..(n - 1) : Directory[k] = wanted[k]
  BY DirectoryOf
<1>2. PICK e : Walk(Directory, e)
  BY DirPathsWalk
<1>3. PICK w \in [1..(Len(Directory) + 1) -> Directories] :
          /\ w[1] = RootCluster
          /\ \A k \in 1..Len(Directory) : <<Directory[k], w[k + 1]>> \in Subs(w[k])
  BY <1>2 DEF Walk
<1> HIDE DEF n
<1>4. w \in [1..n -> Directories] /\ \A k \in 1..(n - 1) : <<wanted[k], w[k + 1]>> \in Subs(w[k])
  BY <1>1, <1>3
<1> QED
  BY <1>3, <1>4 DEF Reaches, n

\* The next directory of a walk.
LEMMA ReachesOn ==
    ASSUME NEW S, NEW p \in Seq(S), Len(p) > 1, NEW dir, Reaches(dir, p)
    PROVE  \E d \in Directories : <<Head(p), d>> \in Subs(dir) /\ Reaches(d, Tail(p))
<1> DEFINE n == Len(p)
           q == Tail(p)
<1>1. n \in Nat /\ n > 1 /\ Head(p) = p[1]
  OBVIOUS
<1>2. Len(q) = n - 1 /\ \A k \in 1..(n - 1) : q[k] = p[k + 1]
  OBVIOUS
<1>3. PICK w \in [1..n -> Directories] :
        /\ w[1] = dir
        /\ \A k \in 1..(n - 1) : <<p[k], w[k + 1]>> \in Subs(w[k])
  BY DEF Reaches
<1> HIDE DEF n, q
<1> DEFINE v == [k \in 1..(n - 1) |-> w[k + 1]]
<1>4. v \in [1..(n - 1) -> Directories] /\ v[1] = w[2] /\ w[2] \in Directories
  BY <1>1, <1>3
<1>5. ASSUME NEW k \in 1..((n - 1) - 1) PROVE <<q[k], v[k + 1]>> \in Subs(v[k])
  <2>1. k \in 1..(n - 1) /\ k + 1 \in 1..(n - 1)
    BY <1>1
  <2>2. q[k] = p[k + 1] /\ v[k] = w[k + 1] /\ v[k + 1] = w[(k + 1) + 1]
    BY <1>2, <2>1
  <2> QED
    BY <1>3, <2>1, <2>2
<1>6. Reaches(w[2], q)
  BY <1>2, <1>4, <1>5 DEF Reaches
<1>7. <<Head(p), w[2]>> \in Subs(dir)
  BY <1>1, <1>3
<1> QED
  BY <1>4, <1>6, <1>7 DEF q

-----------------------------------------------------------------------------
(* The steps of the loader and of the driver.                              *)

DriverKept == VolumeInv /\ StoredInv /\ PathInv /\ DataInv /\ MissingInv

LEMMA DriverFrame ==
    ASSUME DriverInv, UNCHANGED <<files, driverVars>>
    PROVE  DriverKept'
  BY DEF DriverInv, DriverKept, driverVars, VolumeInv, StoredInv, PathInv, DataInv, MissingInv,
         Progress, Named, Name, Directory, Unlisted

LEMMA LoaderStepInv ==
    ASSUME ReadInv, DriverInv, LoaderStep
    PROVE  ReadInv' /\ DriverInv'
<1> DEFINE Loading == (\E name \in Names, len \in Lens : AddFile(name, len))
                         \/ TooManyFiles \/ Reboot \/ Serve
<1>1. UNCHANGED driverVars /\ (Loading \/ ReadStep)
  BY DEF LoaderStep
<1>2. CASE Loading
  <2>1. pc \in {"extract", "dead"} /\ pc' \in {"extract", "dead", "idle"}
    BY <1>2 DEF AddFile, TooManyFiles, Reboot, Serve
  <2>2. step = "closed"
    BY <2>1 DEF DriverInv, CallInv, Waiting
  <2>3. StoredInv'
    <3>1. ASSUME NEW name \in Names, NEW len \in Lens, AddFile(name, len) PROVE StoredInv'
      <4>1. index \in 0..MaxFiles /\ DOMAIN files = 0..(MaxFiles - 1) /\ index < MaxFiles
        BY <3>1 DEF ReadInv, FilesOK, AddFile
      <4>2. files' = [files EXCEPT ![index] =
                        [used |-> TRUE, name |-> Cut(name), opaque |-> index, len |-> len]]
        BY <3>1 DEF AddFile
      <4>3. \A idx \in 0..(MaxFiles - 1) :
               IF idx = index THEN files'[idx].name = Cut(name) ELSE files'[idx] = files[idx]
        BY <4>1, <4>2
      <4> QED
        BY <4>3 DEF DriverInv, StoredInv
    <3>2. CASE TooManyFiles \/ Serve
      BY <3>2 DEF DriverInv, StoredInv, TooManyFiles, Serve
    <3>3. CASE Reboot
      <4>1. \A idx \in 0..(MaxFiles - 1) : files'[idx].used = FALSE
        BY <3>3 DEF Reboot, EmptyFile
      <4> QED
        BY <4>1 DEF StoredInv
    <3> QED
      BY <1>2, <3>1, <3>2, <3>3
  <2>4. step' = "closed" /\ device' = device /\ base' = base /\ got' = got
    BY <1>1, <2>2 DEF driverVars
  <2>5. CallInv'
    BY <2>1, <2>4 DEF CallInv, Steps, Waiting
  <2>6. VolumeInv' /\ PathInv' /\ DataInv' /\ MissingInv'
    BY <2>2, <2>4 DEF DriverInv, VolumeInv, PathInv, DataInv, MissingInv, Busy
  <2>7. ReadInv'
    BY <1>2, LoadingInv
  <2> QED
    BY <2>3, <2>5, <2>6, <2>7 DEF DriverInv
<1>3. CASE ReadStep
  <2>1. /\ UNCHANGED <<files, start, end>> /\ pc \in {"fragment", "scan", "build"}
        /\ pc' \in {"fragment", "scan", "build", "done"}
    BY <1>3 DEF ReadStep, FileFragment, RegionFragment, ScanRegion, BuildFragment
  <2>2. CallInv'
    BY <1>1, <2>1 DEF DriverInv, CallInv, driverVars, Steps, Busy, Waiting, AskLba, AskCount
  <2>3. DriverKept'
    BY <1>1, <2>1, DriverFrame
  <2>4. ReadInv'
    BY <1>3, ReadStepInv
  <2> QED
    BY <2>2, <2>3, <2>4 DEF DriverInv, DriverKept
<1> QED
  BY <1>1, <1>2, <1>3

LEMMA OpenInv ==
    ASSUME ReadInv, DriverInv, NEW dev \in Devices, NEW p \in Paths, Open(dev, p)
    PROVE  ReadInv' /\ DriverInv'
<1>1. /\ step = "closed" /\ pc = "idle" /\ device' = dev /\ wanted' = p /\ path' = p /\ base' = 0
      /\ step' = IF dev.partition THEN "vbr" ELSE "mbr"
      /\ UNCHANGED <<vars, volume, cluster, sector, left, got>>
  BY DEF Open
<1>2. ReadInv'
  BY <1>1, ReadStutters
<1>3. pc' = "idle" /\ files' = files
  BY <1>1 DEF vars
<1>4. step' \in {"vbr", "mbr"}
  BY <1>1
<1>5. CallInv'
  BY <1>3, <1>4 DEF CallInv, Waiting, Steps, Busy
<1>6. VolumeInv'
  <2>1. CASE dev.partition
    <3>1. dev.lba = PartitionLba /\ PartitionLba \in Nat
      BY <2>1, Layout DEF Devices, EfiVPartition, EfiVDisk, Int13Drive
    <3> QED
      BY <1>1, <2>1, <3>1 DEF VolumeInv, VbrLba
  <2>2. CASE ~dev.partition
    <3>1. dev.lba = 0
      BY <2>2 DEF Devices, EfiVPartition, EfiVDisk, Int13Drive
    <3> QED
      BY <1>1, <2>2, <3>1 DEF VolumeInv
  <2> QED
    BY <2>1, <2>2
<1>7. StoredInv'
  BY <1>3 DEF DriverInv, StoredInv
<1>8. PathInv'
  <2>1. path' /= << >> /\ path' \in Seq({path'[k] : k \in DOMAIN path'})
    BY <1>1, PathsAssumption
  <2>2. path'[Len(path')] = Name'
    BY <1>1 DEF Name
  <2>3. got' = << >> /\ wanted' \in Paths /\ path' = wanted'
    BY <1>1 DEF DriverInv, PathInv
  <2> QED
    BY <1>4, <2>1, <2>2, <2>3 DEF PathInv
<1>9. DataInv' /\ MissingInv'
  BY <1>4 DEF DataInv, MissingInv
<1> QED
  BY <1>2, <1>5, <1>6, <1>7, <1>8, <1>9 DEF DriverInv

LEMMA CloseInv ==
    ASSUME ReadInv, DriverInv, Close
    PROVE  ReadInv' /\ DriverInv'
<1>1. /\ step \in {"complete", "missing", "corrupt"} /\ step' = "closed" /\ got' = << >>
      /\ device' = Int13Drive /\ base' = 0 /\ UNCHANGED vars
  BY DEF Close
<1>2. ReadInv' /\ pc' = pc /\ files' = files
  BY <1>1, ReadStutters DEF vars
<1>3. pc \notin Waiting
  BY <1>1 DEF DriverInv, CallInv, Busy
<1>4. CallInv'
  BY <1>1, <1>2, <1>3 DEF CallInv, Steps
<1>5. VolumeInv' /\ PathInv' /\ DataInv' /\ MissingInv' /\ StoredInv'
  BY <1>1, <1>2 DEF VolumeInv, PathInv, DataInv, MissingInv, StoredInv, DriverInv, Devices, Busy
<1> QED
  BY <1>2, <1>4, <1>5 DEF DriverInv

\* Where the device reads for a step, and how much.
LEMMA RequestIs ==
    ASSUME FilesOK, DriverInv, Request
    PROVE  StartRead([lba |-> AskLba, count |-> AskCount]) /\ step \in Busy
<1>1. /\ SectorSize \in Nat /\ SectorSize > 0 /\ ClusterCount \in Nat /\ ClusterCount > 0
      /\ VbrLba \in Nat /\ SectorsPerFat \in Nat /\ FatLba = VbrLba + ReservedCount
      /\ ReservedCount = ClusterCount
  BY Layout, MetadataPlace DEF FatLba, ReservedCount
<1>2. SectorSize \div SectorSize = 1 /\ (ClusterCount * SectorSize) \div SectorSize = ClusterCount
  <2> DEFINE n == ClusterCount * SectorSize
  <2>1. n \in Nat /\ 1 * SectorSize =< SectorSize /\ SectorSize < 1 * SectorSize + SectorSize
        /\ ClusterCount * SectorSize =< n /\ n < ClusterCount * SectorSize + SectorSize
    BY <1>1, MulTypes
  <2> QED
    BY <1>1, <2>1, DivUnique
<1>3. base \in Nat /\ device.lba \in Nat
  BY Layout DEF DriverInv, VolumeInv, Devices, Int13Drive, EfiVDisk, EfiVPartition
<1>4. step \in {"dir", "data", "fat"} =>
         /\ volume.reserved_sectors = ReservedCount /\ volume.sectors_per_fat = SectorsPerFat
         /\ volume.root = 2 /\ volume.sectors_per_cluster = ClusterCount
         /\ base + device.lba = VbrLba /\ cluster \in Nat
  <2>1. step \in {"dir", "data", "fat"} /\ path = << >> => cluster \in Nat
    <3>1. step \in {"data", "fat"} /\ path = << >> => cluster \in Nat
      BY DataPlace DEF DriverInv
    <3>2. step = "dir" => path /= << >>
      BY DEF DriverInv, PathInv
    <3> QED
      BY <3>1, <3>2
  <2>2. step \in {"dir", "fat"} /\ path /= << >> => cluster \in Nat
    BY DEF DriverInv, PathInv, Directories
  <2>3. step = "data" => path = << >>
    BY DEF DriverInv, PathInv
  <2> QED
    BY <2>1, <2>2, <2>3 DEF DriverInv, VolumeInv, Vbr, RootCluster
<1>5. step \in {"dir", "data"} =>
        ClusterBlock(cluster) \in Int /\ ClusterBlock(cluster) + device.lba = ClusterLba(cluster)
  <2> DEFINE part == (cluster - 2) * ClusterCount
  <2>1. step \in {"dir", "data"} => part \in Int
    BY <1>1, <1>4, MulTypes
  <2>2. step \in {"dir", "data"} =>
          ClusterBlock(cluster) = base + ReservedCount + SectorsPerFat + part
    BY <1>4 DEF ClusterBlock
  <2>3. ClusterLba(cluster) = VbrLba + part + ReservedCount + SectorsPerFat
    BY DEF ClusterLba
  <2> HIDE DEF part
  <2> QED
    BY <1>1, <1>3, <1>4, <2>1, <2>2, <2>3
<1>6. CASE step = "mbr" /\ ReadBlocks(device, 0, SectorSize)
  <2>1. device.lba = 0 /\ 0 + device.lba = 0
    BY <1>6 DEF DriverInv, VolumeInv
  <2>2. AskLba = 0 /\ AskCount = 1
    BY <1>6 DEF AskLba, AskCount
  <2> QED
    BY <1>2, <1>6, <2>1, <2>2 DEF ReadBlocks, Busy
<1>7. CASE step = "vbr" /\ ReadBlocks(device, base, SectorSize)
  <2>1. base + device.lba = VbrLba
    BY <1>7 DEF DriverInv, VolumeInv
  <2>2. AskLba = VbrLba /\ AskCount = 1
    BY <1>7 DEF AskLba, AskCount
  <2> QED
    BY <1>2, <1>7, <2>1, <2>2 DEF ReadBlocks, Busy
<1>8. CASE step = "dir" /\ ReadBlocks(device, ClusterBlock(cluster) + sector, SectorSize)
  <2>1. AskLba = ClusterLba(cluster) + sector /\ AskCount = 1
    BY <1>8 DEF AskLba, AskCount
  <2>2. sector \in Int
    BY <1>1, <1>8 DEF DriverInv, PathInv
  <2>3. (ClusterBlock(cluster) + sector) + device.lba = AskLba
    BY <1>3, <1>5, <1>8, <2>1, <2>2
  <2> QED
    BY <1>2, <1>8, <2>1, <2>3 DEF ReadBlocks, Busy
<1>9. CASE step = "data" /\ ReadBlocks(device, ClusterBlock(cluster),
                                       volume.sectors_per_cluster * SectorSize)
  <2>1. AskLba = ClusterLba(cluster) /\ AskCount = ClusterCount
    BY <1>9 DEF AskLba, AskCount
  <2>2. volume.sectors_per_cluster * SectorSize = ClusterCount * SectorSize
        /\ ClusterBlock(cluster) + device.lba = AskLba
    BY <1>4, <1>5, <1>9, <2>1
  <2> QED
    BY <1>2, <1>9, <2>1, <2>2 DEF ReadBlocks, Busy
<1>10. CASE step = "fat" /\ ReadBlocks(device, FatBlock(cluster), SectorSize)
  <2> DEFINE q == cluster \div FatEntries
  <2>1. AskLba = FatLba + q /\ AskCount = 1
    BY <1>10 DEF AskLba, AskCount
  <2>2. q \in Nat
    BY <1>4, <1>10, DivMod, Layout
  <2>3. FatBlock(cluster) = base + ReservedCount + q
    BY <1>4, <1>10 DEF FatBlock
  <2> HIDE DEF q
  <2>4. FatBlock(cluster) + device.lba = AskLba
    BY <1>1, <1>3, <1>4, <1>10, <2>1, <2>2, <2>3
  <2> QED
    BY <1>2, <1>10, <2>1, <2>4 DEF ReadBlocks, Busy
<1> QED
  BY <1>6, <1>7, <1>8, <1>9, <1>10 DEF Request

\* What the driver asks for, vdisk_read answers as promised.
LEMMA RequestInvStep ==
    ASSUME ReadInv, DriverInv, Request
    PROVE  ReadInv' /\ DriverInv'
<1> DEFINE r == [lba |-> AskLba, count |-> AskCount]
<1>1. StartRead(r) /\ step \in Busy
  BY RequestIs DEF ReadInv
<1>2. Asked
  BY <1>1, AskInv
<1>3. RequestOK(r.lba, r.count)
  BY <1>2 DEF Asked
<1>4. ReadInv'
  BY <1>1, <1>3, StartReadInv
<1>5. pc' = "fragment" /\ start' = AskLba /\ end' = (AskLba + AskCount) % U64Mod /\ files' = files
  BY <1>1 DEF StartRead
<1>6. (AskLba + AskCount) % U64Mod = AskLba + AskCount
  <2>1. AskLba + AskCount \in Nat /\ AskLba + AskCount < U64Mod /\ U64Mod \in Nat
    BY <1>2, Layout DEF Asked, RequestOK
  <2> QED
    BY <2>1, ModSmall
<1>7. UNCHANGED driverVars
  BY DEF Request
<1>8. AskLba' = AskLba /\ AskCount' = AskCount /\ step' = step
  BY <1>7 DEF driverVars, AskLba, AskCount
<1>9. CallInv'
  BY <1>1, <1>5, <1>6, <1>8 DEF CallInv, Waiting, Steps, DriverInv
<1>10. DriverKept'
  BY <1>5, <1>7, DriverFrame
<1> QED
  BY <1>4, <1>9, <1>10 DEF DriverInv, DriverKept

\* The answer, when it comes.
LEMMA Answered ==
    ASSUME ReadInv, DriverInv, Return, step \in Busy
    PROVE  /\ ReadInv' /\ files' = files /\ pc' = "idle"
           /\ \A k \in 0..(AskCount - 1) : Shows(files, AskLba + k, buf[k])
           /\ Shows(files, AskLba, buf[0])
<1>1. Asked
  BY AskInv
<1>2. AskLba \in Nat /\ AskCount \in Nat /\ AskCount > 0
  BY <1>1, Layout DEF Asked
<1>3. pc = "done" /\ files' = files /\ pc' = "idle"
  BY DEF Return
<1>4. ReadInv'
  BY ReturnInv
<1>5. start = AskLba /\ end = AskLba + AskCount
  BY <1>3 DEF DriverInv, CallInv, Waiting
<1>6. frag_start = end /\ data = frag_start - start
      /\ \A k \in 0..(data - 1) : Shows(files, start + k, buf[k])
  BY <1>3 DEF ReadInv, RequestInv
<1>7. data = AskCount
  BY <1>2, <1>5, <1>6
<1>8. \A k \in 0..(AskCount - 1) : Shows(files, AskLba + k, buf[k])
  BY <1>5, <1>6, <1>7
<1>9. 0 \in 0..(AskCount - 1) /\ AskLba + 0 = AskLba
  BY <1>2
<1>10. Shows(files, AskLba + 0, buf[0])
  BY <1>8, <1>9
<1> QED
  BY <1>3, <1>4, <1>8, <1>9, <1>10

LEMMA GotMbrInv ==
    ASSUME ReadInv, DriverInv, GotMbr
    PROVE  ReadInv' /\ DriverInv'
<1>1. /\ step = "mbr" /\ Return /\ base' = buf[0].start /\ step' = "vbr"
      /\ UNCHANGED <<device, wanted, path, volume, cluster, sector, left, got>>
  BY DEF GotMbr
<1>2. ReadInv' /\ files' = files /\ pc' = "idle" /\ Shows(files, 0, buf[0])
  BY <1>1, Answered DEF Busy, AskLba
<1>3. base' = PartitionLba
  BY <1>1, <1>2, ReadMbr DEF Mbr
<1>4. CallInv'
  BY <1>1, <1>2 DEF CallInv, Waiting, Steps, Busy
<1>5. VolumeInv'
  <2>1. device.lba = 0 /\ device \in Devices /\ PartitionLba \in Nat
    BY <1>1, Layout DEF DriverInv, VolumeInv
  <2> QED
    BY <1>1, <1>3, <2>1 DEF VolumeInv, VbrLba
<1>6. PathInv'
  BY <1>1 DEF DriverInv, PathInv, Busy, Name
<1>7. StoredInv' /\ DataInv' /\ MissingInv'
  BY <1>1, <1>2 DEF DriverInv, StoredInv, DataInv, MissingInv
<1> QED
  BY <1>2, <1>4, <1>5, <1>6, <1>7 DEF DriverInv

LEMMA GotVbrInv ==
    ASSUME ReadInv, DriverInv, GotVbr
    PROVE  ReadInv' /\ DriverInv'
<1>1. /\ step = "vbr" /\ Return /\ volume' = buf[0] /\ cluster' = buf[0].root /\ sector' = 0
      /\ step' = "dir"
      /\ UNCHANGED <<device, wanted, path, base, left, got>>
  BY DEF GotVbr
<1>2. ReadInv' /\ files' = files /\ pc' = "idle" /\ Shows(files, VbrLba, buf[0])
  BY <1>1, Answered DEF Busy, AskLba
<1>3. volume' = Vbr /\ cluster' = RootCluster
  BY <1>1, <1>2, ReadVbr DEF Vbr
<1>4. CallInv'
  BY <1>1, <1>2 DEF CallInv, Waiting, Steps, Busy
<1>5. VolumeInv'
  BY <1>1, <1>3 DEF DriverInv, VolumeInv
<1>6. /\ path = wanted /\ wanted \in Paths /\ path /= << >>
      /\ path \in Seq({path[k] : k \in DOMAIN path}) /\ path[Len(path)] = Name /\ got = << >>
  <2>1. path = wanted /\ wanted \in Paths
    BY <1>1 DEF DriverInv, PathInv
  <2>2. path /= << >>
    BY <2>1, PathsAssumption
  <2> QED
    BY <1>1, <2>1, <2>2 DEF DriverInv, PathInv, Busy
<1>7. Directory \in DirPaths => Reaches(RootCluster, path)
  BY <1>6, RootReaches
<1>8. Name' = Name /\ Directory' = Directory
  BY <1>1 DEF Name, Directory
<1>9. PathInv'
  <2>1. cluster' \in Directories
    BY <1>3 DEF Directories, RootCluster
  <2>2. Unlisted(cluster, sector, Head(path))'
    BY <1>1 DEF Unlisted
  <2>3. sector' \in 0..(ClusterCount - 1)
    BY <1>1, Layout
  <2> QED
    BY <1>1, <1>3, <1>6, <1>7, <1>8, <2>1, <2>2, <2>3 DEF PathInv
<1>10. StoredInv' /\ DataInv' /\ MissingInv'
  BY <1>1, <1>2 DEF DriverInv, StoredInv, DataInv, MissingInv
<1> QED
  BY <1>2, <1>4, <1>5, <1>9, <1>10 DEF DriverInv

-----------------------------------------------------------------------------
(* A directory sector.                                                     *)

LEMMA TailOf ==
    ASSUME NEW S, NEW p \in Seq(S), Len(p) > 1
    PROVE  LET q == Tail(p)
           IN  /\ q \in Seq(S) /\ q /= << >> /\ q[Len(q)] = p[Len(p)]
               /\ q \in Seq({q[k] : k \in DOMAIN q})
<1> DEFINE q == Tail(p)
<1>1. /\ q \in Seq(S) /\ Len(q) = Len(p) - 1 /\ Len(p) \in Nat
      /\ \A k \in 1..Len(q) : q[k] = p[k + 1]
  OBVIOUS
<1> HIDE DEF q
<1>2. Len(q) \in 1..Len(q) /\ Len(q) + 1 = Len(p)
  BY <1>1
<1>3. q[Len(q)] = p[Len(p)]
  BY <1>1, <1>2
<1>4. q /= << >>
  BY <1>1, <1>2
<1>5. q \in Seq({q[k] : k \in DOMAIN q})
  BY <1>1
<1> QED
  BY <1>1, <1>3, <1>4, <1>5 DEF q

LEMMA TailOne ==
    ASSUME NEW S, NEW p \in Seq(S), Len(p) = 1
    PROVE  Tail(p) = << >>
<1> DEFINE q == Tail(p)
<1>1. q \in Seq(S) /\ Len(q) = 0
  OBVIOUS
<1> HIDE DEF q
<1>2. q = << >>
  BY <1>1
<1> QED
  BY <1>2 DEF q

\* What the driver knows while it looks for the first part of the path.
Looking ==
    /\ path /= << >> /\ path \in Seq({path[k] : k \in DOMAIN path}) /\ path[Len(path)] = Name
    /\ Len(path) \in Nat \ {0} /\ Head(path) = path[1]
    /\ got = << >> /\ wanted \in Paths /\ cluster \in Directories
    /\ Directory \in DirPaths => Reaches(cluster, path)

LEMMA LookingInv ==
    ASSUME DriverInv, step \in {"dir", "fat"}, path /= << >>
    PROVE  Looking
<1> DEFINE S == {path[k] : k \in DOMAIN path}
<1>1. /\ path \in Seq(S) /\ path[Len(path)] = Name /\ got = << >> /\ wanted \in Paths
      /\ cluster \in Directories /\ (Directory \in DirPaths => Reaches(cluster, path))
  BY DEF DriverInv, PathInv, Busy
<1> HIDE DEF S
<1>2. Len(path) \in Nat \ {0} /\ Head(path) = path[1]
  BY <1>1
<1> QED
  BY <1>1, <1>2 DEF Looking, S

\* A subdirectory.
LEMMA GotSubdir ==
    ASSUME ReadInv, DriverInv, GotDir, sector = 0, Matches(buf[0], Head(path)) /= {}
    PROVE  ReadInv' /\ DriverInv'
<1>1. step = "dir" /\ Return
  BY DEF GotDir
<1>2. /\ ReadInv' /\ files' = files /\ pc' = "idle" /\ path /= << >>
      /\ Shows(files, ClusterLba(cluster) + sector, buf[0])
  BY <1>1, Answered DEF Busy, AskLba, DriverInv, PathInv
<1>3. Looking
  BY <1>1, <1>2, LookingInv
<1>4. buf[0] = SubDirs(cluster)
  <2>1. sector \in 0..(ClusterCount - 1)
    BY <1>1 DEF DriverInv, PathInv
  <2> QED
    BY <1>2, <1>3, <2>1, ReadDir DEF Looking
<1>5. PICK d \in Directories : <<Head(path), d>> \in Subs(cluster)
  BY <1>3, <1>4, SubDirsFound DEF Looking
<1>6. FirstMatch(buf[0], Head(path)) = Short("directory", 0, d)
  BY <1>3, <1>4, <1>5, SubDirsFound DEF Looking
<1>7. /\ path' = Tail(path) /\ cluster' = d /\ sector' = 0
      /\ step' = IF Len(path) = 1 THEN "missing" ELSE "dir"
      /\ UNCHANGED <<device, wanted, base, volume, got>>
  <2> DEFINE entry == FirstMatch(buf[0], Head(path))
  <2>1. entry.cluster = d /\ entry.attr = "directory"
    BY <1>6 DEF Short
  <2> HIDE DEF entry
  <2>2. /\ path' = Tail(path) /\ cluster' = entry.cluster /\ sector' = 0
        /\ step' = IF entry.attr = "directory"
                   THEN IF Len(path) = 1 THEN "missing" ELSE "dir"
                   ELSE IF Len(path) > 1 THEN "missing"
                   ELSE IF entry.size = 0 THEN "complete" ELSE "data"
        /\ UNCHANGED <<device, wanted, base, volume, got>>
    BY DEF GotDir, entry
  <2> QED
    BY <2>1, <2>2
<1>8. Name' = Name /\ Directory' = Directory /\ Named' = Named
  BY <1>2, <1>7 DEF Name, Directory, Named
<1>9. CallInv'
  BY <1>2, <1>7 DEF CallInv, Waiting, Steps, Busy
<1>10. VolumeInv' /\ StoredInv' /\ DataInv'
  BY <1>1, <1>2, <1>7 DEF DriverInv, VolumeInv, StoredInv, DataInv
<1> DEFINE S == {path[k] : k \in DOMAIN path}
<1>11. path \in Seq(S) /\ Len(path) \in Nat \ {0}
  BY <1>3 DEF Looking
<1> HIDE DEF S
<1>12. CASE Len(path) = 1
  <2>1. step' = "missing"
    BY <1>7, <1>12
  <2>2. PathInv'
    BY <1>3, <1>7, <2>1 DEF PathInv, Looking, Busy
  <2>3. Named = {}
    <3>1. Head(path) = Name
      BY <1>3, <1>12 DEF Looking
    <3>2. Name \in DirNames
      BY <1>3, <1>5, <3>1, SubsNames DEF Looking
    <3> QED
      BY <3>2, StoredName DEF Named, DriverInv, StoredInv
  <2>4. MissingInv'
    BY <1>8, <2>1, <2>3 DEF MissingInv
  <2> QED
    BY <1>2, <1>9, <1>10, <2>2, <2>4 DEF DriverInv
<1>13. CASE Len(path) > 1
  <2>1. step' = "dir"
    BY <1>7, <1>13
  <2>2. /\ path' /= << >> /\ path' \in Seq({path'[k] : k \in DOMAIN path'})
        /\ path'[Len(path')] = Name
    <3> DEFINE q == Tail(path)
               T == {q[k] : k \in DOMAIN q}
    <3>1. q \in Seq(S) /\ q /= << >> /\ q[Len(q)] = path[Len(path)] /\ q \in Seq(T)
      BY <1>11, <1>13, TailOf
    <3>2. q[Len(q)] = Name
      BY <1>3, <3>1 DEF Looking
    <3> QED
      BY <1>7, <3>1, <3>2
  <2>3. Directory \in DirPaths => Reaches(d, Tail(path))
    <3> SUFFICES ASSUME Directory \in DirPaths PROVE Reaches(d, Tail(path))
      OBVIOUS
    <3>1. PICK e \in Directories : <<Head(path), e>> \in Subs(cluster) /\ Reaches(e, Tail(path))
      BY <1>3, <1>11, <1>13, ReachesOn DEF Looking
    <3>2. e = d
      BY <1>3, <1>5, <3>1, SubsUnique DEF Looking
    <3> QED
      BY <3>1, <3>2
  <2>4. Unlisted(cluster, sector, Head(path))'
    BY <1>7 DEF Unlisted
  <2>5. PathInv'
    <3>1. sector' \in 0..(ClusterCount - 1)
      BY <1>7, Layout
    <3> QED
      BY <1>3, <1>5, <1>7, <1>8, <2>1, <2>2, <2>3, <2>4, <3>1 DEF PathInv, Looking
  <2>6. MissingInv'
    BY <2>1 DEF MissingInv
  <2> QED
    BY <1>2, <1>9, <1>10, <2>5, <2>6 DEF DriverInv
<1>14. Len(path) = 1 \/ Len(path) > 1
  <2> DEFINE n == Len(path)
  <2>1. n \in Nat \ {0}
    BY <1>11
  <2> HIDE DEF n
  <2>2. n = 1 \/ n > 1
    BY <2>1
  <2> QED
    BY <2>2 DEF n
<1> QED
  BY <1>12, <1>13, <1>14

\* The last part of a path is its name, and an earlier part a directory's.
LEMMA LookingFor ==
    ASSUME Looking, Directory \in DirPaths, \A d \in Directories : <<Head(path), d>> \notin Subs(cluster)
    PROVE  Len(path) = 1 /\ Head(path) = Name
<1> DEFINE S == {path[k] : k \in DOMAIN path}
           n == Len(path)
<1>1. path \in Seq(S) /\ n \in Nat \ {0} /\ Reaches(cluster, path)
  BY DEF Looking
<1> HIDE DEF S
<1>2. CASE n > 1
  <2>1. \E d \in Directories : <<Head(path), d>> \in Subs(cluster) /\ Reaches(d, Tail(path))
    BY <1>1, <1>2, ReachesOn
  <2> QED
    BY <2>1
<1>3. CASE n = 1
  BY <1>3 DEF Looking
<1> HIDE DEF n
<1>4. n = 1 \/ n > 1
  BY <1>1
<1> QED
  BY <1>2, <1>3, <1>4

LEMMA SectorsOfNone == SectorsOf(0) = 0
<1>1. SectorSize \in Nat /\ SectorSize > 0
  BY Layout
<1>2. (0 + SectorSize) - 1 \in Nat /\ (0 + SectorSize) - 1 < SectorSize
  BY <1>1
<1>3. ((0 + SectorSize) - 1) \div SectorSize = 0
  BY <1>1, <1>2, ModSmall
<1>4. 0 + SectorSize - 1 = (0 + SectorSize) - 1
  BY <1>1
<1> QED
  BY <1>3, <1>4 DEF SectorsOf

LEMMA DeliveredNone == ASSUME NEW file PROVE Delivered(file, 0) = << >>
<1>1. 1..SectorsOf(0) = {}
  BY SectorsOfNone
<1> QED
  BY <1>1 DEF Delivered

\* A file, which must be the first of its name.
LEMMA GotFile ==
    ASSUME ReadInv, DriverInv, GotDir, sector /= 0, Matches(buf[0], Head(path)) /= {}
    PROVE  ReadInv' /\ DriverInv'
<1>1. step = "dir" /\ Return
  BY DEF GotDir
<1>2. /\ ReadInv' /\ files' = files /\ pc' = "idle" /\ path /= << >>
      /\ Shows(files, ClusterLba(cluster) + sector, buf[0])
  BY <1>1, Answered DEF Busy, AskLba, DriverInv, PathInv
<1>3. Looking
  BY <1>1, <1>2, LookingInv
<1>4. sector \in 1..(ClusterCount - 1) /\ MaxFiles = ClusterCount - 1 /\ ClusterCount \in Nat
  BY <1>1, Layout DEF DriverInv, PathInv
<1>5. PICK idx \in 0..(MaxFiles - 1) : idx = sector - 1
  BY <1>4
<1> DEFINE file == files[idx]
<1>6. buf[0] = Listing(files, sector - 1)
  <2>1. sector \in 0..(ClusterCount - 1)
    BY <1>4
  <2>2. buf[0] = IF sector = 0 THEN SubDirs(cluster) ELSE Listing(files, sector - 1)
    BY <1>2, <1>3, <2>1, ReadDir DEF Looking
  <2> QED
    BY <2>2
<1>7. /\ file.used /\ file.name = Head(path)
      /\ FirstMatch(buf[0], Head(path)) = Short("read_only", file.len, FileCluster(idx))
      /\ file.len \in 0..(UIntMod - 1)
  <2>1. buf[0] = Listing(files, idx) /\ FilesOK /\ StoredInv
    BY <1>5, <1>6 DEF ReadInv, DriverInv
  <2> QED
    BY <1>5, <2>1, ListingFound DEF FilesOK
<1>8. file.len % UIntMod = file.len
  BY <1>7, ModSmall, Layout
<1>9. /\ path' = Tail(path) /\ cluster' = FileCluster(idx) /\ sector' = 0 /\ left' = file.len
      /\ step' = IF Len(path) > 1 THEN "missing" ELSE IF file.len = 0 THEN "complete" ELSE "data"
      /\ UNCHANGED <<device, wanted, base, volume, got>>
  <2> DEFINE entry == FirstMatch(buf[0], Head(path))
  <2>1. entry.cluster = FileCluster(idx) /\ entry.attr = "read_only" /\ entry.size = file.len
    BY <1>7, <1>8 DEF Short
  <2> HIDE DEF entry
  <2>2. /\ path' = Tail(path) /\ cluster' = entry.cluster /\ sector' = 0 /\ left' = entry.size
        /\ step' = IF entry.attr = "directory"
                   THEN IF Len(path) = 1 THEN "missing" ELSE "dir"
                   ELSE IF Len(path) > 1 THEN "missing"
                   ELSE IF entry.size = 0 THEN "complete" ELSE "data"
        /\ UNCHANGED <<device, wanted, base, volume, got>>
    BY DEF GotDir, entry
  <2> QED
    BY <2>1, <2>2
<1>10. Name' = Name /\ Directory' = Directory /\ Named' = Named
  BY <1>2, <1>9 DEF Name, Directory, Named
<1>11. CallInv'
  BY <1>2, <1>9 DEF CallInv, Waiting, Steps, Busy
<1>12. VolumeInv' /\ StoredInv'
  BY <1>1, <1>2, <1>9 DEF DriverInv, VolumeInv, StoredInv
<1>13. Unlisted(cluster, sector, Head(path))
  BY <1>1, <1>2 DEF DriverInv, PathInv
<1>14. CASE Len(path) > 1
  <2>1. step' = "missing"
    BY <1>9, <1>14
  <2>2. PathInv' /\ DataInv'
    BY <1>3, <1>9, <2>1 DEF PathInv, DataInv, Looking, Busy
  <2>3. Directory \notin DirPaths
    <3>1. \A d \in Directories : <<Head(path), d>> \notin Subs(cluster)
      BY <1>4, <1>13 DEF Unlisted
    <3>2. Directory \in DirPaths => Len(path) = 1
      BY <1>3, <3>1, LookingFor
    <3>3. Len(path) \in Nat
      BY <1>3 DEF Looking
    <3> DEFINE n == Len(path)
    <3>4. n \in Nat /\ n > 1 /\ (Directory \in DirPaths => n = 1)
      BY <1>14, <3>2, <3>3
    <3> HIDE DEF n
    <3> QED
      BY <3>4
  <2>4. MissingInv'
    BY <1>10, <2>1, <2>3 DEF MissingInv
  <2> QED
    BY <1>2, <1>11, <1>12, <2>2, <2>4 DEF DriverInv
<1>15. CASE Len(path) = 1
  <2>1. step' = IF file.len = 0 THEN "complete" ELSE "data"
    BY <1>9, <1>15
  <2>2. path' = << >> /\ Head(path) = Name
    <3>1. Tail(path) = << >>
      <4> DEFINE S == {path[k] : k \in DOMAIN path}
      <4>1. path \in Seq(S)
        BY <1>3 DEF Looking
      <4> HIDE DEF S
      <4> QED
        BY <1>15, <4>1, TailOne
    <3> QED
      BY <1>3, <1>9, <1>15, <3>1 DEF Looking
  <2>3. PathInv'
    BY <1>3, <1>9, <1>10, <2>1, <2>2 DEF PathInv, Looking
  <2>4. idx \in Named
    BY <1>5, <1>7, <2>2 DEF Named
  <2>5. \A i \in Named : idx =< i
    <3> SUFFICES ASSUME NEW i \in Named, i < idx PROVE FALSE
      BY <1>5 DEF Named
    <3>1. i \in 0..(sector - 2)
      BY <1>4, <1>5 DEF Named
    <3> QED
      BY <1>13, <2>2, <3>1 DEF Unlisted, Named
  <2>6. Progress(idx)'
    <3>1. files'[idx] = file /\ left' = file.len /\ got' = << >>
      BY <1>2, <1>3, <1>9 DEF Looking
    <3>2. file.len - left' = 0
      BY <1>7, <1>9
    <3>3. got' = Delivered(file, file.len - left')
      BY <3>1, <3>2, DeliveredNone
    <3>4. cluster' - FileCluster(idx) = 0 /\ cluster' >= FileCluster(idx) /\ cluster' \in Nat
      <4>1. FileCluster(idx) \in Int /\ FatEntries =< FileCluster(idx) /\ FatEntries \in Nat
        BY <1>5, SlotLimits, Layout
      <4> QED
        BY <1>9, <4>1
    <3>5. (cluster' - FileCluster(idx)) * ClusterSize = 0
      BY <3>4, Layout
    <3>6. step' = "data" => 0 < file.len
      BY <1>7, <2>1
    <3>7. step' = "complete" => left' = 0
      BY <1>9, <2>1
    <3>8. step' /= "fat"
      BY <2>1
    <3> QED
      BY <1>7, <3>1, <3>2, <3>3, <3>4, <3>5, <3>6, <3>7, <3>8 DEF Progress
  <2>7. DataInv'
    BY <1>10, <2>4, <2>5, <2>6 DEF DataInv
  <2>8. MissingInv'
    BY <2>1, <2>2 DEF MissingInv
  <2> QED
    BY <1>2, <1>11, <1>12, <2>3, <2>7, <2>8 DEF DriverInv
<1>16. Len(path) = 1 \/ Len(path) > 1
  <2> DEFINE n == Len(path)
  <2>1. n \in Nat \ {0}
    BY <1>3 DEF Looking
  <2> HIDE DEF n
  <2>2. n = 1 \/ n > 1
    BY <2>1
  <2> QED
    BY <2>2 DEF n
<1> QED
  BY <1>14, <1>15, <1>16

\* Nothing: the driver goes on with the next sector, or looks for the next cluster.
LEMMA GotNothing ==
    ASSUME ReadInv, DriverInv, GotDir, Matches(buf[0], Head(path)) = {}
    PROVE  ReadInv' /\ DriverInv'
<1>1. step = "dir" /\ Return
  BY DEF GotDir
<1>2. /\ ReadInv' /\ files' = files /\ pc' = "idle" /\ path /= << >>
      /\ Shows(files, ClusterLba(cluster) + sector, buf[0])
  BY <1>1, Answered DEF Busy, AskLba, DriverInv, PathInv
<1>3. Looking
  BY <1>1, <1>2, LookingInv
<1>4. /\ sector \in 0..(ClusterCount - 1) /\ MaxFiles = ClusterCount - 1
      /\ ClusterCount \in Nat /\ ClusterCount > 2
  BY <1>1, Layout DEF DriverInv, PathInv
<1>5. buf[0] = IF sector = 0 THEN SubDirs(cluster) ELSE Listing(files, sector - 1)
  BY <1>2, <1>3, <1>4, ReadDir DEF Looking
<1>6. /\ sector' = IF sector = ClusterCount - 1 THEN 0 ELSE sector + 1
      /\ step' = IF sector = ClusterCount - 1 THEN "fat" ELSE "dir"
      /\ UNCHANGED <<path, left, cluster, device, wanted, base, volume, got>>
  <2>1. volume.sectors_per_cluster = ClusterCount
    BY <1>1 DEF DriverInv, VolumeInv, Vbr
  <2>2. /\ UNCHANGED <<path, left, cluster, device, wanted, base, volume, got>>
        /\ sector' = (sector + 1) % ClusterCount
        /\ step' = IF sector' = 0 THEN "fat" ELSE "dir"
    BY <2>1 DEF GotDir
  <2>3. (sector + 1) % ClusterCount = IF sector = ClusterCount - 1 THEN 0 ELSE sector + 1
    <3>1. CASE sector = ClusterCount - 1
      <4>1. sector + 1 = 1 * ClusterCount + 0 /\ 0 < ClusterCount
        BY <1>4, <3>1
      <4>2. (1 * ClusterCount + 0) % ClusterCount = 0
        BY <1>4, <4>1, ModOfMultiple
      <4> QED
        BY <3>1, <4>1, <4>2
    <3>2. CASE sector /= ClusterCount - 1
      <4>1. sector + 1 \in Nat /\ sector + 1 < ClusterCount
        BY <1>4, <3>2
      <4> QED
        BY <1>4, <3>2, <4>1, ModSmall
    <3> QED
      BY <3>1, <3>2
  <2> QED
    BY <1>4, <2>2, <2>3
<1>7. Name' = Name /\ Directory' = Directory
  BY <1>6 DEF Name, Directory
<1>8. CallInv'
  BY <1>2, <1>6 DEF CallInv, Waiting, Steps, Busy
<1>9. VolumeInv' /\ StoredInv'
  BY <1>1, <1>2, <1>6 DEF DriverInv, VolumeInv, StoredInv
<1>10. DataInv' /\ MissingInv'
  BY <1>2, <1>6 DEF DataInv, MissingInv
<1>11. \A d \in Directories : <<Head(path), d>> \notin Subs(cluster)
  <2>1. CASE sector = 0
    <3>1. \A d \in Directories : <<Head(path), d>> \in Subs(cluster)
                                   => Matches(SubDirs(cluster), Head(path)) /= {}
      BY <1>3, SubDirsFound DEF Looking
    <3>2. buf[0] = SubDirs(cluster)
      BY <1>5, <2>1
    <3> QED
      BY <3>1, <3>2
  <2>2. CASE sector /= 0
    <3>1. Unlisted(cluster, sector, Head(path)) /\ sector > 0
      BY <1>1, <1>2, <1>4, <2>2 DEF DriverInv, PathInv
    <3> QED
      BY <3>1 DEF Unlisted
  <2> QED
    BY <2>1, <2>2
<1>12. \A idx \in 0..(sector - 1) : ~(files[idx].used /\ files[idx].name = Head(path))
  <2> SUFFICES ASSUME NEW idx \in 0..(sector - 1)
               PROVE  ~(files[idx].used /\ files[idx].name = Head(path))
    OBVIOUS
  <2>1. idx \in 0..(MaxFiles - 1) /\ sector /= 0
    BY <1>4
  <2>2. CASE idx = sector - 1
    <3>1. buf[0] = Listing(files, idx)
      BY <1>5, <2>1, <2>2
    <3>2. FilesOK /\ StoredInv
      BY DEF ReadInv, DriverInv
    <3>3. files[idx].used /\ files[idx].name = Head(path)
             => Matches(Listing(files, idx), Head(path)) /= {}
      BY <2>1, <3>2, ListingFound
    <3> QED
      BY <3>1, <3>3
  <2>3. CASE idx /= sector - 1
    <3>1. idx \in 0..(sector - 2)
      BY <1>4, <2>3
    <3>2. Unlisted(cluster, sector, Head(path))
      BY <1>1, <1>2 DEF DriverInv, PathInv
    <3> QED
      BY <3>1, <3>2 DEF Unlisted
  <2> QED
    BY <2>2, <2>3
<1>13. Unlisted(cluster, IF step = "dir" THEN sector ELSE ClusterCount, Head(path))'
  <2> DEFINE n == IF step' = "dir" THEN sector' ELSE ClusterCount
  <2>1. n = sector + 1
    BY <1>4, <1>6
  <2>2. n - 2 = sector - 1
    BY <1>4, <2>1
  <2> HIDE DEF n
  <2>3. \A idx \in 0..(n - 2) : ~(files'[idx].used /\ files'[idx].name = Head(path'))
    BY <1>2, <1>6, <1>12, <2>2
  <2>4. \A d \in Directories : <<Head(path'), d>> \notin Subs(cluster')
    BY <1>6, <1>11
  <2> QED
    BY <2>3, <2>4 DEF Unlisted, n
<1>14. PathInv'
  <2>1. step' \in {"dir", "fat"} /\ sector' \in 0..(ClusterCount - 1)
    BY <1>4, <1>6
  <2> QED
    BY <1>3, <1>6, <1>7, <1>13, <2>1 DEF PathInv, Looking
<1> QED
  BY <1>2, <1>8, <1>9, <1>10, <1>14 DEF DriverInv

LEMMA GotDirInv ==
    ASSUME ReadInv, DriverInv, GotDir
    PROVE  ReadInv' /\ DriverInv'
  BY GotSubdir, GotFile, GotNothing

-----------------------------------------------------------------------------
(* The FAT.                                                                *)

\* A directory has one cluster: what was not found in it is not in it.
LEMMA GotDirEnd ==
    ASSUME ReadInv, DriverInv, GotFat, path /= << >>
    PROVE  ReadInv' /\ DriverInv'
<1> DEFINE next == buf[0].next[cluster % FatEntries]
<1>1. step = "fat" /\ Return
  BY DEF GotFat
<1>2. /\ ReadInv' /\ files' = files /\ pc' = "idle"
      /\ Shows(files, FatLba + cluster \div FatEntries, buf[0])
  BY <1>1, Answered DEF Busy, AskLba
<1>3. Looking
  BY <1>1, LookingInv
<1>4. next = EndMarker
  <2>1. cluster \in Directories /\ cluster \in Nat /\ cluster < SectorsPerFat * FatEntries
    BY <1>3, DirFat DEF Looking
  <2>2. FatEntryOK(files, cluster, next)
    BY <1>2, <2>1, ReadFat
  <2> HIDE DEF next
  <2> QED
    BY <2>1, <2>2 DEF FatEntryOK
<1>5. step' = "missing" /\ UNCHANGED <<device, wanted, path, base, volume, sector, left, got>>
  <2>1. /\ step' = IF next = EndMarker
                   THEN IF path /= << >> THEN "missing"
                        ELSE IF left = 0 THEN "complete" ELSE "corrupt"
                   ELSE IF path /= << >> THEN "dir"
                   ELSE IF left > 0 THEN "data" ELSE "corrupt"
        /\ UNCHANGED <<device, wanted, path, base, volume, sector, left, got>>
    BY DEF GotFat
  <2> HIDE DEF next
  <2> QED
    BY <1>4, <2>1
<1>6. CallInv'
  BY <1>2, <1>5 DEF CallInv, Waiting, Steps, Busy
<1>7. VolumeInv' /\ StoredInv' /\ DataInv'
  BY <1>1, <1>2, <1>5 DEF DriverInv, VolumeInv, StoredInv, DataInv
<1>8. PathInv'
  BY <1>3, <1>5 DEF PathInv, Looking, Busy
<1>9. ~(Directory \in DirPaths /\ Named /= {})
  <2> SUFFICES ASSUME Directory \in DirPaths PROVE Named = {}
    OBVIOUS
  <2>1. Unlisted(cluster, ClusterCount, Head(path))
    BY <1>1 DEF DriverInv, PathInv
  <2>2. \A d \in Directories : <<Head(path), d>> \notin Subs(cluster)
    BY <2>1, Layout DEF Unlisted
  <2>3. Head(path) = Name
    BY <1>3, <2>2, LookingFor
  <2>4. MaxFiles - 1 = ClusterCount - 2
    BY Layout
  <2> QED
    BY <2>1, <2>3, <2>4 DEF Unlisted, Named
<1>10. MissingInv'
  <2>1. Directory' = Directory /\ Named' = Named
    BY <1>2, <1>5 DEF Directory, Named, Name
  <2> QED
    BY <1>5, <1>9, <2>1 DEF MissingInv
<1> QED
  BY <1>2, <1>6, <1>7, <1>8, <1>10 DEF DriverInv

\* The chain of a file leads to its next cluster, and ends with its data.
LEMMA FileChain ==
    ASSUME NEW idx \in 0..(MaxFiles - 1), NEW c \in Nat, c >= FileCluster(idx),
           files[idx].used, files[idx].len \in 0..(UIntMod - 1),
           Before(idx, c) < files[idx].len, NEW entry, FatEntryOK(files, c, entry)
    PROVE  LET rest == files[idx].len - Before(idx, c)
           IN  /\ rest =< ClusterSize => entry = EndMarker
               /\ rest > ClusterSize => entry = c + 1
               /\ Before(idx, c + 1) = Before(idx, c) + ClusterSize
<1> DEFINE k == c - FileCluster(idx)
           len == files[idx].len
           q == (len - 1) \div ClusterSize
           r == (len - 1) % ClusterSize
           before == k * ClusterSize
<1>1. /\ ClusterSize \in Nat /\ ClusterSize > 0 /\ len \in Nat /\ FileCluster(idx) \in Int
      /\ before < len /\ UIntMod \in Nat
  BY SlotLimits, Layout DEF Before
<1>2. k \in Nat /\ before \in Nat /\ (k + 1) * ClusterSize = before + ClusterSize
  <2>1. k \in Nat
    BY <1>1
  <2> HIDE DEF k
  <2> QED
    BY <1>1, <2>1, MulTypes
<1>3. len - 1 \in Nat
  BY <1>1, <1>2
<1>4. q \in Nat /\ r \in Nat /\ r < ClusterSize /\ len - 1 = q * ClusterSize + r
      /\ q * ClusterSize \in Nat
  <2>1. q \in Nat /\ r \in Nat /\ r < ClusterSize /\ len - 1 = ClusterSize * q + r
    BY <1>1, <1>3, DivMod
  <2> HIDE DEF q, r
  <2>2. ClusterSize * q = q * ClusterSize /\ q * ClusterSize \in Nat
    BY <1>1, <2>1, MulTypes
  <2> QED
    BY <2>1, <2>2
<1>5. LastCluster(files[idx], idx) = FileCluster(idx) + q
  BY DEF LastCluster
<1>6. c = FileCluster(idx) + k /\ (c + 1) - FileCluster(idx) = k + 1
  BY <1>1
<1>7. Before(idx, c) = before /\ Before(idx, c + 1) = before + ClusterSize
  BY <1>2, <1>6 DEF Before
<1> HIDE DEF q, r
<1>8. k =< q
  <2>1. CASE q < k
    <3>1. q * ClusterSize + ClusterSize =< before
      BY <1>1, <1>2, <1>4, <2>1, MulApart
    <3> QED
      BY <1>1, <1>2, <1>4, <3>1
  <2> QED
    BY <1>2, <1>4, <2>1
<1>9. k = q <=> len - before =< ClusterSize
  <2>1. ASSUME k = q PROVE len - before =< ClusterSize
    BY <1>1, <1>2, <1>4, <2>1
  <2>2. ASSUME k /= q PROVE len - before > ClusterSize
    <3>1. before + ClusterSize =< q * ClusterSize
      BY <1>1, <1>2, <1>4, <1>8, <2>2, MulApart
    <3> QED
      BY <1>1, <1>2, <1>3, <1>4, <3>1
  <2> QED
    BY <1>1, <1>2, <2>1, <2>2
<1>10. Holds(files, idx, c)
  <2>1. len > 0
    BY <1>1, <1>2
  <2>2. c =< FileCluster(idx) + q
    BY <1>1, <1>2, <1>4, <1>6, <1>8
  <2> QED
    BY <1>5, <2>1, <2>2 DEF Holds
<1>11. entry = IF c = FileCluster(idx) + q THEN EndMarker ELSE c + 1
  BY <1>5, <1>10 DEF FatEntryOK
<1>12. c = FileCluster(idx) + q <=> k = q
  BY <1>1, <1>2, <1>4, <1>6
<1> QED
  BY <1>1, <1>2, <1>7, <1>9, <1>11, <1>12

LEMMA GotFileFat ==
    ASSUME ReadInv, DriverInv, GotFat, path = << >>
    PROVE  ReadInv' /\ DriverInv'
<1> DEFINE next == buf[0].next[cluster % FatEntries]
<1>1. step = "fat" /\ Return
  BY DEF GotFat
<1>2. /\ ReadInv' /\ files' = files /\ pc' = "idle"
      /\ Shows(files, FatLba + cluster \div FatEntries, buf[0])
  BY <1>1, Answered DEF Busy, AskLba
<1>3. PICK idx \in Named :
              /\ Progress(idx) /\ \A i \in Named : idx =< i
              /\ idx \in 0..(MaxFiles - 1) /\ files[idx].len \in 0..(UIntMod - 1)
              /\ cluster \in Nat /\ cluster >= FileCluster(idx)
              /\ Before(idx, cluster) < files[idx].len
  BY <1>1, DataPlace DEF ReadInv, DriverInv
<1> DEFINE len == files[idx].len
           before == Before(idx, cluster)
<1>4. /\ before \in Nat /\ ClusterSize \in Nat /\ ClusterSize > 0 /\ len \in Nat
      /\ cluster < SectorsPerFat * FatEntries
  BY <1>3, FilePlace, Layout
<1>5. FatEntryOK(files, cluster, next)
  BY <1>2, <1>3, <1>4, ReadFat
<1>6. /\ len - before =< ClusterSize => next = EndMarker
      /\ len - before > ClusterSize => next = cluster + 1
      /\ Before(idx, cluster + 1) = before + ClusterSize
  <2> HIDE DEF next
  <2>1. files[idx].used
    BY <1>3 DEF Named
  <2> QED
    BY <1>3, <1>5, <2>1, FileChain
<1>7. /\ left = IF len - before > ClusterSize THEN len - before - ClusterSize ELSE 0
      /\ left \in 0..len /\ got = Delivered(files[idx], len - left)
  BY <1>1, <1>3 DEF Progress, Before
<1>8. /\ cluster' = next
      /\ step' = IF len - before > ClusterSize THEN "data" ELSE "complete"
      /\ UNCHANGED <<device, wanted, path, base, volume, sector, left, got>>
  <2>1. /\ cluster' = next
        /\ step' = IF next = EndMarker
                   THEN IF path /= << >> THEN "missing"
                        ELSE IF left = 0 THEN "complete" ELSE "corrupt"
                   ELSE IF path /= << >> THEN "dir"
                   ELSE IF left > 0 THEN "data" ELSE "corrupt"
        /\ UNCHANGED <<device, wanted, path, base, volume, sector, left, got>>
    BY DEF GotFat
  <2> HIDE DEF next, before, len
  <2>2. CASE len - before > ClusterSize
    <3>1. next = cluster + 1 /\ next /= EndMarker
      BY <1>3, <1>6, <2>2 DEF EndMarker
    <3>2. left > 0
      BY <1>4, <1>7, <2>2
    <3> QED
      BY <2>1, <2>2, <3>1, <3>2
  <2>3. CASE ~(len - before > ClusterSize)
    <3>1. next = EndMarker /\ left = 0
      BY <1>4, <1>6, <1>7, <2>3
    <3> QED
      BY <2>1, <2>3, <3>1
  <2> QED
    BY <2>2, <2>3
<1> HIDE DEF next
<1>9. Name' = Name /\ Directory' = Directory /\ Named' = Named
  BY <1>2, <1>8 DEF Name, Directory, Named
<1>10. CallInv'
  BY <1>2, <1>8 DEF CallInv, Waiting, Steps, Busy
<1>11. VolumeInv' /\ StoredInv'
  BY <1>1, <1>2, <1>8 DEF DriverInv, VolumeInv, StoredInv
<1>12. PathInv' /\ MissingInv'
  BY <1>1, <1>8 DEF DriverInv, PathInv, MissingInv, Busy
<1>13. Progress(idx)'
  <2>1. files'[idx] = files[idx] /\ left' = left /\ got' = got
    BY <1>2, <1>8
  <2>2. CASE len - before > ClusterSize
    <3>1. step' = "data" /\ cluster' = cluster + 1
      BY <1>6, <1>8, <2>2
    <3>2. (cluster' - FileCluster(idx)) * ClusterSize = before + ClusterSize
      BY <1>6, <3>1 DEF Before
    <3>3. len - left' = before + ClusterSize /\ before + ClusterSize < len
      <4> HIDE DEF before, len
      <4> QED
        BY <1>4, <1>7, <2>1, <2>2
    <3>4. cluster' >= FileCluster(idx) /\ cluster' \in Nat
      <4>1. FileCluster(idx) \in Int
        BY <1>3, SlotLimits
      <4> QED
        BY <1>3, <3>1, <4>1
    <3> QED
      BY <1>7, <2>1, <3>1, <3>2, <3>3, <3>4 DEF Progress
  <2>3. CASE ~(len - before > ClusterSize)
    <3>1. step' = "complete" /\ left' = 0
      BY <1>7, <1>8, <2>1, <2>3
    <3> QED
      BY <1>7, <2>1, <3>1 DEF Progress
  <2> QED
    BY <2>2, <2>3
<1>14. DataInv'
  BY <1>3, <1>9, <1>13 DEF DataInv
<1> QED
  BY <1>2, <1>10, <1>11, <1>12, <1>14 DEF DriverInv

LEMMA GotFatInv ==
    ASSUME ReadInv, DriverInv, GotFat
    PROVE  ReadInv' /\ DriverInv'
  BY GotDirEnd, GotFileFat

-----------------------------------------------------------------------------
(* A cluster of a file.                                                    *)

\* Two sequences, one after the other.
LEMMA Pieces ==
    ASSUME NEW S, NEW f \in Seq(S), NEW g \in Seq(S), NEW h \in Seq(S), Len(h) = Len(f) + Len(g),
           \A i \in 1..Len(f) : h[i] = f[i],
           \A i \in 1..Len(g) : h[Len(f) + i] = g[i]
    PROVE  f \o g = h
<1> DEFINE fg == f \o g
<1>1. /\ fg \in Seq(S) /\ Len(fg) = Len(f) + Len(g) /\ Len(f) \in Nat /\ Len(g) \in Nat
      /\ \A i \in 1..Len(f) : fg[i] = f[i]
      /\ \A i \in 1..Len(g) : fg[Len(f) + i] = g[i]
  BY Joined
<1> HIDE DEF fg
<1>2. Len(fg) = Len(h)
  BY <1>1
<1>3. ASSUME NEW i \in 1..Len(h) PROVE fg[i] = h[i]
  <2>1. CASE i \in 1..Len(f)
    BY <1>1, <2>1
  <2>2. CASE i \notin 1..Len(f)
    <3>1. i - Len(f) \in 1..Len(g) /\ Len(f) + (i - Len(f)) = i
      BY <1>1, <2>2
    <3>2. fg[Len(f) + (i - Len(f))] = g[i - Len(f)] /\ h[Len(f) + (i - Len(f))] = g[i - Len(f)]
      BY <1>1, <3>1
    <3> QED
      BY <3>1, <3>2
  <2> QED
    BY <2>1, <2>2
<1>4. fg = h
  BY <1>1, <1>2, <1>3
<1> QED
  BY <1>4 DEF fg

\* The sectors of the next n bytes of a file, of which c sectors were delivered.
LEMMA DeliveredMore ==
    ASSUME NEW file, NEW c \in Nat, NEW n \in Nat, NEW b,
           \A j \in 0..(SectorsOf(n) - 1) :
              b[j] = FileData(file, (c + j) * SectorSize, BytesAt(file.len, (c + j) * SectorSize))
    PROVE  Delivered(file, c * SectorSize) \o [j \in 1..SectorsOf(n) |-> b[j - 1]]
              = Delivered(file, c * SectorSize + n)
<1> DEFINE m == SectorsOf(n)
           D(k) == FileData(file, (k - 1) * SectorSize, BytesAt(file.len, (k - 1) * SectorSize))
           f == [k \in 1..c |-> D(k)]
           g == [j \in 1..m |-> b[j - 1]]
           h == [k \in 1..(c + m) |-> D(k)]
           S == {D(k) : k \in 1..(c + m)}
<1>1. m \in Nat /\ SectorsOf(c * SectorSize + n) = c + m
  BY SectorsOfSum
<1>2. SectorsOf(c * SectorSize) = c
  <2>1. SectorsOf(c * SectorSize + 0) = c + SectorsOf(0)
    BY SectorsOfSum
  <2>2. c * SectorSize \in Nat
    BY Layout, MulTypes
  <2>3. c * SectorSize + 0 = c * SectorSize
    BY <2>2
  <2> QED
    BY <2>1, <2>3, SectorsOfNone
<1>3. Delivered(file, c * SectorSize) = f /\ Delivered(file, c * SectorSize + n) = h
  BY <1>1, <1>2 DEF Delivered
<1>4. \A j \in 1..m : b[j - 1] = D(c + j)
  <2> SUFFICES ASSUME NEW j \in 1..m PROVE b[j - 1] = D(c + j)
    OBVIOUS
  <2>1. j - 1 \in 0..(m - 1) /\ c + (j - 1) = (c + j) - 1
    BY <1>1
  <2>2. b[j - 1] = FileData(file, (c + (j - 1)) * SectorSize,
                            BytesAt(file.len, (c + (j - 1)) * SectorSize))
    BY <2>1
  <2> QED
    BY <2>1, <2>2
<1> HIDE DEF m, D
<1>5. /\ f \in Seq(S) /\ g \in Seq(S) /\ h \in Seq(S) /\ Len(f) = c /\ Len(g) = m /\ Len(h) = c + m
      /\ \A i \in 1..c : h[i] = f[i]
      /\ \A i \in 1..m : h[c + i] = g[i]
  <2>1. \A k \in 1..c : D(k) \in S
    BY <1>1
  <2>2. \A j \in 1..m : b[j - 1] \in S
    <3> SUFFICES ASSUME NEW j \in 1..m PROVE b[j - 1] \in S
      OBVIOUS
    <3>1. c + j \in 1..(c + m)
      BY <1>1
    <3> QED
      BY <1>4, <3>1
  <2>3. \A k \in 1..(c + m) : D(k) \in S
    OBVIOUS
  <2>4. \A i \in 1..m : h[c + i] = g[i]
    <3> SUFFICES ASSUME NEW i \in 1..m PROVE h[c + i] = g[i]
      OBVIOUS
    <3>1. c + i \in 1..(c + m)
      BY <1>1
    <3> QED
      BY <1>4, <3>1
  <2>5. \A i \in 1..c : h[i] = f[i]
    <3> SUFFICES ASSUME NEW i \in 1..c PROVE h[i] = f[i]
      OBVIOUS
    <3>1. i \in 1..(c + m)
      BY <1>1
    <3> QED
      BY <3>1
  <2> HIDE DEF S
  <2>6. f \in Seq(S) /\ Len(f) = c
    BY <2>1
  <2>7. g \in Seq(S) /\ Len(g) = m
    BY <1>1, <2>2
  <2>8. h \in Seq(S) /\ Len(h) = c + m
    BY <1>1, <2>3
  <2> QED
    BY <2>4, <2>5, <2>6, <2>7, <2>8
<1> HIDE DEF f, g, h, S
<1>6. f \o g = h
  BY <1>5, Pieces
<1> QED
  BY <1>3, <1>6 DEF g, m

LEMMA GotDataInv ==
    ASSUME ReadInv, DriverInv, GotData
    PROVE  ReadInv' /\ DriverInv'
<1>1. step = "data" /\ Return /\ step' = "fat" /\ path = << >>
      /\ UNCHANGED <<device, wanted, path, base, volume, cluster, sector>>
  BY DEF GotData, DriverInv, PathInv
<1>2. /\ ReadInv' /\ files' = files /\ pc' = "idle"
      /\ \A k \in 0..(ClusterCount - 1) : Shows(files, ClusterLba(cluster) + k, buf[k])
  <2>1. AskLba = ClusterLba(cluster) /\ AskCount = ClusterCount
    BY <1>1 DEF AskLba, AskCount
  <2> QED
    BY <1>1, <2>1, Answered DEF Busy
<1>3. PICK idx \in Named :
              /\ Progress(idx) /\ \A i \in Named : idx =< i
              /\ idx \in 0..(MaxFiles - 1) /\ files[idx].len \in 0..(UIntMod - 1)
              /\ cluster \in Nat /\ cluster >= FileCluster(idx)
              /\ Before(idx, cluster) < files[idx].len
  BY <1>1, DataPlace DEF ReadInv, DriverInv
<1> DEFINE file == files[idx]
           len == file.len
           c == (cluster - FileCluster(idx)) * ClusterCount
           before == Before(idx, cluster)
           n == IF left < ClusterSize THEN left ELSE ClusterSize
<1>4. /\ before = c * SectorSize /\ before \in Nat /\ c \in Nat /\ c + ClusterCount =< FileCount
      /\ ClusterLba(cluster) = FileLba(idx) + c
  BY <1>3, FilePlace
<1>5. /\ ClusterCount \in Nat /\ SectorSize \in Nat /\ SectorSize > 0 /\ FileCount \in Nat
      /\ ClusterSize = ClusterCount * SectorSize /\ ClusterSize \in Nat /\ len \in Nat
      /\ FileLba(idx) \in Int /\ UIntMod \in Nat
  BY <1>3, Layout, SlotOrder DEF ClusterSize
<1>6. left \in 0..len /\ got = Delivered(file, len - left) /\ len - left = before
  BY <1>1, <1>3 DEF Progress, Before
<1> HIDE DEF c
<1>7. n \in Nat /\ n =< ClusterSize /\ n =< left
  BY <1>5, <1>6
<1>8. /\ got' = got \o [k \in 1..SectorsOf(n) |-> buf[k - 1]] /\ left' = left - n
  <2>1. volume.sectors_per_cluster * SectorSize = ClusterSize
    BY <1>1 DEF DriverInv, VolumeInv, Vbr, ClusterSize
  <2> QED
    BY <2>1 DEF GotData
<1> HIDE DEF n
<1>9. SectorsOf(n) \in 0..ClusterCount
  <2>1. SectorsOf(n) \in Nat /\ (SectorsOf(n) - 1) * SectorSize < n
    BY <1>7, SectorsOfSum
  <2>2. CASE ClusterCount =< SectorsOf(n) - 1
    <3>1. ClusterCount * SectorSize =< (SectorsOf(n) - 1) * SectorSize
      BY <1>5, <2>1, <2>2, MulMono
    <3>2. (SectorsOf(n) - 1) * SectorSize \in Int
      BY <1>5, <2>1, MulTypes
    <3> QED
      BY <1>5, <1>7, <2>1, <3>1, <3>2
  <2> QED
    BY <1>5, <2>1, <2>2
<1>10. ASSUME NEW j \in 0..(SectorsOf(n) - 1)
       PROVE  buf[j] = FileData(file, (c + j) * SectorSize, BytesAt(len, (c + j) * SectorSize))
  <2>1. j \in 0..(ClusterCount - 1) /\ c + j \in 0..(FileCount - 1)
    BY <1>4, <1>5, <1>9
  <2>2. ClusterLba(cluster) + j = FileLba(idx) + (c + j)
    BY <1>4, <1>5, <2>1
  <2>3. Shows(files, FileLba(idx) + (c + j), buf[j])
    BY <1>2, <2>1, <2>2
  <2> QED
    BY <1>3, <2>1, <2>3, ReadData
<1>11. got' = Delivered(file, before + n)
  <2>1. Delivered(file, c * SectorSize) \o [j \in 1..SectorsOf(n) |-> buf[j - 1]]
           = Delivered(file, c * SectorSize + n)
    BY <1>4, <1>7, <1>10, DeliveredMore
  <2>2. got = Delivered(file, c * SectorSize)
    BY <1>4, <1>6
  <2> QED
    BY <1>4, <1>8, <2>1, <2>2
<1>12. Name' = Name /\ Directory' = Directory /\ Named' = Named
  BY <1>1, <1>2 DEF Name, Directory, Named
<1>13. CallInv'
  BY <1>1, <1>2 DEF CallInv, Waiting, Steps, Busy
<1>14. VolumeInv' /\ StoredInv'
  BY <1>1, <1>2 DEF DriverInv, VolumeInv, StoredInv
<1>15. PathInv' /\ MissingInv'
  BY <1>1 DEF DriverInv, PathInv, MissingInv, Busy
<1>16. Progress(idx)'
  <2>1. files'[idx] = file /\ cluster' = cluster
    BY <1>1, <1>2
  <2>2. left' \in 0..len /\ len - left' = before + n
    <3> HIDE DEF before, len
    <3> QED
      BY <1>4, <1>5, <1>6, <1>7, <1>8
  <2>3. left' = IF len - before > ClusterSize THEN len - before - ClusterSize ELSE 0
    <3> HIDE DEF before, len
    <3> QED
      BY <1>4, <1>5, <1>6, <1>8 DEF n
  <2> QED
    BY <1>1, <1>3, <1>11, <2>1, <2>2, <2>3 DEF Progress, Before
<1>17. DataInv'
  BY <1>3, <1>12, <1>16 DEF DataInv
<1> QED
  BY <1>2, <1>13, <1>14, <1>15, <1>17 DEF DriverInv

-----------------------------------------------------------------------------
(* The invariant of the driver and of the disk that it reads.              *)

LEMMA DriverInitInv == DriverInit => ReadInv /\ DriverInv
<1> SUFFICES ASSUME DriverInit PROVE ReadInv /\ DriverInv
  OBVIOUS
<1>1. Init /\ step = "closed" /\ device = Int13Drive /\ got = << >> /\ base = 0
  BY DEF DriverInit
<1>2. ReadInv
  BY <1>1, InitInv
<1>3. pc = "extract" /\ \A idx \in 0..(MaxFiles - 1) : files[idx].used = FALSE
  BY <1>1 DEF Init, EmptyFile
<1>4. CallInv
  BY <1>1, <1>3 DEF CallInv, Waiting, Steps
<1>5. StoredInv
  BY <1>3 DEF StoredInv
<1>6. VolumeInv /\ PathInv /\ DataInv /\ MissingInv
  BY <1>1 DEF VolumeInv, PathInv, DataInv, MissingInv, Devices, Busy
<1> QED
  BY <1>2, <1>4, <1>5, <1>6 DEF DriverInv

LEMMA DriverStutters ==
    ASSUME ReadInv, DriverInv, UNCHANGED <<vars, driverVars>>
    PROVE  ReadInv' /\ DriverInv'
<1>1. ReadInv'
  BY ReadStutters
<1>2. UNCHANGED <<files, start, end, pc, driverVars>>
  BY DEF vars, readVars
<1>3. DriverKept'
  BY <1>2, DriverFrame
<1>4. CallInv'
  BY <1>2 DEF DriverInv, CallInv, driverVars, Steps, Busy, Waiting, AskLba, AskCount
<1> QED
  BY <1>1, <1>3, <1>4 DEF DriverInv, DriverKept

LEMMA DriverStep == ReadInv /\ DriverInv /\ [DriverNext]_allVars => ReadInv' /\ DriverInv'
<1> SUFFICES ASSUME ReadInv, DriverInv, [DriverNext]_allVars PROVE ReadInv' /\ DriverInv'
  OBVIOUS
<1>1. CASE LoaderStep
  BY <1>1, LoaderStepInv
<1>2. CASE \E dev \in Devices, p \in Paths : Open(dev, p)
  BY <1>2, OpenInv
<1>3. CASE Request
  BY <1>3, RequestInvStep
<1>4. CASE Got
  BY <1>4, GotMbrInv, GotVbrInv, GotDirInv, GotDataInv, GotFatInv DEF Got
<1>5. CASE Close
  BY <1>5, CloseInv
<1>6. CASE UNCHANGED <<vars, driverVars>>
  BY <1>6, DriverStutters
<1> QED
  BY <1>1, <1>2, <1>3, <1>4, <1>5, <1>6 DEF DriverNext, allVars

\* While the driver follows the disk's structures, what it knows is true.
THEOREM DriverInvariant == DriverSpec => [](ReadInv /\ DriverInv)
<1>1. DriverInit => ReadInv /\ DriverInv
  BY DriverInitInv
<1>2. ReadInv /\ DriverInv /\ [DriverNext]_allVars => (ReadInv /\ DriverInv)'
  BY DriverStep
<1> QED
  BY <1>1, <1>2, PTL DEF DriverSpec

\* A file that the driver reads to its end is, byte for byte, the first one that
\* vdisk_add_file was given under that name, whichever device and directory the
\* driver came through (vdisk_read and the functions that build its sectors).
THEOREM FileIsDelivered == DriverSpec => []FileDelivered
<1>1. ASSUME ReadInv, DriverInv PROVE FileDelivered
  <2> SUFFICES ASSUME step = "complete"
               PROVE  \E idx \in Named : got = FileSectors(files[idx]) /\ \A i \in Named : idx =< i
    BY DEF FileDelivered
  <2>1. path = << >>
    BY <1>1 DEF DriverInv, MissingInv
  <2>2. PICK idx \in Named : Progress(idx) /\ \A i \in Named : idx =< i
    BY <1>1, <2>1 DEF DriverInv, DataInv
  <2>3. left = 0 /\ got = Delivered(files[idx], files[idx].len - left)
    BY <2>1, <2>2 DEF Progress
  <2>4. files[idx].len \in Nat
    BY <1>1, Layout DEF Named, ReadInv, FilesOK
  <2>5. files[idx].len - left = files[idx].len
    BY <2>3, <2>4
  <2>6. got = FileSectors(files[idx])
    BY <2>3, <2>5 DEF Delivered, FileSectors
  <2> QED
    BY <2>2, <2>6
<1> QED
  BY <1>1, DriverInvariant, PTL

\* Whatever file the initrd had is found in every directory in which it must
\* appear, by a chain of clusters without a break: the driver reports missing
\* files only where there are none (vdisk_directory and vdisk_fat).
THEOREM FileIsFound == DriverSpec => []FileFound
<1>1. DriverInv => FileFound
  BY DEF DriverInv, MissingInv, FileFound
<1> QED
  BY <1>1, DriverInvariant, PTL

\* No sequence of reads that follows the disk's own structures leaves the device
\* that was opened (VDISK_COUNT and VDISK_PARTITION_COUNT, as the INT 13 drive
\* and the EFI block devices report them).
THEOREM ReadsStayOnDevice == DriverSpec => []ReadsOnDevice
<1>1. ASSUME ReadInv, DriverInv PROVE ReadsOnDevice
  <2> SUFFICES ASSUME pc \in Waiting
               PROVE  device.lba =< start /\ end =< device.lba + device.last_block + 1
    BY DEF ReadsOnDevice, Waiting
  <2>1. step \in Busy /\ start = AskLba /\ end = AskLba + AskCount
    BY <1>1 DEF DriverInv, CallInv
  <2>2. Asked
    BY <1>1, <2>1, AskInv
  <2>3. device.lba + device.last_block + 1 = VDiskCount
    <3>1. PartitionLba \in Nat /\ PartitionCount \in Int
      <4>1. Clusters \in Nat
        BY GeometryAssumption DEF GeometryOK
      <4> QED
        BY <4>1, Layout, MulTypes DEF PartitionCount, ReservedCount
    <3> QED
      BY <1>1, <3>1 DEF DriverInv, VolumeInv, Devices, Int13Drive, EfiVDisk, EfiVPartition, VDiskCount
  <2> QED
    BY <2>1, <2>2, <2>3 DEF Asked
<1> QED
  BY <1>1, DriverInvariant, PTL
=============================================================================
