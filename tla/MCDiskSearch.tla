---------------------------- MODULE MCDiskSearch -----------------------------
(***************************************************************************)
(* DiskSearch on disks of a few dozen sectors, with the geometry scaled    *)
(* down: 4 cylinders can be addressed, by 3 heads and 3 sectors.  The      *)
(* disks are written here as partitioning tools write them, from a list of *)
(* the partitions they are to have.                                        *)
(***************************************************************************)
EXTENDS DiskSearchInv

MCNone == [type |-> "none", start |-> 0, length |-> 0]
MCEntry(type, start) == [type |-> type, start |-> start, length |-> 1]
MCBlank ==
    [aa55 |-> FALSE, id |-> 0, entries |-> [n \in 1..4 |-> MCNone], fs |-> "none", serial |-> 0,
     gpt |-> NoGpt, unit |-> [u \in 0..(Units - 1) |-> NoEntry]]
MCTable(id, es) ==
    [MCBlank EXCEPT !.aa55 = TRUE, !.id = id,
                    !.entries = [n \in 1..4 |-> IF n \in DOMAIN es THEN es[n] ELSE MCNone]]
MCBoot(vol) == [MCBlank EXCEPT !.aa55 = TRUE, !.fs = vol.fs, !.serial = vol.serial]

MCVol(start, fs, serial) == [start |-> start, fs |-> fs, serial |-> serial]
MCUuid(vol) == Uuid(MCBoot(vol))

\* Sectors: the last layer that has the sector wins.
MCSectors(size, at) ==
    [n \in 1..size |-> IF n - 1 \in DOMAIN at THEN at[n - 1] ELSE MCBlank]
MCBoots(vols) ==
    [lba \in {vols[n].start : n \in DOMAIN vols} |->
        MCBoot(vols[CHOOSE n \in DOMAIN vols : vols[n].start = lba])]
MCOver(f, g) == [x \in DOMAIN f \cup DOMAIN g |-> IF x \in DOMAIN g THEN g[x] ELSE f[x]]

\* What the firmware says of a disk.
MCFirmware(ext, total, drpTotal, std, cylinders, heads, spt) ==
    [ext |-> ext, total |-> total, drpTotal |-> drpTotal, std |-> std,
     cylinders |-> cylinders, heads |-> heads, spt |-> spt]
MCBoth(size) == MCFirmware(TRUE, size, size, TRUE, 4, 3, 2)
MCChsOnly(size) == MCFirmware(FALSE, 0, 0, TRUE, 4, 3, 2)
MCExtOnly(size) == MCFirmware(TRUE, size, 0, FALSE, 0, AssumedHeads, Spt)
MCExtNoTotal(size) == MCFirmware(TRUE, 0, size, FALSE, 0, AssumedHeads, Spt)
MCNeither(size) == MCFirmware(FALSE, 0, 0, FALSE, 0, AssumedHeads, Spt)

\* "before" counts the partitions before each entry of the tables and of the GPT.
MCBefore(inTables, inGpt) == [mbr |-> inTables, gpt |-> inGpt]
MCDisk(size, at, parts, before, fw) ==
    MCOver([sectors |-> MCSectors(size, at), tables |-> DOMAIN before.mbr, parts |-> parts,
            before |-> before], fw)

MCPart(partid, map, diskid, vol, logical) ==
    [partid |-> partid, partmap |-> map, diskid |-> diskid, uuid |-> MCUuid(vol),
     logical |-> logical]

\* An msdos disk: volumes before and after an extended partition (at ext) with
\* logical volumes, the n-th described by a table at ext + 4 * (n - 1) and starting
\* right after it.  The link to the next table counts from ext.
MCEbr(ext, n) == ext + 4 * (n - 1)
MCLogicalTable(ext, n, count) ==
    MCTable(0, <<MCEntry("data", 1)>>
                  \o IF n < count THEN <<MCEntry("extended", MCEbr(ext, n + 1) - ext)>> ELSE << >>)
MCMsdos(size, id, before, ext, logicals, after, fw) ==
    LET data(vols) == [n \in DOMAIN vols |-> MCEntry("data", vols[n].start)]
        placed == [n \in DOMAIN logicals |-> [logicals[n] EXCEPT !.start = MCEbr(ext, n) + 1]]
        link == IF logicals = << >> THEN << >> ELSE <<MCEntry("extended", ext)>>
        ebrs == [lba \in {MCEbr(ext, n) : n \in DOMAIN logicals} |->
                   MCLogicalTable(ext, (lba - ext) \div 4 + 1, Len(logicals))]
        list(vols, logical) ==
            [n \in DOMAIN vols |-> MCPart(vols[n].start, "msdos", id, vols[n], logical)]
        parts == list(before, FALSE) \o list(placed, TRUE) \o list(after, FALSE)
        first == [n \in 1..5 |-> LET skip == IF logicals /= << >> /\ n > Len(before) + 1
                                             THEN n - 2 + Len(logicals) ELSE n - 1
                                 IN  IF skip < Len(parts) THEN skip ELSE Len(parts)]
        logical(m) == [n \in 1..5 |-> Len(before)
                                        + (CASE n = 1 -> m - 1 [] n = 2 -> m [] n > 2 -> Len(logicals))]
        counts == [lba \in {0} \cup DOMAIN ebrs |->
                     IF lba = 0 THEN first ELSE logical((lba - ext) \div 4 + 1)]
    IN  MCDisk(size,
               MCOver(MCOver(MCBoots(before \o placed \o after), ebrs),
                      [lba \in {0} |-> MCTable(id, data(before) \o link \o data(after))]),
               parts, MCBefore(counts, << >>), fw)

MCNoneBefore == [lba \in {0} |-> [n \in 1..5 |-> 0]]

\* A GPT disk: one unused entry between any two, and a protective MBR that also
\* lists the first volume.
MCGpt(size, guid, vols, entrySize, fw) ==
    LET units == [u \in 0..7 |->
                    IF u % (2 * entrySize) = 0 /\ u \div (2 * entrySize) + 1 \in DOMAIN vols
                    THEN LET vol == vols[u \div (2 * entrySize) + 1]
                         IN  [type |-> "data", start |-> vol.start, guid |-> guid + vol.start]
                    ELSE NoEntry]
        header == [magic |-> TRUE, guid |-> guid, maxpart |-> 8 \div entrySize, entry_size |-> entrySize,
                   partitions |-> 2]
        table == [lba \in 2..(1 + 8 \div Units) |->
                    [MCBlank EXCEPT !.unit =
                        [u \in 0..(Units - 1) |-> units[(lba - 2) * Units + u]]]]
    IN  MCDisk(size,
               MCOver(MCOver(MCBoots(vols), table),
                      [lba \in {0, 1} |->
                         IF lba = 1 THEN [MCBlank EXCEPT !.gpt = header]
                         ELSE MCTable(guid + 1, <<MCEntry("gpt", 1),
                                                  MCEntry("data", vols[1].start)>>)]),
               [n \in DOMAIN vols |->
                   MCPart(guid + vols[n].start, "gpt", guid, vols[n], FALSE)],
               MCBefore(MCNoneBefore,
                        [k \in 0..(8 \div entrySize) |->
                            IF (k + 1) \div 2 < Len(vols) THEN (k + 1) \div 2 ELSE Len(vols)]), fw)

\* A disk that is one volume.
MCFloppy(size, vol, fw) ==
    MCDisk(size, [lba \in {0} |-> MCBoot(vol)], << >>, MCBefore(MCNoneBefore, << >>), fw)

MCOne == MCVol(4, "ntfs", 1)
MCTwo == MCVol(0, "fat32", 1)
MCThree == MCVol(0, "exfat", 2)
MCFour == MCVol(18, "ntfs", 4)
MCFive == MCVol(12, "fat16", 5)
MCSix == MCVol(20, "fat12", 6)
MCRaw == MCVol(3, "none", 0)

MCTablesDisk(fw) == MCMsdos(24, 100, <<MCRaw, MCOne>>, 8, <<MCTwo, MCThree>>, <<MCFour>>, fw)
MCGptDisk(fw) == MCGpt(24, 200, <<MCFour, MCFive>>, 1, fw)
MCWideGptDisk(fw) == MCGpt(24, 300, <<MCFive, MCSix>>, 2, fw)
\* Larger than CHS mode reaches.
MCLargeDisk == MCGpt(32, 400, <<MCFive, MCVol(28, "ntfs", 7)>>, 1, MCBoth(32))

MCWanted == {<<"none">>, Unknown \o <<"never">>} \cup
    {MCUuid(v) : v \in {MCOne, MCTwo, MCThree, MCFour, MCFive, MCSix, MCVol(28, "ntfs", 7)}}

MCSetups ==
    LET fws == {MCBoth(24), MCChsOnly(24), MCExtOnly(24), MCExtNoTotal(24), MCNeither(24)}
    IN  {<<MCTablesDisk(fw), MCGptDisk(fw)>> : fw \in fws}
          \cup {<<MCFloppy(24, MCOne, fw), MCWideGptDisk(MCBoth(24)), MCTablesDisk(fw)>> : fw \in fws}
          \cup {<<MCGptDisk(MCNeither(24)), MCLargeDisk>>, << >>}

\* A logical volume's table that links to itself.
MCLoop ==
    MCDisk(24, [lba \in {0, 8} |->
                  IF lba = 0 THEN MCTable(100, <<MCEntry("extended", 8)>>)
                  ELSE MCTable(0, <<MCEntry("data", 1), MCEntry("extended", 0)>>)],
           << >>, MCBefore([lba \in {0, 8} |-> [n \in 1..5 |-> 0]], << >>), MCBoth(24))

MCMachine(bios, debug, disks, wanted) ==
    [bios |-> bios, debug |-> debug, disks |-> disks, wanted |-> wanted]

\* The loader as it is built unless DEBUG=0 is asked for - the tables of MCTablesDisk
\* have as many partitions as it goes to - and a few machines with one without DEBUG.
MCMachines ==
    {MCMachine(bios, TRUE, disks, uuid) : bios \in BOOLEAN, disks \in MCSetups, uuid \in MCWanted}
        \cup {MCMachine(bios, FALSE, <<MCTablesDisk(MCBoth(24)), MCGptDisk(MCBoth(24))>>, uuid) :
                  bios \in BOOLEAN, uuid \in {<<"none">>, MCUuid(MCFour)}}
        \cup {MCMachine(TRUE, TRUE, <<MCLoop>>, MCUuid(MCFour))}

\* The wanted volume is the third logical one.
MCChainMachines ==
    {MCMachine(TRUE, TRUE,
               <<MCMsdos(24, 100, << >>, 4, <<MCTwo, MCThree, MCFive>>, << >>, MCBoth(24))>>,
               MCUuid(MCFive))}
\* Built with "make DEBUG=0".
MCLoopMachines == {MCMachine(TRUE, FALSE, <<MCLoop>>, MCUuid(MCOne))}
=============================================================================
