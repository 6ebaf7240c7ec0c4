----------------------------- MODULE MCEfiBoot -----------------------------
(***************************************************************************)
(* Machines for EfiBoot: in some the firmware shows up to five handles of  *)
(* a pool of media, in every order, and no call fails; in the others there *)
(* are few handles, and calls fail.                                        *)
(***************************************************************************)
EXTENDS EfiDisksInv, FiniteSets

Pci == <<1, 1, 6, 0>>
Port(n) == <<3, 18, 10, n>>
Hd(n) == <<4, 1, 42, n>>
Cd == <<4, 2, 24, 0>>
Ghosted == <<4, 3, 20, Apple>>
FloppyDrive == <<2, 1, 12, 1540>>
RamDisk == <<4, 9, 38, 0>>

Disk == [id |-> "disk", blockSize |-> 512, readOnly |-> FALSE]
Dvd == [id |-> "disk", blockSize |-> 2048, readOnly |-> TRUE]
Stub == [id |-> "iPXE", blockSize |-> 1, readOnly |-> FALSE]
Odd == [id |-> "disk", blockSize |-> 520, readOnly |-> FALSE]

Handle(p, m) == [path |-> p, media |-> m]

\* A disk with a partition and one inside it, a DVD, a stick with both kinds of
\* partitions, a ghost, a floppy, a disk in memory, and media that are skipped.
Pool ==
    {Handle(<<Pci, Port(1)>>, Disk), Handle(<<Pci, Port(1), Hd(1)>>, Disk),
     Handle(<<Pci, Port(1), Hd(2)>>, Disk), Handle(<<Pci, Port(1), Hd(1), Hd(5)>>, Disk),
     Handle(<<Pci, Port(1), Ghosted>>, Disk),
     Handle(<<Pci, Port(2)>>, Dvd), Handle(<<Pci, Port(2), Cd>>, Dvd), Handle(<<Pci, Port(2), Hd(1)>>, Dvd),
     Handle(<<Pci, Port(0)>>, Disk), Handle(<<Pci, FloppyDrive>>, Disk), Handle(<<RamDisk>>, Disk),
     Handle(<<Pci, Port(3)>>, Odd), Handle(<<Pci, Port(4)>>, Stub)}

NoLf2 == [present |-> FALSE, asked |-> 0, read |-> 0]
Lf2(n, m) == [present |-> TRUE, asked |-> n, read |-> m]
File(k, n) == [kind |-> k, size |-> n]

\* A UINTN of 64 values, and for short one of 8: two pages.
Firmware(handles, text, lf2, file, most) ==
    [handles |-> handles, console |-> TRUE, text |-> text, lf2 |-> lf2, file |-> file,
     archive |-> TRUE, textDebug |-> TRUE, uintn |-> 64, maxFaults |-> most]

Orders(S) == {s \in [1..Cardinality(S) -> S] : IsInjective(s)}
OneDisk == {h \in Pool : Len(h.path) > 1 /\ h.path[2] = Port(1)}
TwoDisks == {h \in Pool : Len(h.path) > 1 /\ h.path[2] \in {Port(1), Port(2)}}
HandleSets == {T \in SUBSET Pool : Cardinality(T) <= 3} \cup {OneDisk} \cup {T \in SUBSET TwoDisks : Cardinality(T) = 4}
HandleLists == UNION {Orders(S) : S \in HandleSets}

Some == << Handle(<<Pci, Port(1), Hd(1)>>, Disk), Handle(<<Pci, Port(1)>>, Disk) >>

MCMachines ==
    {Firmware(hs, FALSE, NoLf2, File("missing", 0), 0) : hs \in HandleLists}
    \cup {[Firmware(hs, t, l, f, 2) EXCEPT !.console = c, !.archive = a, !.textDebug = b] :
            hs \in {<< >>, Some}, t \in BOOLEAN,
            l \in {NoLf2, Lf2(5, 5), Lf2(5, 4), Lf2(5, 6), Lf2(0, 5)},
            f \in {File("file", 9), File("file", 0), File("directory", 3), File("missing", 0)},
            c \in BOOLEAN, a \in BOOLEAN, b \in BOOLEAN}
    \cup {[Firmware(<< >>, FALSE, l, f, 2) EXCEPT !.uintn = 8] :
            l \in {NoLf2, Lf2(5, 5), Lf2(7, 6)},
            f \in {File("file", 7), File("file", 8), File("file", 11), File("directory", 3)}}
============================================================================
