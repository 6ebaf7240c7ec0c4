------------------------------- MODULE MCVDisk -------------------------------
(***************************************************************************)
(* VDisk on a scaled-down disk: sectors of 8 bytes, clusters of 4 sectors  *)
(* (so three files), slots of 64 sectors and 32-bit integers scaled to     *)
(* 512, which keeps the relations of the source: a slot is as many bytes   *)
(* as an unsigned int can count, an unsigned int counts 8 slots of         *)
(* sectors, and the disk ends inside the last of them.                     *)
(***************************************************************************)
EXTENDS VDiskInv

MCName(n) == [j \in 1..n |-> "x"]

\* A name that is cut.
MCNames == {MCName(40)}

\* An empty file, one of two whole clusters, and the longest, which ends inside
\* its last sector.
MCLens == {0, 64, UIntMod - 1}

\* Around every boundary of the layout.
MCBoundaries ==
    {0, VbrLba, FatLba, FatLba + SectorsPerFat, ClusterLba(8), ClusterLba(9)}
        \cup {FileLba(idx) : idx \in 0..MaxFiles}

MCRead(lba, count) == [lba |-> lba, count |-> count]
MCRequests(limit) ==
    {r \in {MCRead(b + d, n) : b \in MCBoundaries \cup {limit}, d \in -5..2, n \in {0, 1, 2, 7}} :
        r.lba >= 0 /\ r.lba + r.count =< limit}

\* Reads within the limit a 32-bit unsigned long allows.
MCRequests32 == {r \in MCRequests(ULongMod - FileCount - 1) : ~Straddles(r)}
=============================================================================
