---------------------------- MODULE MCVDiskEdges -----------------------------
(***************************************************************************)
(* The disk of MCVDisk, with reads that its assumptions leave out: those of *)
(* the slot whose end does not fit a 32-bit unsigned long.                 *)
(***************************************************************************)
EXTENDS VDisk

MCNames == {<<"a">>}
MCLens == {64}

\* In the slot whose end a 32-bit unsigned long cannot hold.
MCLastSlot == {[lba |-> lba, count |-> 1] : lba \in (ULongMod - FileCount)..(VDiskCount - 1)}
=============================================================================
