-------------------------- MODULE MCBootMemoryHole ---------------------------
(***************************************************************************)
(* A machine that BootMemoryInv's assumption leaves out: a memory hole     *)
(* leaves a first entry in which the initrd fits, below bootmgr.exe's end. *)
(***************************************************************************)
EXTENDS BootMemory

MCRam(s, e) == [start |-> s, len |-> e - s, ram |-> TRUE]
MCReserved(s, e) == [start |-> s, len |-> e - s, ram |-> FALSE]

MCHole ==
    <<MCRam(0, 3), MCRam(4, 30), MCReserved(30, 32), MCRam(32, 56), MCRam(64, 96)>>
MCHoleMachines == {[map |-> MCHole, initrd |-> 33, len |-> 13]}
=============================================================================
