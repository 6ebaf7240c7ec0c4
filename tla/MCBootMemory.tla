---------------------------- MODULE MCBootMemory -----------------------------
(***************************************************************************)
(* BootMemory with 4kB pages scaled to 2 and 2MB pages to 8.  1MB is half  *)
(* of a 2MB page, the copy window the second one and bootmgr.exe begins    *)
(* with the third, as in the source.                                       *)
(***************************************************************************)
EXTENDS BootMemoryInv

MCRam(s, e) == [start |-> s, len |-> e - s, ram |-> TRUE]
MCReserved(s, e) == [start |-> s, len |-> e - s, ram |-> FALSE]

MCConventional == MCRam(0, 3)

MCMaps ==
    { \* memory up to 2GB only
      <<MCConventional, MCReserved(3, 4), MCRam(4, 47)>>,
      \* memory above 4GB, and RAM that ends inside a page
      <<MCConventional, MCRam(4, 47), MCReserved(47, 64), MCRam(64, 93)>>,
      \* RAM up to 3GB; the first entry above 4GB is too small
      <<MCRam(4, 57), MCReserved(57, 64), MCRam(64, 68), MCReserved(68, 72), MCRam(72, 96)>>,
      \* entries out of order, and one entry across 4GB
      <<MCRam(60, 90), MCConventional, MCRam(4, 60)>>,
      \* what is above 4GB is too small for a long initrd
      <<MCConventional, MCRam(4, 48), MCRam(64, 66), MCReserved(66, 80), MCRam(80, 90)>>,
      \* RAM that begins and ends inside a page
      <<MCConventional, MCRam(25, 30), MCReserved(30, 64), MCRam(64, 96)>> }

MCMachine(map, a, n) == [map |-> map, initrd |-> a, len |-> n]

MCLens == {1, 2, 3, 5, 8, 13, 19}
MCInitrds(map) ==
    {m \in {MCMachine(map, a, n) : a \in {25, 31}, n \in MCLens} :
        m.initrd..(m.initrd + m.len - 1) \subseteq Ram(map)}

\* The initrd is above 2GB and there is no room below.
MCStays ==
    MCMachine(<<MCConventional, MCRam(4, 22), MCReserved(22, 44), MCRam(44, 64), MCRam(64, 96)>>,
              45, 19)

MCMachines ==
    (UNION {MCInitrds(map) : map \in MCMaps})
       \cup {MCStays}
       \* the BIOS reports nothing
       \cup {MCMachine(<< >>, 25, n) : n \in MCLens}
=============================================================================
