--------------------------- MODULE BootMemoryInv -----------------------------
(***************************************************************************)
(* What is assumed of addresses and machines, and the inductive invariant  *)
(* that shows that the initrd survives until bootmgr reads it.             *)
(***************************************************************************)
EXTENDS BootMemory

\* The copy window is a page of its own, above the first megabyte and below the
\* end of bootmgr.exe.
ASSUME AddressAssumption ==
    /\ {Page, Page2M} \subseteq Nat \ {0}
    /\ {Addr1MB, Addr2GB, Addr4GB, CopyWindow, PhysTop, LoaderStart, LoaderEnd,
        PeBase, PeLen} \subseteq Nat
    /\ Addr4GB % Page2M = 0 /\ CopyWindow % Page2M = 0
    /\ Addr1MB =< CopyWindow
    /\ CopyWindow + Page2M =< PeBase + PeLen
    /\ PeBase + PeLen =< Addr4GB
    /\ Addr2GB =< Addr4GB /\ Addr4GB =< PhysTop

Entries == [start : Nat, len : Nat, ram : BOOLEAN]

\* No RAM in which the initrd fits makes main put it below the end of bootmgr.exe.
RoomAbovePe(map, n) ==
    \A k \in DOMAIN map : map[k].ram =>
        /\ End(map[k]) =< PhysTop
        /\ LowFits(map[k], n) => LowPlace(map[k], n) >= PeBase + PeLen

\* The boot loader put the initrd above bootmgr.exe and below 4GB, and the
\* memory map has room for it only there.
ASSUME MachinesAssumption ==
    \A m \in Machines :
        /\ m.map \in Seq(Entries) /\ RoomAbovePe(m.map, m.len)
        /\ {m.initrd, m.len} \subseteq Nat
        /\ PeBase + PeLen =< m.initrd /\ m.initrd + m.len =< Addr4GB

-----------------------------------------------------------------------------

Directory == 0..(Addr4GB \div Page2M - 1)
Bytes == 0..(len - 1)

\* Byte i is where the address of the file says, or where it was moved to.
HomeByte(i) == pd[(initrd + i) \div Page2M] = ((initrd + i) \div Page2M) * Page2M
                 /\ mem[initrd + i] = i
MovedByte(i) == Phys(pd, initrd + i) = phys + i /\ mem[phys + i] = i

\* The new place is RAM, above 4GB and as far from a 2MB boundary as the old one.
PlaceIsRam ==
    /\ phys \in Nat /\ Addr4GB =< phys /\ phys % Page2M = initrd % Page2M
    /\ \E k \in DOMAIN e820 :
          e820[k].ram /\ e820[k].start =< phys /\ phys + len =< End(e820[k])

\* The bytes before "data" are moved, the others still at home; the copy stops
\* only at page boundaries.
CopyInv ==
    /\ paging /\ PlaceIsRam
    /\ left \in 0..len
    /\ data = initrd + (len - left) /\ dest = phys + (len - left)
    /\ left = 0 \/ left = len \/ data % Page2M = 0
    /\ \A i \in Bytes : IF i < len - left THEN MovedByte(i) ELSE HomeByte(i)

\* What main has when it completes the descriptor.
SettledInv ==
    \/ phys = initrd /\ \A i \in Bytes : HomeByte(i)
    \/ paging /\ PlaceIsRam /\ \A i \in Bytes : MovedByte(i)

\* The map, the page directory, and where the initrd is.
PlaceInv ==
    /\ e820 \in Seq(Entries) /\ RoomAbovePe(e820, len)
    /\ paging \in BOOLEAN
    /\ {initrd, len} \subseteq Nat /\ PeBase + PeLen =< initrd
    /\ pd \in [Directory -> Nat]
    /\ \A p \in Directory : p < CopyWindow \div Page2M => pd[p] = p * Page2M
    /\ pc \in {"load_pe", "high", "copy", "describe", "bootmgr"} => files = initrd

\* Where the contents of the initrd are in each phase.
ContentInv ==
    /\ pc \in {"start", "low", "extract", "load_pe", "high"} =>
            pd = Identity /\ \A i \in Bytes : HomeByte(i)
    /\ pc = "copy" => CopyInv
    /\ pc \in {"describe", "bootmgr"} => SettledInv
    /\ pc = "bootmgr" /\ phys < Addr4GB => phys..(phys + len - 1) \subseteq regions

BootInv == TypeOK /\ PlaceInv /\ ContentInv
=============================================================================
