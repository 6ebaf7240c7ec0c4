----------------------------- MODULE BootMemory ------------------------------
(***************************************************************************)
(* Where the BIOS loader puts the initrd (kern/main.c, paging.c, e820.c).  *)
(*                                                                         *)
(* The virtual files are pointers into the initrd, and bootmgr reads them  *)
(* through the loader long after main has jumped to it.  main moves the    *)
(* initrd below 2GB, loads bootmgr.exe at its fixed address, then moves    *)
(* the initrd above 4GB, 2MB page by 2MB page, and changes the page tables *)
(* so that its addresses stay the same for code that runs with paging on.  *)
(* bootmgr may then use all the memory that main did not describe as taken.*)
(*                                                                         *)
(* Memory is a function from physical addresses to contents: byte i of the *)
(* initrd is the number i.                                                 *)
(***************************************************************************)
EXTENDS Integers, Sequences

CONSTANTS
    Page,               \* PAGE_SIZE
    Page2M,             \* PAGE_SIZE_2MB
    Addr1MB, Addr2GB, Addr4GB,
    CopyWindow,         \* COPY_WINDOW: the 2MB page used to reach the destination
    PhysTop,            \* the end of physical memory
    LoaderStart, LoaderEnd,     \* _start and _end
    PeBase, PeLen,      \* what load_pe fills: the image and the raw copy after it
    Machines            \* [map, initrd, len]: what INT 15,e820 reports, and where
                        \* the boot loader put the initrd

VARIABLES
    pc,
    e820,           \* the memory map: a sequence of [start, len, ram]
    entry,          \* the last entry memmap_next returned; 0 for NULL
    mem,            \* physical memory
    paging,         \* paging is available
    pd,             \* the page directory: the physical address of each 2MB page
    initrd, len,    \* the initrd, as main knows it
    files,          \* the address of the initrd's bytes in vdisk_files
    data, left,     \* relocate_memory_high: what is still to be moved
    dest,           \* ... and where it goes
    phys,           \* initrd_phys
    regions         \* the memory descriptor given to bootmgr

vars == <<pc, e820, entry, mem, paging, pd, initrd, len, files, data, left, dest,
          phys, regions>>

Other == -1     \* contents: anything else,
Pe == -2        \* a byte of the loaded bootmgr.exe,
Os == -3        \* a byte that bootmgr wrote

Floor(a, size) == a - (a % size)
Overlap(s1, e1, s2, e2) == s1 < e2 /\ s2 < e1
End(e) == e.start + e.len

\* Physical memory that the map reports as RAM.
Ram(map) == {a \in 0..(PhysTop - 1) :
               \E k \in DOMAIN map : map[k].ram /\ map[k].start =< a /\ a < End(map[k])}

\* The address a virtual address below 4GB stands for, with paging enabled.
Identity == [p \in 0..(Addr4GB \div Page2M - 1) |-> p * Page2M]
Phys(dir, vaddr) == dir[vaddr \div Page2M] + (vaddr % Page2M)

\* Variant: the entry of the page before.
MapPageBelow(dir, vaddr, paddr) == [dir EXCEPT ![(vaddr \div Page2M) - 1] = paddr]

\* map_page.
MapPage(dir, vaddr, paddr) == [dir EXCEPT ![vaddr \div Page2M] = paddr]

\* Variant: the continuation value is not recorded.
MemmapNextStuck(prev) ==
    LET later == {k \in DOMAIN e820 : prev =< k /\ e820[k].ram}
    IN  IF later = {} THEN 0 ELSE CHOOSE k \in later : \A j \in later : k =< j

\* memmap_next: the next RAM entry after prev, or 0.
MemmapNext(prev) ==
    LET later == {k \in DOMAIN e820 : prev < k /\ e820[k].ram}
    IN  IF later = {} THEN 0 ELSE CHOOSE k \in later : \A j \in later : k =< j

-----------------------------------------------------------------------------

Init ==
    /\ pc = "start"
    /\ \E m \in Machines :
          /\ e820 = m.map /\ initrd = m.initrd /\ len = m.len
          /\ mem = [a \in 0..(PhysTop - 1) |->
                      IF m.initrd =< a /\ a < m.initrd + m.len THEN a - m.initrd ELSE Other]
    /\ entry = 0 /\ paging = FALSE /\ pd = Identity
    /\ files = 0 /\ data = 0 /\ left = 0 /\ dest = 0 /\ phys = 0 /\ regions = {}

\* init_paging and enable_paging: pae says whether the CPU can.
InitPaging(pae) ==
    /\ pc = "start"
    /\ paging' = pae
    /\ pc' = "low"
    /\ UNCHANGED <<e820, entry, mem, pd, initrd, len, files, data, left, dest, phys, regions>>

\* The highest place of relocate_memory_low in an entry.
LowPlace(e, n) == Floor((IF End(e) > Addr2GB THEN Addr2GB ELSE End(e)) - n, Page)

LowFits(e, n) ==
    /\ (IF End(e) > Addr2GB THEN Addr2GB ELSE End(e)) >= n
    /\ LowPlace(e, n) >= e.start
    /\ LowPlace(e, n) >= Addr1MB

\* relocate_memory_low looks at one more entry, and moves the initrd if it fits.
RelocateLow ==
    /\ pc = "low"
    /\ LET k == MemmapNext(entry)
       IN  IF k = 0
           THEN /\ pc' = "extract"
                /\ entry' = 0
                /\ UNCHANGED <<mem, initrd>>
           ELSE IF LowFits(e820[k], len)
           THEN LET start == LowPlace(e820[k], len)
                IN  /\ mem' = [a \in DOMAIN mem |->
                                 IF start =< a /\ a < start + len
                                 THEN mem[initrd + (a - start)] ELSE mem[a]]
                    /\ initrd' = start
                    /\ entry' = 0
                    /\ pc' = "extract"
           ELSE /\ entry' = k
                /\ UNCHANGED <<mem, initrd, pc>>
    /\ UNCHANGED <<e820, paging, pd, len, files, data, left, dest, phys, regions>>

\* extract_initrd: the virtual files point into the initrd.
ExtractInitrd ==
    /\ pc = "extract"
    /\ files' = initrd
    /\ pc' = "load_pe"
    /\ UNCHANGED <<e820, entry, mem, paging, pd, initrd, len, data, left, dest, phys, regions>>

\* load_pe: bootmgr.exe goes to the address its header names.
LoadPe ==
    /\ pc = "load_pe"
    /\ mem' = [a \in DOMAIN mem |-> IF PeBase =< a /\ a < PeBase + PeLen THEN Pe ELSE mem[a]]
    /\ pc' = "high"
    /\ UNCHANGED <<e820, entry, paging, pd, initrd, len, files, data, left, dest, phys, regions>>

\* extract_initrd finds a broken archive or no bootmgr, or load_pe a bad header:
\* die prints a message and waits for a key.
BootFails ==
    /\ pc \in {"extract", "load_pe"}
    /\ pc' = "dead"
    /\ UNCHANGED <<e820, entry, mem, paging, pd, initrd, len, files, data, left, dest, phys,
                   regions>>
WaitForKey == pc = "dead" /\ UNCHANGED vars

\* The highest place of relocate_memory_high in an entry: as far from a 2MB
\* boundary as the initrd is now.
HighPlace(e) == Floor(End(e) - (initrd + len), Page2M) + initrd

\* Variant: the entry's start is not compared with the place.
HighFitsAnyStart(e) == End(e) >= Addr4GB /\ HighPlace(e) >= Addr4GB

HighFits(e) == End(e) >= Addr4GB /\ HighPlace(e) >= e.start /\ HighPlace(e) >= Addr4GB

\* relocate_memory_high looks at one more entry.
RelocateHigh ==
    /\ pc = "high"
    /\ LET k == MemmapNext(entry)
       IN  IF ~paging \/ k = 0
           THEN /\ phys' = initrd
                /\ pc' = "describe"
                /\ entry' = 0
                /\ UNCHANGED <<data, left, dest>>
           ELSE IF HighFits(e820[k])
           THEN /\ phys' = HighPlace(e820[k])
                /\ dest' = HighPlace(e820[k])
                /\ data' = initrd /\ left' = len
                /\ pc' = "copy"
                /\ entry' = 0
           ELSE /\ entry' = k
                /\ UNCHANGED <<pc, phys, data, left, dest>>
    /\ UNCHANGED <<e820, mem, paging, pd, initrd, len, files, regions>>

\* Variant: the window is mapped to the destination itself, not to its 2MB page.
CopyFragmentUnaligned ==
    /\ pc = "copy" /\ left > 0
    /\ LET offset == data % Page2M
           rest == Page2M - offset
           frag_len == IF rest > left THEN left ELSE rest
       IN  /\ pd' = MapPage(MapPage(pd, CopyWindow, dest), data - offset, dest)
           /\ data' = data + frag_len
           /\ dest' = dest + frag_len
           /\ left' = left - frag_len
    /\ UNCHANGED <<pc, e820, entry, mem, paging, initrd, len, files, phys, regions>>

\* One 2MB page of the initrd is copied through the window, then mapped to its
\* new place; memcpy reads and writes through the page directory.
CopyFragment ==
    /\ pc = "copy" /\ left > 0
    /\ LET offset == data % Page2M
           rest == Page2M - offset
           frag_len == IF rest > left THEN left ELSE rest
           window == MapPage(pd, CopyWindow, Floor(dest, Page2M))
           to == Phys(window, CopyWindow + offset)
       IN  /\ mem' = [a \in DOMAIN mem |->
                        IF to =< a /\ a < to + frag_len
                        THEN mem[Phys(window, data + (a - to))] ELSE mem[a]]
           /\ pd' = MapPage(window, data - offset, Floor(dest, Page2M))
           /\ data' = data + frag_len
           /\ dest' = dest + frag_len
           /\ left' = left - frag_len
    /\ UNCHANGED <<pc, e820, entry, paging, initrd, len, files, phys, regions>>

\* All is copied: the window is unmapped.
UnmapWindow ==
    /\ pc = "copy" /\ left = 0
    /\ pd' = MapPage(pd, CopyWindow, CopyWindow)
    /\ pc' = "describe"
    /\ UNCHANGED <<e820, entry, mem, paging, initrd, len, files, data, left, dest, phys, regions>>

\* Variant: the end is rounded down.
PagesShort(start, end) == Floor(start, Page)..(Floor(end, Page) - 1)

\* The pages from the one that holds start to the one before end.
Pages(start, end) == Floor(start, Page)..(Floor(end + Page - 1, Page) - 1)

\* main completes the boot application descriptor and jumps to bootmgr.
Describe ==
    /\ pc = "describe"
    /\ regions' = Pages(LoaderStart, LoaderEnd) \cup Pages(PeBase, PeBase + PeLen)
                    \cup IF phys >= Addr4GB THEN {} ELSE Pages(phys, phys + len)
    /\ pc' = "bootmgr"
    /\ UNCHANGED <<e820, entry, mem, paging, pd, initrd, len, files, data, left, dest, phys>>

\* bootmgr, which runs in 32 bits, uses any RAM below 4GB that is not described.
BootmgrWrites ==
    /\ pc = "bootmgr"
    /\ mem' = [a \in DOMAIN mem |->
                 IF a < Addr4GB /\ a \in Ram(e820) /\ a \notin regions THEN Os ELSE mem[a]]
    /\ UNCHANGED <<pc, e820, entry, paging, pd, initrd, len, files, data, left, dest, phys,
                   regions>>

Loading ==
    \/ \E pae \in BOOLEAN : InitPaging(pae)
    \/ RelocateLow \/ ExtractInitrd \/ LoadPe \/ BootFails \/ RelocateHigh
    \/ CopyFragment \/ UnmapWindow \/ Describe

Next == Loading \/ BootmgrWrites \/ WaitForKey

\* main is sequential code.
Spec == Init /\ [][Next]_vars /\ WF_vars(Loading)

-----------------------------------------------------------------------------
(* Properties.                                                             *)

\* The variables of main and of the two relocations have their types.
TypeOK ==
    /\ pc \in {"start", "low", "extract", "load_pe", "high", "copy", "describe", "bootmgr",
              "dead"}
    /\ entry \in 0..Len(e820)
    /\ DOMAIN mem = 0..(PhysTop - 1)
    /\ \A a \in DOMAIN mem : mem[a] \in {Other, Pe, Os} \cup 0..(len - 1)
    /\ \A p \in DOMAIN pd : pd[p] % Page2M = 0 /\ pd[p] \in 0..(PhysTop - 1)
    /\ left \in 0..len
    /\ initrd + len =< Addr4GB

\* What code that runs with paging enabled, if it is available, reads at vaddr.
Read(vaddr) == IF paging THEN mem[Phys(pd, vaddr)] ELSE mem[vaddr]

\* The files that bootmgr reads through the loader keep their contents: neither
\* loading bootmgr, nor moving the initrd, nor what bootmgr does with the memory
\* it was left changes a byte of them.
InitrdIntact == pc = "bootmgr" => \A i \in 0..(len - 1) : Read(files + i) = i

\* The loader's own memory, and the real-mode memory into which it reads, keep
\* their addresses: moving the initrd never remaps the page they are in.
LowMemoryMapped == \A a \in 0..(Addr1MB - 1) : Phys(pd, a) = a

\* Moving the initrd writes only to RAM that the BIOS reported.  (load_pe writes
\* where the image's header tells it to.)
OnlyRamWritten ==
    [][pc /= "load_pe" => \A a \in DOMAIN mem : mem'[a] /= mem[a] => a \in Ram(e820)]_vars

\* The loader reaches bootmgr unless it gives up: both walks of the memory map
\* and the copy end.
BootmgrReached == <>(pc \in {"bootmgr", "dead"})
=============================================================================
