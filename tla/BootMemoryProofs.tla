-------------------------- MODULE BootMemoryProofs ---------------------------
(***************************************************************************)
(* Proofs about the placement of the initrd, for all addresses, page sizes *)
(* and machines that satisfy the assumptions of BootMemoryInv.             *)
(***************************************************************************)
EXTENDS BootMemoryInv, ArithLemmas

-----------------------------------------------------------------------------
(* Pages.                                                                  *)

\* The constants are numbers, and 2MB pages do not straddle the boundaries.
LEMMA Constants ==
    /\ Page \in Nat /\ Page > 0 /\ Page2M \in Nat /\ Page2M > 0
    /\ Addr1MB \in Nat /\ Addr2GB \in Nat /\ Addr4GB \in Nat /\ CopyWindow \in Nat
    /\ PhysTop \in Nat /\ PeBase \in Nat /\ PeLen \in Nat
    /\ Addr1MB =< CopyWindow /\ CopyWindow + Page2M =< PeBase + PeLen
    /\ Addr2GB =< Addr4GB /\ Addr4GB =< PhysTop
    /\ Addr4GB \div Page2M \in Nat /\ Addr4GB = (Addr4GB \div Page2M) * Page2M
    /\ CopyWindow \div Page2M \in Nat /\ CopyWindow = (CopyWindow \div Page2M) * Page2M
<1>1. Page2M \in Nat /\ Page2M > 0
  BY AddressAssumption
<1>2. \A n \in Nat : n % Page2M = 0 => n \div Page2M \in Nat /\ n = (n \div Page2M) * Page2M
  <2> SUFFICES ASSUME NEW n \in Nat, n % Page2M = 0
               PROVE  n \div Page2M \in Nat /\ n = (n \div Page2M) * Page2M
    OBVIOUS
  <2>1. n \div Page2M \in Nat /\ n = Page2M * (n \div Page2M) + (n % Page2M)
    BY <1>1, DivMod
  <2>2. n \div Page2M \in Nat /\ Page2M * (n \div Page2M) = (n \div Page2M) * Page2M
    BY <1>1, <2>1
  <2>3. (n \div Page2M) * Page2M \in Nat
    BY <1>1, <2>1, MulTypes
  <2> QED
    BY <2>1, <2>2, <2>3
<1> QED
  BY <1>1, <1>2, AddressAssumption

\* An address, its page and the offset in it; the page exists below 4GB.
LEMMA InPage ==
    ASSUME NEW x \in Nat
    PROVE  /\ x \div Page2M \in Nat /\ x % Page2M \in 0..(Page2M - 1)
           /\ x = (x \div Page2M) * Page2M + (x % Page2M)
           /\ Floor(x, Page2M) = (x \div Page2M) * Page2M
           /\ x < Addr4GB => x \div Page2M \in Directory
<1>1. /\ x \div Page2M \in Nat /\ x % Page2M \in Nat /\ x % Page2M < Page2M
      /\ x = Page2M * (x \div Page2M) + (x % Page2M)
  BY Constants, DivMod
<1>2. Page2M * (x \div Page2M) = (x \div Page2M) * Page2M /\ (x \div Page2M) * Page2M \in Nat
  BY <1>1, Constants, MulTypes
<1>3. ASSUME x < Addr4GB PROVE x \div Page2M < Addr4GB \div Page2M
  <2> SUFFICES ASSUME Addr4GB \div Page2M =< x \div Page2M PROVE FALSE
    BY <1>1, Constants
  <2>1. (Addr4GB \div Page2M) * Page2M =< (x \div Page2M) * Page2M
    BY <1>1, Constants, MulMono
  <2> QED
    BY <1>1, <1>2, <1>3, <2>1, Constants
<1> QED
  BY <1>1, <1>2, <1>3, Constants DEF Floor, Directory

\* Addresses that are a whole number of pages apart have the same offset.
LEMMA SameOffset ==
    ASSUME NEW q \in Int, NEW x \in Nat, q * Page2M + x \in Nat
    PROVE  (q * Page2M + x) % Page2M = x % Page2M
<1> DEFINE k == x \div Page2M
           r == x % Page2M
<1>1. k \in Nat /\ r \in 0..(Page2M - 1) /\ x = k * Page2M + r
  BY InPage
<1>2. (q + k) * Page2M = q * Page2M + k * Page2M /\ (q + k) * Page2M \in Int
      /\ q * Page2M \in Int /\ k * Page2M \in Int
  BY <1>1, Constants, MulTypes
<1> HIDE DEF k, r
<1>3. (q * Page2M + x) % Page2M = q * Page2M + x - (q + k) * Page2M
  BY <1>1, <1>2, Constants, DivUnique
<1> QED
  BY <1>1, <1>2, <1>3 DEF r

\* A fragment stays within the page in which it begins.
LEMMA FragmentPage ==
    ASSUME NEW x \in Nat, NEW j \in Nat, j < Page2M - (x % Page2M)
    PROVE  (x + j) \div Page2M = x \div Page2M /\ (x + j) % Page2M = (x % Page2M) + j
<1>1. /\ x \div Page2M \in Nat /\ x % Page2M \in 0..(Page2M - 1)
      /\ x = (x \div Page2M) * Page2M + (x % Page2M)
      /\ (x \div Page2M) * Page2M \in Nat
  BY InPage, Constants, MulTypes
<1>2. /\ (x + j) \div Page2M = x \div Page2M
      /\ (x + j) % Page2M = x + j - (x \div Page2M) * Page2M
  BY <1>1, Constants, DivUnique
<1> QED
  BY <1>1, <1>2

\* What lies before the beginning of a page is in an earlier page.
LEMMA EarlierPage ==
    ASSUME NEW x \in Nat, NEW y \in Nat, x < y, y % Page2M = 0
    PROVE  x \div Page2M < y \div Page2M
<1>1. /\ x \div Page2M \in Nat /\ x % Page2M \in 0..(Page2M - 1)
      /\ x = (x \div Page2M) * Page2M + (x % Page2M) /\ (x \div Page2M) * Page2M \in Nat
  BY InPage, Constants, MulTypes
<1>2. y \div Page2M \in Nat /\ y = (y \div Page2M) * Page2M
  <2>1. y \div Page2M \in Nat /\ y = (y \div Page2M) * Page2M + (y % Page2M)
    BY InPage
  <2>2. (y \div Page2M) * Page2M \in Nat
    BY <2>1, Constants, MulTypes
  <2> QED
    BY <2>1, <2>2
<1> SUFFICES ASSUME y \div Page2M =< x \div Page2M PROVE FALSE
  BY <1>1, <1>2
<1>3. (y \div Page2M) * Page2M =< (x \div Page2M) * Page2M
  BY <1>1, <1>2, Constants, MulMono
<1> QED
  BY <1>1, <1>2, <1>3

\* The initrd lies in pages after the copy window's.
LEMMA AfterWindow ==
    ASSUME NEW x \in Nat, CopyWindow + Page2M =< x
    PROVE  CopyWindow \div Page2M < x \div Page2M
<1>1. /\ x \div Page2M \in Nat /\ x % Page2M \in 0..(Page2M - 1)
      /\ x = (x \div Page2M) * Page2M + (x % Page2M) /\ (x \div Page2M) * Page2M \in Nat
  BY InPage, Constants, MulTypes
<1> SUFFICES ASSUME x \div Page2M =< CopyWindow \div Page2M PROVE FALSE
  BY <1>1, Constants
<1>2. (x \div Page2M) * Page2M =< (CopyWindow \div Page2M) * Page2M
  BY <1>1, Constants, MulMono
<1> QED
  BY <1>1, <1>2, Constants

\* Rounding down to a page: nothing above, less than a page below.
LEMMA FloorBounds ==
    ASSUME NEW x \in Nat, NEW size \in Nat, size > 0
    PROVE  Floor(x, size) \in Nat /\ Floor(x, size) =< x /\ x < Floor(x, size) + size
<1>1. x % size \in Nat /\ x % size < size /\ x \div size \in Nat
      /\ x = size * (x \div size) + (x % size)
  BY DivMod
<1>2. size * (x \div size) \in Nat
  BY <1>1, MulTypes
<1> QED
  BY <1>1, <1>2 DEF Floor

\* Through an entry that is the page's own, memory is read where it is.
LEMMA OwnPage ==
    ASSUME NEW dir, NEW x \in Nat, dir[x \div Page2M] = (x \div Page2M) * Page2M
    PROVE  Phys(dir, x) = x
  BY InPage DEF Phys

-----------------------------------------------------------------------------
(* The state.                                                              *)

\* What memmap_next returns.
LEMMA NextEntry ==
    ASSUME NEW prev \in Nat, PlaceInv, MemmapNext(prev) /= 0
    PROVE  MemmapNext(prev) \in DOMAIN e820 /\ e820[MemmapNext(prev)].ram
<1> DEFINE later == {k \in DOMAIN e820 : prev < k /\ e820[k].ram}
<1>1. later \in SUBSET Nat
  BY DEF PlaceInv
<1>2. later /= {} /\ MemmapNext(prev) = CHOOSE k \in later : \A j \in later : k =< j
  BY DEF MemmapNext
<1>3. \E k \in later : \A j \in later : k =< j
  <2> HIDE DEF later
  <2> QED
    BY <1>1, <1>2, LeastNatural
<1>4. MemmapNext(prev) \in later
  BY <1>2, <1>3
<1> QED
  BY <1>4

\* The initrd is a stretch of addresses above bootmgr.exe and below 4GB.
LEMMA Stretch ==
    ASSUME TypeOK, PlaceInv
    PROVE  /\ initrd \in Nat /\ len \in Nat /\ Bytes = 0..(len - 1)
           /\ PeBase + PeLen =< initrd /\ initrd + len =< Addr4GB
           /\ DOMAIN mem = 0..(PhysTop - 1)
  BY DEF TypeOK, PlaceInv, Bytes

\* Where a byte of the initrd is: in memory, below 4GB, in a page of the
\* directory after the window's.
LEMMA ByteAddress ==
    ASSUME TypeOK, PlaceInv, NEW i \in Bytes
    PROVE  /\ i \in Nat /\ i < len
           /\ initrd + i \in Nat /\ initrd + i < Addr4GB
           /\ initrd + i \in DOMAIN mem
           /\ (initrd + i) \div Page2M \in Directory
           /\ CopyWindow \div Page2M < (initrd + i) \div Page2M
<1>1. i \in Nat /\ i < len
  BY Stretch
<1>2. initrd + i \in Nat /\ initrd + i < Addr4GB /\ CopyWindow + Page2M =< initrd + i
  BY <1>1, Stretch, Constants
<1>3. initrd + i \in DOMAIN mem
  BY <1>2, Stretch, Constants
<1> QED
  BY <1>1, <1>2, <1>3, InPage, AfterWindow

\* The directory that maps every page to itself.
LEMMA IdentityPages ==
    /\ Identity \in [Directory -> Nat]
    /\ \A p \in Directory : /\ Identity[p] = p * Page2M
                            /\ Identity[p] % Page2M = 0
                            /\ Identity[p] \in 0..(PhysTop - 1)
<1> SUFFICES ASSUME NEW p \in Directory
             PROVE  /\ p * Page2M \in Nat /\ (p * Page2M) % Page2M = 0
                    /\ p * Page2M < PhysTop
  BY Constants DEF Identity, Directory
<1>1. p \in Nat /\ p < Addr4GB \div Page2M
  BY Constants DEF Directory
<1>2. p * Page2M \in Nat
  BY <1>1, Constants, MulTypes
<1>3. (p * Page2M) % Page2M = 0
  <2>1. (p * Page2M + 0) % Page2M = 0
    BY <1>1, Constants, ModOfMultiple
  <2> QED
    BY <1>2, <2>1
<1>4. p * Page2M + Page2M =< Addr4GB
  BY <1>1, Constants, MulApart
<1> QED
  BY <1>2, <1>3, <1>4, Constants, AddressAssumption

\* The loader starts with the initrd where the boot loader put it.
LEMMA InitInv == Init => BootInv
<1> SUFFICES ASSUME Init PROVE BootInv
  OBVIOUS
<1>1. PICK m \in Machines :
          /\ e820 = m.map /\ initrd = m.initrd /\ len = m.len
          /\ mem = [a \in 0..(PhysTop - 1) |->
                      IF m.initrd =< a /\ a < m.initrd + m.len THEN a - m.initrd ELSE Other]
  BY DEF Init
<1>2. /\ e820 \in Seq(Entries) /\ RoomAbovePe(e820, len)
      /\ initrd \in Nat /\ len \in Nat /\ PeBase + PeLen =< initrd /\ initrd + len =< Addr4GB
  BY <1>1, MachinesAssumption
<1>3. Len(e820) \in Nat
  BY <1>2
<1>4. ASSUME NEW a \in DOMAIN mem PROVE mem[a] \in {Other, Pe, Os} \cup 0..(len - 1)
  <2>1. a \in Int /\ mem[a] = IF initrd =< a /\ a < initrd + len THEN a - initrd ELSE Other
    BY <1>1, Constants
  <2> QED
    BY <1>2, <2>1
<1>5. TypeOK
  BY <1>1, <1>2, <1>3, <1>4, IdentityPages DEF Init, TypeOK
<1>6. PlaceInv
  BY <1>2, IdentityPages DEF Init, PlaceInv
<1>7. ASSUME NEW i \in Bytes PROVE HomeByte(i)
  <2>1. mem[initrd + i] = i
    BY <1>1, <1>2, <1>5, <1>6, ByteAddress
  <2>2. pd[(initrd + i) \div Page2M] = ((initrd + i) \div Page2M) * Page2M
    BY <1>5, <1>6, ByteAddress, IdentityPages DEF Init
  <2> QED
    BY <2>1, <2>2 DEF HomeByte
<1>8. ContentInv
  BY <1>7 DEF Init, ContentInv
<1> QED
  BY <1>5, <1>6, <1>8 DEF BootInv

-----------------------------------------------------------------------------
(* The steps.                                                              *)

\* init_paging and enable_paging change only "paging".
LEMMA InitPagingInv ==
    ASSUME BootInv, NEW pae \in BOOLEAN, InitPaging(pae)
    PROVE  BootInv'
<1>1. TypeOK'
  BY DEF BootInv, TypeOK, InitPaging
<1>2. PlaceInv'
  BY DEF BootInv, PlaceInv, InitPaging
<1>3. ContentInv'
  BY DEF BootInv, ContentInv, InitPaging, HomeByte, Bytes
<1> QED
  BY <1>1, <1>2, <1>3 DEF BootInv

\* extract_initrd sets the address of the files.
LEMMA ExtractInitrdInv ==
    ASSUME BootInv, ExtractInitrd
    PROVE  BootInv'
<1>1. TypeOK'
  BY DEF BootInv, TypeOK, ExtractInitrd
<1>2. PlaceInv'
  BY DEF BootInv, PlaceInv, ExtractInitrd
<1>3. ContentInv'
  BY DEF BootInv, ContentInv, ExtractInitrd, HomeByte, Bytes
<1> QED
  BY <1>1, <1>2, <1>3 DEF BootInv

\* The loader gives up.
LEMMA BootFailsInv ==
    ASSUME BootInv, BootFails
    PROVE  BootInv'
<1>1. TypeOK'
  BY DEF BootInv, TypeOK, BootFails
<1>2. PlaceInv'
  BY DEF BootInv, PlaceInv, BootFails
<1>3. ContentInv'
  BY DEF BootInv, ContentInv, BootFails, HomeByte, Bytes
<1> QED
  BY <1>1, <1>2, <1>3 DEF BootInv

\* Where relocate_memory_low puts the initrd: in the entry, below 2GB, above
\* bootmgr.exe.
LEMMA LowPlaceFacts ==
    ASSUME BootInv, NEW k \in DOMAIN e820, e820[k].ram, LowFits(e820[k], len)
    PROVE  LET start == LowPlace(e820[k], len)
           IN  /\ start \in Nat /\ PeBase + PeLen =< start /\ start + len =< Addr4GB
               /\ e820[k].start =< start /\ start + len =< End(e820[k])
<1> DEFINE top == IF End(e820[k]) > Addr2GB THEN Addr2GB ELSE End(e820[k])
           start == LowPlace(e820[k], len)
<1>1. e820[k] \in Entries /\ len \in Nat /\ PeBase + PeLen =< start
  BY DEF BootInv, PlaceInv, RoomAbovePe
<1>2. End(e820[k]) \in Nat
  BY <1>1 DEF Entries, End
<1>3. top \in Nat /\ top >= len /\ top =< End(e820[k]) /\ top =< Addr4GB
      /\ e820[k].start =< start
  BY <1>2, Constants, AddressAssumption DEF LowFits
<1>4. start = Floor(top - len, Page)
  BY DEF LowPlace
<1> HIDE DEF top, start
<1>5. start \in Nat /\ start =< top - len
  BY <1>1, <1>3, <1>4, Constants, FloorBounds
<1> QED
  BY <1>1, <1>2, <1>3, <1>5, Constants DEF start

\* relocate_memory_low moves the initrd within RAM, or leaves it where it is.
LEMMA RelocateLowInv ==
    ASSUME BootInv, RelocateLow
    PROVE  BootInv'
<1> DEFINE k == MemmapNext(entry)
<1>1. TypeOK /\ PlaceInv /\ ContentInv /\ pc = "low" /\ entry \in Nat
  BY DEF BootInv, TypeOK, RelocateLow
<1>2. pd = Identity /\ \A i \in Bytes : HomeByte(i)
  BY <1>1 DEF ContentInv
<1>3. UNCHANGED <<e820, paging, pd, len, files, data, left, dest, phys, regions>>
  BY DEF RelocateLow
<1>4. k /= 0 => k \in DOMAIN e820 /\ e820[k].ram
  BY <1>1, NextEntry
<1>5. CASE k /= 0 /\ LowFits(e820[k], len)
  <2> DEFINE start == LowPlace(e820[k], len)
  <2>1. /\ mem' = [a \in DOMAIN mem |-> IF start =< a /\ a < start + len
                                        THEN mem[initrd + (a - start)] ELSE mem[a]]
        /\ initrd' = start /\ entry' = 0 /\ pc' = "extract"
    BY <1>5 DEF RelocateLow
  <2>2. start \in Nat /\ PeBase + PeLen =< start /\ start + len =< Addr4GB
    BY <1>4, <1>5, LowPlaceFacts
  <2> HIDE DEF start
  <2>3. ASSUME NEW a \in DOMAIN mem, start =< a, a < start + len
        PROVE  a - start \in Bytes /\ mem'[a] = a - start
    <3>1. a \in Nat /\ a - start \in Bytes
      BY <1>1, <2>2, <2>3, Stretch, Constants
    <3>2. mem[initrd + (a - start)] = a - start
      BY <1>2, <3>1 DEF HomeByte
    <3> QED
      BY <2>1, <2>3, <3>1, <3>2
  <2>4. ASSUME NEW a \in DOMAIN mem PROVE mem'[a] \in {Other, Pe, Os} \cup 0..(len - 1)
    <3>1. CASE start =< a /\ a < start + len
      BY <2>3, <3>1 DEF Bytes
    <3>2. CASE ~ (start =< a /\ a < start + len)
      BY <1>1, <2>1, <3>2 DEF TypeOK
    <3> QED
      BY <3>1, <3>2
  <2>5. TypeOK'
    BY <1>1, <1>3, <2>1, <2>2, <2>4 DEF TypeOK, PlaceInv
  <2>6. PlaceInv'
    BY <1>1, <1>3, <2>1, <2>2 DEF PlaceInv
  <2>7. ASSUME NEW i \in Bytes PROVE HomeByte(i)'
    <3>1. /\ i \in Nat /\ i < len /\ (start + i) \div Page2M \in Directory
          /\ start + i \in DOMAIN mem
      <4>1. Bytes' = Bytes /\ DOMAIN mem' = DOMAIN mem
        BY <1>3, <2>1 DEF Bytes
      <4>2. ASSUME NEW n \in Bytes'
            PROVE  n \in Nat /\ n < len' /\ (initrd' + n) \div Page2M \in Directory
                   /\ initrd' + n \in DOMAIN mem'
        <5>1. n \in Nat /\ n < len /\ start + n \in Nat /\ start + n < Addr4GB
          BY <1>1, <2>2, <4>1, Stretch, Constants
        <5>2. start + n \in DOMAIN mem
          BY <1>1, <5>1, Stretch, Constants
        <5> QED
          BY <1>3, <2>1, <4>1, <5>1, <5>2, InPage
      <4> QED
        BY <1>3, <2>1, <4>1, <4>2
    <3>2. mem'[start + i] = i
      <4>1. start =< start + i /\ start + i < start + len /\ (start + i) - start = i
        BY <1>1, <2>2, <3>1, Stretch
      <4> QED
        BY <2>3, <3>1, <4>1
    <3>3. pd[(start + i) \div Page2M] = ((start + i) \div Page2M) * Page2M
      BY <1>2, <3>1, IdentityPages
    <3> QED
      BY <1>3, <2>1, <3>2, <3>3 DEF HomeByte
  <2>8. ContentInv'
    BY <1>2, <1>3, <2>1, <2>7 DEF ContentInv, Bytes
  <2> QED
    BY <2>5, <2>6, <2>8 DEF BootInv
<1>6. CASE k = 0 \/ ~ LowFits(e820[k], len)
  <2>1. UNCHANGED <<mem, initrd>> /\ pc' \in {"low", "extract"} /\ entry' \in {0, k}
    BY <1>1, <1>6 DEF RelocateLow
  <2>2. entry' \in 0..Len(e820)
    BY <1>1, <1>4, <2>1 DEF PlaceInv
  <2>3. TypeOK'
    BY <1>1, <1>3, <2>1, <2>2 DEF TypeOK
  <2>4. PlaceInv'
    BY <1>1, <1>3, <2>1 DEF PlaceInv
  <2>5. ContentInv'
    BY <1>2, <1>3, <2>1 DEF ContentInv, HomeByte, Bytes
  <2> QED
    BY <2>3, <2>4, <2>5 DEF BootInv
<1> QED
  BY <1>5, <1>6

\* load_pe writes below the initrd.
LEMMA LoadPeInv ==
    ASSUME BootInv, LoadPe
    PROVE  BootInv'
<1>1. TypeOK /\ PlaceInv /\ ContentInv /\ pc = "load_pe"
  BY DEF BootInv, LoadPe
<1>2. /\ mem' = [a \in DOMAIN mem |-> IF PeBase =< a /\ a < PeBase + PeLen THEN Pe ELSE mem[a]]
      /\ pc' = "high"
      /\ UNCHANGED <<e820, entry, paging, pd, initrd, len, files, data, left, dest, phys, regions>>
  BY DEF LoadPe
<1>3. TypeOK'
  BY <1>1, <1>2 DEF TypeOK
<1>4. PlaceInv'
  BY <1>1, <1>2 DEF PlaceInv
<1>5. ASSUME NEW i \in Bytes PROVE HomeByte(i)'
  <2>1. HomeByte(i) /\ initrd + i \in DOMAIN mem /\ initrd + i \in Nat
    BY <1>1, ByteAddress DEF ContentInv
  <2>2. PeBase + PeLen =< initrd + i
    BY <1>1, Stretch, Constants
  <2> QED
    BY <1>2, <2>1, <2>2, Constants DEF HomeByte
<1>6. ContentInv'
  BY <1>1, <1>2, <1>5 DEF ContentInv, Bytes
<1> QED
  BY <1>3, <1>4, <1>6 DEF BootInv

\* Where relocate_memory_high will put the initrd: in the entry, above 4GB, as far
\* from a 2MB boundary as it is.
LEMMA HighPlaceFacts ==
    ASSUME TypeOK, PlaceInv, NEW k \in DOMAIN e820, e820[k].ram, HighFits(e820[k])
    PROVE  LET place == HighPlace(e820[k])
           IN  /\ place \in Nat /\ Addr4GB =< place
               /\ place % Page2M = initrd % Page2M
               /\ e820[k].start =< place /\ place + len =< End(e820[k])
<1> DEFINE gap == End(e820[k]) - (initrd + len)
           q == gap \div Page2M
<1>1. e820[k] \in Entries /\ End(e820[k]) \in Nat /\ End(e820[k]) >= Addr4GB
  <2>1. e820[k] \in Entries
    BY DEF PlaceInv
  <2> QED
    BY <2>1 DEF Entries, End, HighFits
<1>2. gap \in Nat
  BY <1>1, Stretch, Constants
<1>3. HighPlace(e820[k]) = Floor(gap, Page2M) + initrd
  BY DEF HighPlace
<1>4. Addr4GB =< HighPlace(e820[k]) /\ e820[k].start =< HighPlace(e820[k])
  BY DEF HighFits
<1> HIDE DEF gap
<1>5. /\ q \in Nat /\ Floor(gap, Page2M) = q * Page2M
      /\ Floor(gap, Page2M) \in Nat /\ Floor(gap, Page2M) =< gap
  BY <1>2, Constants, InPage, FloorBounds
<1> HIDE DEF q
<1>6. (q * Page2M + initrd) % Page2M = initrd % Page2M
  BY <1>5, Stretch, SameOffset
<1>7. Floor(gap, Page2M) + initrd \in Nat /\ Floor(gap, Page2M) + initrd + len =< End(e820[k])
  BY <1>1, <1>2, <1>5, Stretch DEF gap
<1> QED
  BY <1>3, <1>4, <1>5, <1>6, <1>7

\* relocate_memory_high looks at an entry: it gives up, goes on, or begins to copy.
LEMMA RelocateHighInv ==
    ASSUME BootInv, RelocateHigh
    PROVE  BootInv'
<1> DEFINE k == MemmapNext(entry)
<1>1. TypeOK /\ PlaceInv /\ ContentInv /\ pc = "high" /\ entry \in Nat /\ paging \in BOOLEAN
  BY DEF BootInv, TypeOK, PlaceInv, RelocateHigh
<1>2. pd = Identity /\ \A i \in Bytes : HomeByte(i)
  BY <1>1 DEF ContentInv
<1>3. UNCHANGED <<e820, mem, paging, pd, initrd, len, files, regions>>
  BY DEF RelocateHigh
<1>4. k /= 0 => k \in DOMAIN e820 /\ e820[k].ram /\ k \in 0..Len(e820)
  BY <1>1, NextEntry DEF PlaceInv
<1>5. Bytes' = Bytes /\ \A i \in Bytes : HomeByte(i)'
  BY <1>2, <1>3 DEF HomeByte, Bytes
<1>6. CASE ~paging \/ k = 0
  <2>1. phys' = initrd /\ pc' = "describe" /\ entry' = 0 /\ left' = left
    BY <1>6 DEF RelocateHigh
  <2>2. TypeOK'
    BY <1>1, <1>3, <2>1 DEF TypeOK, PlaceInv
  <2>3. PlaceInv'
    BY <1>1, <1>3, <2>1 DEF PlaceInv
  <2>4. SettledInv'
    BY <1>3, <1>5, <2>1 DEF SettledInv
  <2>5. ContentInv'
    BY <2>1, <2>4 DEF ContentInv
  <2> QED
    BY <2>2, <2>3, <2>5 DEF BootInv
<1>7. CASE paging /\ k /= 0 /\ HighFits(e820[k])
  <2>1. /\ phys' = HighPlace(e820[k]) /\ dest' = HighPlace(e820[k])
        /\ data' = initrd /\ left' = len /\ pc' = "copy" /\ entry' = 0
    BY <1>7 DEF RelocateHigh
  <2>2. TypeOK'
    BY <1>1, <1>3, <2>1 DEF TypeOK, PlaceInv
  <2>3. PlaceInv'
    BY <1>1, <1>3, <2>1 DEF PlaceInv
  <2>4. PlaceIsRam'
    BY <1>1, <1>3, <1>4, <1>7, <2>1, HighPlaceFacts DEF PlaceIsRam
  <2>5. left' \in 0..len /\ data' = initrd + (len - left') /\ dest' = phys' + (len - left')
    BY <1>1, <1>3, <2>1, <2>4, Stretch DEF PlaceIsRam
  <2>6. ASSUME NEW i \in Bytes PROVE ~ (i < len - left')
    BY <1>1, <2>1, Stretch
  <2>7. CopyInv'
    BY <1>3, <1>5, <1>7, <2>1, <2>4, <2>5, <2>6 DEF CopyInv
  <2>8. ContentInv'
    BY <2>1, <2>7 DEF ContentInv
  <2> QED
    BY <2>2, <2>3, <2>8 DEF BootInv
<1>8. CASE paging /\ k /= 0 /\ ~ HighFits(e820[k])
  <2>1. entry' = k /\ UNCHANGED <<pc, phys, data, left, dest>>
    BY <1>8 DEF RelocateHigh
  <2>2. TypeOK'
    BY <1>1, <1>3, <1>4, <1>8, <2>1 DEF TypeOK
  <2>3. PlaceInv'
    BY <1>1, <1>3, <2>1 DEF PlaceInv
  <2>4. ContentInv'
    BY <1>1, <1>2, <1>3, <1>5, <2>1 DEF ContentInv
  <2> QED
    BY <2>2, <2>3, <2>4 DEF BootInv
<1> QED
  BY <1>6, <1>7, <1>8

-----------------------------------------------------------------------------
(* The copy.                                                               *)

\* The addresses of a fragment: source and destination are as far from a page
\* boundary, and the destination ends within physical memory.
LEMMA FragmentFacts ==
    ASSUME TypeOK, PlaceInv, CopyInv, left > 0
    PROVE  LET offset == data % Page2M
               rest == Page2M - offset
               frag_len == IF rest > left THEN left ELSE rest
           IN  /\ len - left \in Bytes /\ left \in Nat /\ phys \in Nat
               /\ data = initrd + (len - left) /\ data \in Nat /\ data < Addr4GB
               /\ dest = phys + (len - left) /\ dest \in Nat /\ Addr4GB =< dest
               /\ offset \in 0..(Page2M - 1) /\ dest % Page2M = offset
               /\ Floor(dest, Page2M) = dest - offset
               /\ frag_len \in 1..left /\ frag_len =< rest
               /\ phys + len =< PhysTop
<1> DEFINE c == len - left
           offset == data % Page2M
<1>1. /\ left \in Nat /\ left =< len /\ data = initrd + c /\ dest = phys + c
      /\ phys \in Nat /\ Addr4GB =< phys /\ phys % Page2M = initrd % Page2M
  BY Stretch DEF CopyInv, PlaceIsRam
<1>2. c \in Bytes /\ c \in Nat /\ data \in Nat /\ data < Addr4GB /\ dest \in Nat /\ Addr4GB =< dest
  BY SMTT(30), <1>1, Stretch, Constants
<1>3. offset \in 0..(Page2M - 1)
  BY <1>2, InPage
<1>4. dest % Page2M = offset
  <2> DEFINE q == phys \div Page2M - initrd \div Page2M
  <2>1. /\ phys \div Page2M \in Nat /\ initrd \div Page2M \in Nat
        /\ phys = (phys \div Page2M) * Page2M + (phys % Page2M)
        /\ initrd = (initrd \div Page2M) * Page2M + (initrd % Page2M)
        /\ phys % Page2M \in Nat
    BY SMTT(30), <1>1, Stretch, InPage
  <2>2. q \in Int /\ q * Page2M = (phys \div Page2M) * Page2M - (initrd \div Page2M) * Page2M
        /\ (phys \div Page2M) * Page2M \in Int /\ (initrd \div Page2M) * Page2M \in Int
    BY <2>1, Constants, MulTypes
  <2> HIDE DEF q
  <2>3. phys - initrd = q * Page2M
    BY <1>1, <2>1, <2>2, Stretch
  <2>4. dest = q * Page2M + data
    BY <1>1, <1>2, <2>2, <2>3, Stretch
  <2> QED
    BY <1>2, <2>2, <2>4, SameOffset
<1>5. phys + len =< PhysTop
  <2>1. PICK k \in DOMAIN e820 : e820[k].ram /\ phys + len =< End(e820[k])
    BY DEF CopyInv, PlaceIsRam
  <2>2. e820[k] \in Entries /\ End(e820[k]) =< PhysTop
    BY <2>1 DEF PlaceInv, RoomAbovePe
  <2>3. End(e820[k]) \in Nat
    BY <2>2 DEF Entries, End
  <2> QED
    BY SMTT(30), <1>1, <2>1, <2>2, <2>3, Stretch, Constants
<1>6. Floor(dest, Page2M) = dest - offset
  BY <1>4 DEF Floor
<1> HIDE DEF c, offset
<1>7. /\ (IF Page2M - offset > left THEN left ELSE Page2M - offset) \in 1..left
      /\ (IF Page2M - offset > left THEN left ELSE Page2M - offset) =< Page2M - offset
  BY <1>1, <1>3, Constants
<1> QED
  BY <1>1, <1>2, <1>3, <1>4, <1>5, <1>6, <1>7 DEF c, offset

\* What one fragment of the copy writes: its bytes at their new place, and the
\* entry of its page.  The window's entry, already used up, is the other one.
LEMMA FragmentCopied ==
    ASSUME TypeOK, PlaceInv, CopyInv, CopyFragment,
           NEW frag_len, frag_len = IF Page2M - (data % Page2M) > left THEN left
                                    ELSE Page2M - (data % Page2M)
    PROVE  /\ DOMAIN mem' = DOMAIN mem
           /\ \A a \in DOMAIN mem :
                mem'[a] = IF dest =< a /\ a < dest + frag_len THEN a - phys ELSE mem[a]
           /\ pd' \in [Directory -> Nat]
           /\ \A p \in Directory :
                pd'[p] = IF p \in {CopyWindow \div Page2M, data \div Page2M}
                         THEN Floor(dest, Page2M) ELSE pd[p]
           /\ data' = data + frag_len /\ dest' = dest + frag_len /\ left' = left - frag_len
           /\ UNCHANGED <<pc, e820, entry, paging, initrd, len, files, phys, regions>>
<1> DEFINE c == len - left
           offset == data % Page2M
           w == CopyWindow \div Page2M
           d == data \div Page2M
           base == Floor(dest, Page2M)
           window == MapPage(pd, CopyWindow, base)
           to == Phys(window, CopyWindow + offset)
<1>1. left > 0
  BY DEF CopyFragment
<1>2. /\ c \in Bytes /\ left \in Nat /\ phys \in Nat
      /\ data = initrd + c /\ data \in Nat /\ data < Addr4GB
      /\ dest = phys + c /\ dest \in Nat /\ Addr4GB =< dest
      /\ offset \in 0..(Page2M - 1) /\ base = dest - offset
      /\ frag_len \in 1..left /\ frag_len =< Page2M - offset
  BY <1>1, FragmentFacts
<1>3. /\ mem' = [a \in DOMAIN mem |->
                   IF to =< a /\ a < to + frag_len
                   THEN mem[Phys(window, data + (a - to))] ELSE mem[a]]
      /\ pd' = MapPage(window, data - offset, base)
      /\ data' = data + frag_len /\ dest' = dest + frag_len /\ left' = left - frag_len
      /\ UNCHANGED <<pc, e820, entry, paging, initrd, len, files, phys, regions>>
  BY DEF CopyFragment
<1>4. base \in Nat
  BY <1>2, Constants, FloorBounds
<1>5. /\ d \in Directory /\ d \in Nat /\ w < d /\ w \in Nat /\ w \in Directory
      /\ pd[d] = d * Page2M /\ data = d * Page2M + offset /\ d * Page2M \in Nat
  <2>1. d \in Directory /\ w < d /\ HomeByte(c)
    BY <1>2, ByteAddress DEF CopyInv, Bytes
  <2>2. d \in Nat /\ w \in Nat /\ data = d * Page2M + offset
    BY <1>2, InPage, Constants
  <2>3. pd[d] = d * Page2M
    BY <1>2, <2>1 DEF HomeByte
  <2>4. w \in Directory
    BY <2>1, <2>2, Constants DEF Directory
  <2>5. d * Page2M \in Nat
    BY <2>2, Constants, MulTypes
  <2> QED
    BY <2>1, <2>2, <2>3, <2>4, <2>5
<1>6. pd \in [Directory -> Nat]
  BY DEF PlaceInv
<1>7. window = [pd EXCEPT ![w] = base]
  BY DEF MapPage
<1>8. pd' = [pd EXCEPT ![w] = base, ![d] = base]
  <2>1. data - offset = d * Page2M + 0
    BY <1>2, <1>5
  <2>2. (data - offset) \div Page2M = d
    BY <1>5, <2>1, Constants, ModOfMultiple
  <2> QED
    BY <1>3, <1>7, <2>2 DEF MapPage
<1>9. to = dest
  <2>1. CopyWindow % Page2M = 0
    BY AddressAssumption
  <2>2. (CopyWindow + offset) \div Page2M = w /\ (CopyWindow + offset) % Page2M = offset
    <3>1. offset \in Nat /\ offset < Page2M - (CopyWindow % Page2M) /\ CopyWindow \in Nat
      BY <1>2, <2>1, Constants
    <3>2. (CopyWindow + offset) % Page2M = (CopyWindow % Page2M) + offset
      BY <3>1, FragmentPage
    <3> QED
      BY <2>1, <3>1, <3>2, FragmentPage
  <2> HIDE DEF w
  <2>3. window[w] = base
    BY <1>5, <1>6, <1>7
  <2> QED
    BY <1>2, <2>2, <2>3, <1>4 DEF Phys
<1> HIDE DEF to
<1>10. ASSUME NEW a \in DOMAIN mem, dest =< a, a < dest + frag_len
       PROVE  mem[Phys(window, data + (a - dest))] = a - phys
  <2> DEFINE j == a - dest
             i == c + j
  <2>1. a \in Nat
    BY Stretch
  <2>2. i \in Bytes /\ i \in Nat /\ initrd + i = data + j /\ i = a - phys /\ ~ (i < len - left)
        /\ j \in Nat /\ j < Page2M - offset
    <3> HIDE DEF offset, c
    <3>1. frag_len \in Nat /\ frag_len =< left /\ c \in Nat /\ len \in Nat /\ initrd \in Nat
      BY <1>2, Stretch
    <3>2. j \in Nat /\ j < frag_len /\ j < Page2M - offset
      BY <1>2, <1>10, <2>1, <3>1, Constants
    <3>3. c = len - left
      BY DEF c
    <3>4. i \in Nat /\ i < len /\ initrd + i = data + j /\ i = a - phys /\ ~ (i < len - left)
      BY <1>2, <2>1, <3>1, <3>2, <3>3
    <3> QED
      BY <3>2, <3>4, Stretch
  <2>3. (data + j) \div Page2M = d /\ (data + j) % Page2M = offset + j
    BY <1>2, <2>2, FragmentPage
  <2> HIDE DEF j, i
  <2>4. window[d] = d * Page2M
    BY <1>5, <1>6, <1>7
  <2> HIDE DEF window, d
  <2>5. Phys(window, data + j) = data + j
    BY <1>2, <1>5, <2>2, <2>3, <2>4 DEF Phys
  <2>6. mem[initrd + i] = i
    BY <2>2 DEF CopyInv, HomeByte
  <2> QED
    BY <2>2, <2>5, <2>6 DEF j
<1>11. \A a \in DOMAIN mem :
          mem'[a] = IF dest =< a /\ a < dest + frag_len THEN a - phys ELSE mem[a]
  BY <1>3, <1>9, <1>10
<1>12. /\ pd' \in [Directory -> Nat]
       /\ \A p \in Directory : pd'[p] = IF p \in {w, d} THEN base ELSE pd[p]
  BY <1>4, <1>5, <1>6, <1>8
<1> QED
  BY <1>3, <1>11, <1>12

\* A byte that was moved before is not touched by the fragment.
LEMMA EarlierByte ==
    ASSUME TypeOK, PlaceInv, CopyInv, CopyFragment,
           NEW i \in Bytes, i < len - left
    PROVE  MovedByte(i)'
<1> DEFINE c == len - left
           frag_len == IF Page2M - (data % Page2M) > left THEN left ELSE Page2M - (data % Page2M)
           p == (initrd + i) \div Page2M
<1>1. left > 0
  BY DEF CopyFragment
<1>2. /\ c \in Nat /\ left \in Nat /\ phys \in Nat /\ data = initrd + c /\ data \in Nat
      /\ dest = phys + c /\ phys + len =< PhysTop /\ i \in Nat /\ i < c
  BY <1>1, FragmentFacts, Stretch
<1>3. MovedByte(i) /\ data % Page2M = 0
  BY <1>1, <1>2, Stretch DEF CopyInv
<1>4. p \in Directory /\ CopyWindow \div Page2M < p /\ p < data \div Page2M
  <2>1. /\ p \in Directory /\ CopyWindow \div Page2M < p
        /\ initrd + i \in Nat
    BY ByteAddress
  <2>2. initrd + i < data
    <3> HIDE DEF c
    <3> QED
      BY <1>2, Stretch
  <2> QED
    BY <1>2, <1>3, <2>1, <2>2, EarlierPage
<1>5. pd'[p] = pd[p]
  <2>1. p \notin {CopyWindow \div Page2M, data \div Page2M}
    BY <1>2, <1>4, InPage, Constants DEF Directory
  <2> HIDE DEF p
  <2> QED
    BY <1>4, <2>1, FragmentCopied
<1>6. phys + i \in DOMAIN mem /\ mem'[phys + i] = mem[phys + i]
  <2>1. phys + i \in DOMAIN mem /\ ~ (dest =< phys + i)
    BY SMTT(30), <1>2, Stretch, Constants
  <2> QED
    BY <2>1, FragmentCopied
<1>7. initrd' = initrd /\ phys' = phys
  BY DEF CopyFragment
<1> HIDE DEF p
<1>8. Phys(pd', initrd + i) = phys + i
  BY <1>3, <1>5 DEF MovedByte, Phys, p
<1>9. mem'[phys + i] = i
  BY <1>3, <1>6 DEF MovedByte
<1> QED
  BY <1>7, <1>8, <1>9 DEF MovedByte

\* A byte of the fragment is moved.
LEMMA FragmentByte ==
    ASSUME TypeOK, PlaceInv, CopyInv, CopyFragment,
           NEW i \in Bytes, len - left =< i, i < len - left'
    PROVE  MovedByte(i)'
<1> DEFINE c == len - left
           offset == data % Page2M
           frag_len == IF Page2M - offset > left THEN left ELSE Page2M - offset
           d == data \div Page2M
           j == i - c
<1>1. left > 0
  BY DEF CopyFragment
<1>2. /\ c \in Nat /\ left \in Nat /\ phys \in Nat /\ data = initrd + c /\ data \in Nat
      /\ dest = phys + c /\ dest \in Nat /\ phys + len =< PhysTop
      /\ offset \in 0..(Page2M - 1) /\ Floor(dest, Page2M) = dest - offset
      /\ frag_len \in 1..left /\ frag_len =< Page2M - offset
  BY <1>1, FragmentFacts, Stretch
<1>3. left' = left - frag_len /\ initrd' = initrd /\ phys' = phys
  BY DEF CopyFragment
<1>4. /\ j \in Nat /\ j < frag_len /\ j < Page2M - offset
      /\ i \in Nat /\ i < len /\ initrd + i = data + j /\ phys + i = dest + j
  <2>1. i \in Nat /\ i < len /\ initrd \in Nat /\ len \in Nat
    BY Stretch
  <2>2. c =< i /\ i < len - (left - frag_len) /\ c = len - left
    BY <1>3
  <2> HIDE DEF offset, frag_len, c
  <2>3. frag_len \in Nat /\ frag_len =< Page2M - offset /\ offset \in Nat
    BY <1>2
  <2> QED
    BY <1>2, <2>1, <2>2, <2>3, Constants
<1>5. (initrd + i) \div Page2M = d /\ (initrd + i) % Page2M = offset + j
  BY <1>2, <1>4, FragmentPage
<1>6. d \in Directory
  BY <1>5, ByteAddress
<1>7. pd'[d] = dest - offset
  BY <1>2, <1>6, FragmentCopied
<1>8. mem'[phys + i] = i
  <2>1. phys + i \in DOMAIN mem
    <3>1. phys \in Nat /\ i \in Nat /\ i < len /\ len \in Nat /\ phys + len =< PhysTop
      BY <1>2, <1>4, Stretch
    <3>2. phys + i \in Nat /\ phys + i < PhysTop
      BY ONLY <3>1, Constants
    <3> QED
      BY <3>2, Constants, Stretch
  <2>2. dest =< phys + i /\ phys + i < dest + frag_len
    <3> HIDE DEF frag_len
    <3> QED
      BY <1>2, <1>4
  <2>3. \A a \in DOMAIN mem :
           mem'[a] = IF dest =< a /\ a < dest + frag_len THEN a - phys ELSE mem[a]
    BY FragmentCopied
  <2> HIDE DEF frag_len
  <2>4. phys \in Nat /\ i \in Nat /\ dest \in Nat /\ frag_len \in Nat
    BY <1>2, <1>4
  <2>5. ASSUME NEW a \in DOMAIN mem, a = phys + i
        PROVE  mem'[a] = i
    <3>1. dest =< a /\ a < dest + frag_len /\ a - phys = i
      BY <2>2, <2>4, <2>5
    <3> QED
      BY <2>3, <3>1
  <2> QED
    BY <2>1, <2>5
<1> HIDE DEF d
<1>9. Phys(pd', initrd + i) = pd'[d] + (offset + j)
  BY <1>5 DEF Phys
<1> HIDE DEF offset
<1>10. Phys(pd', initrd + i) = phys + i
  BY <1>2, <1>4, <1>7, <1>9
<1> QED
  BY <1>3, <1>8, <1>10 DEF MovedByte

\* A byte after the fragment stays at home.
LEMMA LaterByte ==
    ASSUME TypeOK, PlaceInv, CopyInv, CopyFragment,
           NEW i \in Bytes, len - left' =< i
    PROVE  HomeByte(i)'
<1> DEFINE c == len - left
           offset == data % Page2M
           frag_len == IF Page2M - offset > left THEN left ELSE Page2M - offset
           d == data \div Page2M
           p == (initrd + i) \div Page2M
<1>1. left > 0
  BY DEF CopyFragment
<1>2. /\ c \in Nat /\ left \in Nat /\ data = initrd + c /\ data \in Nat
      /\ Addr4GB =< dest /\ dest \in Nat /\ offset \in 0..(Page2M - 1)
      /\ frag_len \in 1..left
  BY <1>1, FragmentFacts, Stretch
<1>3. left' = left - frag_len /\ initrd' = initrd
  BY DEF CopyFragment
<1>4. c + frag_len =< i /\ i \in Nat /\ i < len
  <2> HIDE DEF frag_len
  <2> QED
    BY <1>2, <1>3, Stretch
<1>5. frag_len = Page2M - offset
  <2>1. left /= frag_len
    <3> HIDE DEF frag_len
    <3> QED
      BY <1>2, <1>4, Stretch
  <2> QED
    BY <2>1
<1>6. /\ p \in Directory /\ CopyWindow \div Page2M < p /\ initrd + i < Addr4GB
      /\ initrd + i \in DOMAIN mem /\ initrd + i \in Nat
  BY ByteAddress
<1>7. p /= d
  <2> SUFFICES ASSUME p = d PROVE FALSE
    OBVIOUS
  <2>1. /\ initrd + i = p * Page2M + ((initrd + i) % Page2M)
        /\ (initrd + i) % Page2M \in 0..(Page2M - 1)
        /\ data = d * Page2M + offset /\ d \in Nat
    BY <1>2, <1>6, InPage
  <2>2. d * Page2M \in Nat
    BY <2>1, Constants, MulTypes
  <2>3. data + (Page2M - offset) =< initrd + i
    <3> HIDE DEF offset, frag_len, c
    <3> QED
      BY SMTT(30), <1>2, <1>4, <1>5, Stretch, Constants
  <2> HIDE DEF p, d, offset
  <2> QED
    BY <1>2, <2>1, <2>2, <2>3, Constants
<1>8. pd'[p] = pd[p]
  <2>1. p \notin {CopyWindow \div Page2M, d}
    BY <1>6, <1>7, Constants DEF Directory
  <2> HIDE DEF p
  <2> QED
    BY <1>6, <2>1, FragmentCopied
<1>9. mem'[initrd + i] = mem[initrd + i]
  BY <1>2, <1>6, Constants, FragmentCopied
<1>10. HomeByte(i)
  <2>1. ~ (i < len - left)
    <3> HIDE DEF frag_len
    <3> QED
      BY <1>2, <1>4
  <2> QED
    BY <2>1 DEF CopyInv
<1> QED
  BY <1>3, <1>8, <1>9, <1>10 DEF HomeByte

\* A fragment of the copy preserves the invariant.
LEMMA CopyFragmentInv ==
    ASSUME BootInv, CopyFragment
    PROVE  BootInv'
<1> DEFINE offset == data % Page2M
           frag_len == IF Page2M - offset > left THEN left ELSE Page2M - offset
           w == CopyWindow \div Page2M
           d == data \div Page2M
           base == Floor(dest, Page2M)
<1>1. TypeOK /\ PlaceInv /\ ContentInv /\ pc = "copy" /\ left > 0 /\ CopyInv
  BY DEF BootInv, ContentInv, CopyFragment
<1>2. /\ len - left \in Bytes /\ left \in Nat /\ phys \in Nat
      /\ data = initrd + (len - left) /\ data \in Nat /\ data < Addr4GB
      /\ dest = phys + (len - left) /\ dest \in Nat /\ Addr4GB =< dest
      /\ offset \in 0..(Page2M - 1) /\ base = dest - offset
      /\ frag_len \in 1..left /\ frag_len =< Page2M - offset
      /\ phys + len =< PhysTop
  BY <1>1, FragmentFacts
<1>3. /\ DOMAIN mem' = DOMAIN mem
      /\ \A a \in DOMAIN mem :
           mem'[a] = IF dest =< a /\ a < dest + frag_len THEN a - phys ELSE mem[a]
      /\ pd' \in [Directory -> Nat]
      /\ \A p \in Directory : pd'[p] = IF p \in {w, d} THEN base ELSE pd[p]
      /\ data' = data + frag_len /\ dest' = dest + frag_len /\ left' = left - frag_len
      /\ UNCHANGED <<pc, e820, entry, paging, initrd, len, files, phys, regions>>
  BY <1>1, FragmentCopied
<1>4. d \in Nat /\ w < d /\ data = d * Page2M + offset /\ d * Page2M \in Nat
  <2>1. w < (initrd + (len - left)) \div Page2M
    BY <1>1, <1>2, ByteAddress
  <2>2. d \in Nat /\ data = d * Page2M + offset
    BY <1>2, InPage
  <2>3. d * Page2M \in Nat
    BY <2>2, Constants, MulTypes
  <2> QED
    BY <1>2, <2>1, <2>2, <2>3
<1> DEFINE Numbers == /\ phys \in Nat /\ dest \in Nat /\ len \in Nat /\ left \in Nat
                      /\ initrd \in Nat /\ frag_len \in Nat /\ PhysTop \in Nat
                      /\ 0 < left /\ left =< len /\ 1 =< frag_len /\ frag_len =< left
                      /\ dest = phys + (len - left) /\ data = initrd + (len - left)
                      /\ phys + len =< PhysTop
<1>n. Numbers
  <2>1. left =< len /\ len \in Nat /\ initrd \in Nat
    BY <1>1, Stretch DEF CopyInv
  <2> HIDE DEF offset, base, d, w
  <2> QED
    BY <1>1, <1>2, <2>1, Constants
<1>5. base % Page2M = 0 /\ base \in 0..(PhysTop - 1)
  <2>1. dest \div Page2M \in Nat /\ base = (dest \div Page2M) * Page2M
    BY <1>2, InPage
  <2>2. ((dest \div Page2M) * Page2M + 0) % Page2M = 0 /\ (dest \div Page2M) * Page2M \in Nat
    BY <2>1, Constants, ModOfMultiple, MulTypes
  <2>3. base % Page2M = 0 /\ base \in Nat
    BY <2>1, <2>2
  <2>4. dest < PhysTop
    <3> HIDE DEF frag_len, base
    <3> QED
      BY <1>n
  <2> HIDE DEF offset, base
  <2> QED
    BY <1>2, <2>3, <2>4, Constants
<1>6. TypeOK'
  <2>1. ASSUME NEW a \in DOMAIN mem PROVE mem'[a] \in {Other, Pe, Os} \cup 0..(len - 1)
    <3>1. CASE dest =< a /\ a < dest + frag_len
      <4>1. a \in Nat /\ mem'[a] = a - phys
        BY <1>1, <1>3, <3>1, Stretch
      <4> HIDE DEF frag_len
      <4>2. a - phys \in 0..(len - 1)
        BY <1>n, <3>1, <4>1
      <4> QED
        BY <4>1, <4>2
    <3>2. CASE ~ (dest =< a /\ a < dest + frag_len)
      <4>1. mem'[a] = mem[a]
        BY <1>3, <3>2
      <4> QED
        BY <1>1, <4>1 DEF TypeOK
    <3> QED
      BY <3>1, <3>2
  <2>2. DOMAIN pd' = Directory /\ DOMAIN pd = Directory
    BY <1>1, <1>3 DEF PlaceInv
  <2> HIDE DEF w, d, base
  <2>3. ASSUME NEW p \in Directory
        PROVE  pd'[p] % Page2M = 0 /\ pd'[p] \in 0..(PhysTop - 1)
    BY <1>1, <1>3, <1>5, <2>2 DEF TypeOK
  <2> HIDE DEF frag_len
  <2>4. left' \in 0..len'
    BY <1>n, <1>3
  <2> QED
    BY <1>1, <1>3, <2>1, <2>2, <2>3, <2>4 DEF TypeOK
<1>7. PlaceInv'
  <2>1. ASSUME NEW p \in Directory, p < w PROVE pd'[p] = p * Page2M
    <3>1. p \in Nat /\ w \in Nat
      BY Constants DEF Directory
    <3> HIDE DEF w, d
    <3>2. p /= w /\ p /= d
      BY <1>4, <2>1, <3>1
    <3>3. pd'[p] = pd[p]
      BY <1>3, <3>2
    <3> QED
      BY <1>1, <2>1, <3>3 DEF PlaceInv, w
  <2> QED
    BY <1>1, <1>3, <2>1 DEF PlaceInv
<1>8. left' = 0 \/ data' % Page2M = 0
  <2>1. CASE frag_len = left
    BY <1>2, <1>3, <2>1
  <2>2. CASE frag_len = Page2M - offset
    <3>1. data' = d * Page2M + Page2M
      <4> HIDE DEF d, offset, frag_len
      <4> QED
        BY <1>2, <1>3, <1>4, <2>2, Constants
    <3>2. (d + 1) * Page2M = d * Page2M + Page2M /\ ((d + 1) * Page2M + 0) % Page2M = 0
          /\ (d + 1) * Page2M \in Nat
      <4> HIDE DEF d
      <4>1. d + 1 \in Nat /\ (d + 1) * Page2M \in Nat /\ ((d + 1) * Page2M + 0) % Page2M = 0
        BY <1>4, Constants, ModOfMultiple, MulTypes
      <4>2. (d + 1) * Page2M = d * Page2M + Page2M
        BY <1>4, Constants
      <4> QED
        BY <4>1, <4>2
    <3> QED
      BY <3>1, <3>2
  <2> QED
    BY <2>1, <2>2
<1>9. CopyInv'
  <2>1. PlaceIsRam' /\ paging'
    BY <1>1, <1>3 DEF CopyInv, PlaceIsRam
  <2>2. left' \in 0..len' /\ data' = initrd' + (len' - left') /\ dest' = phys' + (len' - left')
    <3> HIDE DEF frag_len
    <3> QED
      BY <1>n, <1>3
  <2>3. ASSUME NEW i \in Bytes'
        PROVE  IF i < len' - left' THEN MovedByte(i)' ELSE HomeByte(i)'
    <3>1. i \in Bytes /\ len' = len /\ i \in Int /\ len - left \in Int
      BY <1>1, <1>2, <1>3, Stretch DEF Bytes
    <3>2. len - left' \in Int
      BY <2>2, <3>1, <1>1, Stretch
    <3>3. CASE i < len - left
      <4>1. MovedByte(i)'
        BY <1>1, <3>1, <3>3, EarlierByte
      <4> HIDE DEF frag_len
      <4>2. i < len - left'
        BY <1>n, <1>3, <3>1, <3>3
      <4> QED
        BY <3>1, <4>1, <4>2
    <3>4. CASE len - left =< i /\ i < len - left'
      BY <1>1, <3>1, <3>4, FragmentByte
    <3>5. CASE len - left' =< i
      BY <1>1, <3>1, <3>2, <3>5, LaterByte
    <3> QED
      BY <3>1, <3>2, <3>3, <3>4, <3>5
  <2> QED
    BY <1>8, <2>1, <2>2, <2>3 DEF CopyInv
<1>10. ContentInv'
  BY <1>1, <1>3, <1>9 DEF ContentInv
<1> QED
  BY <1>6, <1>7, <1>10 DEF BootInv

\* The window is given back to its own page.
LEMMA UnmapWindowInv ==
    ASSUME BootInv, UnmapWindow
    PROVE  BootInv'
<1> DEFINE w == CopyWindow \div Page2M
<1>1. TypeOK /\ PlaceInv /\ CopyInv /\ left = 0
  BY DEF BootInv, ContentInv, UnmapWindow
<1>2. /\ pd' = [pd EXCEPT ![w] = CopyWindow] /\ pc' = "describe"
      /\ UNCHANGED <<e820, entry, mem, paging, initrd, len, files, data, left, dest, phys, regions>>
  BY DEF UnmapWindow, MapPage
<1>3. CopyWindow = w * Page2M /\ CopyWindow % Page2M = 0 /\ CopyWindow \in 0..(PhysTop - 1)
      /\ CopyWindow \in Nat
  BY Constants, AddressAssumption
<1> HIDE DEF w
<1>4. pd \in [Directory -> Nat] /\ pd' \in [Directory -> Nat]
      /\ \A p \in Directory : pd'[p] = IF p = w THEN CopyWindow ELSE pd[p]
  BY <1>1, <1>2, <1>3 DEF PlaceInv
<1>5. TypeOK'
  <2>1. \A p \in DOMAIN pd' : pd'[p] % Page2M = 0 /\ pd'[p] \in 0..(PhysTop - 1)
    BY <1>1, <1>3, <1>4 DEF TypeOK
  <2> QED
    BY <1>1, <1>2, <2>1 DEF TypeOK
<1>6. PlaceInv'
  <2>1. \A p \in Directory : p < CopyWindow \div Page2M => pd'[p] = p * Page2M
    BY <1>1, <1>3, <1>4 DEF PlaceInv
  <2>2. files' = initrd'
    BY <1>1, <1>2 DEF PlaceInv, UnmapWindow
  <2> QED
    BY <1>1, <1>2, <1>4, <2>1, <2>2 DEF PlaceInv
<1>7. ASSUME NEW i \in Bytes PROVE MovedByte(i)'
  <2> DEFINE p == (initrd + i) \div Page2M
  <2>1. MovedByte(i)
    BY <1>1, Stretch DEF CopyInv
  <2>2. p \in Directory /\ w < p
    BY <1>1, ByteAddress DEF w
  <2> HIDE DEF p
  <2>3. p /= w
    BY <2>2, Constants DEF Directory, w
  <2>4. pd'[p] = pd[p]
    BY <1>4, <2>2, <2>3
  <2> QED
    BY <1>2, <2>1, <2>4 DEF MovedByte, Phys, p
<1>8. SettledInv'
  <2>1. paging' /\ PlaceIsRam'
    BY <1>1, <1>2 DEF CopyInv, PlaceIsRam
  <2>2. Bytes' = Bytes
    BY <1>2 DEF Bytes
  <2> QED
    BY <1>7, <2>1, <2>2 DEF SettledInv
<1>9. ContentInv'
  BY <1>2, <1>8 DEF ContentInv
<1> QED
  BY <1>5, <1>6, <1>9 DEF BootInv

\* A region's pages cover it.
LEMMA PagesCover ==
    ASSUME NEW start \in Nat, NEW end \in Nat
    PROVE  start..(end - 1) \subseteq Pages(start, end)
<1>1. Floor(start, Page) \in Nat /\ Floor(start, Page) =< start
  BY Constants, FloorBounds
<1>2. Page \in Nat /\ Page > 0 /\ end + Page - 1 \in Nat
  BY Constants
<1>3. Floor(end + Page - 1, Page) \in Nat /\ end + Page - 1 < Floor(end + Page - 1, Page) + Page
  BY <1>2, FloorBounds
<1> QED
  BY <1>1, <1>2, <1>3 DEF Pages

\* main describes the initrd if it stays below 4GB.
LEMMA DescribeInv ==
    ASSUME BootInv, Describe
    PROVE  BootInv'
<1>1. TypeOK /\ PlaceInv /\ SettledInv /\ pc = "describe"
  BY DEF BootInv, ContentInv, Describe
<1>2. /\ pc' = "bootmgr"
      /\ UNCHANGED <<e820, entry, mem, paging, pd, initrd, len, files, data, left, dest, phys>>
  BY DEF Describe
<1>3. TypeOK'
  BY <1>1, <1>2 DEF TypeOK
<1>4. PlaceInv'
  BY <1>1, <1>2 DEF PlaceInv
<1>5. SettledInv'
  BY <1>1, <1>2 DEF SettledInv, HomeByte, MovedByte, PlaceIsRam, Bytes
<1>6. phys \in Nat /\ len \in Nat
  BY <1>1, Stretch DEF SettledInv, PlaceIsRam
<1>7. ASSUME phys < Addr4GB PROVE phys..(phys + len - 1) \subseteq regions'
  <2>1. ~ (phys >= Addr4GB)
    BY <1>6, <1>7, Constants
  <2>2. Pages(phys, phys + len) \subseteq regions'
    BY <2>1 DEF Describe
  <2>3. phys..(phys + len - 1) \subseteq Pages(phys, phys + len)
    BY <1>6, PagesCover
  <2> QED
    BY <2>2, <2>3
<1>8. ContentInv'
  BY <1>2, <1>5, <1>7 DEF ContentInv
<1> QED
  BY <1>3, <1>4, <1>8 DEF BootInv

\* bootmgr writes around the initrd: it is described, or lies above 4GB.
LEMMA BootmgrWritesInv ==
    ASSUME BootInv, BootmgrWrites
    PROVE  BootInv'
<1>1. TypeOK /\ PlaceInv /\ SettledInv /\ pc = "bootmgr"
      /\ (phys < Addr4GB => phys..(phys + len - 1) \subseteq regions)
  BY DEF BootInv, ContentInv, BootmgrWrites
<1>2. UNCHANGED <<pc, e820, entry, paging, pd, initrd, len, files, data, left, dest, phys, regions>>
  BY DEF BootmgrWrites
<1>3. /\ DOMAIN mem' = DOMAIN mem
      /\ \A a \in DOMAIN mem : mem'[a] = Os \/ mem'[a] = mem[a]
      /\ \A a \in DOMAIN mem : a \in regions => mem'[a] = mem[a]
      /\ \A a \in DOMAIN mem : ~ (a < Addr4GB) => mem'[a] = mem[a]
  BY DEF BootmgrWrites
<1>4. ASSUME NEW a \in DOMAIN mem PROVE mem'[a] \in {Other, Pe, Os} \cup 0..(len - 1)
  <2>1. mem[a] \in {Other, Pe, Os} \cup 0..(len - 1)
    BY <1>1 DEF TypeOK
  <2>2. mem'[a] = Os \/ mem'[a] = mem[a]
    BY <1>3
  <2> QED
    BY <2>1, <2>2
<1>5. TypeOK'
  BY <1>1, <1>2, <1>3, <1>4 DEF TypeOK
<1>6. PlaceInv'
  BY <1>1, <1>2 DEF PlaceInv
<1>7. Bytes' = Bytes
  BY <1>2 DEF Bytes
<1>8. SettledInv'
  <2>1. CASE phys = initrd /\ \A i \in Bytes : HomeByte(i)
    <3>1. ASSUME NEW i \in Bytes PROVE mem'[initrd + i] = mem[initrd + i]
      <4>1. i \in Nat /\ i < len /\ initrd + i \in DOMAIN mem /\ initrd + i < Addr4GB
        BY <1>1, ByteAddress
      <4>2. phys < Addr4GB /\ initrd + i \in phys..(phys + len - 1)
        BY <1>1, <2>1, <4>1, Stretch, Constants
      <4>3. initrd + i \in regions
        BY <1>1, <4>2
      <4> QED
        BY <1>3, <4>1, <4>3
    <3>2. \A i \in Bytes : HomeByte(i)'
      BY <1>2, <2>1, <3>1 DEF HomeByte
    <3> QED
      BY <1>2, <1>7, <2>1, <3>2 DEF SettledInv
  <2>2. CASE paging /\ PlaceIsRam /\ \A i \in Bytes : MovedByte(i)
    <3>1. PICK k \in DOMAIN e820 : e820[k].ram /\ phys + len =< End(e820[k])
      BY <2>2 DEF PlaceIsRam
    <3>2. e820[k] \in Entries /\ End(e820[k]) =< PhysTop
      BY <1>1, <3>1 DEF PlaceInv, RoomAbovePe
    <3>3. End(e820[k]) \in Nat
      BY <3>2 DEF Entries, End
    <3>4. phys \in Nat /\ Addr4GB =< phys /\ len \in Nat /\ PhysTop \in Nat
      BY <1>1, <2>2, Stretch, Constants DEF PlaceIsRam
    <3>7. phys + len =< PhysTop
      BY <3>1, <3>2, <3>3, <3>4
    <3>5. ASSUME NEW i \in Bytes PROVE mem'[phys + i] = mem[phys + i]
      <4>1. i \in Nat /\ i < len
        BY <1>1, ByteAddress
      <4>2. phys + i \in 0..(PhysTop - 1) /\ ~ (phys + i < Addr4GB)
        BY <3>4, <3>7, <4>1, Constants
      <4>3. phys + i \in DOMAIN mem
        BY <1>1, <4>2, Stretch
      <4> QED
        BY <1>3, <4>2, <4>3
    <3>6. \A i \in Bytes : MovedByte(i)'
      BY <1>2, <2>2, <3>5 DEF MovedByte
    <3> QED
      BY <1>2, <1>7, <2>2, <3>6 DEF SettledInv, PlaceIsRam
  <2> QED
    BY <1>1, <2>1, <2>2 DEF SettledInv
<1>9. ContentInv'
  BY <1>1, <1>2, <1>8 DEF ContentInv
<1> QED
  BY <1>5, <1>6, <1>9 DEF BootInv

-----------------------------------------------------------------------------
(* The theorems.                                                           *)

\* A step of the loader or of bootmgr, or of nobody, preserves the invariant.
LEMMA NextInv ==
    ASSUME BootInv, [Next]_vars
    PROVE  BootInv'
<1>1. CASE \E pae \in BOOLEAN : InitPaging(pae)
  BY <1>1, InitPagingInv
<1>2. CASE RelocateLow
  BY <1>2, RelocateLowInv
<1>3. CASE ExtractInitrd
  BY <1>3, ExtractInitrdInv
<1>4. CASE LoadPe
  BY <1>4, LoadPeInv
<1>5. CASE BootFails
  BY <1>5, BootFailsInv
<1>6. CASE RelocateHigh
  BY <1>6, RelocateHighInv
<1>7. CASE CopyFragment
  BY <1>7, CopyFragmentInv
<1>8. CASE UnmapWindow
  BY <1>8, UnmapWindowInv
<1>9. CASE Describe
  BY <1>9, DescribeInv
<1>10. CASE BootmgrWrites
  BY <1>10, BootmgrWritesInv
<1>11. CASE WaitForKey \/ UNCHANGED vars
  <2>1. UNCHANGED vars
    BY <1>11 DEF WaitForKey
  <2>2. TypeOK'
    BY <2>1 DEF BootInv, TypeOK, vars
  <2>3. PlaceInv'
    BY <2>1 DEF BootInv, PlaceInv, vars
  <2>4. Bytes' = Bytes /\ (CopyInv => CopyInv') /\ (SettledInv => SettledInv')
        /\ \A i \in Bytes : HomeByte(i) => HomeByte(i)'
    BY <2>1 DEF CopyInv, SettledInv, PlaceIsRam, HomeByte, MovedByte, Bytes, vars
  <2>5. UNCHANGED <<pc, pd, phys, len, regions>>
    BY <2>1 DEF vars
  <2>6. ContentInv'
    BY <2>4, <2>5 DEF BootInv, ContentInv
  <2> QED
    BY <2>2, <2>3, <2>6 DEF BootInv
<1> QED
  BY <1>1, <1>2, <1>3, <1>4, <1>5, <1>6, <1>7, <1>8, <1>9, <1>10, <1>11 DEF Next, Loading

\* The inductive invariant holds throughout: each byte of the initrd is at its
\* own address, or at the place its page was moved to and is mapped to.
THEOREM BootInvariant == Spec => []BootInv
<1>1. Init => BootInv
  BY InitInv
<1>2. BootInv /\ [Next]_vars => BootInv'
  BY NextInv
<1> QED
  BY <1>1, <1>2, PTL DEF Spec

\* main's variables keep their types: the page directory holds addresses of 2MB
\* pages of physical memory, and the copy never moves more than the initrd.
THEOREM MemoryTyped == Spec => []TypeOK
<1>1. BootInv => TypeOK
  BY DEF BootInv
<1> QED
  BY <1>1, BootInvariant, PTL

\* The virtual files survive: bootmgr reads every byte of the initrd, whatever
\* it does with the memory that main left it, with paging or without.
THEOREM FilesSurvive == Spec => []InitrdIntact
<1>1. ASSUME BootInv PROVE InitrdIntact
  <2> SUFFICES ASSUME pc = "bootmgr", NEW i \in 0..(len - 1)
               PROVE  Read(files + i) = i
    BY DEF InitrdIntact
  <2>1. TypeOK /\ PlaceInv /\ SettledInv /\ files = initrd /\ i \in Bytes
    BY <1>1 DEF BootInv, PlaceInv, ContentInv, Bytes
  <2>2. CASE HomeByte(i)
    <3>1. initrd + i \in Nat
      BY <2>1, ByteAddress
    <3>2. Phys(pd, initrd + i) = initrd + i
      BY <2>2, <3>1, OwnPage DEF HomeByte
    <3> QED
      BY <2>1, <2>2, <3>2 DEF HomeByte, Read
  <2>3. CASE paging /\ MovedByte(i)
    BY <2>1, <2>3 DEF MovedByte, Read
  <2> QED
    BY <2>1, <2>2, <2>3 DEF SettledInv
<1> QED
  BY <1>1, BootInvariant, PTL

\* The first megabyte is never remapped, not even while the window is in use:
\* the loader's stack, its real-mode buffer and the BIOS keep their addresses.
THEOREM LowMemoryStays == Spec => []LowMemoryMapped
<1>1. ASSUME BootInv PROVE LowMemoryMapped
  <2> SUFFICES ASSUME NEW a \in 0..(Addr1MB - 1) PROVE Phys(pd, a) = a
    BY DEF LowMemoryMapped
  <2>1. a \in Nat /\ a < CopyWindow /\ a < Addr4GB /\ CopyWindow \in Nat
    BY Constants, AddressAssumption
  <2>2. a \div Page2M < CopyWindow \div Page2M
    BY <2>1, AddressAssumption, EarlierPage
  <2>3. a \div Page2M \in Directory
    BY <2>1, InPage
  <2>4. pd[a \div Page2M] = (a \div Page2M) * Page2M
    BY <1>1, <2>2, <2>3 DEF BootInv, PlaceInv
  <2> QED
    BY <2>1, <2>4, OwnPage
<1> QED
  BY <1>1, BootInvariant, PTL

\* Moving the initrd writes only to RAM that the BIOS reported, and so does what
\* bootmgr does afterwards.
THEOREM WritesOnlyRam == Spec => OnlyRamWritten
<1>1. ASSUME BootInv, [Next]_vars, pc /= "load_pe", NEW a \in DOMAIN mem, mem'[a] /= mem[a]
      PROVE  a \in Ram(e820)
  <2>1. TypeOK /\ PlaceInv /\ a \in 0..(PhysTop - 1) /\ a \in Nat
    BY <1>1, Stretch, Constants DEF BootInv
  <2>2. CASE RelocateLow
    <3> DEFINE k == MemmapNext(entry)
               start == LowPlace(e820[k], len)
    <3>1. /\ k /= 0 /\ LowFits(e820[k], len)
          /\ mem' = [b \in DOMAIN mem |-> IF start =< b /\ b < start + len
                                          THEN mem[initrd + (b - start)] ELSE mem[b]]
      BY <1>1, <2>2 DEF RelocateLow
    <3>2. entry \in Nat
      BY <2>1 DEF TypeOK
    <3>3. k \in DOMAIN e820 /\ e820[k].ram
      BY <2>1, <3>1, <3>2, NextEntry
    <3>4. /\ e820[k].start =< start /\ start + len =< End(e820[k]) /\ start \in Nat
      BY <1>1, <3>1, <3>3, LowPlaceFacts
    <3>5. e820[k] \in Entries /\ len \in Nat
      BY <2>1, <3>3 DEF PlaceInv
    <3>6. e820[k].start \in Nat /\ End(e820[k]) \in Nat
      BY <3>5 DEF Entries, End
    <3> HIDE DEF k, start
    <3>7. start =< a /\ a < start + len
      BY <1>1, <3>1
    <3>8. e820[k].start =< a /\ a < End(e820[k])
      BY <2>1, <3>4, <3>5, <3>6, <3>7
    <3> QED
      BY <2>1, <3>3, <3>8 DEF Ram
  <2>3. CASE CopyFragment
    <3> DEFINE frag_len == IF Page2M - (data % Page2M) > left THEN left
                           ELSE Page2M - (data % Page2M)
    <3>1. CopyInv /\ left > 0
      BY <1>1, <2>3 DEF BootInv, ContentInv, CopyFragment
    <3>2. /\ left \in Nat /\ phys \in Nat /\ dest = phys + (len - left) /\ dest \in Nat
          /\ frag_len \in 1..left /\ left =< len /\ len \in Nat
      BY <2>1, <3>1, FragmentFacts, Stretch DEF CopyInv
    <3>3. mem'[a] = IF dest =< a /\ a < dest + frag_len THEN a - phys ELSE mem[a]
      BY <2>1, <2>3, <3>1, <1>1, FragmentCopied
    <3> HIDE DEF frag_len
    <3>4. dest =< a /\ a < dest + frag_len
      BY <1>1, <3>3
    <3>5. phys =< a /\ a < phys + len
      BY <2>1, <3>2, <3>4
    <3>6. PICK k \in DOMAIN e820 :
              e820[k].ram /\ e820[k].start =< phys /\ phys + len =< End(e820[k])
      BY <3>1 DEF CopyInv, PlaceIsRam
    <3>7. e820[k] \in Entries
      BY <2>1, <3>6 DEF PlaceInv
    <3>8. e820[k].start \in Nat /\ End(e820[k]) \in Nat
      BY <3>7 DEF Entries, End
    <3>9. e820[k].start =< a /\ a < End(e820[k])
      BY <2>1, <3>2, <3>5, <3>6, <3>8
    <3> QED
      BY <2>1, <3>6, <3>9 DEF Ram
  <2>4. CASE BootmgrWrites
    BY <1>1, <2>4 DEF BootmgrWrites
  <2>5. CASE mem' = mem
    BY <1>1, <2>5
  <2>6. RelocateLow \/ CopyFragment \/ BootmgrWrites \/ mem' = mem
    BY <1>1 DEF Next, Loading, InitPaging, ExtractInitrd, LoadPe, BootFails, RelocateHigh,
                UnmapWindow, Describe, WaitForKey, vars
  <2> QED
    BY <2>2, <2>3, <2>4, <2>5, <2>6
<1>2. BootInv /\ [Next]_vars =>
        [pc /= "load_pe" => \A a \in DOMAIN mem : mem'[a] /= mem[a] => a \in Ram(e820)]_vars
  BY <1>1
<1> QED
  BY <1>2, BootInvariant, PTL DEF Spec, OnlyRamWritten
=============================================================================
