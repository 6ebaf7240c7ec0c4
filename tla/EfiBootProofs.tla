---------------------------- MODULE EfiBootProofs ----------------------------
(***************************************************************************)
(* Whatever the firmware refuses, the boot manager is started only from    *)
(* the state that efi_boot is meant to reach - but for what the loader     *)
(* does not look at: the mode of the screen, the length of the file and    *)
(* the width of a UINTN - and the wrapper of OpenProtocol refuses each     *)
(* graphics output at most once.  Whatever handles the firmware has, in    *)
(* whatever order, name_devices finds the disks among them, and puts them  *)
(* in order.                                                               *)
(***************************************************************************)
EXTENDS EfiDisksInv, ArithLemmas, TLAPS

Ended == {"die", "reset"}

\* The phases after the command line, and those after the initrd was loaded.
AfterLine == Phases \ ({"entry", "cmdline"} \cup Ended)
Loaded == {"extract", "install disk", "install partition", "load", "start", "running"}

MachineInv == machine \in Machines /\ pc \in Phases /\ faults \in Nat

\* The screen is in text mode until the boot manager starts, if no call failed.
ScreenInv ==
    /\ pc \in AfterLine => textmode = machine.text
    /\ pc \in AfterLine \cup {"cmdline"} /\ machine.console /\ faults = 0 =>
            console = IF pc = "running" /\ ~machine.text THEN "graphics" ELSE "text"

Initrds == [from : {"none", "media", "file", "directory"}, start : Nat, len : Nat, room : Nat]
Images == [bytes : {"bootmgr"}, device : {"none", "vdisk", "vpartition"}]

FromMedia == initrd.from = "media" /\ initrd.len = machine.lf2.read
FromFile ==
    /\ initrd.from = "file" /\ machine.file.kind = "file"
    /\ machine.lf2.present => faults # 0
    /\ Part => faults # 0 \/ machine.file.size >= machine.uintn

\* A length that cannot be rounded up has no pages.
Fits == initrd.len <= initrd.room \/ initrd.room = 0

\* The way to the file leads past the media only if the media failed, and what
\* is read of a file is all of it unless a call failed or a UINTN is too small.
InitrdInv ==
    /\ initrd \in Initrds
    /\ Fits
    /\ pc \in {"sfs", "sfs read"} /\ machine.lf2.present => faults # 0
    /\ pc = "sfs read" /\ machine.file.kind = "file" =>
            /\ initrd.start \in {0, machine.file.size}
            /\ \/ initrd.start = 0 /\ initrd.len = machine.file.size
               \/ faults # 0 \/ machine.file.size >= machine.uintn
    /\ pc \in Loaded => FromMedia \/ FromFile \/ (pc = "extract" /\ initrd.from = "directory")
    /\ pc \in Loaded \ {"extract"} => initrd.len > 0

\* The devices come one after the other, then the image.
DeviceInv ==
    /\ installed \subseteq {"vdisk", "vpartition"}
    /\ pc \in {"install partition", "load", "start", "running"} => "vdisk" \in installed
    /\ pc \in {"load", "start", "running"} => "vpartition" \in installed
    /\ pc = "start" => image \in Images
    /\ pc = "running" => image = [bytes |-> "bootmgr", device |-> "vpartition"]

\* An output without the marker was never refused, and every attempt at it
\* failed; one with the marker has had its refusal.
GopInv ==
    /\ marked \subseteq Gops /\ opens \in [Gops -> Nat] /\ blocked \in [Gops -> Nat]
    /\ \A g \in Gops :
          /\ g \notin marked => blocked[g] = 0 /\ (machine.textDebug => opens[g] <= faults)
          /\ g \in marked =>
                machine.textDebug /\ blocked[g] = IF machine.text THEN 1 ELSE 0

EfiInv == MachineInv /\ ScreenInv /\ InitrdInv /\ DeviceInv /\ GopInv

-----------------------------------------------------------------------------

LEMMA MachineTyped ==
    ASSUME NEW m \in Machines
    PROVE  /\ m.console \in BOOLEAN /\ m.text \in BOOLEAN /\ m.textDebug \in BOOLEAN
           /\ m.lf2.present \in BOOLEAN /\ m.lf2.read \in Nat /\ m.lf2.asked \in Nat
           /\ m.file.size \in Nat /\ m.maxFaults \in Nat /\ m.uintn \in Nat
           /\ m.lf2.asked < m.uintn /\ m.lf2.read < m.uintn /\ PageSize <= m.uintn
  BY MachinesAssumption

\* Whole pages hold what they are for, unless the sum is no UINTN: what is left
\* of it is then less than a page.
LEMMA RoomEnough ==
    ASSUME machine \in Machines, NEW n \in Nat, n < machine.uintn
    PROVE  Room(n) \in Nat /\ (n <= Room(n) \/ Room(n) = 0)
<1>1. PageSize \in Nat /\ PageSize > 0 /\ machine.uintn \in Nat /\ PageSize <= machine.uintn
  BY EfiBootAssumption, MachineTyped
<1> DEFINE u == machine.uintn
           sum == n + PageSize - 1
           q == (sum % u) \div PageSize
<1>2. Room(n) = q * PageSize
  BY DEF Room
<1>3. u \in Nat /\ u > 0 /\ PageSize <= u /\ n < u /\ sum \in Nat /\ sum = n + PageSize - 1
  BY <1>1
<1> HIDE DEF u, sum
<1>4. CASE sum < u
  <2>1. sum % u = sum
    BY <1>3, <1>4, ModSmall
  <2>2. /\ q \in Nat /\ sum % PageSize \in Nat /\ sum % PageSize < PageSize
        /\ sum = PageSize * q + (sum % PageSize)
    BY <1>1, <1>3, <2>1, DivMod
  <2> HIDE DEF q
  <2>3. q * PageSize = PageSize * q /\ PageSize * q \in Nat
    BY <1>1, <2>2
  <2> QED
    BY <1>1, <1>2, <1>3, <2>2, <2>3
<1>5. CASE sum >= u
  <2>1. sum - u \in Nat /\ sum - u < u /\ sum - u < PageSize
    BY <1>1, <1>3, <1>5
  <2>2. 1 * u = u /\ sum = 1 * u + (sum - u)
    BY <1>3, <2>1
  <2>3. sum % u = sum - u
    <3> DEFINE r == sum - u
    <3>1. r \in Nat /\ r < u /\ sum = 1 * u + r
      BY <2>1, <2>2
    <3> HIDE DEF r
    <3>2. sum % u = r
      BY <1>3, <3>1, ModOfMultiple
    <3> QED
      BY <3>2 DEF r
  <2>4. q = 0
    BY <1>1, <2>1, <2>3, ModSmall
  <2> QED
    BY <1>1, <1>2, <2>4
<1> QED
  BY <1>3, <1>4, <1>5

\* A call changes the number of failures by at most one.
Counted == faults' = faults \/ faults' = faults + 1

LEMMA Calls ==
    ASSUME faults \in Nat, Counted
    PROVE  faults' \in Nat /\ faults' >= faults /\ (faults # 0 => faults' # 0)
           /\ (faults' = faults + 1 => faults' # 0)
  BY DEF Counted

LEMMA InitInv == Init => EfiInv
<1> SUFFICES ASSUME Init PROVE EfiInv
  OBVIOUS
<1>1. MachineInv
  BY DEF Init, MachineInv, Phases
<1>2. ScreenInv
  BY DEF Init, ScreenInv, AfterLine, Phases, Ended
<1>3. InitrdInv
  <2>1. pc = "entry" /\ initrd = [from |-> "none", start |-> 0, len |-> 0, room |-> 0]
    BY DEF Init, NoInitrd
  <2>2. initrd \in Initrds /\ Fits
    BY <2>1 DEF Initrds, Fits
  <2> QED
    BY <2>1, <2>2 DEF InitrdInv, Loaded
<1>4. DeviceInv
  BY DEF Init, DeviceInv
<1>5. GopInv
  BY DEF Init, GopInv
<1> QED
  BY <1>1, <1>2, <1>3, <1>4, <1>5 DEF EfiInv

-----------------------------------------------------------------------------
(* No step but OpenGop touches the graphics outputs, and none the machine. *)

LEMMA GopFrame ==
    ASSUME GopInv, faults \in Nat, faults' \in Nat, faults' >= faults,
           UNCHANGED <<machine, gopVars>>
    PROVE  GopInv'
  BY DEF GopInv, gopVars

LEMMA Frame ==
    ASSUME EfiInv, UNCHANGED <<machine, gopVars>>, Counted, pc' \in Phases,
           ScreenInv', InitrdInv', DeviceInv'
    PROVE  EfiInv'
<1>1. faults \in Nat /\ faults' \in Nat /\ faults' >= faults
  BY Calls DEF EfiInv, MachineInv
<1>2. MachineInv'
  BY <1>1 DEF EfiInv, MachineInv
<1>3. GopInv'
  BY <1>1, GopFrame DEF EfiInv
<1> QED
  BY <1>2, <1>3 DEF EfiInv

\* Failures are never taken back.
LEMMA StillFailed ==
    ASSUME EfiInv, Counted
    PROVE  (faults # 0 => faults' # 0) /\ (faults' = faults + 1 => faults' # 0)
  BY Calls DEF EfiInv, MachineInv

\* The disks: the boot is not concerned.
LEMMA DisksInv == EfiInv /\ Disks => EfiInv'
<1> SUFFICES ASSUME EfiInv, Disks PROVE EfiInv'
  OBVIOUS
<1>1. /\ UNCHANGED <<machine, console, textmode, initrd, bootVars>>
      /\ pc \in {"locate", "make", "media", "heuristics"}
      /\ pc' \in {"make", "media", "heuristics", "lf2", "die"}
      /\ Counted
  <2>1. CASE LocateHandle
    BY <2>1 DEF LocateHandle, Counted, Works, Fails, Failed
  <2>2. CASE MakeDevice
    BY <2>2 DEF MakeDevice, Counted, Works, Fails, Failed
  <2>3. CASE MakeDone
    BY <2>3 DEF MakeDone, Counted, Works, Fails, Failed
  <2>4. CASE NameByMedia
    BY <2>4 DEF NameByMedia, Counted, Works, Fails, Failed
  <2>5. CASE NameByHeuristics
    BY <2>5 DEF NameByHeuristics, Counted, Works, Fails, Failed
  <2> QED
    BY <2>1, <2>2, <2>3, <2>4, <2>5 DEF Disks
<1>2. pc' \in Phases
  BY <1>1 DEF Phases
<1>3. ScreenInv'
  BY <1>1, StillFailed DEF EfiInv, ScreenInv, AfterLine, Phases, Ended
<1>4. InitrdInv'
  BY <1>1 DEF EfiInv, InitrdInv, Fits, Loaded
<1>5. DeviceInv'
  BY <1>1 DEF EfiInv, DeviceInv, bootVars
<1> QED
  BY <1>1, <1>2, <1>3, <1>4, <1>5, Frame DEF bootVars

LEMMA EntryInv == EfiInv /\ Entry => EfiInv'
<1> SUFFICES ASSUME EfiInv, Entry PROVE EfiInv'
  OBVIOUS
<1>1. /\ UNCHANGED <<machine, textmode, initrd, bootVars>>
      /\ pc = "entry" /\ pc' = "cmdline" /\ Counted
      /\ machine.console => console' = "text" \/ faults' = faults + 1
  BY DEF Entry, Counted, Works, Fails, Failed, SetTextMode
<1>2. pc' \in Phases
  BY <1>1 DEF Phases
<1>3. ScreenInv'
  BY <1>1, StillFailed DEF ScreenInv, AfterLine, Phases, Ended
<1>4. InitrdInv'
  BY <1>1 DEF EfiInv, InitrdInv, Fits, Loaded
<1>5. DeviceInv'
  BY <1>1 DEF EfiInv, DeviceInv, bootVars
<1> QED
  BY <1>1, <1>2, <1>3, <1>4, <1>5, Frame DEF bootVars

LEMMA CmdLineInv == EfiInv /\ CmdLine => EfiInv'
<1> SUFFICES ASSUME EfiInv, CmdLine PROVE EfiInv'
  OBVIOUS
<1>1. /\ UNCHANGED <<machine, console, initrd, bootVars>>
      /\ pc = "cmdline" /\ pc' \in {"locate", "die"} /\ Counted
      /\ pc' = "locate" => textmode' = machine.text
  BY DEF CmdLine, Counted, Works, Fails, Failed
<1>2. pc' \in Phases
  BY <1>1 DEF Phases
<1>3. ScreenInv'
  BY <1>1, StillFailed DEF EfiInv, ScreenInv, AfterLine, Phases, Ended
<1>4. InitrdInv'
  BY <1>1 DEF EfiInv, InitrdInv, Fits, Loaded
<1>5. DeviceInv'
  BY <1>1 DEF EfiInv, DeviceInv, bootVars
<1> QED
  BY <1>1, <1>2, <1>3, <1>4, <1>5, Frame DEF bootVars

-----------------------------------------------------------------------------
(* The initrd: a step of it goes from one of its phases to another, to the *)
(* devices or to the end, and what matters is InitrdInv.                   *)

Reading == {"lf2", "lf2 size", "lf2 read", "sfs", "sfs read", "extract"}

LEMMA InitrdFrame ==
    ASSUME EfiInv, UNCHANGED <<machine, console, textmode, bootVars>>,
           pc \in Reading, pc' \in Reading \cup {"install disk", "die"},
           Counted, InitrdInv'
    PROVE  EfiInv'
<1>1. pc' \in Phases
  BY DEF Phases, Reading
<1>2. ScreenInv'
  BY StillFailed DEF EfiInv, ScreenInv, AfterLine, Phases, Ended, Reading
<1>3. DeviceInv'
  BY DEF EfiInv, DeviceInv, bootVars, Reading
<1> QED
  BY <1>1, <1>2, <1>3, Frame DEF bootVars

LEMMA AskForRoom ==
    ASSUME machine \in Machines, NEW size \in Nat, NEW start \in Nat, NEW next, AskFor(size, start, next)
    PROVE  /\ initrd' \in Initrds /\ Fits'
           /\ initrd'.start = start /\ initrd'.len = size % machine.uintn
           /\ size < machine.uintn => initrd'.len = size
<1> DEFINE len == size % machine.uintn
<1>1. initrd' = [from |-> "none", start |-> start, len |-> len, room |-> Room(len)]
  BY DEF AskFor
<1>2. machine.uintn \in Nat /\ machine.uintn > 0
  BY EfiBootAssumption, MachineTyped
<1>3. len \in Nat /\ len < machine.uintn /\ (size < machine.uintn => len = size)
  BY <1>2, DivMod, ModSmall
<1> HIDE DEF len
<1>4. Room(len) \in Nat /\ (len <= Room(len) \/ Room(len) = 0)
  BY <1>3, RoomEnough
<1>5. initrd' \in Initrds /\ initrd'.start = start /\ initrd'.len = len /\ initrd'.room = Room(len)
  BY <1>1, <1>3, <1>4 DEF Initrds
<1> QED
  BY <1>3, <1>4, <1>5 DEF Fits, len

\* The firmware may read less than there was asked for.
LEMMA ReadLess ==
    ASSUME initrd \in Initrds, Fits,
           NEW source \in {"media", "file", "directory"}, NEW len \in Nat, len <= initrd.len,
           initrd' = [initrd EXCEPT !.from = source, !.len = len]
    PROVE  initrd' \in Initrds /\ Fits'
           /\ initrd'.from = source /\ initrd'.len = len
<1>1. initrd'.from = source /\ initrd'.len = len /\ initrd'.room = initrd.room
  BY DEF Initrds
<1>2. initrd' \in Initrds
  BY DEF Initrds
<1> QED
  BY <1>1, <1>2 DEF Initrds, Fits

LEMMA Lf2LocateInv == EfiInv /\ Lf2Locate => EfiInv'
<1> SUFFICES ASSUME EfiInv, Lf2Locate PROVE EfiInv'
  OBVIOUS
<1>1. /\ UNCHANGED <<machine, console, textmode, initrd, bootVars>>
      /\ pc = "lf2" /\ pc' \in {"lf2 size", "sfs", "die"} /\ Counted
      /\ pc' = "sfs" /\ machine.lf2.present => faults' = faults + 1
  BY DEF Lf2Locate, Counted, Works, Fails, Failed
<1>2. faults' = faults + 1 => faults' # 0
  BY <1>1, Calls DEF EfiInv, MachineInv
<1>3. InitrdInv'
  BY <1>1, <1>2 DEF EfiInv, InitrdInv, Fits, Loaded
<1> QED
  BY <1>1, <1>3, InitrdFrame DEF Reading

LEMMA Lf2SizeInv == EfiInv /\ Lf2Size => EfiInv'
<1> SUFFICES ASSUME EfiInv, Lf2Size PROVE EfiInv'
  OBVIOUS
<1>1. machine \in Machines /\ machine.lf2.asked \in Nat
  BY MachineTyped DEF EfiInv, MachineInv
<1>2. /\ UNCHANGED <<machine, console, textmode, bootVars>>
      /\ pc = "lf2 size" /\ pc' \in {"lf2 read", "die"} /\ Counted
      /\ AskFor(machine.lf2.asked, 0, "lf2 read") \/ UNCHANGED initrd
  BY DEF Lf2Size, Counted, Works, Fails, Failed, AskFor
<1>3. initrd' \in Initrds /\ Fits'
  <2>1. CASE AskFor(machine.lf2.asked, 0, "lf2 read")
    BY <1>1, <2>1, AskForRoom
  <2>2. CASE UNCHANGED initrd
    BY <2>2 DEF EfiInv, InitrdInv, Fits
  <2> QED
    BY <1>2, <2>1, <2>2
<1>4. InitrdInv'
  BY <1>2, <1>3 DEF InitrdInv, Fits, Loaded
<1> QED
  BY <1>2, <1>4, InitrdFrame DEF Reading

LEMMA Lf2ReadInv == EfiInv /\ Lf2Read => EfiInv'
<1> SUFFICES ASSUME EfiInv, Lf2Read PROVE EfiInv'
  OBVIOUS
<1>1. machine.lf2.read \in Nat
  BY MachineTyped DEF EfiInv, MachineInv
<1>2. initrd \in Initrds /\ Fits
  BY DEF EfiInv, InitrdInv
<1>3. /\ UNCHANGED <<machine, console, textmode, bootVars>>
      /\ pc = "lf2 read" /\ pc' \in {"extract", "die"} /\ Counted
  BY DEF Lf2Read, Counted, Works, Fails, Failed
<1>4. CASE pc' = "extract"
  <2>1. machine.lf2.read <= initrd.len
        /\ initrd' = [initrd EXCEPT !.from = "media", !.len = machine.lf2.read]
    BY <1>4 DEF Lf2Read, Works, Fails, Failed
  <2>2. /\ initrd' \in Initrds /\ Fits'
        /\ initrd'.from = "media" /\ initrd'.len = machine.lf2.read
    BY <1>1, <1>2, <2>1, ReadLess
  <2>3. InitrdInv'
    BY <1>3, <1>4, <2>2 DEF InitrdInv, Fits, Loaded, FromMedia
  <2> QED
    BY <1>3, <2>3, InitrdFrame DEF Reading
<1>5. CASE pc' = "die"
  <2>1. UNCHANGED initrd
    BY <1>5 DEF Lf2Read, Works, Fails, Failed
  <2>2. InitrdInv'
    BY <1>2, <1>5, <2>1 DEF InitrdInv, Fits, Loaded
  <2> QED
    BY <1>3, <2>2, InitrdFrame DEF Reading
<1> QED
  BY <1>3, <1>4, <1>5

LEMMA SfsOpenInv == EfiInv /\ SfsOpen => EfiInv'
<1> SUFFICES ASSUME EfiInv, SfsOpen PROVE EfiInv'
  OBVIOUS
<1>1. machine \in Machines /\ machine.file.size \in Nat /\ machine.uintn \in Nat /\ Garbage \subseteq Nat
  BY MachineTyped, EfiBootAssumption DEF EfiInv, MachineInv
<1>2. initrd \in Initrds /\ Fits
  BY DEF EfiInv, InitrdInv
<1>3. /\ UNCHANGED <<machine, console, textmode, bootVars>>
      /\ pc = "sfs" /\ pc' \in {"sfs read", "die"} /\ Counted
  BY DEF SfsOpen, SfsSize, AskFor, Counted, Works, Fails, Failed
<1>4. machine.lf2.present => faults' # 0
  BY <1>3, StillFailed DEF EfiInv, InitrdInv
<1>5. CASE \E size, start \in Nat :
               /\ AskFor(size, start, "sfs read")
               /\ machine.file.kind = "file" =>
                     /\ start \in {0, machine.file.size}
                     /\ (size = machine.file.size /\ start = 0) \/ faults' = faults + 1
  <2>1. PICK size \in Nat, start \in Nat :
               /\ AskFor(size, start, "sfs read")
               /\ machine.file.kind = "file" =>
                     /\ start \in {0, machine.file.size}
                     /\ (size = machine.file.size /\ start = 0) \/ faults' = faults + 1
    BY <1>5
  <2>2. /\ initrd' \in Initrds /\ Fits' /\ initrd'.start = start
        /\ size < machine.uintn => initrd'.len = size
    BY <1>1, <2>1, AskForRoom
  <2>3. faults' = faults + 1 => faults' # 0
    BY <1>3, StillFailed
  <2>4. machine.file.kind = "file" =>
            /\ initrd'.start \in {0, machine.file.size}
            /\ \/ initrd'.start = 0 /\ initrd'.len = machine.file.size
               \/ faults' # 0 \/ machine.file.size >= machine.uintn
    <3> SUFFICES ASSUME machine.file.kind = "file"
                 PROVE  /\ start \in {0, machine.file.size}
                        /\ \/ start = 0 /\ initrd'.len = machine.file.size
                           \/ faults' # 0 \/ machine.file.size >= machine.uintn
      BY <2>2
    <3>1. start \in {0, machine.file.size}
          /\ ((size = machine.file.size /\ start = 0) \/ faults' # 0)
      BY <2>1, <2>3
    <3>2. size < machine.uintn \/ size >= machine.uintn
      BY <1>1
    <3> QED
      BY <2>2, <3>1, <3>2
  <2>5. InitrdInv'
    BY <1>3, <1>4, <2>2, <2>4 DEF InitrdInv, Loaded
  <2> QED
    BY <1>3, <2>5, InitrdFrame DEF Reading
<1>6. CASE pc' = "die" /\ UNCHANGED initrd
  <2>1. InitrdInv'
    BY <1>2, <1>6 DEF InitrdInv, Loaded, Fits
  <2> QED
    BY <1>3, <2>1, InitrdFrame DEF Reading
<1>7. CASE machine.file.kind = "directory" /\ UNCHANGED faults /\ \E size \in Garbage : SfsSize(size, 0)
  BY <1>1, <1>5, <1>6, <1>7 DEF SfsSize
<1>8. CASE machine.file.kind = "file" /\ UNCHANGED faults /\ SfsSize(machine.file.size, 0)
  BY <1>1, <1>5, <1>6, <1>8 DEF SfsSize
<1>9. CASE /\ machine.file.kind = "file" /\ Failed
           /\ \E size \in Garbage \cup {machine.file.size}, start \in {0, machine.file.size} : SfsSize(size, start)
  BY <1>1, <1>5, <1>6, <1>9 DEF SfsSize, Failed
<1> QED
  BY <1>6, <1>7, <1>8, <1>9 DEF SfsOpen, Works, Fails

LEMMA SfsReadInv == EfiInv /\ SfsRead => EfiInv'
<1> SUFFICES ASSUME EfiInv, SfsRead PROVE EfiInv'
  OBVIOUS
<1>1. machine.file.size \in Nat
  BY MachineTyped DEF EfiInv, MachineInv
<1>2. initrd \in Initrds /\ Fits /\ initrd.len \in Nat
  BY DEF EfiInv, InitrdInv, Initrds
<1>3. /\ UNCHANGED <<machine, console, textmode, bootVars>>
      /\ pc = "sfs read" /\ pc' \in {"extract", "die"} /\ Counted
  BY DEF SfsRead, Counted, Works, Fails, Failed
<1>4. machine.lf2.present => faults' # 0
  BY <1>3, StillFailed DEF EfiInv, InitrdInv
<1>6. CASE pc' = "extract" /\ machine.file.kind = "file"
  <2> DEFINE left == machine.file.size - initrd.start
             read == IF initrd.len < left THEN initrd.len ELSE left
  <2>1. initrd' = [initrd EXCEPT !.from = "file", !.len = read]
    BY <1>6 DEF SfsRead, Works, Fails, Failed
  <2>2. /\ initrd.start \in {0, machine.file.size}
        /\ \/ initrd.start = 0 /\ initrd.len = machine.file.size
           \/ faults # 0 \/ machine.file.size >= machine.uintn
    BY <1>3, <1>6 DEF EfiInv, InitrdInv
  <2>3. left \in Nat
    BY <1>1, <2>2
  <2>4. /\ read \in Nat /\ read <= initrd.len
        /\ read < machine.file.size => faults # 0 \/ machine.file.size >= machine.uintn
    <3>1. initrd.start = 0 /\ initrd.len = machine.file.size => read = machine.file.size
      BY <1>1
    <3> QED
      BY <1>1, <1>2, <2>2, <2>3, <3>1
  <2> HIDE DEF left, read
  <2>5. /\ initrd' \in Initrds /\ Fits'
        /\ initrd'.from = "file" /\ initrd'.len = read
    BY <1>2, <2>1, <2>4, ReadLess
  <2>6. read < machine.file.size => faults' # 0 \/ machine.file.size >= machine.uintn
    BY <1>3, <2>4, StillFailed
  <2>7. FromFile'
    BY <1>3, <1>4, <1>6, <2>5, <2>6 DEF FromFile, Part
  <2>8. InitrdInv'
    BY <1>3, <1>6, <2>5, <2>7 DEF InitrdInv, Loaded
  <2> QED
    BY <1>3, <2>8, InitrdFrame DEF Reading
<1>7. CASE pc' = "extract" /\ machine.file.kind # "file"
  <2>1. machine.file.size <= initrd.len
        /\ initrd' = [initrd EXCEPT !.from = "directory", !.len = machine.file.size]
    BY <1>7 DEF SfsRead, Works, Fails, Failed
  <2>2. initrd' \in Initrds /\ Fits' /\ initrd'.from = "directory"
    BY <1>1, <1>2, <2>1, ReadLess
  <2>3. InitrdInv'
    BY <1>3, <1>7, <2>2 DEF InitrdInv, Fits, Loaded
  <2> QED
    BY <1>3, <2>3, InitrdFrame DEF Reading
<1>8. CASE pc' = "die"
  <2>1. UNCHANGED initrd
    BY <1>8 DEF SfsRead, Works, Fails, Failed
  <2>2. InitrdInv'
    BY <1>2, <1>8, <2>1 DEF InitrdInv, Fits, Loaded
  <2> QED
    BY <1>3, <2>2, InitrdFrame DEF Reading
<1> QED
  BY <1>3, <1>6, <1>7, <1>8

\* What was read is passed on unchanged.
LEMMA SourceKept ==
    ASSUME EfiInv, UNCHANGED <<machine, initrd>>, Counted, FromMedia \/ FromFile
    PROVE  (FromMedia \/ FromFile)'
<1>1. faults # 0 => faults' # 0
  BY StillFailed
<1> QED
  BY <1>1 DEF FromMedia, FromFile, Part

LEMMA ExtractInv == EfiInv /\ Extract => EfiInv'
<1> SUFFICES ASSUME EfiInv, Extract PROVE EfiInv'
  OBVIOUS
<1>1. /\ UNCHANGED <<machine, console, textmode, initrd, bootVars>>
      /\ pc = "extract" /\ pc' \in {"install disk", "die"} /\ Counted
      /\ pc' = "install disk" => initrd.from # "directory" /\ initrd.len > 0
  BY DEF Extract, Counted, Works
<1>2. pc' = "install disk" => (FromMedia \/ FromFile)'
  BY <1>1, SourceKept DEF EfiInv, InitrdInv, Loaded
<1>3. InitrdInv'
  BY <1>1, <1>2 DEF EfiInv, InitrdInv, Fits, Loaded
<1> QED
  BY <1>1, <1>3, InitrdFrame DEF Reading

-----------------------------------------------------------------------------
(* The devices and the boot manager.                                       *)

Starting == {"install disk", "install partition", "load", "start"}

LEMMA BootFrame ==
    ASSUME EfiInv, UNCHANGED <<machine, textmode, initrd, gopVars>>, Counted,
           pc \in Starting, pc' \in Starting \cup {"running", "die"}, ScreenInv', DeviceInv'
    PROVE  EfiInv'
<1>1. pc' \in Phases
  BY DEF Phases, Starting
<1>2. (FromMedia \/ FromFile)'
  BY SourceKept DEF EfiInv, InitrdInv, Loaded, Starting
<1>3. InitrdInv'
  BY <1>2 DEF EfiInv, InitrdInv, Fits, Loaded, Starting
<1> QED
  BY <1>1, <1>3, Frame

LEMMA InstallDiskInv == EfiInv /\ InstallDisk => EfiInv'
<1> SUFFICES ASSUME EfiInv, InstallDisk PROVE EfiInv'
  OBVIOUS
<1>1. /\ UNCHANGED <<machine, console, textmode, initrd, image, gopVars>>
      /\ pc = "install disk" /\ pc' \in {"install partition", "die"} /\ Counted
      /\ \/ pc' = "die" /\ UNCHANGED installed
         \/ installed' = installed \cup {"vdisk"}
  BY DEF InstallDisk, Counted, Works, Fails, Failed
<1>2. ScreenInv'
  BY <1>1, StillFailed DEF EfiInv, ScreenInv, AfterLine, Phases, Ended
<1>3. DeviceInv'
  BY <1>1 DEF EfiInv, DeviceInv
<1> QED
  BY <1>1, <1>2, <1>3, BootFrame DEF Starting

LEMMA InstallPartitionInv == EfiInv /\ InstallPartition => EfiInv'
<1> SUFFICES ASSUME EfiInv, InstallPartition PROVE EfiInv'
  OBVIOUS
<1>1. /\ UNCHANGED <<machine, console, textmode, initrd, image, gopVars>>
      /\ pc = "install partition" /\ pc' \in {"load", "die"} /\ Counted
      /\ \/ pc' = "die" /\ UNCHANGED installed
         \/ installed' = installed \cup {"vpartition"}
  BY DEF InstallPartition, Counted, Works, Fails, Failed
<1>2. ScreenInv'
  BY <1>1, StillFailed DEF EfiInv, ScreenInv, AfterLine, Phases, Ended
<1>3. DeviceInv'
  BY <1>1 DEF EfiInv, DeviceInv
<1> QED
  BY <1>1, <1>2, <1>3, BootFrame DEF Starting

LEMMA LoadImageInv == EfiInv /\ LoadImage => EfiInv'
<1> SUFFICES ASSUME EfiInv, LoadImage PROVE EfiInv'
  OBVIOUS
<1>1. /\ UNCHANGED <<machine, console, textmode, initrd, installed, gopVars>>
      /\ pc = "load" /\ pc' \in {"start", "die"} /\ Counted
  BY DEF LoadImage, Counted, Works, Fails, Failed
<1>2. pc' = "start" => image' \in Images
  <2> SUFFICES ASSUME pc' = "start" PROVE image' \in Images
    OBVIOUS
  <2>1. PICK device \in {"none", "vdisk", "vpartition"} :
            image' = [bytes |-> "bootmgr", device |-> device]
    BY DEF LoadImage, Works, Fails, Failed
  <2> QED
    BY <2>1 DEF Images
<1>3. ScreenInv'
  BY <1>1, StillFailed DEF EfiInv, ScreenInv, AfterLine, Phases, Ended
<1>4. DeviceInv'
  BY <1>1, <1>2 DEF EfiInv, DeviceInv
<1> QED
  BY <1>1, <1>3, <1>4, BootFrame DEF Starting

LEMMA StartImageInv == EfiInv /\ StartImage => EfiInv'
<1> SUFFICES ASSUME EfiInv, StartImage PROVE EfiInv'
  OBVIOUS
<1>1. /\ UNCHANGED <<machine, textmode, initrd, installed, gopVars>>
      /\ pc = "start" /\ pc' = "running" /\ Counted
  BY DEF StartImage, Counted, Works, Fails, Failed, SetTextMode
<1>2. textmode = machine.text /\ (machine.console /\ faults = 0 => console = "text")
  BY <1>1 DEF EfiInv, ScreenInv, AfterLine, Phases, Ended
<1>3. machine.console /\ faults' = 0 => console' = IF machine.text THEN "text" ELSE "graphics"
  <2> SUFFICES ASSUME machine.console, faults' = 0
               PROVE  console' = IF machine.text THEN "text" ELSE "graphics"
    OBVIOUS
  <2>1. faults = 0 /\ faults' # faults + 1
    BY <1>1, StillFailed
  <2> QED
    BY <1>2, <2>1 DEF StartImage, Works, Fails, Failed, SetTextMode
<1>4. pc' = "running" => image' = [bytes |-> "bootmgr", device |-> "vpartition"]
  <2>1. image \in Images
    BY <1>1 DEF EfiInv, DeviceInv
  <2> SUFFICES ASSUME pc' = "running"
               PROVE  image' = [bytes |-> "bootmgr", device |-> "vpartition"]
    OBVIOUS
  <2>2. image' = [image EXCEPT !.device = "vpartition"]
    BY DEF StartImage, Works, Fails, Failed, CorrectDevice
  <2> QED
    BY <2>1, <2>2 DEF Images
<1>5. ScreenInv'
  BY <1>1, <1>2, <1>3 DEF ScreenInv, AfterLine, Phases, Ended
<1>6. DeviceInv'
  BY <1>1, <1>4 DEF EfiInv, DeviceInv
<1> QED
  BY <1>1, <1>5, <1>6, BootFrame DEF Starting

\* Giving up, or waiting for nothing.
LEMMA EndInv == EfiInv /\ (BootmgrReturns \/ KeyPress) => EfiInv'
<1> SUFFICES ASSUME EfiInv, BootmgrReturns \/ KeyPress PROVE EfiInv'
  OBVIOUS
<1>1. /\ UNCHANGED <<machine, console, textmode, initrd, bootVars>>
      /\ pc' \in Ended /\ Counted
  BY DEF BootmgrReturns, KeyPress, Counted, Works, Ended
<1>2. pc' \in Phases
  BY <1>1 DEF Phases, Ended
<1>3. ScreenInv'
  BY <1>1, StillFailed DEF ScreenInv, AfterLine, Phases, Ended
<1>4. InitrdInv'
  BY <1>1 DEF EfiInv, InitrdInv, Fits, Loaded, Ended
<1>5. DeviceInv'
  BY <1>1 DEF EfiInv, DeviceInv, bootVars, Ended
<1> QED
  BY <1>1, <1>2, <1>3, <1>4, <1>5, Frame DEF bootVars

LEMMA StutterInv == EfiInv /\ UNCHANGED vars => EfiInv'
<1> SUFFICES ASSUME EfiInv, UNCHANGED vars PROVE EfiInv'
  OBVIOUS
<1>1. UNCHANGED <<machine, pc, faults, console, textmode, initrd, installed, image>>
      /\ UNCHANGED gopVars
  BY DEF vars, gopVars
<1>2. pc' \in Phases /\ Counted
  BY <1>1 DEF EfiInv, MachineInv, Counted
<1>3. ScreenInv'
  BY <1>1, StillFailed DEF EfiInv, ScreenInv
<1>4. InitrdInv'
  BY <1>1 DEF EfiInv, InitrdInv, Fits, FromMedia, FromFile, Part
<1>5. DeviceInv'
  BY <1>1 DEF EfiInv, DeviceInv
<1> QED
  BY <1>1, <1>2, <1>3, <1>4, <1>5, Frame

-----------------------------------------------------------------------------
(* The boot manager opens a graphics output.                               *)

LEMMA OpenGopGopInv ==
    ASSUME EfiInv, NEW g \in Gops, OpenGop(g), UNCHANGED machine, textmode = machine.text
    PROVE  GopInv'
<1>1. /\ faults \in Nat /\ marked \subseteq Gops
      /\ opens \in [Gops -> Nat] /\ blocked \in [Gops -> Nat]
  BY DEF EfiInv, MachineInv, GopInv
<1>2. Counted
  BY DEF OpenGop, Counted, Works, Fails, Failed
<1>3. faults' \in Nat /\ faults' >= faults
  BY <1>1, <1>2, Calls
<1>4. opens' = [opens EXCEPT ![g] = opens[g] + 1]
  BY DEF OpenGop
<1>5. /\ opens' \in [Gops -> Nat] /\ opens'[g] = opens[g] + 1
      /\ \A o \in Gops \ {g} : opens'[o] = opens[o]
  BY <1>1, <1>4
<1> DEFINE refused == machine.textDebug /\ Refuses(g)
           count == IF refused THEN blocked[g] + 1 ELSE blocked[g]
<1>6. CASE Works(pc)
         /\ marked' = (IF machine.textDebug THEN marked \cup {g} ELSE marked)
         /\ blocked' = [blocked EXCEPT ![g] = count]
  <2>1. count \in Nat
    BY <1>1
  <2>2. /\ blocked' \in [Gops -> Nat] /\ blocked'[g] = count
        /\ \A o \in Gops \ {g} : blocked'[o] = blocked[o]
    <3> HIDE DEF count
    <3> QED
      BY <1>1, <1>6, <2>1
  <2>3. faults' = faults
    BY <1>6 DEF Works
  <2>4. \A o \in Gops \ {g} :
            /\ o \notin marked' => blocked'[o] = 0 /\ (machine'.textDebug => opens'[o] <= faults')
            /\ o \in marked' =>
                  machine'.textDebug /\ blocked'[o] = IF machine'.text THEN 1 ELSE 0
    <3>1. \A o \in Gops \ {g} : o \in marked' <=> o \in marked
      BY <1>6
    <3> QED
      BY <1>5, <2>2, <2>3, <3>1 DEF EfiInv, GopInv
  <2>5. CASE machine.textDebug
    <3>1. g \in marked'
      BY <1>6, <2>5
    <3>2. CASE g \in marked
      <4>1. count = blocked[g]
        BY <3>2 DEF Refuses
      <4>2. blocked'[g] = IF machine'.text THEN 1 ELSE 0
        BY <2>2, <3>2, <4>1 DEF EfiInv, GopInv
      <4> QED
        BY <1>1, <1>5, <1>6, <2>2, <2>4, <2>5, <3>1, <4>2 DEF GopInv
    <3>3. CASE g \notin marked
      <4>1. blocked[g] = 0
        BY <3>3 DEF EfiInv, GopInv
      <4>2. refused <=> machine.text
        BY <2>5, <3>3 DEF Refuses
      <4>3. count = IF machine.text THEN 1 ELSE 0
        BY <4>1, <4>2
      <4>4. blocked'[g] = IF machine'.text THEN 1 ELSE 0
        BY <2>2, <4>3
      <4> QED
        BY <1>1, <1>5, <1>6, <2>2, <2>4, <2>5, <3>1, <4>4 DEF GopInv
    <3> QED
      BY <3>2, <3>3
  <2>6. CASE ~machine.textDebug
    <3>1. marked' = marked /\ count = blocked[g]
      BY <1>6, <2>6
    <3>2. g \notin marked
      BY <2>6 DEF EfiInv, GopInv
    <3>3. blocked'[g] = 0
      BY <2>2, <3>1, <3>2 DEF EfiInv, GopInv
    <3> QED
      BY <1>1, <1>5, <2>2, <2>4, <2>6, <3>1, <3>2, <3>3 DEF GopInv
  <2> QED
    BY <2>5, <2>6
<1>7. CASE Fails(pc) /\ UNCHANGED <<marked, blocked>>
  <2>1. faults' = faults + 1
    BY <1>7 DEF Fails, Failed
  <2>2. \A o \in Gops : o \notin marked /\ machine.textDebug => opens'[o] <= faults'
    <3>1. \A o \in Gops : o \notin marked /\ machine.textDebug => opens[o] <= faults
      BY DEF EfiInv, GopInv
    <3> QED
      BY <1>1, <1>5, <2>1, <3>1
  <2> QED
    BY <1>1, <1>5, <1>7, <2>2 DEF EfiInv, GopInv
<1> QED
  BY <1>6, <1>7 DEF OpenGop

LEMMA OpenGopInv == EfiInv /\ (\E g \in Gops : OpenGop(g)) => EfiInv'
<1> SUFFICES ASSUME EfiInv, NEW g \in Gops, OpenGop(g) PROVE EfiInv'
  OBVIOUS
<1>1. /\ UNCHANGED <<machine, console, textmode, initrd, installed, image>>
      /\ pc = "running" /\ pc' = "running" /\ Counted
  BY DEF OpenGop, Counted, Works, Fails, Failed
<1>2. textmode = machine.text
  BY <1>1 DEF EfiInv, ScreenInv, AfterLine, Phases, Ended
<1>3. MachineInv'
  BY <1>1, Calls DEF EfiInv, MachineInv
<1>4. ScreenInv'
  BY <1>1, StillFailed DEF EfiInv, ScreenInv
<1>5. (FromMedia \/ FromFile)'
  BY <1>1, SourceKept DEF EfiInv, InitrdInv, Loaded
<1>6. InitrdInv'
  BY <1>1, <1>5 DEF EfiInv, InitrdInv, Fits, Loaded
<1>7. DeviceInv'
  BY <1>1 DEF EfiInv, DeviceInv
<1>8. GopInv'
  BY <1>1, <1>2, OpenGopGopInv
<1> QED
  BY <1>3, <1>4, <1>6, <1>7, <1>8 DEF EfiInv

-----------------------------------------------------------------------------
(* What the machine is left with, whatever it is and whatever fails.       *)

\* The invariant: the screen, the initrd, the devices and the outputs.
THEOREM EfiInvariant == Spec => []EfiInv
<1>1. EfiInv /\ [Next]_vars => EfiInv'
  <2> SUFFICES ASSUME EfiInv, [Next]_vars PROVE EfiInv'
    OBVIOUS
  <2>1. CASE Entry
    BY <2>1, EntryInv
  <2>2. CASE CmdLine
    BY <2>2, CmdLineInv
  <2>3. CASE Disks
    BY <2>3, DisksInv
  <2>4. CASE LoadInitrd
    BY <2>4, Lf2LocateInv, Lf2SizeInv, Lf2ReadInv, SfsOpenInv, SfsReadInv, ExtractInv
       DEF LoadInitrd
  <2>5. CASE Boot
    BY <2>5, InstallDiskInv, InstallPartitionInv, LoadImageInv, StartImageInv DEF Boot
  <2>6. CASE BootmgrReturns \/ KeyPress
    BY <2>6, EndInv
  <2>7. CASE \E g \in Gops : OpenGop(g)
    BY <2>7, OpenGopInv
  <2>8. CASE UNCHANGED vars
    BY <2>8, StutterInv
  <2> QED
    BY <2>1, <2>2, <2>3, <2>4, <2>5, <2>6, <2>7, <2>8 DEF Next, Loader
<1> QED
  BY <1>1, InitInv, PTL DEF Spec

\* The boot manager is started only with both devices and itself on the partition,
\* and an initrd that fits unless its length cannot be rounded up in a UINTN: the
\* media's if there is one, or the whole file unless a call failed or its size is no
\* UINTN.  The screen is as asked unless a call failed (efi_extract, efi_install,
\* efi_boot).
THEOREM BootStateHolds == Spec => []BootState
<1>1. EfiInv => BootState
  <2> SUFFICES ASSUME EfiInv, pc = "running"
               PROVE  /\ installed = {"vdisk", "vpartition"}
                      /\ image = [bytes |-> "bootmgr", device |-> "vpartition"]
                      /\ machine.console /\ faults = 0 =>
                            console = IF machine.text THEN "text" ELSE "graphics"
                      /\ initrd.len > 0 /\ (initrd.len <= initrd.room \/ initrd.room = 0)
                      /\ \/ initrd.from = "media" /\ initrd.len = machine.lf2.read
                         \/ /\ initrd.from = "file" /\ machine.file.kind = "file"
                            /\ machine.lf2.present => faults > 0
                            /\ Part => faults > 0 \/ machine.file.size >= machine.uintn
    BY DEF BootState
  <2>1. installed = {"vdisk", "vpartition"}
        /\ image = [bytes |-> "bootmgr", device |-> "vpartition"]
    BY DEF EfiInv, DeviceInv
  <2>2. machine.console /\ faults = 0 => console = IF machine.text THEN "text" ELSE "graphics"
    BY DEF EfiInv, ScreenInv, AfterLine, Phases, Ended
  <2>3. initrd.len > 0 /\ (initrd.len <= initrd.room \/ initrd.room = 0) /\ (FromMedia \/ FromFile)
    BY DEF EfiInv, InitrdInv, Loaded, Fits
  <2>4. faults # 0 => faults > 0
    BY DEF EfiInv, MachineInv
  <2> QED
    BY <2>1, <2>2, <2>3, <2>4 DEF FromMedia, FromFile
<1> QED
  BY <1>1, EfiInvariant, PTL

\* In text mode the boot manager is refused each graphics output exactly once,
\* however often it asks and whatever fails (efi_open_protocol_wrapper).
THEOREM RefusedOnceHolds == Spec => []RefusedOnce
<1>1. EfiInv => RefusedOnce
  <2> SUFFICES ASSUME EfiInv, NEW g \in Gops
               PROVE  /\ blocked[g] <= 1
                      /\ opens[g] > faults =>
                            blocked[g] = IF machine.textDebug /\ machine.text THEN 1 ELSE 0
    BY DEF RefusedOnce
  <2>1. faults \in Nat /\ opens[g] \in Nat
    BY DEF EfiInv, MachineInv, GopInv
  <2>2. CASE g \in marked
    <3>1. machine.textDebug /\ blocked[g] = IF machine.text THEN 1 ELSE 0
      BY <2>2 DEF EfiInv, GopInv
    <3> QED
      BY <3>1
  <2>3. CASE g \notin marked
    <3>1. blocked[g] = 0 /\ (machine.textDebug => opens[g] <= faults)
      BY <2>3 DEF EfiInv, GopInv
    <3>2. opens[g] <= faults => ~(opens[g] > faults)
      BY <2>1
    <3>3. blocked[g] <= 1
      BY <3>1
    <3> QED
      BY <3>1, <3>2, <3>3
  <2> QED
    BY <2>2, <2>3
<1> QED
  BY <1>1, EfiInvariant, PTL

-----------------------------------------------------------------------------
(* The types: lists of handles and devices within the buffer of the        *)
(* firmware, and the device in progress within the list.                   *)

FirmwareHandles == UNION {Range(m.handles) : m \in Machines}
HandleSet == FirmwareHandles \cup {Stale}
DeviceSet ==
    [path : {h.path : h \in HandleSet}, media : {h.media : h \in HandleSet}, ldp : BOOLEAN]

\* The handles there is room for.
HandleLimit == IF Len(machine.handles) > HandleRoom THEN Len(machine.handles) ELSE HandleRoom

\* No handle is looked at before the firmware has listed them.
ListInv ==
    /\ machine \in Machines
    /\ todo \in Seq(HandleSet)
    /\ found.devices \in Seq(DeviceSet)
    /\ found = [devices |-> found.devices, hd |-> found.hd, cd |-> found.cd]
    /\ pc \in {"entry", "cmdline", "locate"} => Len(todo) = 0 /\ Len(found.devices) = 0
    /\ Len(todo) + Len(found.devices) <= HandleLimit
    /\ d \in 1..(Len(found.devices) + 1)

FaultsInv == faults \in 0..machine.maxFaults
ModesInv == console \in {"text", "graphics"} /\ textmode \in BOOLEAN
PagesInv == initrd.room % PageSize = 0
OpensInv == opens \in [Gops -> 0..MaxOpens] /\ \A g \in Gops : blocked[g] <= opens[g]

EfiTypes == ListInv /\ FaultsInv /\ ModesInv /\ PagesInv /\ OpensInv

LEMMA HandlesTyped ==
    ASSUME NEW m \in Machines
    PROVE  /\ m.handles \in Seq(HandleSet) /\ Len(m.handles) \in Nat
           /\ m.maxFaults \in Nat /\ m.text \in BOOLEAN
<1>1. m.handles \in Seq(Range(m.handles)) /\ m.maxFaults \in Nat /\ m.text \in BOOLEAN
  BY MachinesAssumption
<1>2. Range(m.handles) \subseteq HandleSet
  BY DEF HandleSet, FirmwareHandles
<1> QED
  BY <1>1, <1>2

\* A buffer without handles holds what was there before.
LEMMA StaleList ==
    ASSUME NEW n \in Nat
    PROVE  [i \in 1..n |-> Stale] \in Seq(HandleSet) /\ Len([i \in 1..n |-> Stale]) = n
<1>1. Stale \in HandleSet
  BY DEF HandleSet
<1> QED
  BY <1>1

LEMMA DeviceTyped ==
    ASSUME NEW h \in HandleSet
    PROVE  Device(h) \in DeviceSet
  BY DEF Device, DeviceSet

\* That a device is used changes neither the list nor what else is known of it.
LEMMA UseTyped ==
    ASSUME NEW devices \in Seq(DeviceSet), NEW S
    PROVE  Use(devices, S) \in Seq(DeviceSet) /\ Len(Use(devices, S)) = Len(devices)
<1>1. DOMAIN devices = 1..Len(devices) /\ Len(devices) \in Nat
  OBVIOUS
<1>2. \A i \in 1..Len(devices) :
        (IF i \in S THEN [devices[i] EXCEPT !.ldp = FALSE] ELSE devices[i]) \in DeviceSet
  <2>1. \A e \in DeviceSet : [e EXCEPT !.ldp = FALSE] \in DeviceSet
    BY DEF DeviceSet
  <2> QED
    BY <1>1, <2>1
<1>3. Use(devices, S) =
        [i \in 1..Len(devices) |-> IF i \in S THEN [devices[i] EXCEPT !.ldp = FALSE] ELSE devices[i]]
  BY <1>1 DEF Use
<1> QED
  BY <1>1, <1>2, <1>3

\* Neither loop of name_devices adds a device or takes one away.
Kept(st, new) ==
    /\ new.devices \in Seq(DeviceSet) /\ Len(new.devices) = Len(st.devices)
    /\ new = [devices |-> new.devices, hd |-> new.hd, cd |-> new.cd]

LEMMA NamesKeep ==
    ASSUME NEW st, NEW n, st.devices \in Seq(DeviceSet),
           st = [devices |-> st.devices, hd |-> st.hd, cd |-> st.cd]
    PROVE  Kept(st, ByMedia(st, n)) /\ Kept(st, ByHeuristics(st, n))
<1>1. Kept(st, st)
  BY DEF Kept
<1>2. Kept(st, ByMedia(st, n))
  <2> DEFINE dev == st.devices[n]
             node == Last(dev.path)
             parent == FindParent(st.devices, n)
             disk == st.devices[parent].path
             one == Use(st.devices, {n})
             two == Use(st.devices, {n, parent})
             hd == IF HardDrive(node) THEN AddDevice(st.hd, disk) ELSE st.hd
             cd == IF HardDrive(node) THEN st.cd ELSE AddDevice(st.cd, disk)
  <2>1. \/ ByMedia(st, n) = st
        \/ ByMedia(st, n) = [st EXCEPT !.devices = one]
        \/ ByMedia(st, n) = [devices |-> two, hd |-> hd, cd |-> cd]
    BY DEF ByMedia
  <2>2. /\ one \in Seq(DeviceSet) /\ Len(one) = Len(st.devices)
        /\ two \in Seq(DeviceSet) /\ Len(two) = Len(st.devices)
    BY UseTyped
  <2> HIDE DEF one, two, hd, cd
  <2>3. [st EXCEPT !.devices = one] = [devices |-> one, hd |-> st.hd, cd |-> st.cd]
    OBVIOUS
  <2>4. Kept(st, [devices |-> one, hd |-> st.hd, cd |-> st.cd])
    BY <2>2 DEF Kept
  <2>5. Kept(st, [devices |-> two, hd |-> hd, cd |-> cd])
    BY <2>2 DEF Kept
  <2> QED
    BY <1>1, <2>1, <2>3, <2>4, <2>5
<1>3. Kept(st, ByHeuristics(st, n))
  <2> DEFINE cd == AddDevice(st.cd, st.devices[n].path)
             hd == AddDevice(st.hd, st.devices[n].path)
  <2>1. \/ ByHeuristics(st, n) = st
        \/ ByHeuristics(st, n) = [st EXCEPT !.cd = cd]
        \/ ByHeuristics(st, n) = [st EXCEPT !.hd = hd]
    BY DEF ByHeuristics
  <2> HIDE DEF cd, hd
  <2>2. /\ [st EXCEPT !.cd = cd] = [devices |-> st.devices, hd |-> st.hd, cd |-> cd]
        /\ [st EXCEPT !.hd = hd] = [devices |-> st.devices, hd |-> hd, cd |-> st.cd]
    OBVIOUS
  <2>3. /\ Kept(st, [devices |-> st.devices, hd |-> st.hd, cd |-> cd])
        /\ Kept(st, [devices |-> st.devices, hd |-> hd, cd |-> st.cd])
    BY DEF Kept
  <2> QED
    BY <1>1, <2>1, <2>2, <2>3
<1> QED
  BY <1>2, <1>3

-----------------------------------------------------------------------------
(* Each part of the types, over every step.                                *)

\* Those steps that do not concern the disks leave their lists alone.
LEMMA ListsStay ==
    ASSUME ListInv, UNCHANGED <<machine, diskVars>>,
           pc' \in {"entry", "cmdline", "locate"} => pc \in {"entry", "cmdline", "locate"}
    PROVE  ListInv'
  BY DEF ListInv, diskVars, HandleLimit

LEMMA LocateLists == ListInv /\ LocateHandle => ListInv'
<1> SUFFICES ASSUME ListInv, LocateHandle PROVE ListInv'
  OBVIOUS
<1>1. /\ UNCHANGED <<machine, found, d>> /\ pc = "locate" /\ pc' \in {"make", "die"}
      /\ \/ todo' = machine.handles
         \/ todo' = [i \in 1..HandleRoom |-> Stale]
         \/ \E n \in {HandleRoom, Len(machine.handles)} : todo' = [i \in 1..n |-> Stale]
         \/ UNCHANGED todo
  BY DEF LocateHandle, Works, Fails, Failed
<1>2. /\ machine.handles \in Seq(HandleSet) /\ Len(machine.handles) \in Nat /\ HandleRoom \in Nat
      /\ todo \in Seq(HandleSet) /\ Len(todo) = 0 /\ Len(found.devices) = 0
  BY <1>1, HandlesTyped, EfiBootAssumption DEF ListInv
<1>3. todo' \in Seq(HandleSet) /\ Len(todo') \in {0, HandleRoom, Len(machine.handles)}
  BY <1>1, <1>2, StaleList
<1>4. Len(todo') + Len(found.devices) <= HandleLimit
  BY <1>2, <1>3 DEF HandleLimit
<1> QED
  BY <1>1, <1>3, <1>4 DEF ListInv, HandleLimit

LEMMA MakeLists == ListInv /\ MakeDevice => ListInv'
<1> SUFFICES ASSUME ListInv, MakeDevice PROVE ListInv'
  OBVIOUS
<1> DEFINE new == <<Device(Head(todo))>> \o found.devices
<1>1. /\ UNCHANGED <<machine, d>> /\ pc = "make" /\ pc' \in {"make", "die"}
      /\ todo # << >> /\ todo' = Tail(todo)
      /\ found' = [found EXCEPT !.devices = new] \/ UNCHANGED found
  BY DEF MakeDevice, Works, Fails, Failed
<1>2. /\ todo \in Seq(HandleSet) /\ found.devices \in Seq(DeviceSet)
      /\ Len(todo) \in Nat /\ Len(found.devices) \in Nat /\ HandleLimit \in Nat
      /\ Len(todo) + Len(found.devices) <= HandleLimit
      /\ found = [devices |-> found.devices, hd |-> found.hd, cd |-> found.cd]
  BY HandlesTyped, EfiBootAssumption DEF ListInv, HandleLimit
<1>3. /\ Head(todo) \in HandleSet /\ Tail(todo) \in Seq(HandleSet)
      /\ Len(Tail(todo)) = Len(todo) - 1 /\ Len(todo) > 0
  BY <1>1, <1>2
<1>4. Device(Head(todo)) \in DeviceSet
  BY <1>3, DeviceTyped
<1>5. new \in Seq(DeviceSet) /\ Len(new) = Len(found.devices) + 1
  BY <1>2, <1>4
<1> HIDE DEF new
<1>6. /\ found'.devices \in Seq(DeviceSet)
      /\ Len(found'.devices) \in {Len(found.devices), Len(found.devices) + 1}
      /\ found' = [devices |-> found'.devices, hd |-> found'.hd, cd |-> found'.cd]
  <2>1. CASE UNCHANGED found
    BY <1>2, <2>1
  <2>2. CASE found' = [found EXCEPT !.devices = new]
    <3>1. found' = [devices |-> new, hd |-> found.hd, cd |-> found.cd]
      BY <1>2, <2>2
    <3> QED
      BY <1>5, <3>1
  <2> QED
    BY <1>1, <2>1, <2>2
<1>7. d \in 1..(Len(found.devices) + 1)
  BY DEF ListInv
<1>8. /\ Len(todo') + Len(found'.devices) <= HandleLimit
      /\ d \in 1..(Len(found'.devices) + 1)
  BY <1>1, <1>2, <1>3, <1>6, <1>7
<1> QED
  BY <1>1, <1>3, <1>6, <1>8 DEF ListInv, HandleLimit

LEMMA NameLists == ListInv /\ (NameByMedia \/ NameByHeuristics) => ListInv'
<1> SUFFICES ASSUME ListInv, NameByMedia \/ NameByHeuristics PROVE ListInv'
  OBVIOUS
<1>1. /\ UNCHANGED <<machine, todo>> /\ pc \in {"media", "heuristics"}
      /\ pc' \in {"media", "heuristics", "lf2", "die"}
      /\ \/ /\ d <= Len(found.devices) /\ d' = d + 1
            /\ found' = ByMedia(found, d) \/ found' = ByHeuristics(found, d)
         \/ UNCHANGED found /\ (UNCHANGED d \/ d' = 1)
  BY DEF NameByMedia, NameByHeuristics, Works, Fails, Failed
<1>2. /\ found.devices \in Seq(DeviceSet) /\ Len(found.devices) \in Nat
      /\ found = [devices |-> found.devices, hd |-> found.hd, cd |-> found.cd]
      /\ d \in 1..(Len(found.devices) + 1)
  BY DEF ListInv
<1>3. Kept(found, ByMedia(found, d)) /\ Kept(found, ByHeuristics(found, d))
  BY <1>2, NamesKeep
<1>4. Kept(found, found)
  BY <1>2 DEF Kept
<1>5. Kept(found, found')
  BY <1>1, <1>3, <1>4
<1>6. d' \in 1..(Len(found.devices) + 1)
  BY <1>1, <1>2
<1> QED
  BY <1>1, <1>5, <1>6 DEF ListInv, HandleLimit, Kept

\* The steps after name_devices no longer touch the lists of disks.
LEMMA PastDisks ==
    ASSUME LoadInitrd \/ Boot \/ BootmgrReturns \/ KeyPress \/ \E g \in Gops : OpenGop(g)
    PROVE  /\ UNCHANGED <<machine, diskVars>>
           /\ pc' \in {"lf2 size", "lf2 read", "sfs", "sfs read", "extract", "install disk",
                      "install partition", "load", "start", "running", "die", "reset"}
<1>1. CASE LoadInitrd
  <2>1. /\ UNCHANGED <<machine, diskVars>>
        /\ pc' \in {"lf2 size", "lf2 read", "sfs", "sfs read", "extract", "install disk", "die"}
    <3>1. CASE Lf2Locate
      BY <3>1 DEF Lf2Locate, Works, Fails, Failed
    <3>2. CASE Lf2Size
      BY <3>2 DEF Lf2Size, AskFor, Works, Fails, Failed
    <3>3. CASE Lf2Read
      BY <3>3 DEF Lf2Read, Works, Fails, Failed
    <3>4. CASE SfsOpen
      BY <3>4 DEF SfsOpen, SfsSize, AskFor, Works, Fails, Failed
    <3>5. CASE SfsRead
      BY <3>5 DEF SfsRead, Works, Fails, Failed
    <3>6. CASE Extract
      BY <3>6 DEF Extract, Works
    <3> QED
      BY <1>1, <3>1, <3>2, <3>3, <3>4, <3>5, <3>6 DEF LoadInitrd
  <2> QED
    BY <2>1
<1>2. CASE Boot
  <2>1. /\ UNCHANGED <<machine, diskVars>>
        /\ pc' \in {"install partition", "load", "start", "running", "die"}
    <3>1. CASE InstallDisk
      BY <3>1 DEF InstallDisk, Works, Fails, Failed
    <3>2. CASE InstallPartition
      BY <3>2 DEF InstallPartition, Works, Fails, Failed
    <3>3. CASE LoadImage
      BY <3>3 DEF LoadImage, Works, Fails, Failed
    <3>4. CASE StartImage
      BY <3>4 DEF StartImage, SetTextMode, Works, Fails, Failed
    <3> QED
      BY <1>2, <3>1, <3>2, <3>3, <3>4 DEF Boot
  <2> QED
    BY <2>1
<1>3. CASE BootmgrReturns \/ KeyPress
  <2>1. UNCHANGED <<machine, diskVars>> /\ pc' \in {"die", "reset"}
    BY <1>3 DEF BootmgrReturns, KeyPress, Works
  <2> QED
    BY <2>1
<1>4. CASE \E g \in Gops : OpenGop(g)
  <2>1. UNCHANGED <<machine, diskVars>> /\ pc' = "running"
    BY <1>4 DEF OpenGop, Works, Fails, Failed
  <2> QED
    BY <2>1
<1> QED
  BY <1>1, <1>2, <1>3, <1>4

LEMMA NextLists == ListInv /\ [Next]_vars => ListInv'
<1> SUFFICES ASSUME ListInv, [Next]_vars PROVE ListInv'
  OBVIOUS
<1>1. CASE Entry \/ CmdLine
  <2>1. /\ UNCHANGED <<machine, diskVars>> /\ pc \in {"entry", "cmdline"}
    BY <1>1 DEF Entry, CmdLine
  <2> QED
    BY <2>1, ListsStay
<1>2. CASE LocateHandle
  BY <1>2, LocateLists
<1>3. CASE MakeDevice
  BY <1>3, MakeLists
<1>4. CASE MakeDone
  <2>1. UNCHANGED <<machine, diskVars>> /\ pc' \in {"lf2", "media"}
    BY <1>4 DEF MakeDone, Works
  <2> QED
    BY <2>1, ListsStay
<1>5. CASE NameByMedia \/ NameByHeuristics
  BY <1>5, NameLists
<1>6. CASE LoadInitrd \/ Boot \/ BootmgrReturns \/ KeyPress \/ \E g \in Gops : OpenGop(g)
  BY <1>6, PastDisks, ListsStay
<1>7. CASE UNCHANGED vars
  BY <1>7, ListsStay DEF vars, diskVars
<1> QED
  BY <1>1, <1>2, <1>3, <1>4, <1>5, <1>6, <1>7 DEF Next, Loader, Disks

-----------------------------------------------------------------------------
(* No more calls fail than may, and a step does one of these things to the *)
(* screen, the pages of the initrd and the graphics outputs.               *)

Tally ==
    /\ UNCHANGED machine
    /\ UNCHANGED faults \/ (faults < machine.maxFaults /\ faults' = faults + 1)
Screen ==
    /\ console' \in {console, "text", "graphics"}
    /\ textmode' \in {textmode, machine.text}
Pages ==
    \/ initrd'.room = initrd.room
    \/ \E size \in Nat : initrd'.room = Room(size)

LEMMA SetsMode ==
    ASSUME NEW on \in BOOLEAN, NEW next, SetTextMode(on, next)
    PROVE  /\ console' \in {console, "text", "graphics"}
           /\ UNCHANGED faults \/ (faults < machine.maxFaults /\ faults' = faults + 1)
  BY DEF SetTextMode, Works, Fails, Failed

LEMMA AskForPages ==
    ASSUME machine \in Machines, NEW size \in Nat, NEW start, NEW next, AskFor(size, start, next)
    PROVE  Pages
<1> DEFINE len == size % machine.uintn
<1>1. len \in Nat
  BY EfiBootAssumption, MachineTyped
<1>2. initrd' = [from |-> "none", start |-> start, len |-> len, room |-> Room(len)]
  BY DEF AskFor
<1> HIDE DEF len
<1>3. initrd'.room = Room(len)
  BY <1>2
<1> HIDE DEF AskFor
<1> QED
  BY <1>1, <1>3 DEF Pages

\* What was read is shorter, and its pages are the same.
LEMMA ReadPages ==
    ASSUME initrd \in Initrds, NEW source, NEW len,
           initrd' = [initrd EXCEPT !.from = source, !.len = len]
    PROVE  Pages
<1>1. initrd'.room = initrd.room
  BY DEF Initrds
<1> QED
  BY <1>1 DEF Pages

\* The steps up to the boot manager.
LEMMA LoaderSteps ==
    ASSUME EfiInv, Loader
    PROVE  Tally /\ Screen /\ Pages /\ UNCHANGED gopVars
<1> USE DEF Tally, Screen
<1>1. UNCHANGED initrd => Pages
  BY DEF Pages
<1>2. CASE Entry
  <2>1. SetTextMode(TRUE, "cmdline") /\ UNCHANGED initrd
    BY <1>2 DEF Entry
  <2> QED
    BY <1>1, <1>2, <2>1, SetsMode DEF Entry, bootVars
<1>3. CASE CmdLine
  BY <1>1, <1>3 DEF CmdLine, Works, Fails, Failed, bootVars
<1>4. CASE Disks
  <2>1. CASE LocateHandle
    BY <1>1, <2>1 DEF LocateHandle, Works, Fails, Failed, bootVars
  <2>2. CASE MakeDevice
    BY <1>1, <2>2 DEF MakeDevice, Works, Fails, Failed, bootVars
  <2>3. CASE MakeDone
    BY <1>1, <2>3 DEF MakeDone, Works, Fails, Failed, bootVars
  <2>4. CASE NameByMedia
    BY <1>1, <2>4 DEF NameByMedia, Works, Fails, Failed, bootVars
  <2>5. CASE NameByHeuristics
    BY <1>1, <2>5 DEF NameByHeuristics, Works, Fails, Failed, bootVars
  <2> QED
    BY <1>4, <2>1, <2>2, <2>3, <2>4, <2>5 DEF Disks
<1>5. CASE Lf2Locate
  BY <1>1, <1>5 DEF Lf2Locate, Works, Fails, Failed, bootVars
<1>6. CASE Lf2Size
  <2>1. machine \in Machines /\ machine.lf2.asked \in Nat
    BY MachineTyped DEF EfiInv, MachineInv
  <2>2. AskFor(machine.lf2.asked, 0, "lf2 read") \/ UNCHANGED initrd
    BY <1>6 DEF Lf2Size
  <2>3. Pages
    BY <1>1, <2>1, <2>2, AskForPages
  <2> QED
    BY <1>6, <2>3 DEF Lf2Size, Works, Fails, Failed, bootVars
<1>7. CASE Lf2Read
  <2>1. UNCHANGED initrd \/ initrd' = [initrd EXCEPT !.from = "media", !.len = machine.lf2.read]
    BY <1>7 DEF Lf2Read
  <2>2. Pages
    BY <1>1, <2>1, ReadPages DEF EfiInv, InitrdInv
  <2> QED
    BY <1>7, <2>2 DEF Lf2Read, Works, Fails, Failed, bootVars
<1>8. CASE SfsOpen
  <2>1. machine \in Machines /\ machine.file.size \in Nat /\ Garbage \subseteq Nat
    BY MachineTyped, EfiBootAssumption DEF EfiInv, MachineInv
  <2>2. UNCHANGED initrd \/ \E start : \E size \in Nat : AskFor(size, start, "sfs read")
    BY <1>8, <2>1 DEF SfsOpen, SfsSize
  <2>3. ASSUME NEW start, NEW size \in Nat, AskFor(size, start, "sfs read") PROVE Pages
    BY <2>1, <2>3, AskForPages
  <2>4. Pages
    BY <1>1, <2>2, <2>3
  <2> QED
    BY <1>8, <2>4 DEF SfsOpen, Works, Fails, Failed, bootVars
<1>9. CASE SfsRead
  <2>1. UNCHANGED initrd \/ \E source, len : initrd' = [initrd EXCEPT !.from = source, !.len = len]
    BY <1>9 DEF SfsRead
  <2>2. Pages
    BY <1>1, <2>1, ReadPages DEF EfiInv, InitrdInv
  <2> QED
    BY <1>9, <2>2 DEF SfsRead, Works, Fails, Failed, bootVars
<1>10. CASE Extract
  BY <1>1, <1>10 DEF Extract, Works, Fails, Failed, bootVars
<1>11. CASE Boot
  <2>1. CASE InstallDisk
    BY <1>1, <2>1 DEF InstallDisk, Works, Fails, Failed, bootVars
  <2>2. CASE InstallPartition
    BY <1>1, <2>2 DEF InstallPartition, Works, Fails, Failed, bootVars
  <2>3. CASE LoadImage
    BY <1>1, <2>3 DEF LoadImage, Works, Fails, Failed, bootVars
  <2>4. CASE StartImage
    <3>1. (Works("running") /\ UNCHANGED console) \/ SetTextMode(FALSE, "running")
      BY <2>4 DEF StartImage
    <3>2. /\ console' \in {console, "text", "graphics"}
          /\ UNCHANGED faults \/ (faults < machine.maxFaults /\ faults' = faults + 1)
      BY <3>1, SetsMode DEF Works
    <3> QED
      BY <1>1, <2>4, <3>2 DEF StartImage, bootVars
  <2> QED
    BY <1>11, <2>1, <2>2, <2>3, <2>4 DEF Boot
<1> QED
  BY <1>2, <1>3, <1>4, <1>5, <1>6, <1>7, <1>8, <1>9, <1>10, <1>11 DEF Loader, LoadInitrd

\* The steps of the boot manager and of the user.
LEMMA OtherSteps ==
    ASSUME BootmgrReturns \/ KeyPress \/ (\E g \in Gops : OpenGop(g)) \/ UNCHANGED vars
    PROVE  Tally /\ Screen /\ Pages
  BY DEF BootmgrReturns, KeyPress, OpenGop, Works, Fails, Failed, vars, Tally, Screen, Pages

\* Whole pages are whole.
LEMMA RoomWhole == ASSUME machine \in Machines, NEW n \in Nat PROVE Room(n) % PageSize = 0
<1> DEFINE sum == (n + PageSize - 1) % machine.uintn
           q == sum \div PageSize
<1>1. PageSize \in Nat /\ PageSize > 0 /\ n + PageSize - 1 \in Nat
      /\ machine.uintn \in Nat /\ machine.uintn > 0
  BY EfiBootAssumption, MachineTyped
<1>2. sum \in Nat
  BY <1>1, DivMod
<1>3. Room(n) = q * PageSize
  BY DEF Room
<1> HIDE DEF sum
<1>4. q \in Nat
  BY <1>1, <1>2, DivMod
<1> HIDE DEF q
<1>5. (q * PageSize + 0) % PageSize = 0
  BY <1>1, <1>4, ModOfMultiple
<1>6. q * PageSize + 0 = q * PageSize
  BY <1>1, <1>4, MulTypes
<1> QED
  BY <1>3, <1>5, <1>6

\* An output is opened at most MaxOpens times, and refused at most as often.
LEMMA OpenGopOpens ==
    ASSUME EfiInv, OpensInv, NEW g \in Gops, OpenGop(g)
    PROVE  OpensInv'
<1>1. /\ opens \in [Gops -> 0..MaxOpens] /\ blocked \in [Gops -> Nat] /\ MaxOpens \in Nat
      /\ \A o \in Gops : blocked[o] <= opens[o]
  BY EfiBootAssumption DEF EfiInv, GopInv, OpensInv
<1>2. opens' = [opens EXCEPT ![g] = opens[g] + 1] /\ opens[g] < MaxOpens
  BY DEF OpenGop
<1> DEFINE count == IF machine.textDebug /\ Refuses(g) THEN blocked[g] + 1 ELSE blocked[g]
<1>3. blocked' = [blocked EXCEPT ![g] = count] \/ UNCHANGED blocked
  BY DEF OpenGop
<1>4. count \in Nat /\ count <= blocked[g] + 1
  BY <1>1
<1> HIDE DEF count
<1>5. opens' \in [Gops -> 0..MaxOpens] /\ opens'[g] = opens[g] + 1
      /\ \A o \in Gops \ {g} : opens'[o] = opens[o]
  BY <1>1, <1>2
<1>6. blocked'[g] \in Nat /\ blocked'[g] <= blocked[g] + 1
      /\ \A o \in Gops \ {g} : blocked'[o] = blocked[o]
  BY <1>1, <1>3, <1>4
<1>7. blocked'[g] <= opens'[g]
  BY <1>1, <1>5, <1>6
<1> QED
  BY <1>1, <1>5, <1>6, <1>7 DEF OpensInv

LEMMA NextTypes == EfiInv /\ EfiTypes /\ [Next]_vars => EfiTypes'
<1> SUFFICES ASSUME EfiInv, EfiTypes, [Next]_vars PROVE EfiTypes'
  OBVIOUS
<1>1. Tally /\ Screen /\ Pages
  BY LoaderSteps, OtherSteps DEF Next
<1>2. ListInv'
  BY NextLists DEF EfiTypes
<1>3. machine.maxFaults \in Nat /\ machine.text \in BOOLEAN
  BY HandlesTyped DEF EfiInv, MachineInv
<1>4. FaultsInv'
  BY <1>1, <1>3 DEF EfiTypes, FaultsInv, Tally
<1>5. ModesInv'
  BY <1>1, <1>3 DEF EfiTypes, ModesInv, Screen
<1>6. PagesInv'
  BY <1>1, RoomWhole DEF EfiInv, MachineInv, EfiTypes, PagesInv, Pages
<1>7. OpensInv'
  <2>1. CASE \E g \in Gops : OpenGop(g)
    BY <2>1, OpenGopOpens DEF EfiTypes
  <2>2. CASE Loader \/ BootmgrReturns \/ KeyPress \/ UNCHANGED vars
    <3>1. UNCHANGED gopVars
      BY <2>2, LoaderSteps DEF BootmgrReturns, KeyPress, bootVars, vars, gopVars
    <3> QED
      BY <3>1 DEF EfiTypes, OpensInv, gopVars
  <2> QED
    BY <2>1, <2>2 DEF Next
<1> QED
  BY <1>2, <1>4, <1>5, <1>6, <1>7 DEF EfiTypes

LEMMA InitTypes == Init => EfiTypes
<1> SUFFICES ASSUME Init PROVE EfiTypes
  OBVIOUS
<1>1. machine \in Machines /\ machine.maxFaults \in Nat /\ Len(machine.handles) \in Nat
      /\ HandleRoom \in Nat /\ MaxOpens \in Nat /\ PageSize \in Nat /\ PageSize > 0
  BY HandlesTyped, EfiBootAssumption DEF Init
<1>2. ListInv
  <2>1. todo = << >> /\ found = [devices |-> << >>, hd |-> << >>, cd |-> << >>] /\ d = 1
    BY DEF Init
  <2> QED
    BY <1>1, <2>1 DEF ListInv, HandleLimit
<1>3. FaultsInv /\ ModesInv
  <2>1. faults = 0 /\ console \in {"text", "graphics"} /\ textmode = FALSE
    BY DEF Init
  <2>2. FaultsInv
    BY <1>1, <2>1 DEF FaultsInv
  <2>3. ModesInv
    BY <2>1, Zenon DEF ModesInv
  <2> QED
    BY <2>2, <2>3
<1>4. PagesInv
  <2>1. initrd.room = 0
    BY DEF Init, NoInitrd
  <2>2. 0 % PageSize = 0
    BY <1>1, ModSmall
  <2> QED
    BY <2>1, <2>2 DEF PagesInv
<1>5. OpensInv
  BY <1>1 DEF Init, OpensInv
<1> QED
  BY <1>2, <1>3, <1>4, <1>5 DEF EfiTypes

\* Every variable has its type, whatever the firmware shows and refuses: the
\* lists of make_devices stay within the handles there is room for, and
\* name_devices within the devices (locate_handle, make_devices, name_devices).
THEOREM EfiTyped == Spec => []TypeOK
<1>1. EfiInv /\ EfiTypes => TypeOK
  <2> SUFFICES ASSUME EfiInv, EfiTypes PROVE TypeOK
    OBVIOUS
  <2>1. pc \in Phases /\ faults \in 0..machine.maxFaults
        /\ console \in {"text", "graphics"} /\ textmode \in BOOLEAN
    BY DEF EfiInv, MachineInv, EfiTypes, FaultsInv, ModesInv
  <2>2. /\ Len(todo) + Len(found.devices) <=
              (IF Len(machine.handles) > HandleRoom THEN Len(machine.handles) ELSE HandleRoom)
        /\ d \in 1..(Len(found.devices) + 1)
    BY DEF EfiTypes, ListInv, HandleLimit
  <2>3. initrd.len \in Nat /\ initrd.room % PageSize = 0
    BY DEF EfiInv, InitrdInv, Initrds, EfiTypes, PagesInv
  <2>4. installed \subseteq {"vdisk", "vpartition"} /\ marked \subseteq Gops
        /\ opens \in [Gops -> 0..MaxOpens] /\ \A g \in Gops : blocked[g] <= opens[g]
    BY DEF EfiInv, DeviceInv, GopInv, EfiTypes, OpensInv
  <2> QED
    BY <2>1, <2>2, <2>3, <2>4 DEF TypeOK
<1>2. EfiInv /\ EfiTypes /\ EfiInv' /\ [Next]_vars => EfiTypes'
  BY NextTypes
<1> QED
  BY <1>1, <1>2, InitTypes, EfiInvariant, PTL DEF Spec

-----------------------------------------------------------------------------
(* compare_device_paths is a total order, and so is the order of the lists *)
(* of disks.                                                               *)

\* Two nodes are equal, or one comes first.
LEMMA NodesOrdered ==
    ASSUME NEW m \in Nodes, NEW n \in Nodes
    PROVE  /\ CompareNodes(m, n) \in Int
           /\ CompareNodes(m, n) = 0 <=> m = n
           /\ CompareNodes(m, n) > 0 <=> CompareNodes(n, m) < 0
<1>1. /\ m[1] \in Int /\ m[2] \in Int /\ m[3] \in Int /\ m[4] \in Int /\ m = <<m[1], m[2], m[3], m[4]>>
      /\ n[1] \in Int /\ n[2] \in Int /\ n[3] \in Int /\ n[4] \in Int /\ n = <<n[1], n[2], n[3], n[4]>>
  BY DEF Nodes
<1>2. m = n <=> m[1] = n[1] /\ m[2] = n[2] /\ m[3] = n[3] /\ m[4] = n[4]
  BY <1>1
<1>3. CompareNodes(m, n) \in Int /\ (CompareNodes(m, n) > 0 <=> CompareNodes(n, m) < 0)
  BY <1>1 DEF CompareNodes
<1>4. CompareNodes(m, n) = 0 <=> m[1] = n[1] /\ m[2] = n[2] /\ m[3] = n[3] /\ m[4] = n[4]
  BY <1>1 DEF CompareNodes
<1> QED
  BY <1>2, <1>3, <1>4

\* The order of nodes is transitive.
LEMMA NodesTransitive ==
    ASSUME NEW l \in Nodes, NEW m \in Nodes, NEW n \in Nodes,
           CompareNodes(l, m) < 0, CompareNodes(m, n) < 0
    PROVE  CompareNodes(l, n) < 0
<1>1. /\ l[1] \in Int /\ l[2] \in Int /\ l[3] \in Int /\ l[4] \in Int
      /\ m[1] \in Int /\ m[2] \in Int /\ m[3] \in Int /\ m[4] \in Int
      /\ n[1] \in Int /\ n[2] \in Int /\ n[3] \in Int /\ n[4] \in Int
  BY DEF Nodes
<1> QED
  BY <1>1 DEF CompareNodes

\* The first node in which two paths differ, with their end nodes.
WithEnd(p) == Append(p, EndNode)
DifferAt(p, q, k) ==
    /\ k \in DOMAIN WithEnd(p) \cap DOMAIN WithEnd(q) /\ WithEnd(p)[k] # WithEnd(q)[k]
    /\ \A j \in 1..(k - 1) : WithEnd(p)[j] = WithEnd(q)[j]

\* A path with its end node: its own nodes, none of which is an end node, then that.
LEMMA EndedPath ==
    ASSUME NEW p \in Paths
    PROVE  /\ Len(p) \in Nat /\ DOMAIN WithEnd(p) = 1..(Len(p) + 1) /\ DOMAIN p = 1..Len(p)
           /\ \A k \in 1..Len(p) : WithEnd(p)[k] = p[k] /\ p[k] \in Nodes /\ p[k] # EndNode
           /\ WithEnd(p)[Len(p) + 1] = EndNode
           /\ \A k \in 1..(Len(p) + 1) : WithEnd(p)[k] \in Nodes
<1>1. EndNode \in Nodes
  BY DEF EndNode, Nodes
<1>2. p \in Seq(Nodes) /\ Len(p) \in Nat /\ DOMAIN p = 1..Len(p)
  BY DEF Paths
<1>3. WithEnd(p) \in Seq(Nodes) /\ Len(WithEnd(p)) = Len(p) + 1
  BY <1>1, <1>2 DEF WithEnd
<1>4. (\A k \in 1..Len(p) : WithEnd(p)[k] = p[k]) /\ WithEnd(p)[Len(p) + 1] = EndNode
  BY <1>2 DEF WithEnd
<1>5. \A k \in 1..Len(p) : p[k] \in Nodes /\ p[k] # EndNode
  BY <1>2 DEF Paths
<1> QED
  BY <1>2, <1>3, <1>4, <1>5

\* The first node in which two paths differ decides which comes first.
LEMMA PartsCompare ==
    ASSUME NEW p \in Paths, NEW q \in Paths, NEW k, DifferAt(p, q, k)
    PROVE  ComparePaths(p, q) = CompareNodes(WithEnd(p)[k], WithEnd(q)[k])
<1> DEFINE differ == {i \in DOMAIN WithEnd(p) \cap DOMAIN WithEnd(q) : WithEnd(p)[i] # WithEnd(q)[i]}
           First1(i) == i \in differ /\ \A j \in differ : i <= j
<1>1. k \in differ /\ differ \subseteq Nat
  BY EndedPath DEF DifferAt
<1>2. \A j \in differ : k <= j
  <2> SUFFICES ASSUME NEW j \in differ PROVE k <= j
    OBVIOUS
  <2>1. j \in Nat /\ k \in Nat /\ j >= 1
    BY EndedPath, <1>1
  <2>2. ~(j \in 1..(k - 1))
    BY DEF DifferAt
  <2> QED
    BY <2>1, <2>2
<1>3. \A i \in differ : (\A j \in differ : i <= j) => i = k
  BY <1>1, <1>2
<1>4. (CHOOSE i \in differ : \A j \in differ : i <= j) = k
  BY <1>1, <1>2, <1>3
<1>5. differ # {}
  BY <1>1
<1> QED
  BY <1>4, <1>5 DEF ComparePaths, WithEnd

\* Different paths differ in some node, if only where one of them ends.
LEMMA PathsPart ==
    ASSUME NEW p \in Paths, NEW q \in Paths, p # q
    PROVE  \E k \in Nat : DifferAt(p, q, k)
<1> DEFINE differ == {i \in DOMAIN WithEnd(p) \cap DOMAIN WithEnd(q) : WithEnd(p)[i] # WithEnd(q)[i]}
<1>1. differ \subseteq Nat
  BY EndedPath
<1>2. differ # {}
  <2> SUFFICES ASSUME differ = {} PROVE FALSE
    OBVIOUS
  <2>1. \A i \in (1..(Len(p) + 1)) \cap (1..(Len(q) + 1)) : WithEnd(p)[i] = WithEnd(q)[i]
    BY EndedPath
  <2>2. ~(Len(p) < Len(q))
    <3> SUFFICES ASSUME Len(p) < Len(q) PROVE FALSE
      OBVIOUS
    <3>1. Len(p) + 1 \in (1..(Len(p) + 1)) \cap (1..(Len(q) + 1)) /\ Len(p) + 1 \in 1..Len(q)
      BY EndedPath
    <3>2. WithEnd(p)[Len(p) + 1] = WithEnd(q)[Len(p) + 1]
      BY <2>1, <3>1
    <3> QED
      BY <3>1, <3>2, EndedPath
  <2>3. ~(Len(q) < Len(p))
    <3> SUFFICES ASSUME Len(q) < Len(p) PROVE FALSE
      OBVIOUS
    <3>1. Len(q) + 1 \in (1..(Len(p) + 1)) \cap (1..(Len(q) + 1)) /\ Len(q) + 1 \in 1..Len(p)
      BY EndedPath
    <3>2. WithEnd(p)[Len(q) + 1] = WithEnd(q)[Len(q) + 1]
      BY <2>1, <3>1
    <3> QED
      BY <3>1, <3>2, EndedPath
  <2>4. Len(p) = Len(q) /\ Len(p) \in Nat
    BY <2>2, <2>3, EndedPath
  <2>5. \A i \in 1..Len(p) : p[i] = q[i]
    <3> SUFFICES ASSUME NEW i \in 1..Len(p) PROVE p[i] = q[i]
      OBVIOUS
    <3>1. i \in (1..(Len(p) + 1)) \cap (1..(Len(q) + 1))
      BY <2>4
    <3>2. WithEnd(p)[i] = p[i] /\ WithEnd(q)[i] = q[i]
      BY <2>4, EndedPath
    <3> QED
      BY <2>1, <3>1, <3>2
  <2>6. p = q
    BY <2>4, <2>5 DEF Paths
  <2> QED
    BY <2>6
<1>3. PICK k \in differ : \A j \in differ : k <= j
  BY <1>1, <1>2, LeastNatural
<1>4. k \in Nat /\ k \in DOMAIN WithEnd(p) \cap DOMAIN WithEnd(q) /\ WithEnd(p)[k] # WithEnd(q)[k]
  BY <1>1, <1>3
<1>5. \A j \in 1..(k - 1) : WithEnd(p)[j] = WithEnd(q)[j]
  <2> SUFFICES ASSUME NEW j \in 1..(k - 1) PROVE WithEnd(p)[j] = WithEnd(q)[j]
    OBVIOUS
  <2>1. j \in DOMAIN WithEnd(p) \cap DOMAIN WithEnd(q)
    BY <1>4, EndedPath
  <2>2. ~(k <= j) /\ j \in Nat
    BY <1>4
  <2>3. j \notin differ
    BY <1>3, <2>2
  <2> QED
    BY <2>1, <2>3
<1> QED
  BY <1>4, <1>5 DEF DifferAt

\* Two paths are equal, or one comes first.
LEMMA PathsOrdered ==
    ASSUME NEW p \in Paths, NEW q \in Paths
    PROVE  /\ ComparePaths(p, q) \in Int
           /\ ComparePaths(p, q) = 0 <=> p = q
           /\ ComparePaths(p, q) > 0 <=> ComparePaths(q, p) < 0
<1>1. CASE p = q
  <2>1. {i \in DOMAIN WithEnd(p) \cap DOMAIN WithEnd(q) : WithEnd(p)[i] # WithEnd(q)[i]} = {}
    BY <1>1
  <2>2. ComparePaths(p, q) = 0
    BY <2>1 DEF ComparePaths, WithEnd
  <2> QED
    BY <1>1, <2>2
<1>2. CASE p # q
  <2>1. PICK k \in Nat : DifferAt(p, q, k)
    BY <1>2, PathsPart
  <2>2. DifferAt(q, p, k)
    BY <2>1 DEF DifferAt
  <2>3. /\ ComparePaths(p, q) = CompareNodes(WithEnd(p)[k], WithEnd(q)[k])
        /\ ComparePaths(q, p) = CompareNodes(WithEnd(q)[k], WithEnd(p)[k])
    BY <2>1, <2>2, PartsCompare
  <2>4. WithEnd(p)[k] \in Nodes /\ WithEnd(q)[k] \in Nodes /\ WithEnd(p)[k] # WithEnd(q)[k]
    BY <2>1, EndedPath DEF DifferAt
  <2> QED
    BY <1>2, <2>3, <2>4, NodesOrdered
<1> QED
  BY <1>1, <1>2

\* The order of paths is transitive.
LEMMA PathsTransitive ==
    ASSUME NEW p \in Paths, NEW q \in Paths, NEW r \in Paths,
           ComparePaths(p, q) < 0, ComparePaths(q, r) < 0
    PROVE  ComparePaths(p, r) < 0
<1>1. p # q /\ q # r
  BY PathsOrdered
<1>2. PICK k \in Nat : DifferAt(p, q, k)
  BY <1>1, PathsPart
<1>3. PICK l \in Nat : DifferAt(q, r, l)
  BY <1>1, PathsPart
<1>4. CompareNodes(WithEnd(p)[k], WithEnd(q)[k]) < 0 /\ CompareNodes(WithEnd(q)[l], WithEnd(r)[l]) < 0
  BY <1>2, <1>3, PartsCompare
<1>5. /\ k \in 1..(Len(p) + 1) /\ k \in 1..(Len(q) + 1) /\ l \in 1..(Len(q) + 1) /\ l \in 1..(Len(r) + 1)
      /\ Len(p) \in Nat /\ Len(q) \in Nat /\ Len(r) \in Nat
  BY <1>2, <1>3, EndedPath DEF DifferAt
<1> DEFINE n == IF k <= l THEN k ELSE l
<1>6. n \in Nat /\ n <= k /\ n <= l /\ n \in 1..(Len(p) + 1) /\ n \in 1..(Len(q) + 1) /\ n \in 1..(Len(r) + 1)
  BY <1>5
<1>7. WithEnd(p)[n] \in Nodes /\ WithEnd(q)[n] \in Nodes /\ WithEnd(r)[n] \in Nodes
  BY <1>6, EndedPath
<1>8. \A j \in 1..(n - 1) : WithEnd(p)[j] = WithEnd(r)[j]
  <2> SUFFICES ASSUME NEW j \in 1..(n - 1) PROVE WithEnd(p)[j] = WithEnd(r)[j]
    OBVIOUS
  <2>1. j \in 1..(k - 1) /\ j \in 1..(l - 1)
    BY <1>6
  <2> QED
    BY <1>2, <1>3, <2>1 DEF DifferAt
<1>9. CompareNodes(WithEnd(p)[n], WithEnd(r)[n]) < 0
  <2>1. CASE k = l
    BY <1>4, <1>7, <2>1, NodesTransitive
  <2>2. CASE k < l
    <3>1. n = k /\ k \in 1..(l - 1)
      BY <1>5, <2>2
    <3>2. WithEnd(q)[k] = WithEnd(r)[k]
      BY <1>3, <3>1 DEF DifferAt
    <3> QED
      BY <1>4, <3>1, <3>2
  <2>3. CASE l < k
    <3>1. n = l /\ l \in 1..(k - 1)
      BY <1>5, <2>3
    <3>2. WithEnd(p)[l] = WithEnd(q)[l]
      BY <1>2, <3>1 DEF DifferAt
    <3> QED
      BY <1>4, <3>1, <3>2
  <2> QED
    BY <1>5, <2>1, <2>2, <2>3
<1> HIDE DEF n
<1>10. WithEnd(p)[n] # WithEnd(r)[n]
  <2>1. CompareNodes(WithEnd(p)[n], WithEnd(r)[n]) # 0
    BY <1>9
  <2> QED
    BY <1>7, <2>1, NodesOrdered
<1>11. DifferAt(p, r, n)
  BY <1>6, <1>8, <1>10, EndedPath DEF DifferAt
<1> QED
  BY <1>9, <1>11, PartsCompare

\* The paths of the disks: each has a last node.
DiskPaths == Paths \ {NoPath}

\* The last node of a path, as the list of nodes that add_device compares.
LEMMA LastNode ==
    ASSUME NEW p \in DiskPaths
    PROVE  /\ p \in Paths /\ Len(p) \in Nat \ {0} /\ Last(p) \in Nodes \ {EndNode}
           /\ <<Last(p)>> \in Paths
<1>1. p \in Seq(Nodes \ {EndNode}) /\ p # << >>
  BY DEF DiskPaths, Paths, NoPath
<1>2. Len(p) \in Nat \ {0} /\ Last(p) \in Nodes \ {EndNode}
  BY <1>1 DEF Last
<1> QED
  BY <1>1, <1>2 DEF Paths

\* One of two disks comes first in a list, unless they are the same.
LEMMA DisksOrdered ==
    ASSUME NEW p \in DiskPaths, NEW q \in DiskPaths
    PROVE  /\ CompareDisks(p, q) \in Int
           /\ CompareDisks(p, q) = 0 <=> p = q
           /\ CompareDisks(p, q) > 0 <=> CompareDisks(q, p) < 0
<1> DEFINE a == ComparePaths(<<Last(p)>>, <<Last(q)>>)
           b == ComparePaths(<<Last(q)>>, <<Last(p)>>)
           v == ComparePaths(p, q)
           w == ComparePaths(q, p)
<1>1. /\ a \in Int /\ b \in Int /\ (a > 0 <=> b < 0) /\ (b > 0 <=> a < 0)
      /\ a = 0 <=> <<Last(p)>> = <<Last(q)>>
  BY LastNode, PathsOrdered
<1>2. /\ v \in Int /\ w \in Int /\ (v > 0 <=> w < 0) /\ (w > 0 <=> v < 0)
      /\ v = 0 <=> p = q
  BY LastNode, PathsOrdered
<1>3. CompareDisks(p, q) = IF a # 0 THEN a ELSE v
  BY DEF CompareDisks
<1>4. CompareDisks(q, p) = IF b # 0 THEN b ELSE w
  BY DEF CompareDisks
<1>5. p = q => a = 0
  BY <1>1
<1> HIDE DEF a, b, v, w
<1> QED
  BY <1>1, <1>2, <1>3, <1>4, <1>5

\* The order of the lists of disks is transitive.
LEMMA DisksTransitive ==
    ASSUME NEW p \in DiskPaths, NEW q \in DiskPaths, NEW r \in DiskPaths,
           CompareDisks(p, q) < 0, CompareDisks(q, r) < 0
    PROVE  CompareDisks(p, r) < 0
<1> DEFINE a == ComparePaths(<<Last(p)>>, <<Last(q)>>)
           b == ComparePaths(<<Last(q)>>, <<Last(r)>>)
           c == ComparePaths(<<Last(p)>>, <<Last(r)>>)
<1>1. a \in Int /\ b \in Int /\ c \in Int /\ (a = 0 => <<Last(p)>> = <<Last(q)>>)
      /\ (b = 0 => <<Last(q)>> = <<Last(r)>>)
  BY LastNode, PathsOrdered
<1>2. CompareDisks(p, q) = IF a # 0 THEN a ELSE ComparePaths(p, q)
  BY DEF CompareDisks
<1>3. CompareDisks(q, r) = IF b # 0 THEN b ELSE ComparePaths(q, r)
  BY DEF CompareDisks
<1>4. CompareDisks(p, r) = IF c # 0 THEN c ELSE ComparePaths(p, r)
  BY DEF CompareDisks
<1>5. CASE a = 0 /\ b = 0
  <2>1. c = 0
    <3>1. <<Last(p)>> = <<Last(r)>>
      BY <1>1, <1>5
    <3> QED
      BY <3>1, LastNode, PathsOrdered
  <2>2. ComparePaths(p, r) < 0
    BY <1>2, <1>3, <1>5, LastNode, PathsTransitive
  <2> QED
    BY <1>4, <2>1, <2>2
<1>6. CASE a = 0 /\ b # 0
  <2>1. c = b
    BY <1>1, <1>6
  <2> QED
    BY <1>3, <1>4, <1>6, <2>1
<1>7. CASE a # 0 /\ b = 0
  <2>1. c = a
    BY <1>1, <1>7
  <2> QED
    BY <1>2, <1>4, <1>7, <2>1
<1>8. CASE a # 0 /\ b # 0
  <2>1. a < 0 /\ b < 0
    BY <1>2, <1>3, <1>8
  <2>2. c < 0
    BY <2>1, LastNode, PathsTransitive
  <2> QED
    BY <1>1, <1>4, <2>2
<1> QED
  BY <1>5, <1>6, <1>7, <1>8

\* Two lists, one behind the other.
LEMMA Joined ==
    ASSUME NEW S, NEW v \in Seq(S), NEW w \in Seq(S)
    PROVE  /\ v \o w \in Seq(S) /\ Len(v \o w) = Len(v) + Len(w)
           /\ \A k \in 1..Len(v) : (v \o w)[k] = v[k]
           /\ \A k \in (Len(v) + 1)..(Len(v) + Len(w)) : (v \o w)[k] = w[k - Len(v)]
  OBVIOUS

\* A list with an element more, at place i.
With(list, i, x) == SubSeq(list, 1, i - 1) \o <<x>> \o SubSeq(list, i, Len(list))

\* What was in front of the new element stays there, the rest moves by one.
LEMMA Inserted ==
    ASSUME NEW S, NEW list \in Seq(S), NEW i \in 1..(Len(list) + 1), NEW x \in S
    PROVE  /\ With(list, i, x) \in Seq(S) /\ Len(With(list, i, x)) = Len(list) + 1
           /\ With(list, i, x)[i] = x
           /\ \A k \in 1..(i - 1) : With(list, i, x)[k] = list[k]
           /\ \A k \in (i + 1)..(Len(list) + 1) : With(list, i, x)[k] = list[k - 1]
<1> DEFINE u == SubSeq(list, 1, i - 1)
           v == SubSeq(list, i, Len(list))
           one == <<x>>
           w == u \o one
           t == w \o v
<1>1. Len(list) \in Nat
  OBVIOUS
<1>2. u \in Seq(S) /\ Len(u) = i - 1 /\ \A k \in 1..(i - 1) : u[k] = list[k]
  BY <1>1
<1>3. v \in Seq(S) /\ Len(v) = Len(list) - i + 1 /\ \A k \in 1..(Len(list) - i + 1) : v[k] = list[i + k - 1]
  BY <1>1
<1>4. one \in Seq(S) /\ Len(one) = 1 /\ one[1] = x
  OBVIOUS
<1>5. With(list, i, x) = t
  BY DEF With
<1> HIDE DEF u, v, one
<1>6. w \in Seq(S) /\ Len(w) = i /\ w[i] = x /\ \A k \in 1..(i - 1) : w[k] = list[k]
  <2>1. /\ w \in Seq(S) /\ Len(w) = Len(u) + Len(one)
        /\ \A k \in 1..Len(u) : w[k] = u[k]
        /\ \A k \in (Len(u) + 1)..(Len(u) + Len(one)) : w[k] = one[k - Len(u)]
    BY <1>2, <1>4, Joined
  <2> HIDE DEF w
  <2>2. i \in (Len(u) + 1)..(Len(u) + Len(one)) /\ i - Len(u) = 1
    BY <1>1, <1>2, <1>4
  <2>3. w[i] = one[1]
    BY <2>1, <2>2
  <2>4. Len(u) = i - 1 /\ Len(one) = 1 /\ (i - 1) + 1 = i
    BY <1>1, <1>2, <1>4
  <2>5. Len(w) = i
    BY <2>1, <2>4
  <2>6. \A k \in 1..(i - 1) : w[k] = list[k]
    BY <1>2, <2>1, <2>4
  <2>7. w[i] = x
    BY <1>4, <2>3
  <2> QED
    BY <2>1, <2>5, <2>6, <2>7
<1> HIDE DEF w
<1>7. /\ t \in Seq(S) /\ Len(t) = Len(list) + 1 /\ \A k \in 1..i : t[k] = w[k]
      /\ \A k \in (i + 1)..(Len(list) + 1) : t[k] = v[k - i]
  BY <1>1, <1>3, <1>6, Joined
<1> HIDE DEF t
<1>8. ASSUME NEW k \in (i + 1)..(Len(list) + 1) PROVE t[k] = list[k - 1]
  <2>1. k - i \in 1..(Len(list) - i + 1) /\ i + (k - i) - 1 = k - 1
    BY <1>1
  <2> QED
    BY <1>3, <1>7, <2>1
<1> QED
  BY <1>1, <1>5, <1>6, <1>7, <1>8

\* add_device keeps the order of the list and adds one disk, once.
LEMMA AddedDevice ==
    ASSUME NEW list \in Seq(DiskPaths), Sorted(list), NEW x \in DiskPaths
    PROVE  /\ AddDevice(list, x) \in Seq(DiskPaths) /\ Sorted(AddDevice(list, x))
           /\ Range(AddDevice(list, x)) = Range(list) \cup {x}
<1> DEFINE notLess == {i \in DOMAIN list : CompareDisks(list[i], x) >= 0}
           i0 == CHOOSE k \in notLess : \A j \in notLess : k <= j
<1>1. Len(list) \in Nat /\ DOMAIN list = 1..Len(list) /\ \A k \in 1..Len(list) : list[k] \in DiskPaths
  OBVIOUS
<1>2. \A k \in 1..Len(list) : CompareDisks(list[k], x) \in Int
                              /\ (CompareDisks(list[k], x) = 0 <=> list[k] = x)
                              /\ (CompareDisks(list[k], x) > 0 <=> CompareDisks(x, list[k]) < 0)
  BY <1>1, DisksOrdered
<1>3. \A k \in 1..Len(list) : k \notin notLess => CompareDisks(list[k], x) < 0
  BY <1>1, <1>2
<1>4. ASSUME NEW i \in 1..(Len(list) + 1),
             \A k \in 1..(i - 1) : CompareDisks(list[k], x) < 0,
             \A k \in i..Len(list) : CompareDisks(x, list[k]) < 0
      PROVE  LET t == With(list, i, x)
             IN  t \in Seq(DiskPaths) /\ Sorted(t) /\ Range(t) = Range(list) \cup {x}
  <2> DEFINE t == With(list, i, x)
  <2>1. /\ t \in Seq(DiskPaths) /\ Len(t) = Len(list) + 1 /\ t[i] = x
        /\ \A k \in 1..(i - 1) : t[k] = list[k]
        /\ \A k \in (i + 1)..(Len(list) + 1) : t[k] = list[k - 1]
    <3> HIDE DEF notLess, i0
    <3>1. list \in Seq(DiskPaths) /\ x \in DiskPaths /\ i \in 1..(Len(list) + 1)
      OBVIOUS
    <3> HIDE DEF t
    <3>2. /\ With(list, i, x) \in Seq(DiskPaths) /\ Len(With(list, i, x)) = Len(list) + 1
          /\ With(list, i, x)[i] = x
          /\ \A k \in 1..(i - 1) : With(list, i, x)[k] = list[k]
          /\ \A k \in (i + 1)..(Len(list) + 1) : With(list, i, x)[k] = list[k - 1]
      BY <3>1, Inserted, SMTT(30)
    <3> QED
      BY <3>2, Zenon DEF t
  <2> HIDE DEF t
  <2>2. DOMAIN t = 1..(Len(list) + 1)
    BY <1>1, <2>1
  <2>3. ASSUME NEW j \in DOMAIN t, NEW k \in DOMAIN t, j < k
        PROVE  CompareDisks(t[j], t[k]) < 0
    <3>1. j \in 1..(Len(list) + 1) /\ k \in 1..(Len(list) + 1)
      BY <2>2
    <3>2. CASE k < i
      <4>1. j \in 1..(i - 1) /\ k \in 1..(i - 1) /\ j \in DOMAIN list /\ k \in DOMAIN list
        BY <1>1, <2>3, <3>1, <3>2
      <4> QED
        BY <2>1, <2>3, <4>1 DEF Sorted
    <3>3. CASE k = i
      <4>1. j \in 1..(i - 1)
        BY <1>1, <2>3, <3>1, <3>3
      <4> QED
        BY <1>4, <2>1, <3>3, <4>1
    <3>4. CASE k > i /\ j = i
      <4>1. k \in (i + 1)..(Len(list) + 1) /\ k - 1 \in i..Len(list)
        BY <1>1, <3>1, <3>4
      <4> QED
        BY <1>4, <2>1, <3>4, <4>1
    <3>5. CASE k > i /\ j > i
      <4>1. /\ k \in (i + 1)..(Len(list) + 1) /\ j \in (i + 1)..(Len(list) + 1)
            /\ j - 1 \in DOMAIN list /\ k - 1 \in DOMAIN list /\ j - 1 < k - 1
        BY <1>1, <2>3, <3>1, <3>5
      <4> QED
        BY <2>1, <4>1 DEF Sorted
    <3>6. CASE k > i /\ j < i
      <4>1. /\ k \in (i + 1)..(Len(list) + 1) /\ j \in 1..(i - 1) /\ k - 1 \in i..Len(list)
            /\ j \in 1..Len(list) /\ k - 1 \in 1..Len(list)
        BY <1>1, <2>3, <3>1, <3>6
      <4>2. CompareDisks(list[j], x) < 0 /\ CompareDisks(x, list[k - 1]) < 0
        BY <1>4, <4>1
      <4>3. list[j] \in DiskPaths /\ list[k - 1] \in DiskPaths
        BY <1>1, <4>1
      <4> QED
        BY <2>1, <4>1, <4>2, <4>3, DisksTransitive
    <3> QED
      BY <3>1, <3>2, <3>3, <3>4, <3>5, <3>6
  <2>4. \A p : p \in Range(t) <=> p \in Range(list) \cup {x}
    <3>1. ASSUME NEW p \in Range(t) PROVE p \in Range(list) \cup {x}
      <4>1. PICK k \in 1..(Len(list) + 1) : p = t[k]
        BY <2>2 DEF Range
      <4>2. CASE k < i
        <5>1. k \in 1..(i - 1) /\ k \in DOMAIN list
          BY <1>1, <4>2
        <5> QED
          BY <2>1, <4>1, <5>1 DEF Range
      <4>3. CASE k > i
        <5>1. k \in (i + 1)..(Len(list) + 1) /\ k - 1 \in DOMAIN list
          BY <1>1, <4>3
        <5> QED
          BY <2>1, <4>1, <5>1 DEF Range
      <4> QED
        BY <2>1, <4>1, <4>2, <4>3
    <3>2. ASSUME NEW k \in DOMAIN list PROVE list[k] \in Range(t)
      <4>1. CASE k < i
        <5>1. k \in 1..(i - 1) /\ k \in DOMAIN t
          BY <1>1, <2>2, <4>1
        <5> QED
          BY <2>1, <5>1 DEF Range
      <4>2. CASE k >= i
        <5>1. k + 1 \in (i + 1)..(Len(list) + 1) /\ k + 1 \in DOMAIN t /\ (k + 1) - 1 = k
          BY <1>1, <2>2, <4>2
        <5>2. t[k + 1] = list[k]
          BY <2>1, <5>1
        <5> QED
          BY <5>1, <5>2 DEF Range
      <4> QED
        BY <1>1, <4>1, <4>2
    <3>3. x \in Range(t)
      BY <2>1, <2>2 DEF Range
    <3> QED
      BY <3>1, <3>2, <3>3 DEF Range
  <2> QED
    BY <2>1, <2>3, <2>4 DEF Sorted, t
<1>5. CASE notLess = {}
  <2>1. AddDevice(list, x) = Append(list, x)
    BY <1>5 DEF AddDevice
  <2>2. Append(list, x) = With(list, Len(list) + 1, x)
    <3>1. SubSeq(list, 1, (Len(list) + 1) - 1) = list
      BY <1>1
    <3>2. SubSeq(list, Len(list) + 1, Len(list)) = << >>
      BY <1>1
    <3>3. (list \o <<x>>) \o << >> = list \o <<x>> /\ Append(list, x) = list \o <<x>>
      OBVIOUS
    <3> QED
      BY <3>1, <3>2, <3>3 DEF With
  <2>3. /\ Len(list) + 1 \in 1..(Len(list) + 1)
        /\ \A k \in 1..((Len(list) + 1) - 1) : CompareDisks(list[k], x) < 0
        /\ \A k \in (Len(list) + 1)..Len(list) : CompareDisks(x, list[k]) < 0
    BY <1>1, <1>3, <1>5
  <2> QED
    BY <1>4, <2>1, <2>2, <2>3
<1>6. CASE notLess # {}
  <2>1. i0 \in notLess /\ \A j \in notLess : i0 <= j
    <3>1. notLess \subseteq Nat
      BY <1>1
    <3>2. \E k \in notLess : \A j \in notLess : k <= j
      BY <1>6, <3>1, LeastNatural
    <3> QED
      BY <3>2
  <2>2. i0 \in 1..Len(list) /\ CompareDisks(list[i0], x) >= 0
    BY <1>1, <2>1
  <2>3. AddDevice(list, x) = IF CompareDisks(list[i0], x) = 0 THEN list
                             ELSE With(list, i0, x)
    BY <1>6 DEF AddDevice, With
  <2>4. \A k \in 1..(i0 - 1) : CompareDisks(list[k], x) < 0
    <3> SUFFICES ASSUME NEW k \in 1..(i0 - 1) PROVE CompareDisks(list[k], x) < 0
      OBVIOUS
    <3>1. k \in 1..Len(list) /\ ~(i0 <= k)
      BY <1>1, <2>2
    <3>2. k \notin notLess
      BY <2>1, <3>1
    <3> QED
      BY <1>3, <3>1, <3>2
  <2> HIDE DEF i0
  <2>5. CASE CompareDisks(list[i0], x) = 0
    <3>1. list[i0] = x
      BY <1>2, <2>2, <2>5
    <3>2. Range(list) = Range(list) \cup {x}
      BY <1>1, <2>2, <3>1 DEF Range
    <3> QED
      BY <2>3, <2>5, <3>2
  <2>6. CASE CompareDisks(list[i0], x) # 0
    <3>1. CompareDisks(list[i0], x) > 0
      BY <1>2, <2>2, <2>6
    <3>2. CompareDisks(x, list[i0]) < 0
      BY <1>2, <2>2, <3>1
    <3>3. \A k \in i0..Len(list) : CompareDisks(x, list[k]) < 0
      <4> SUFFICES ASSUME NEW k \in i0..Len(list) PROVE CompareDisks(x, list[k]) < 0
        OBVIOUS
      <4>1. k = i0 \/ (i0 < k /\ i0 \in DOMAIN list /\ k \in DOMAIN list)
        BY <1>1, <2>2
      <4>2. CASE k = i0
        BY <3>2, <4>2
      <4>3. CASE i0 < k /\ i0 \in DOMAIN list /\ k \in DOMAIN list
        <5>1. CompareDisks(list[i0], list[k]) < 0
          BY <4>3 DEF Sorted
        <5> QED
          BY <1>1, <3>2, <4>3, <5>1, DisksTransitive
      <4> QED
        BY <4>1, <4>2, <4>3
    <3>4. i0 \in 1..(Len(list) + 1)
      BY <1>1, <2>2
    <3> QED
      BY <1>4, <2>3, <2>4, <2>6, <3>3, <3>4
  <2> QED
    BY <2>5, <2>6
<1> QED
  BY <1>5, <1>6

\* A path is longer than the one without its last node.
LEMMA FrontShorter ==
    ASSUME NEW p \in DiskPaths
    PROVE  Front(p) \in Paths /\ Front(p) # p
<1> DEFINE S == Nodes \ {EndNode}
<1>1. p \in Seq(S) /\ Len(p) \in Nat \ {0}
  BY LastNode DEF Paths
<1> HIDE DEF S
<1>2. SubSeq(p, 1, Len(p) - 1) \in Seq(S) /\ Len(SubSeq(p, 1, Len(p) - 1)) = Len(p) - 1
  <2> DEFINE n == Len(p) - 1
  <2>1. n \in 0..Len(p) /\ 1 \in 1..(Len(p) + 1)
    BY <1>1
  <2> HIDE DEF n
  <2>2. SubSeq(p, 1, n) \in Seq(S) /\ Len(SubSeq(p, 1, n)) = n
    <3>1. DOMAIN p = 1..Len(p) /\ \A k \in 1..Len(p) : p[k] \in S
      BY <1>1
    <3>2. SubSeq(p, 1, n) = [k \in 1..n |-> p[k]]
      BY <1>1, <2>1
    <3> QED
      BY <1>1, <2>1, <3>1, <3>2
  <2> QED
    BY <2>2 DEF n
<1>3. Front(p) \in Seq(S) /\ Len(Front(p)) = Len(p) - 1
  BY <1>2 DEF Front
<1>4. Front(p) # p
  BY <1>1, <1>3
<1> QED
  BY <1>3, <1>4 DEF Paths, S

\* The media have different paths, which are not empty.
LEMMA MediaPaths ==
    ASSUME machine \in Machines
    PROVE  /\ \A h \in Media : h.path \in DiskPaths /\ Accepted(h)
           /\ \A g, h \in Media : g.path = h.path => g = h
<1>1. ASSUME NEW h \in Media PROVE h.path \in DiskPaths /\ Accepted(h)
  <2>1. Accepted(h) /\ \E i \in DOMAIN machine.handles : h = machine.handles[i]
    BY DEF Media, Range
  <2> QED
    BY <2>1, HandlesAssumption DEF DiskPaths, Accepted
<1>2. ASSUME NEW g \in Media, NEW h \in Media, g.path = h.path PROVE g = h
  <2>1. PICK i \in DOMAIN machine.handles : g = machine.handles[i]
    BY DEF Media, Range
  <2>2. PICK j \in DOMAIN machine.handles : h = machine.handles[j]
    BY DEF Media, Range
  <2>3. i = j
    BY <1>1, <1>2, <2>1, <2>2, HandlesAssumption
  <2> QED
    BY <2>1, <2>2, <2>3
<1> QED
  BY <1>1, <1>2

\* The list of devices, once it is made.
LEMMA MadePaths ==
    ASSUME machine \in Machines, NEW devices, Made(devices), NEW k \in DOMAIN devices
    PROVE  devices[k].path \in DiskPaths
  BY MediaPaths DEF Made, Shows

\* find_parent_device finds the only device above, if there is one.
LEMMA ParentFound ==
    ASSUME NEW devices \in Seq(DeviceSet), Apart(devices), NEW k \in DOMAIN devices
    PROVE  /\ FindParent(devices, k) \in {0} \cup DOMAIN devices
           /\ FindParent(devices, k) # 0 =>
                 devices[FindParent(devices, k)].path = Front(devices[k].path)
           /\ \A i \in DOMAIN devices \ {k} :
                 devices[i].path = Front(devices[k].path) => FindParent(devices, k) = i
<1> DEFINE hits == {i \in DOMAIN devices \ {k} : devices[i].path = Front(devices[k].path)}
           hit == CHOOSE i \in hits : \A j \in hits : i <= j
<1>1. FindParent(devices, k) = IF hits = {} THEN 0 ELSE hit
  BY DEF FindParent
<1>2. DOMAIN devices = 1..Len(devices) /\ Len(devices) \in Nat /\ hits \subseteq Nat
  OBVIOUS
<1>3. \A i, j \in hits : i = j
  BY DEF Apart
<1>4. hits # {} => hit \in hits
  <2>1. ASSUME hits # {} PROVE \E i \in hits : \A j \in hits : i <= j
    BY <1>2, <2>1, LeastNatural
  <2> QED
    BY <2>1
<1>5. \A i \in hits : i # 0
  BY <1>2
<1> HIDE DEF hit
<1>6. \A i \in hits : hit = i
  BY <1>3, <1>4
<1> QED
  BY <1>1, <1>4, <1>5, <1>6

-----------------------------------------------------------------------------
(* That a device is used changes no path.                                  *)
SamePlaces(a, b) ==
    /\ DOMAIN a = DOMAIN b
    /\ \A k \in DOMAIN a : a[k].path = b[k].path /\ a[k].media = b[k].media

\* find_parent_device finds the same device in both lists.
LEMMA SameParents ==
    ASSUME NEW a \in Seq(DeviceSet), NEW b \in Seq(DeviceSet), SamePlaces(a, b), Apart(a),
           NEW k \in DOMAIN a
    PROVE  FindParent(a, k) = FindParent(b, k)
<1>1. DOMAIN a = DOMAIN b /\ k \in DOMAIN b /\ Apart(b) /\ Front(a[k].path) = Front(b[k].path)
  BY DEF SamePlaces, Apart
<1>2. \A i \in DOMAIN a : a[i].path = b[i].path
  BY DEF SamePlaces
<1>3. DOMAIN a = 1..Len(a) /\ 0 \notin DOMAIN a
  OBVIOUS
<1>4. CASE \E i \in DOMAIN a \ {k} : a[i].path = Front(a[k].path)
  <2>1. PICK i \in DOMAIN a \ {k} : a[i].path = Front(a[k].path)
    BY <1>4
  <2>2. FindParent(a, k) = i
    BY <2>1, ParentFound
  <2>3. i \in DOMAIN b \ {k} /\ b[i].path = Front(b[k].path)
    BY <1>1, <1>2, <2>1
  <2>4. FindParent(b, k) = i
    BY <1>1, <2>3, ParentFound
  <2> QED
    BY <2>2, <2>4
<1>5. CASE ~ \E i \in DOMAIN a \ {k} : a[i].path = Front(a[k].path)
  <2>1. {i \in DOMAIN a \ {k} : a[i].path = Front(a[k].path)} = {}
    BY <1>5
  <2>2. {i \in DOMAIN b \ {k} : b[i].path = Front(b[k].path)} = {}
    BY <1>1, <1>2, <1>5
  <2>3. FindParent(a, k) = 0
    BY <2>1 DEF FindParent
  <2>4. FindParent(b, k) = 0
    BY <2>2 DEF FindParent
  <2> QED
    BY <2>3, <2>4
<1> QED
  BY <1>4, <1>5

\* What is a partition, and of which disk, is the same in both lists.
LEMMA SameRoles ==
    ASSUME NEW a \in Seq(DeviceSet), NEW b \in Seq(DeviceSet), SamePlaces(a, b), Apart(a),
           NEW k \in DOMAIN a
    PROVE  /\ IsPart(a, k) <=> IsPart(b, k)
           /\ \A j \in DOMAIN a : PartOf(a, j, k) <=> PartOf(b, j, k)
           /\ \A n : Divided(a, k, n) <=> Divided(b, k, n)
           /\ \A n : Decided(a, k, n) <=> Decided(b, k, n)
<1>1. \A j \in DOMAIN a : IsPart(a, j) <=> IsPart(b, j)
  BY SameParents DEF IsPart, SamePlaces
<1>2. \A j \in DOMAIN a : PartOf(a, j, k) <=> PartOf(b, j, k)
  BY <1>1, SameParents DEF PartOf
<1>3. \A n : Divided(a, k, n) <=> Divided(b, k, n)
  BY <1>2, SameParents DEF Divided, SamePlaces
<1> QED
  BY <1>1, <1>2, <1>3 DEF Decided

\* If one list shows the media, so does the other.
LEMMA SameMade ==
    ASSUME NEW a, NEW b, SamePlaces(a, b), Made(a)
    PROVE  Made(b)
  BY DEF Made, Shows, Apart, SamePlaces

\* Use only takes the mark from the devices it is given.
LEMMA UsePlaces ==
    ASSUME NEW devices \in Seq(DeviceSet), NEW S
    PROVE  /\ Use(devices, S) \in Seq(DeviceSet) /\ SamePlaces(devices, Use(devices, S))
           /\ \A k \in DOMAIN devices : Use(devices, S)[k].ldp = (devices[k].ldp /\ k \notin S)
<1>1. Use(devices, S) \in Seq(DeviceSet) /\ Len(Use(devices, S)) = Len(devices)
  BY UseTyped
<1>2. DOMAIN devices = 1..Len(devices) /\ \A k \in DOMAIN devices : devices[k] \in DeviceSet
  OBVIOUS
<1>3. DOMAIN Use(devices, S) = DOMAIN devices
  BY DEF Use
<1>4. ASSUME NEW k \in DOMAIN devices
      PROVE  /\ Use(devices, S)[k].path = devices[k].path /\ Use(devices, S)[k].media = devices[k].media
             /\ Use(devices, S)[k].ldp = (devices[k].ldp /\ k \notin S)
  <2>1. Use(devices, S)[k] = IF k \in S THEN [devices[k] EXCEPT !.ldp = FALSE] ELSE devices[k]
    BY DEF Use
  <2>2. devices[k] \in DeviceSet /\ devices[k].ldp \in BOOLEAN
    BY <1>2 DEF DeviceSet
  <2> QED
    BY <2>1, <2>2 DEF DeviceSet
<1> QED
  BY <1>1, <1>3, <1>4 DEF SamePlaces

-----------------------------------------------------------------------------
(* The first loop of name_devices: what the partitions decide.             *)

\* The devices as far as the loops of name_devices are concerned.
Typed(st) ==
    /\ machine \in Machines
    /\ st.devices \in Seq(DeviceSet) /\ Made(st.devices)
    /\ st = [devices |-> st.devices, hd |-> st.hd, cd |-> st.cd]

\* Each device of such a list has a place of its own, and is marked or not.
LEMMA TypedFacts ==
    ASSUME NEW st, Typed(st)
    PROVE  /\ Len(st.devices) \in Nat /\ DOMAIN st.devices = 1..Len(st.devices) /\ Apart(st.devices)
           /\ \A k \in DOMAIN st.devices :
                st.devices[k].ldp \in BOOLEAN /\ st.devices[k].path \in DiskPaths
<1>a. st.devices \in Seq(DeviceSet) /\ Made(st.devices) /\ machine \in Machines
  BY DEF Typed
<1>1. DOMAIN st.devices = 1..Len(st.devices) /\ Len(st.devices) \in Nat
      /\ \A k \in DOMAIN st.devices : st.devices[k] \in DeviceSet
  BY <1>a
<1>2. \A k \in DOMAIN st.devices : st.devices[k].ldp \in BOOLEAN
  BY <1>1 DEF DeviceSet
<1>3. \A k \in DOMAIN st.devices : st.devices[k].path \in DiskPaths
  BY <1>a, MadePaths
<1>4. Apart(st.devices)
  BY <1>a DEF Made
<1> QED
  BY <1>1, <1>2, <1>3, <1>4

\* A turn of the first loop in which nothing changes, or only the partition is marked.
LEMMA MediaMarks ==
    ASSUME NEW st, Typed(st), NEW n \in DOMAIN st.devices, Named(st, n, 1), NEW S, S \subseteq {n},
           n \in S <=> IsPart(st.devices, n),
           \A k \in DOMAIN st.devices : PartOf(st.devices, n, k) => FindParent(st.devices, k) # 0 \/ ~st.devices[k].ldp,
           NEW new, new = [devices |-> Use(st.devices, S), hd |-> st.hd, cd |-> st.cd]
    PROVE  Typed(new) /\ Named(new, n + 1, 1)
<1> DEFINE old == st.devices
           dev == Use(old, S)
<1>1. /\ old \in Seq(DeviceSet) /\ Apart(old) /\ Made(old) /\ DOMAIN old \subseteq Nat
      /\ \A k \in DOMAIN old : old[k].ldp \in BOOLEAN
  BY TypedFacts DEF Typed
<1>2. /\ dev \in Seq(DeviceSet) /\ SamePlaces(old, dev) /\ DOMAIN dev = DOMAIN old
      /\ \A k \in DOMAIN old : dev[k].ldp = (old[k].ldp /\ k \notin S)
      /\ \A k \in DOMAIN old : dev[k].path = old[k].path /\ dev[k].media = old[k].media
  BY <1>1, UsePlaces DEF SamePlaces
<1>3. /\ new.devices = dev /\ new.hd = st.hd /\ new.cd = st.cd
      /\ new = [devices |-> new.devices, hd |-> new.hd, cd |-> new.cd]
  OBVIOUS
<1> HIDE DEF dev
<1>4. Typed(new)
  BY <1>1, <1>2, <1>3, SameMade DEF Typed
<1>5. \A k \in DOMAIN old : ~old[k].ldp <=> Decided(old, k, n)
  BY DEF Named
<1>6. ASSUME NEW k \in DOMAIN old
      PROVE  /\ Divided(old, k, n + 1) <=> Divided(old, k, n)
             /\ Decided(old, k, n + 1) <=> Decided(old, k, n) \/ (k = n /\ IsPart(old, n))
  <2>1. Divided(old, k, n) => Divided(old, k, n + 1)
    BY <1>1 DEF Divided
  <2>2. ASSUME Divided(old, k, n + 1) PROVE Divided(old, k, n)
    <3>1. PICK j \in DOMAIN old : j < n + 1 /\ PartOf(old, j, k)
      BY <2>2 DEF Divided
    <3>2. FindParent(old, k) = 0
      BY <2>2 DEF Divided
    <3>3. CASE j = n
      <4>1. ~old[k].ldp
        BY <3>1, <3>2, <3>3
      <4>2. Decided(old, k, n)
        BY <1>5, <4>1
      <4> QED
        BY <3>2, <4>2 DEF Decided, IsPart
    <3>4. CASE j # n
      <4>1. j < n
        BY <1>1, <3>1, <3>4
      <4> QED
        BY <3>1, <3>2, <4>1 DEF Divided
    <3> QED
      BY <3>3, <3>4
  <2>3. k < n + 1 <=> k < n \/ k = n
    BY <1>1
  <2> QED
    BY <2>1, <2>2, <2>3 DEF Decided
<1>7. \A k \in DOMAIN dev : ~dev[k].ldp <=> Decided(dev, k, n + 1)
  <2> SUFFICES ASSUME NEW k \in DOMAIN old PROVE ~dev[k].ldp <=> Decided(dev, k, n + 1)
    BY <1>2
  <2>1. Decided(dev, k, n + 1) <=> Decided(old, k, n + 1)
    BY <1>1, <1>2, SameRoles
  <2>2. ~dev[k].ldp <=> ~old[k].ldp \/ k \in S
    BY <1>2
  <2>3. k \in S <=> k = n /\ IsPart(old, n)
    OBVIOUS
  <2> QED
    BY <1>5, <1>6, <2>1, <2>2, <2>3
<1>8. \A k \in DOMAIN old : ~Left(old, k, 1) /\ ~Left(dev, k, 1)
  BY <1>1, TypedFacts DEF Left
<1>9. \A k \in DOMAIN old : old[k].path \in Range(st.hd) \cup Range(st.cd) <=> Divided(old, k, n)
  BY <1>8 DEF Named
<1>10. \A k \in DOMAIN dev : dev[k].path \in Range(st.hd) \cup Range(st.cd) <=> Divided(dev, k, n + 1)
  BY <1>1, <1>2, <1>6, <1>9, SameRoles
<1>11. ASSUME NEW k \in DOMAIN old, old[k].path \in Range(st.hd) \cup Range(st.cd)
       PROVE  /\ AsHd(old, k) => AsHd(dev, k)
              /\ AsCd(old, k) => AsCd(dev, k)
  <2>1. ~old[k].ldp /\ ~dev[k].ldp
    BY <1>2, <1>5, <1>9, <1>11 DEF Decided
  <2>2. \A j \in DOMAIN old : PartOf(old, j, k) <=> PartOf(dev, j, k)
    BY <1>1, <1>2, SameRoles
  <2> QED
    BY <1>2, <2>1, <2>2 DEF AsHd, AsCd
<1>12. \A k \in DOMAIN dev : /\ dev[k].path \in Range(st.hd) => AsHd(dev, k)
                             /\ dev[k].path \in Range(st.cd) => AsCd(dev, k)
  <2>1. \A k \in DOMAIN old : /\ old[k].path \in Range(st.hd) => AsHd(old, k)
                              /\ old[k].path \in Range(st.cd) => AsCd(old, k)
    BY DEF Named
  <2> QED
    BY <1>2, <1>11, <2>1
<1>13. \A p \in Range(st.hd) \cup Range(st.cd) : \E k \in DOMAIN dev : dev[k].path = p
  BY <1>2 DEF Named
<1>14. /\ st.hd \in Seq(Paths \ {NoPath}) /\ st.cd \in Seq(Paths \ {NoPath})
       /\ Sorted(st.hd) /\ Sorted(st.cd) /\ Range(st.hd) \cap Range(st.cd) = {}
  BY DEF Named
<1>15. \A k \in DOMAIN dev : dev[k].path \in Range(st.hd) \cup Range(st.cd) <=> Divided(dev, k, n + 1) \/ Left(dev, k, 1)
  BY <1>2, <1>8, <1>10
<1> QED
  BY <1>3, <1>4, <1>7, <1>12, <1>13, <1>14, <1>15 DEF Named

\* A list to which a device is added.
LEMMA ListAdds ==
    ASSUME NEW st, Typed(st), NEW n, NEW m, Named(st, n, m), NEW k \in DOMAIN st.devices,
           NEW list \in {st.hd, st.cd}
    PROVE  LET more == AddDevice(list, st.devices[k].path)
           IN  /\ more \in Seq(Paths \ {NoPath}) /\ Sorted(more)
               /\ Range(more) = Range(list) \cup {st.devices[k].path}
<1>1. list \in Seq(DiskPaths) /\ Sorted(list)
  BY DEF Named, DiskPaths
<1>2. st.devices[k].path \in DiskPaths
  BY TypedFacts
<1> QED
  BY <1>1, <1>2, AddedDevice DEF DiskPaths

\* A turn of the first loop that finds a disk: the device above the partition.
LEMMA MediaFinds ==
    ASSUME NEW st, Typed(st), NEW n \in DOMAIN st.devices, Named(st, n, 1),
           NEW p \in DOMAIN st.devices, PartOf(st.devices, n, p),
           FindParent(st.devices, p) = 0, st.devices[p].ldp,
           NEW new,
           new = [devices |-> Use(st.devices, {n, p}),
                  hd |-> IF HardDrive(Last(st.devices[n].path))
                         THEN AddDevice(st.hd, st.devices[p].path) ELSE st.hd,
                  cd |-> IF HardDrive(Last(st.devices[n].path))
                         THEN st.cd ELSE AddDevice(st.cd, st.devices[p].path)]
    PROVE  Typed(new) /\ Named(new, n + 1, 1)
<1> DEFINE old == st.devices
           dev == Use(old, {n, p})
           lists == Range(st.hd) \cup Range(st.cd)
           hd == IF HardDrive(Last(old[n].path)) THEN AddDevice(st.hd, old[p].path) ELSE st.hd
           cd == IF HardDrive(Last(old[n].path)) THEN st.cd ELSE AddDevice(st.cd, old[p].path)
<1>1. /\ old \in Seq(DeviceSet) /\ Apart(old) /\ Made(old) /\ DOMAIN old = 1..Len(old) /\ Len(old) \in Nat
      /\ \A k \in DOMAIN old : old[k].ldp \in BOOLEAN
  BY TypedFacts DEF Typed
<1>2. /\ dev \in Seq(DeviceSet) /\ SamePlaces(old, dev) /\ DOMAIN dev = DOMAIN old
      /\ \A k \in DOMAIN old : dev[k].ldp = (old[k].ldp /\ k \notin {n, p})
      /\ \A k \in DOMAIN old : dev[k].path = old[k].path /\ dev[k].media = old[k].media
  BY <1>1, UsePlaces DEF SamePlaces
<1>3. /\ new.devices = dev /\ new.hd = hd /\ new.cd = cd
      /\ new = [devices |-> new.devices, hd |-> new.hd, cd |-> new.cd]
  OBVIOUS
<1>4. /\ hd \in Seq(Paths \ {NoPath}) /\ cd \in Seq(Paths \ {NoPath}) /\ Sorted(hd) /\ Sorted(cd)
      /\ IF HardDrive(Last(old[n].path))
         THEN Range(hd) = Range(st.hd) \cup {old[p].path} /\ Range(cd) = Range(st.cd)
         ELSE Range(hd) = Range(st.hd) /\ Range(cd) = Range(st.cd) \cup {old[p].path}
  BY ListAdds DEF Named
<1> HIDE DEF dev, hd, cd
<1>5. Typed(new)
  BY <1>1, <1>2, <1>3, SameMade DEF Typed
<1>6. \A k \in DOMAIN old : ~old[k].ldp <=> Decided(old, k, n)
  BY DEF Named
<1>7. IsPart(old, n) /\ FindParent(old, n) = p /\ FindParent(old, n) # 0
  BY <1>1 DEF PartOf
<1>8. ASSUME NEW k \in DOMAIN old
      PROVE  /\ Divided(old, k, n + 1) <=> Divided(old, k, n) \/ k = p
             /\ Decided(old, k, n + 1) <=> Decided(old, k, n) \/ k \in {n, p}
  <2>1. \A j \in DOMAIN old : j < n + 1 <=> j < n \/ j = n
    BY <1>1
  <2>2. Divided(old, k, n + 1) <=> Divided(old, k, n) \/ k = p
    BY <1>7, <2>1 DEF Divided, PartOf
  <2> QED
    BY <1>7, <2>1, <2>2 DEF Decided
<1>9. \A k \in DOMAIN dev : ~dev[k].ldp <=> Decided(dev, k, n + 1)
  <2> SUFFICES ASSUME NEW k \in DOMAIN old PROVE ~dev[k].ldp <=> Decided(dev, k, n + 1)
    BY <1>2
  <2>1. Decided(dev, k, n + 1) <=> Decided(old, k, n + 1)
    BY <1>1, <1>2, SameRoles
  <2>2. ~dev[k].ldp <=> ~old[k].ldp \/ k \in {n, p}
    BY <1>2
  <2> QED
    BY <1>6, <1>8, <2>1, <2>2
<1>10. \A k \in DOMAIN old : ~Left(old, k, 1) /\ ~Left(dev, k, 1)
  BY <1>1 DEF Left
<1>11. \A k \in DOMAIN old : old[k].path \in lists <=> Divided(old, k, n)
  BY <1>10 DEF Named
<1>12. ~Divided(old, p, n) /\ old[p].path \notin lists
  <2>1. ~Decided(old, p, n)
    BY <1>6
  <2> QED
    BY <1>11, <2>1 DEF Decided
<1>13. Range(hd) \cup Range(cd) = lists \cup {old[p].path} /\ Range(hd) \cap Range(cd) = {}
  <2>1. Range(st.hd) \cap Range(st.cd) = {}
    BY DEF Named
  <2> QED
    BY <1>4, <1>12, <2>1
<1>14. \A k \in DOMAIN old : old[k].path = old[p].path <=> k = p
  BY <1>1 DEF Apart
<1>15. \A k \in DOMAIN dev : dev[k].path \in Range(hd) \cup Range(cd) <=> Divided(dev, k, n + 1) \/ Left(dev, k, 1)
  <2> SUFFICES ASSUME NEW k \in DOMAIN old
               PROVE  dev[k].path \in Range(hd) \cup Range(cd) <=> Divided(dev, k, n + 1) \/ Left(dev, k, 1)
    BY <1>2
  <2>1. Divided(dev, k, n + 1) <=> Divided(old, k, n + 1)
    BY <1>1, <1>2, SameRoles
  <2>2. dev[k].path \in Range(hd) \cup Range(cd) <=> old[k].path \in lists \/ k = p
    BY <1>2, <1>13, <1>14
  <2> QED
    BY <1>8, <1>10, <1>11, <2>1, <2>2
<1>16. ASSUME NEW k \in DOMAIN old, old[k].path \in lists
       PROVE  /\ AsHd(old, k) => AsHd(dev, k)
              /\ AsCd(old, k) => AsCd(dev, k)
  <2>1. ~old[k].ldp /\ ~dev[k].ldp
    BY <1>2, <1>6, <1>11, <1>16 DEF Decided
  <2>2. \A j \in DOMAIN old : PartOf(old, j, k) <=> PartOf(dev, j, k)
    BY <1>1, <1>2, SameRoles
  <2> QED
    BY <1>2, <2>1, <2>2 DEF AsHd, AsCd
<1>17. /\ HardDrive(Last(old[n].path)) => AsHd(dev, p)
       /\ ~HardDrive(Last(old[n].path)) => AsCd(dev, p)
  <2>1. PartOf(dev, n, p) /\ ~dev[p].ldp /\ dev[n].path = old[n].path /\ n \in DOMAIN dev
    BY <1>1, <1>2, SameRoles
  <2> QED
    BY <2>1 DEF AsHd, AsCd
<1>18. \A k \in DOMAIN dev : /\ dev[k].path \in Range(hd) => AsHd(dev, k)
                             /\ dev[k].path \in Range(cd) => AsCd(dev, k)
  <2> SUFFICES ASSUME NEW k \in DOMAIN old
               PROVE  /\ old[k].path \in Range(hd) => AsHd(dev, k)
                      /\ old[k].path \in Range(cd) => AsCd(dev, k)
    BY <1>2
  <2>1. /\ old[k].path \in Range(st.hd) => AsHd(old, k)
        /\ old[k].path \in Range(st.cd) => AsCd(old, k)
    BY DEF Named
  <2>2. /\ old[k].path \in Range(st.hd) => AsHd(dev, k)
        /\ old[k].path \in Range(st.cd) => AsCd(dev, k)
    BY <1>16, <2>1
  <2> QED
    BY <1>4, <1>14, <1>17, <2>2
<1>19. \A q \in Range(hd) \cup Range(cd) : \E k \in DOMAIN dev : dev[k].path = q
  <2>1. \A q \in lists : \E k \in DOMAIN old : old[k].path = q
    BY DEF Named
  <2>2. dev[p].path = old[p].path /\ p \in DOMAIN dev
    BY <1>2
  <2>3. \A q : q \in Range(hd) \cup Range(cd) => q \in lists \/ q = old[p].path
    BY <1>13
  <2> HIDE DEF lists, old
  <2> QED
    BY <1>2, <2>1, <2>2, <2>3
<1>20. /\ new.hd \in Seq(Paths \ {NoPath}) /\ new.cd \in Seq(Paths \ {NoPath})
       /\ Sorted(new.hd) /\ Sorted(new.cd)
  BY <1>3, <1>4
<1>21. \A k \in DOMAIN new.devices : ~new.devices[k].ldp <=> Decided(new.devices, k, n + 1)
  BY <1>3, <1>9
<1>22. \A q \in Range(new.hd) \cup Range(new.cd) : \E k \in DOMAIN new.devices : new.devices[k].path = q
  BY <1>3, <1>19
<1>23. \A k \in DOMAIN new.devices :
        new.devices[k].path \in Range(new.hd) \cup Range(new.cd)
          <=> Divided(new.devices, k, n + 1) \/ Left(new.devices, k, 1)
  BY <1>3, <1>15
<1>24. /\ Range(new.hd) \cap Range(new.cd) = {}
       /\ \A k \in DOMAIN new.devices :
            /\ new.devices[k].path \in Range(new.hd) => AsHd(new.devices, k)
            /\ new.devices[k].path \in Range(new.cd) => AsCd(new.devices, k)
  BY <1>3, <1>13, <1>18
<1>25. Named(new, n + 1, 1)
  BY <1>20, <1>21, <1>22, <1>23, <1>24, Zenon DEF Named
<1> QED
  BY <1>5, <1>25

\* A turn of the first loop.
LEMMA MediaTurn ==
    ASSUME NEW st, Typed(st), NEW n \in DOMAIN st.devices, Named(st, n, 1)
    PROVE  Typed(ByMedia(st, n)) /\ Named(ByMedia(st, n), n + 1, 1)
<1> DEFINE old == st.devices
           p == FindParent(old, n)
<1>1. /\ old \in Seq(DeviceSet) /\ Apart(old) /\ DOMAIN old = 1..Len(old) /\ Len(old) \in Nat
      /\ \A k \in DOMAIN old : old[k].ldp \in BOOLEAN
      /\ st = [devices |-> old, hd |-> st.hd, cd |-> st.cd]
  BY TypedFacts DEF Typed
<1>2. p \in {0} \cup DOMAIN old
  BY <1>1, ParentFound
<1>3. IsPart(old, n) => old[n].ldp
  <2>1. ~old[n].ldp => Decided(old, n, n)
    BY DEF Named
  <2>2. Decided(old, n, n) => ~IsPart(old, n)
    BY <1>1 DEF Decided, Divided, IsPart
  <2> QED
    BY <2>1, <2>2
<1>4. CASE ~IsPart(old, n)
  <2>1. ByMedia(st, n) = st
    BY <1>2, <1>4, Zenon DEF ByMedia, IsPart
  <2>2. Use(old, {}) = old
    <3>1. \A k \in DOMAIN old : Use(old, {})[k] = old[k]
      BY DEF Use
    <3>2. DOMAIN Use(old, {}) = DOMAIN old /\ Use(old, {}) \in Seq(DeviceSet)
      BY <1>1, UsePlaces DEF SamePlaces
    <3>3. Len(Use(old, {})) = Len(old)
      BY <1>1, UseTyped
    <3> QED
      BY <1>1, <3>1, <3>2, <3>3
  <2>3. st = [devices |-> Use(old, {}), hd |-> st.hd, cd |-> st.cd]
    BY <1>1, <2>2
  <2>4. \A k \in DOMAIN old : ~PartOf(old, n, k)
    BY <1>4 DEF PartOf
  <2> QED
    BY <1>4, <2>1, <2>3, <2>4, MediaMarks
<1>5. CASE IsPart(old, n) /\ (FindParent(old, p) # 0 \/ ~old[p].ldp)
  <2>1. ByMedia(st, n) = [st EXCEPT !.devices = Use(@, {n})]
    BY <1>3, <1>5 DEF ByMedia, IsPart
  <2>2. ByMedia(st, n) = [devices |-> Use(old, {n}), hd |-> st.hd, cd |-> st.cd]
    BY <1>1, <2>1
  <2>3. \A k \in DOMAIN old : PartOf(old, n, k) => FindParent(old, k) # 0 \/ ~old[k].ldp
    BY <1>5 DEF PartOf
  <2> QED
    BY <1>5, <2>2, <2>3, MediaMarks
<1>6. CASE IsPart(old, n) /\ FindParent(old, p) = 0 /\ old[p].ldp
  <2>1. ByMedia(st, n) = [devices |-> Use(old, {n, p}),
                          hd |-> IF HardDrive(Last(old[n].path)) THEN AddDevice(st.hd, old[p].path) ELSE st.hd,
                          cd |-> IF HardDrive(Last(old[n].path)) THEN st.cd ELSE AddDevice(st.cd, old[p].path)]
    BY <1>3, <1>6 DEF ByMedia, IsPart
  <2>2. p \in DOMAIN old /\ PartOf(old, n, p)
    BY <1>2, <1>6 DEF PartOf, IsPart
  <2> HIDE DEF p
  <2> QED
    BY <1>6, <2>1, <2>2, MediaFinds
<1> QED
  BY <1>4, <1>5, <1>6

-----------------------------------------------------------------------------
(* The second loop: what the media decide.                                 *)

\* A turn of the second loop that decides a disk by its media.
LEMMA HeuristicsFind ==
    ASSUME NEW st, Typed(st), NEW n \in DOMAIN st.devices, NEW all, Named(st, all, n),
           st.devices[n].ldp, ~Ghost(st.devices, n),
           NEW new,
           new = [devices |-> st.devices,
                  hd |-> IF Optical(st.devices[n]) THEN st.hd ELSE AddDevice(st.hd, st.devices[n].path),
                  cd |-> IF Optical(st.devices[n]) THEN AddDevice(st.cd, st.devices[n].path) ELSE st.cd]
    PROVE  Typed(new) /\ Named(new, all, n + 1)
<1> DEFINE old == st.devices
           lists == Range(st.hd) \cup Range(st.cd)
           hd == IF Optical(old[n]) THEN st.hd ELSE AddDevice(st.hd, old[n].path)
           cd == IF Optical(old[n]) THEN AddDevice(st.cd, old[n].path) ELSE st.cd
<1>1. /\ Apart(old) /\ DOMAIN old = 1..Len(old) /\ Len(old) \in Nat
      /\ old \in Seq(DeviceSet) /\ Made(old) /\ machine \in Machines
  BY TypedFacts DEF Typed
<1>2. /\ new.devices = old /\ new.hd = hd /\ new.cd = cd
      /\ new = [devices |-> new.devices, hd |-> new.hd, cd |-> new.cd]
  OBVIOUS
<1>3. /\ hd \in Seq(Paths \ {NoPath}) /\ cd \in Seq(Paths \ {NoPath}) /\ Sorted(hd) /\ Sorted(cd)
      /\ IF Optical(old[n])
         THEN Range(hd) = Range(st.hd) /\ Range(cd) = Range(st.cd) \cup {old[n].path}
         ELSE Range(hd) = Range(st.hd) \cup {old[n].path} /\ Range(cd) = Range(st.cd)
  BY ListAdds DEF Named
<1>4. Typed(new)
  BY <1>1, <1>2 DEF Typed
<1> HIDE DEF hd, cd
<1>5. /\ \A k \in DOMAIN old : ~old[k].ldp <=> Decided(old, k, all)
      /\ \A q \in lists : \E k \in DOMAIN old : old[k].path = q
      /\ \A k \in DOMAIN old : old[k].path \in lists <=> Divided(old, k, all) \/ Left(old, k, n)
      /\ Range(st.hd) \cap Range(st.cd) = {}
      /\ \A k \in DOMAIN old : /\ old[k].path \in Range(st.hd) => AsHd(old, k)
                               /\ old[k].path \in Range(st.cd) => AsCd(old, k)
  BY DEF Named
<1>6. old[n].path \notin lists
  <2>1. ~Divided(old, n, all)
    BY <1>5 DEF Decided
  <2>2. ~Left(old, n, n)
    BY <1>1 DEF Left
  <2> QED
    BY <1>5, <2>1, <2>2
<1>7. \A k \in DOMAIN old : Left(old, k, n + 1) <=> Left(old, k, n) \/ k = n
  <2>1. \A k \in DOMAIN old : k < n + 1 <=> k < n \/ k = n
    BY <1>1
  <2> QED
    BY <2>1 DEF Left
<1>8. \A k \in DOMAIN old : old[k].path = old[n].path <=> k = n
  BY <1>1 DEF Apart
<1>9. \A q : q \in Range(hd) \cup Range(cd) <=> q \in lists \/ q = old[n].path
  BY <1>3
<1>10. Range(hd) \cap Range(cd) = {}
  BY <1>3, <1>5, <1>6
<1>11. IF Optical(old[n]) THEN AsCd(old, n) ELSE AsHd(old, n)
  BY DEF AsCd, AsHd
<1>12. ASSUME NEW k \in DOMAIN old
       PROVE  /\ old[k].path \in Range(hd) => AsHd(old, k)
              /\ old[k].path \in Range(cd) => AsCd(old, k)
  <2> HIDE DEF old
  <2>1. CASE k = n
    <3>1. old[n].path \notin Range(st.hd) /\ old[n].path \notin Range(st.cd)
      BY <1>6
    <3> QED
      BY <1>3, <1>11, <2>1, <3>1
  <2>2. CASE k # n
    BY <1>3, <1>5, <1>8, <2>2
  <2> QED
    BY <2>1, <2>2
<1> HIDE DEF old, lists
<1>13. /\ new.hd \in Seq(Paths \ {NoPath}) /\ new.cd \in Seq(Paths \ {NoPath})
       /\ Sorted(new.hd) /\ Sorted(new.cd)
  BY <1>2, <1>3
<1>14. \A k \in DOMAIN new.devices : ~new.devices[k].ldp <=> Decided(new.devices, k, all)
  BY <1>2, <1>5
<1>15. \A q \in Range(new.hd) \cup Range(new.cd) : \E k \in DOMAIN new.devices : new.devices[k].path = q
  <2>1. n \in DOMAIN old
    BY DEF old
  <2> QED
    BY <1>2, <1>5, <1>9, <2>1
<1>16. \A k \in DOMAIN new.devices :
        new.devices[k].path \in Range(new.hd) \cup Range(new.cd)
          <=> Divided(new.devices, k, all) \/ Left(new.devices, k, n + 1)
  BY <1>2, <1>5, <1>7, <1>8, <1>9
<1>17. /\ Range(new.hd) \cap Range(new.cd) = {}
       /\ \A k \in DOMAIN new.devices :
            /\ new.devices[k].path \in Range(new.hd) => AsHd(new.devices, k)
            /\ new.devices[k].path \in Range(new.cd) => AsCd(new.devices, k)
  BY <1>2, <1>10, <1>12
<1>18. Named(new, all, n + 1)
  BY <1>13, <1>14, <1>15, <1>16, <1>17, Zenon DEF Named
<1> QED
  BY <1>4, <1>18

\* A turn of the second loop.
LEMMA HeuristicsTurn ==
    ASSUME NEW st, Typed(st), NEW n \in DOMAIN st.devices, NEW all, Named(st, all, n)
    PROVE  /\ Typed(ByHeuristics(st, n)) /\ Named(ByHeuristics(st, n), all, n + 1)
           /\ ByHeuristics(st, n).devices = st.devices
<1> DEFINE old == st.devices
<1>1. /\ DOMAIN old = 1..Len(old) /\ Len(old) \in Nat
      /\ st = [devices |-> old, hd |-> st.hd, cd |-> st.cd]
  BY TypedFacts DEF Typed
<1>2. CASE ~old[n].ldp \/ Ghost(old, n)
  <2>1. ByHeuristics(st, n) = st
    BY <1>2 DEF ByHeuristics
  <2>2. \A k \in DOMAIN old : Left(old, k, n + 1) <=> Left(old, k, n)
    <3>1. \A k \in DOMAIN old : k < n + 1 <=> k < n \/ k = n
      BY <1>1
    <3> QED
      BY <1>2, <3>1 DEF Left
  <2>3. Named(st, all, n + 1)
    BY <2>2 DEF Named
  <2> QED
    BY <2>1, <2>3
<1>3. CASE old[n].ldp /\ ~Ghost(old, n)
  <2> DEFINE new == [devices |-> old,
                     hd |-> IF Optical(old[n]) THEN st.hd ELSE AddDevice(st.hd, old[n].path),
                     cd |-> IF Optical(old[n]) THEN AddDevice(st.cd, old[n].path) ELSE st.cd]
  <2>1. ByHeuristics(st, n) =
          IF Optical(old[n]) THEN [st EXCEPT !.cd = AddDevice(@, old[n].path)]
          ELSE [st EXCEPT !.hd = AddDevice(@, old[n].path)]
    BY <1>3, Zenon DEF ByHeuristics, Optical
  <2>2. ByHeuristics(st, n) = new
    BY <1>1, <2>1
  <2>3. Typed(new) /\ Named(new, all, n + 1) /\ new.devices = old
    BY <1>3, HeuristicsFind
  <2> HIDE DEF new
  <2> QED
    BY <2>2, <2>3
<1> QED
  BY <1>2, <1>3

-----------------------------------------------------------------------------
(* When both loops are done, the lists are what the firmware has.          *)

\* What name_devices sees in the list is what there is among the media.
LEMMA SeenAsIs ==
    ASSUME machine \in Machines, NEW devices \in Seq(DeviceSet), Made(devices),
           NEW k \in DOMAIN devices, NEW h \in Media, Shows(devices[k], h)
    PROVE  /\ FindParent(devices, k) # 0 <=> Above(Media, h) # {}
           /\ IsPart(devices, k) <=> Partition(Media, h)
           /\ Ghost(devices, k) <=> AppleGhost(Media, h)
           /\ \A j \in DOMAIN devices, g \in Media :
                Shows(devices[j], g) => (FindParent(devices, j) = k <=> h \in Above(Media, g))
<1>1. /\ DOMAIN devices = 1..Len(devices) /\ 0 \notin DOMAIN devices /\ Apart(devices)
      /\ \A g \in Media : \E i \in DOMAIN devices : Shows(devices[i], g)
      /\ \A i \in DOMAIN devices : \E g \in Media : Shows(devices[i], g)
  BY DEF Made
<1>2. \A i \in DOMAIN devices : devices[i].path # Front(devices[i].path)
  BY MadePaths, FrontShorter
<1>3. ASSUME NEW j \in DOMAIN devices, NEW i \in DOMAIN devices,
             devices[i].path = Front(devices[j].path)
      PROVE  FindParent(devices, j) = i
  <2>1. i # j
    BY <1>2, <1>3
  <2> QED
    BY <1>1, <1>3, <2>1, ParentFound
<1>4. \A j \in DOMAIN devices : FindParent(devices, j) # 0 =>
            FindParent(devices, j) \in DOMAIN devices
            /\ devices[FindParent(devices, j)].path = Front(devices[j].path)
  BY <1>1, ParentFound
<1>5. devices[k].path = h.path
  BY DEF Shows
<1>6. FindParent(devices, k) # 0 <=> Above(Media, h) # {}
  <2>1. ASSUME FindParent(devices, k) # 0 PROVE Above(Media, h) # {}
    <3>1. PICK i \in DOMAIN devices : devices[i].path = Front(h.path)
      BY <1>4, <1>5, <2>1
    <3>2. PICK g \in Media : Shows(devices[i], g)
      BY <1>1
    <3> QED
      BY <3>1, <3>2 DEF Above, Shows
  <2>2. ASSUME Above(Media, h) # {} PROVE FindParent(devices, k) # 0
    <3>1. PICK g \in Media : g.path = Front(h.path)
      BY <2>2 DEF Above
    <3>2. PICK i \in DOMAIN devices : Shows(devices[i], g)
      BY <1>1
    <3>3. FindParent(devices, k) = i
      BY <1>3, <1>5, <3>1, <3>2 DEF Shows
    <3> QED
      BY <1>1, <3>3
  <2> QED
    BY <2>1, <2>2
<1>7. IsPart(devices, k) <=> Partition(Media, h)
  BY <1>5, <1>6, Zenon DEF IsPart, Partition
<1>8. Ghost(devices, k) <=> AppleGhost(Media, h)
  BY <1>5, <1>6, Zenon DEF Ghost, AppleGhost
<1>9. ASSUME NEW j \in DOMAIN devices, NEW g \in Media, Shows(devices[j], g)
      PROVE  FindParent(devices, j) = k <=> h \in Above(Media, g)
  <2>1. devices[j].path = g.path
    BY <1>9 DEF Shows
  <2>2. h \in Above(Media, g) <=> devices[k].path = Front(devices[j].path)
    BY <1>5, <2>1 DEF Above
  <2> QED
    BY <1>1, <1>3, <1>4, <2>2
<1> QED
  BY <1>6, <1>7, <1>8, <1>9

\* What DisksAsFound says of the lists.
Listed ==
    LET disks == {h \in Media : ~Partition(Media, h) /\ ~AppleGhost(Media, h)}
        hds == Range(found.hd)
        cds == Range(found.cd)
    IN  /\ hds \cup cds = {h.path : h \in disks}
        /\ hds \cap cds = {}
        /\ \A h \in disks : (IF h.path \in hds THEN "hd" ELSE "cd") \in Kinds(Media, h)
        /\ Sorted(found.hd) /\ Sorted(found.cd)

\* After both loops, the lists are the disks of the firmware.
LEMMA DisksAreListed ==
    ASSUME Typed(found), Named(found, Len(found.devices) + 1, Len(found.devices) + 1)
    PROVE  Listed
<1> DEFINE devices == found.devices
           all == Len(devices) + 1
           disks == {h \in Media : ~Partition(Media, h) /\ ~AppleGhost(Media, h)}
           hds == Range(found.hd)
           cds == Range(found.cd)
<1>1. /\ devices \in Seq(DeviceSet) /\ Made(devices) /\ machine \in Machines
      /\ DOMAIN devices = 1..Len(devices) /\ Len(devices) \in Nat
  BY TypedFacts DEF Typed
<1>2. /\ \A k \in DOMAIN devices : ~devices[k].ldp <=> Decided(devices, k, all)
      /\ \A p \in hds \cup cds : \E k \in DOMAIN devices : devices[k].path = p
      /\ \A k \in DOMAIN devices :
            devices[k].path \in hds \cup cds <=> Divided(devices, k, all) \/ Left(devices, k, all)
      /\ hds \cap cds = {}
      /\ \A k \in DOMAIN devices : /\ devices[k].path \in hds => AsHd(devices, k)
                                   /\ devices[k].path \in cds => AsCd(devices, k)
      /\ Sorted(found.hd) /\ Sorted(found.cd)
  BY DEF Named
<1> HIDE DEF devices, hds, cds
<1>3. \A k \in DOMAIN devices : k < all
  BY <1>1
<1> HIDE DEF all
<1>4. ASSUME NEW k \in DOMAIN devices
      PROVE  /\ Decided(devices, k, all) <=> IsPart(devices, k) \/ Divided(devices, k, all)
             /\ Left(devices, k, all) <=> devices[k].ldp /\ ~Ghost(devices, k)
             /\ Divided(devices, k, all) <=>
                    FindParent(devices, k) = 0 /\ \E j \in DOMAIN devices : PartOf(devices, j, k)
             /\ Divided(devices, k, all) => ~IsPart(devices, k) /\ ~Ghost(devices, k)
  BY <1>3 DEF Decided, Left, Divided, IsPart, Ghost
<1>5. /\ \A h \in Media : \E k \in DOMAIN devices : Shows(devices[k], h)
      /\ \A k \in DOMAIN devices : \E h \in Media : Shows(devices[k], h)
  BY <1>1 DEF Made
<1>6. ASSUME NEW k \in DOMAIN devices, NEW h \in Media, Shows(devices[k], h)
      PROVE  h \in disks <=> h.path \in hds \cup cds
  <2>1. h \in disks <=> ~IsPart(devices, k) /\ ~Ghost(devices, k)
    BY <1>1, <1>6, SeenAsIs
  <2>2. devices[k].path \in hds \cup cds <=> ~IsPart(devices, k) /\ ~Ghost(devices, k)
    BY <1>2, <1>4
  <2> QED
    BY <1>6, <2>1, <2>2 DEF Shows
<1>7. hds \cup cds = {h.path : h \in disks}
  <2>1. ASSUME NEW p \in hds \cup cds PROVE \E h \in disks : p = h.path
    <3>1. PICK k \in DOMAIN devices : devices[k].path = p
      BY <1>2
    <3>2. PICK h \in Media : Shows(devices[k], h)
      BY <1>5
    <3>3. h.path = p
      BY <3>1, <3>2 DEF Shows
    <3>4. h \in disks
      BY <1>6, <2>1, <3>2, <3>3
    <3> QED
      BY <3>3, <3>4
  <2>2. ASSUME NEW h \in disks PROVE h.path \in hds \cup cds
    <3>1. PICK k \in DOMAIN devices : Shows(devices[k], h)
      BY <1>5
    <3> QED
      BY <1>6, <3>1
  <2> HIDE DEF disks
  <2> QED
    BY <2>1, <2>2
<1>8. ASSUME NEW h \in disks
      PROVE  (IF h.path \in hds THEN "hd" ELSE "cd") \in Kinds(Media, h)
  <2>1. PICK k \in DOMAIN devices : Shows(devices[k], h)
    BY <1>5
  <2>2. h \in Media /\ devices[k].path = h.path /\ devices[k].media = h.media
    BY <2>1 DEF Shows
  <2>3. h.path \in hds \/ h.path \in cds
    BY <1>6, <2>1, <2>2
  <2>4. FindParent(devices, k) # 0 <=> Above(Media, h) # {}
    BY <1>1, <2>1, <2>2, SeenAsIs
  <2>5. ASSUME NEW j \in DOMAIN devices, NEW g \in Media, Shows(devices[j], g)
        PROVE  PartOf(devices, j, k) <=> h \in Above(Media, g) /\ Partition(Media, g)
    <3>1. IsPart(devices, j) <=> Partition(Media, g)
      BY <1>1, <2>5, SeenAsIs
    <3>2. FindParent(devices, j) = k <=> h \in Above(Media, g)
      BY <1>1, <2>1, <2>2, <2>5, SeenAsIs
    <3> QED
      BY <3>1, <3>2 DEF PartOf
  <2> DEFINE parts == {q \in Media : Above(Media, h) = {} /\ h \in Above(Media, q) /\ Partition(Media, q)}
             kind(p) == IF HardDrive(Last(p.path)) THEN "hd" ELSE "cd"
  <2>6. PartKinds(Media, h) = {kind(p) : p \in parts}
    BY Zenon DEF PartKinds
  <2>7. CASE devices[k].ldp
    <3>1. ~Divided(devices, k, all)
      BY <1>2, <1>4, <2>7
    <3>2. ASSUME NEW q \in parts PROVE FALSE
      <4>1. PICK j \in DOMAIN devices : Shows(devices[j], q)
        BY <1>5
      <4>2. PartOf(devices, j, k)
        BY <2>5, <4>1
      <4> QED
        BY <1>4, <2>4, <3>1, <4>2
    <3> HIDE DEF parts
    <3>3. PartKinds(Media, h) = {}
      BY <2>6, <3>2
    <3>4. Kinds(Media, h) = IF Optical(h) THEN {"cd"} ELSE {"hd"}
      BY <3>3, Zenon DEF Kinds
    <3>5. Optical(h) <=> Optical(devices[k])
      BY <2>2, Zenon DEF Optical
    <3>6. h.path \in hds => ~Optical(h)
      BY <1>2, <2>2, <2>7, <3>5 DEF AsHd
    <3>7. h.path \in cds => Optical(h)
      BY <1>2, <2>2, <2>7, <3>5 DEF AsCd
    <3> QED
      BY <2>3, <3>4, <3>6, <3>7
  <2>8. CASE ~devices[k].ldp
    <3>1. FindParent(devices, k) = 0
      BY <1>2, <1>4, <2>2, <2>3, <2>8
    <3>2. \E j \in DOMAIN devices :
            /\ PartOf(devices, j, k)
            /\ HardDrive(Last(devices[j].path)) <=> h.path \in hds
      BY <1>2, <2>2, <2>3, <2>8 DEF AsHd, AsCd
    <3>3. PICK j \in DOMAIN devices :
            /\ PartOf(devices, j, k)
            /\ HardDrive(Last(devices[j].path)) <=> h.path \in hds
      BY <3>2
    <3>4. PICK g \in Media : Shows(devices[j], g)
      BY <1>5
    <3>5. g \in parts
      BY <2>4, <2>5, <3>1, <3>3, <3>4
    <3>6. kind(g) = IF h.path \in hds THEN "hd" ELSE "cd"
      BY <3>3, <3>4 DEF Shows
    <3> HIDE DEF parts, kind
    <3>7. kind(g) \in PartKinds(Media, h)
      BY <2>6, <3>5
    <3>8. Kinds(Media, h) = PartKinds(Media, h)
      BY <3>7, Zenon DEF Kinds
    <3> QED
      BY <3>6, <3>7, <3>8
  <2> QED
    BY <2>7, <2>8
<1> QED
  BY <1>2, <1>7, <1>8 DEF Listed, hds, cds

-----------------------------------------------------------------------------
(* The invariant over every step.                                          *)

\* The phases before the handles are listed, and those in which the lists matter.
Early == {"entry", "cmdline", "locate"}
Naming == {"make", "media", "heuristics", "lf2"}

\* Before the first call that fails there was none.
LEMMA NoneFailed ==
    ASSUME faults \in Nat, Counted, faults' = 0
    PROVE  faults = 0 /\ UNCHANGED faults
  BY DEF Counted

\* The steps before the handles are listed, and those after name_devices.
LEMMA DisksStay ==
    ASSUME DiskInv, faults \in Nat, Counted, UNCHANGED diskVars,
           pc' \notin Naming, pc' \in Early => pc \in Early
    PROVE  DiskInv'
<1> SUFFICES ASSUME faults' = 0
             PROVE  pc' \in Early => (NothingNamed /\ found.devices = << >>)'
  BY DEF DiskInv, DisksAsFound, Naming, Early
<1>1. faults = 0
  BY NoneFailed
<1>2. ASSUME pc \in Early PROVE (NothingNamed /\ found.devices = << >>)'
  <2>1. NothingNamed /\ found.devices = << >>
    BY <1>1, <1>2 DEF DiskInv, Early
  <2> QED
    BY <2>1 DEF NothingNamed, diskVars
<1> QED
  BY <1>2

\* A step that changes nothing keeps the invariant.
LEMMA DisksStutter == ASSUME DiskInv, UNCHANGED vars PROVE DiskInv'
<1>1. UNCHANGED <<machine, pc, faults, todo, found, d>>
  BY DEF vars
<1>2. UNCHANGED Media
  BY <1>1 DEF Media
<1>3. (NothingNamed <=> NothingNamed') /\ (Making <=> Making')
  BY <1>1, <1>2 DEF NothingNamed, Making, Shows, Apart
<1>4. Made(found.devices) <=> Made(found.devices)'
  BY <1>1, <1>2 DEF Made
<1>5. DisksAsFound <=> DisksAsFound'
  BY <1>1, <1>2 DEF DisksAsFound
<1> QED
  BY <1>1, <1>3, <1>4, <1>5 DEF DiskInv

\* At the start there are no devices.
LEMMA DisksInit == Init => DiskInv
<1> SUFFICES ASSUME Init PROVE DiskInv
  OBVIOUS
<1>1. pc = "entry" /\ d = 1 /\ found.devices = << >> /\ found.hd = << >> /\ found.cd = << >>
  BY DEF Init
<1>2. NothingNamed
  BY <1>1 DEF NothingNamed
<1> QED
  BY <1>1, <1>2 DEF DiskInv, DisksAsFound

\* locate_handle: all media are among the handles.
LEMMA LocateDisks ==
    ASSUME ListInv, DiskInv, faults \in Nat, Counted, LocateHandle
    PROVE  DiskInv'
<1> SUFFICES ASSUME faults' = 0, pc' # "die" PROVE DiskInv'
  <2>1. pc' = "die" => DiskInv'
    BY DEF DiskInv, DisksAsFound
  <2>2. faults' # 0 => DiskInv'
    BY DEF DiskInv
  <2> QED
    BY <2>1, <2>2
<1>1. faults = 0 /\ UNCHANGED faults
  BY NoneFailed
<1>2. /\ UNCHANGED <<machine, found, d>> /\ pc = "locate" /\ pc' = "make"
      /\ \/ todo' = machine.handles
         \/ machine.handles = << >> /\ todo' = [i \in 1..HandleRoom |-> Stale]
  BY <1>1 DEF LocateHandle, Works, Fails, Failed
<1>3. machine \in Machines /\ NothingNamed /\ found.devices = << >>
  BY <1>1, <1>2 DEF ListInv, DiskInv
<1>4. NothingNamed'
  BY <1>2, <1>3 DEF NothingNamed
<1>5. UNCHANGED Media
  BY <1>2 DEF Media
<1>6. Making'
  <2>1. CASE todo' = machine.handles
    <3> DEFINE hs == machine.handles
    <3>1. \A h \in Media : \E i \in DOMAIN hs : hs[i] = h
      BY DEF Media, Range
    <3>2. \A i \in DOMAIN hs : Accepted(hs[i]) => hs[i] \in Media
      BY DEF Media, Range
    <3>3. \A i, j \in DOMAIN hs : Accepted(hs[i]) /\ Accepted(hs[j]) /\ hs[i].path = hs[j].path => i = j
      BY <1>3, HandlesAssumption
    <3> HIDE DEF hs
    <3>4. found'.devices = << >> /\ todo' = hs
      BY <1>2, <1>3, <2>1 DEF hs
    <3>5. DOMAIN (<< >>) = {}
      OBVIOUS
    <3> QED
      BY <1>5, <3>1, <3>2, <3>3, <3>4, <3>5 DEF Making, Apart
  <2>2. CASE machine.handles = << >> /\ todo' = [i \in 1..HandleRoom |-> Stale]
    <3>1. Media = {}
      BY <2>2 DEF Media, Range
    <3>2. \A i \in DOMAIN todo' : ~Accepted(todo'[i])
      BY <2>2 DEF Accepted, Stale
    <3>3. found'.devices = << >> /\ DOMAIN (<< >>) = {}
      BY <1>2, <1>3
    <3> QED
      BY <1>5, <3>1, <3>2, <3>3 DEF Making, Apart
  <2> QED
    BY <1>2, <2>1, <2>2
<1> QED
  BY <1>2, <1>4, <1>6 DEF DiskInv, DisksAsFound

\* make_devices: a handle becomes a device, or is skipped.
LEMMA MakeDisks ==
    ASSUME ListInv, DiskInv, faults \in Nat, Counted, MakeDevice
    PROVE  DiskInv'
<1> SUFFICES ASSUME faults' = 0 PROVE DiskInv'
  BY DEF DiskInv
<1>1. faults = 0 /\ UNCHANGED faults
  BY NoneFailed
<1> DEFINE h == Head(todo)
           old == found.devices
           new == <<Device(h)>> \o old
           rest == Tail(todo)
<1>2. /\ UNCHANGED <<machine, d>> /\ pc = "make" /\ pc' = "make" /\ todo # << >> /\ todo' = rest
      /\ \/ Accepted(h) /\ found' = [found EXCEPT !.devices = new]
         \/ ~Accepted(h) /\ UNCHANGED found
  BY <1>1 DEF MakeDevice, Works, Fails, Failed
<1>3. /\ todo \in Seq(HandleSet) /\ Len(todo) \in Nat \ {0}
      /\ old \in Seq(DeviceSet) /\ Len(old) \in Nat /\ DOMAIN old = 1..Len(old)
      /\ found = [devices |-> old, hd |-> found.hd, cd |-> found.cd]
      /\ NothingNamed /\ Making
  BY <1>1, <1>2 DEF ListInv, DiskInv
<1>4. /\ h = todo[1] /\ 1 \in DOMAIN todo /\ DOMAIN todo = 1..Len(todo)
      /\ DOMAIN rest = 1..(Len(todo) - 1)
      /\ \A i \in 1..(Len(todo) - 1) : rest[i] = todo[i + 1] /\ i + 1 \in DOMAIN todo
      /\ \A i \in 2..Len(todo) : i - 1 \in 1..(Len(todo) - 1) /\ rest[i - 1] = todo[i]
  BY <1>3
<1>5. /\ \A g \in Media : \/ \E i \in DOMAIN todo : todo[i] = g
                          \/ \E k \in DOMAIN old : Shows(old[k], g)
      /\ \A k \in DOMAIN old : \E g \in Media : Shows(old[k], g)
      /\ \A i \in DOMAIN todo : Accepted(todo[i]) =>
            /\ todo[i] \in Media
            /\ \A j \in DOMAIN todo : Accepted(todo[j]) /\ todo[i].path = todo[j].path => i = j
            /\ \A k \in DOMAIN old : old[k].path # todo[i].path
      /\ Apart(old)
  BY <1>3 DEF Making
<1>6. UNCHANGED Media
  BY <1>2 DEF Media
<1>7. \A g \in Media : Accepted(g)
  BY DEF Media
<1> HIDE DEF h, rest
<1>8. \A i \in DOMAIN rest : Accepted(rest[i]) =>
        /\ rest[i] \in Media
        /\ \A j \in DOMAIN rest : Accepted(rest[j]) /\ rest[i].path = rest[j].path => i = j
        /\ \A k \in DOMAIN old : old[k].path # rest[i].path
        /\ Accepted(h) => rest[i].path # h.path
  <2> SUFFICES ASSUME NEW i \in DOMAIN rest, Accepted(rest[i])
               PROVE  /\ rest[i] \in Media
                      /\ \A j \in DOMAIN rest : Accepted(rest[j]) /\ rest[i].path = rest[j].path => i = j
                      /\ \A k \in DOMAIN old : old[k].path # rest[i].path
                      /\ Accepted(h) => rest[i].path # h.path
    OBVIOUS
  <2>1. i + 1 \in DOMAIN todo /\ rest[i] = todo[i + 1] /\ Accepted(todo[i + 1]) /\ i \in Nat /\ i > 0
    BY <1>4
  <2>2. \A j \in DOMAIN rest : Accepted(rest[j]) /\ rest[i].path = rest[j].path => i = j
    <3> SUFFICES ASSUME NEW j \in DOMAIN rest, Accepted(rest[j]), rest[i].path = rest[j].path
                 PROVE  i = j
      OBVIOUS
    <3>1. j + 1 \in DOMAIN todo /\ rest[j] = todo[j + 1] /\ j \in Nat
      BY <1>4
    <3>2. i + 1 = j + 1
      BY <1>5, <2>1, <3>1
    <3> QED
      BY <2>1, <3>1, <3>2
  <2>3. Accepted(h) => rest[i].path # h.path
    <3>1. i + 1 # 1
      BY <2>1
    <3> QED
      BY <1>4, <1>5, <2>1, <3>1
  <2> QED
    BY <1>5, <2>1, <2>2, <2>3
<1>9. ASSUME NEW g \in Media, g # h PROVE \/ \E i \in DOMAIN rest : rest[i] = g
                                          \/ \E k \in DOMAIN old : Shows(old[k], g)
  <2>1. ASSUME NEW i \in DOMAIN todo, todo[i] = g PROVE \E j \in DOMAIN rest : rest[j] = g
    <3>1. i \in 2..Len(todo)
      BY <1>3, <1>4, <1>9, <2>1
    <3> QED
      BY <1>4, <2>1, <3>1
  <2> QED
    BY <1>5, <2>1
<1>10. CASE ~Accepted(h) /\ UNCHANGED found
  <2>1. \A g \in Media : g # h
    BY <1>7, <1>10
  <2>2. Making'
    BY <1>2, <1>5, <1>6, <1>8, <1>9, <1>10, <2>1 DEF Making, Apart
  <2>3. NothingNamed'
    BY <1>2, <1>3, <1>10 DEF NothingNamed
  <2> QED
    BY <1>2, <2>2, <2>3 DEF DiskInv, DisksAsFound
<1>11. CASE Accepted(h) /\ found' = [found EXCEPT !.devices = new]
  <2>1. found'.devices = new /\ found'.hd = found.hd /\ found'.cd = found.cd
    <3> HIDE DEF new
    <3> QED
      BY <1>3, <1>11
  <2>2. /\ DOMAIN new = 1..(Len(old) + 1) /\ new[1] = Device(h)
        /\ \A k \in 1..Len(old) : k + 1 \in DOMAIN new /\ new[k + 1] = old[k]
        /\ \A k \in 2..(Len(old) + 1) : k - 1 \in DOMAIN old /\ new[k] = old[k - 1]
    <3>1. h \in HandleSet
      BY <1>3 DEF h
    <3>2. Device(h) \in DeviceSet
      BY <3>1, DeviceTyped
    <3> QED
      BY <1>3, <3>2
  <2> HIDE DEF new
  <2>3. new[1].path = h.path /\ new[1].media = h.media /\ new[1].ldp = TRUE
    BY <2>2 DEF Device
  <2>4. h \in Media /\ \A k \in DOMAIN old : old[k].path # h.path
    BY <1>4, <1>5, <1>11
  <2>5. \A k \in DOMAIN new : k = 1 \/ k \in 2..(Len(old) + 1)
    BY <1>3, <2>2
  <2>6. 1 \in DOMAIN new
    BY <1>3, <2>2
  <2>7. \A g \in Media : \/ \E i \in DOMAIN rest : rest[i] = g
                         \/ \E k \in DOMAIN new : Shows(new[k], g)
    <3> SUFFICES ASSUME NEW g \in Media PROVE \/ \E i \in DOMAIN rest : rest[i] = g
                                              \/ \E k \in DOMAIN new : Shows(new[k], g)
      OBVIOUS
    <3>1. CASE g = h
      BY <2>3, <2>6, <3>1 DEF Shows
    <3>2. ASSUME NEW k \in DOMAIN old, Shows(old[k], g) PROVE \E j \in DOMAIN new : Shows(new[j], g)
      BY <1>3, <2>2, <3>2
    <3> QED
      BY <1>9, <3>1, <3>2
  <2>8. \A k \in DOMAIN new : \E g \in Media : Shows(new[k], g)
    <3>1. \E g \in Media : Shows(new[1], g)
      BY <2>3, <2>4 DEF Shows
    <3> QED
      BY <1>5, <2>2, <2>5, <3>1
  <2>9. \A i \in DOMAIN rest : Accepted(rest[i]) => \A k \in DOMAIN new : new[k].path # rest[i].path
    BY <1>8, <1>11, <2>2, <2>3, <2>5
  <2>10. Apart(new)
    <3> SUFFICES ASSUME NEW j \in DOMAIN new, NEW k \in DOMAIN new, new[j].path = new[k].path PROVE j = k
      BY DEF Apart
    <3>1. CASE j = 1 \/ k = 1
      BY <2>2, <2>3, <2>4, <2>5, <3>1
    <3>2. CASE j \in 2..(Len(old) + 1) /\ k \in 2..(Len(old) + 1)
      <4>1. j - 1 = k - 1
        BY <1>5, <2>2, <3>2 DEF Apart
      <4> QED
        BY <3>2, <4>1
    <3> QED
      BY <2>5, <3>1, <3>2
  <2>11. Making'
    <3>1. todo' = rest /\ found'.devices = new
      BY <1>2, <2>1
    <3> QED
      BY <1>6, <1>8, <2>7, <2>8, <2>9, <2>10, <3>1 DEF Making
  <2>12. NothingNamed'
    <3>1. \A k \in DOMAIN new : new[k].ldp
      BY <1>3, <2>2, <2>3, <2>5 DEF NothingNamed
    <3> QED
      BY <1>2, <1>3, <2>1, <3>1 DEF NothingNamed
  <2> QED
    BY <1>2, <2>11, <2>12 DEF DiskInv, DisksAsFound
<1> QED
  BY <1>2, <1>10, <1>11

\* make_devices ends: every medium is a device, and nothing is decided.
LEMMA DoneDisks ==
    ASSUME ListInv, DiskInv, faults \in Nat, Counted, MakeDone
    PROVE  DiskInv'
<1> SUFFICES ASSUME faults' = 0 PROVE DiskInv'
  BY DEF DiskInv
<1>1. faults = 0 /\ UNCHANGED faults
  BY NoneFailed
<1>2. /\ UNCHANGED <<machine, found, d>> /\ pc = "make" /\ todo = << >>
      /\ pc' = IF found.devices = << >> THEN "lf2" ELSE "media"
  BY DEF MakeDone, Works, diskVars
<1>3. /\ machine \in Machines /\ found.devices \in Seq(DeviceSet) /\ DOMAIN found.devices \subseteq Nat \ {0}
      /\ found = [devices |-> found.devices, hd |-> found.hd, cd |-> found.cd]
      /\ NothingNamed /\ Making
  BY <1>1, <1>2 DEF ListInv, DiskInv
<1>4. Made(found.devices)
  BY <1>2, <1>3 DEF Making, Made
<1>5. Typed(found)
  BY <1>3, <1>4 DEF Typed
<1>6. d = 1 /\ found.hd = << >> /\ found.cd = << >> /\ \A k \in DOMAIN found.devices : found.devices[k].ldp
  BY <1>3 DEF NothingNamed
<1>7. Named(found, 1, 1)
  <2>1. << >> \in Seq(Paths \ {NoPath}) /\ Sorted(<< >>) /\ Range(<< >>) = {}
    BY DEF Sorted, Range
  <2>2. ASSUME NEW k \in DOMAIN found.devices
        PROVE ~(k < 1) /\ ~Divided(found.devices, k, 1) /\ ~Left(found.devices, k, 1)
    BY <1>3 DEF Divided, Left
  <2> QED
    BY <1>6, <2>1, <2>2 DEF Named, Decided
<1>8. UNCHANGED Media
  BY <1>2 DEF Media
<1>9. CASE found.devices = << >>
  <2>1. Listed
    <3>1. Len(found.devices) + 1 = 1
      BY <1>9
    <3> QED
      BY <1>5, <1>7, <3>1, DisksAreListed
  <2>2. Listed'
    BY <1>2, <1>8, <2>1 DEF Listed
  <2>3. DisksAsFound'
    BY <2>2 DEF DisksAsFound, Listed
  <2> QED
    BY <1>2, <1>9, <2>3 DEF DiskInv
<1>10. CASE found.devices # << >>
  <2>1. Made(found.devices)'
    BY <1>2, <1>4, <1>8 DEF Made
  <2>2. Named(found, d, 1)'
    BY <1>2, <1>6, <1>7
  <2> QED
    BY <1>2, <1>10, <2>1, <2>2 DEF DiskInv, DisksAsFound
<1> QED
  BY <1>9, <1>10

\* The first loop of name_devices.
LEMMA MediaDisks ==
    ASSUME ListInv, DiskInv, faults \in Nat, Counted, NameByMedia
    PROVE  DiskInv'
<1> SUFFICES ASSUME faults' = 0 PROVE DiskInv'
  BY DEF DiskInv
<1>1. faults = 0 /\ UNCHANGED faults
  BY NoneFailed
<1>2. /\ UNCHANGED machine /\ pc = "media"
      /\ \/ d <= Len(found.devices) /\ found' = ByMedia(found, d) /\ d' = d + 1 /\ pc' = "media"
         \/ d > Len(found.devices) /\ UNCHANGED found /\ d' = 1 /\ pc' = "heuristics"
  BY <1>1 DEF NameByMedia, Works, Fails, Failed
<1>3. /\ machine \in Machines /\ found.devices \in Seq(DeviceSet) /\ Len(found.devices) \in Nat
      /\ DOMAIN found.devices = 1..Len(found.devices)
      /\ found = [devices |-> found.devices, hd |-> found.hd, cd |-> found.cd]
      /\ d \in 1..(Len(found.devices) + 1) /\ Made(found.devices) /\ Named(found, d, 1)
  BY <1>1, <1>2 DEF ListInv, DiskInv
<1>4. Typed(found)
  BY <1>3 DEF Typed
<1>5. UNCHANGED Media
  BY <1>2 DEF Media
<1>6. CASE d <= Len(found.devices) /\ found' = ByMedia(found, d) /\ d' = d + 1 /\ pc' = "media"
  <2>1. d \in DOMAIN found.devices
    BY <1>3, <1>6
  <2>2. Typed(ByMedia(found, d)) /\ Named(ByMedia(found, d), d + 1, 1)
    BY <1>3, <1>4, <2>1, MediaTurn
  <2>3. Made(ByMedia(found, d).devices)
    BY <2>2 DEF Typed
  <2>4. Made(found.devices)'
    BY <1>5, <1>6, <2>3 DEF Made
  <2>5. Named(found, d, 1)'
    BY <1>6, <2>2
  <2> QED
    BY <1>6, <2>4, <2>5 DEF DiskInv, DisksAsFound
<1>7. CASE d > Len(found.devices) /\ UNCHANGED found /\ d' = 1 /\ pc' = "heuristics"
  <2>1. d = Len(found.devices) + 1
    BY <1>3, <1>7
  <2>2. Made(found.devices)'
    BY <1>3, <1>5, <1>7 DEF Made
  <2>3. Named(found, Len(found.devices) + 1, d)'
    BY <1>3, <1>7, <2>1
  <2> QED
    BY <1>7, <2>2, <2>3 DEF DiskInv, DisksAsFound
<1> QED
  BY <1>2, <1>6, <1>7

\* The second loop, and its end.
LEMMA HeuristicsDisks ==
    ASSUME ListInv, DiskInv, faults \in Nat, Counted, NameByHeuristics
    PROVE  DiskInv'
<1> SUFFICES ASSUME faults' = 0 PROVE DiskInv'
  BY DEF DiskInv
<1> DEFINE all == Len(found.devices) + 1
<1>1. faults = 0 /\ UNCHANGED faults
  BY NoneFailed
<1>2. /\ UNCHANGED machine /\ pc = "heuristics"
      /\ \/ d <= Len(found.devices) /\ found' = ByHeuristics(found, d) /\ d' = d + 1 /\ pc' = "heuristics"
         \/ d > Len(found.devices) /\ UNCHANGED <<found, d>> /\ pc' = "lf2"
  BY <1>1 DEF NameByHeuristics, Works, Fails, Failed
<1>3. /\ machine \in Machines /\ found.devices \in Seq(DeviceSet) /\ Len(found.devices) \in Nat
      /\ DOMAIN found.devices = 1..Len(found.devices)
      /\ found = [devices |-> found.devices, hd |-> found.hd, cd |-> found.cd]
      /\ d \in 1..all /\ Made(found.devices) /\ Named(found, all, d)
  BY <1>1, <1>2 DEF ListInv, DiskInv
<1>4. Typed(found)
  BY <1>3 DEF Typed
<1>5. UNCHANGED Media
  BY <1>2 DEF Media
<1>6. CASE d <= Len(found.devices) /\ found' = ByHeuristics(found, d) /\ d' = d + 1 /\ pc' = "heuristics"
  <2>1. d \in DOMAIN found.devices
    BY <1>3, <1>6
  <2> HIDE DEF all
  <2>2. Named(ByHeuristics(found, d), all, d + 1) /\ ByHeuristics(found, d).devices = found.devices
    BY <1>3, <1>4, <2>1, HeuristicsTurn
  <2>3. UNCHANGED found.devices
    BY <1>6, <2>2
  <2>4. Made(found.devices)'
    BY <1>3, <1>5, <2>3 DEF Made
  <2>5. Named(found, Len(found.devices) + 1, d)'
    BY <1>6, <2>2, <2>3 DEF all
  <2> QED
    BY <1>6, <2>4, <2>5 DEF DiskInv, DisksAsFound
<1>7. CASE d > Len(found.devices) /\ UNCHANGED <<found, d>> /\ pc' = "lf2"
  <2>1. d = all
    BY <1>3, <1>7
  <2>2. Listed
    BY <1>3, <1>4, <2>1, DisksAreListed
  <2>3. Listed'
    BY <1>5, <1>7, <2>2 DEF Listed
  <2>4. DisksAsFound'
    BY <2>3 DEF DisksAsFound, Listed
  <2> QED
    BY <1>7, <2>4 DEF DiskInv
<1> QED
  BY <1>2, <1>6, <1>7

\* Each step keeps the invariant of the disks.
LEMMA NextDisks ==
    ASSUME EfiInv, EfiTypes, DiskInv, [Next]_vars
    PROVE  DiskInv'
<1>0. ListInv /\ faults \in Nat
  BY DEF EfiInv, MachineInv, EfiTypes
<1>1. Counted
  <2>1. Tally
    BY LoaderSteps, OtherSteps DEF Next
  <2> QED
    BY <2>1 DEF Tally, Counted
<1>2. CASE Entry \/ CmdLine
  <2>1. UNCHANGED diskVars /\ pc \in Early /\ pc' \notin Naming
    BY <1>2 DEF Entry, CmdLine, SetTextMode, Works, Fails, Failed, Early, Naming
  <2> QED
    BY <1>0, <1>1, <2>1, DisksStay
<1>3. CASE Disks
  BY <1>0, <1>1, <1>3, LocateDisks, MakeDisks, DoneDisks, MediaDisks, HeuristicsDisks DEF Disks
<1>4. CASE LoadInitrd \/ Boot \/ BootmgrReturns \/ KeyPress \/ \E g \in Gops : OpenGop(g)
  <2>1. UNCHANGED diskVars /\ pc' \notin Naming \cup Early
    BY <1>4, PastDisks DEF Naming, Early
  <2> QED
    BY <1>0, <1>1, <2>1, DisksStay
<1>5. CASE UNCHANGED vars
  BY <1>5, DisksStutter
<1> QED
  BY <1>2, <1>3, <1>4, <1>5 DEF Next, Loader

\* Whatever the handles and their order, the search goes over every disk of the
\* firmware once, in the order of the device paths, and over nothing else
\* (make_devices, name_devices, add_device).
THEOREM DisksFound == Spec => []DisksAsFound
<1>1. EfiInv /\ EfiTypes /\ DiskInv /\ [Next]_vars => DiskInv'
  BY NextDisks
<1>2. DiskInv => DisksAsFound
  <2>1. faults = 0 /\ DiskInv => DisksAsFound
    BY DEF DiskInv
  <2>2. faults # 0 => DisksAsFound
    BY DEF DisksAsFound
  <2> QED
    BY <2>1, <2>2
<1>3. EfiInv /\ EfiTypes /\ [Next]_vars => EfiTypes'
  BY NextTypes
<1> QED
  BY <1>1, <1>2, <1>3, InitTypes, DisksInit, EfiInvariant, PTL DEF Spec
=============================================================================
