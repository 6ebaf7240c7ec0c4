------------------------------ MODULE EfiBoot ------------------------------
(***************************************************************************)
(* The EFI program from efi_main to the boot manager (kern/efimain.c,      *)
(* efifile.c, efiblock.c, efiboot.c and efi.c, with efidisk_init of        *)
(* disk/efidisk.c).  The firmware may fail any call; the loader then gives *)
(* up (die) or does without.  DiskSearch models what is done with the      *)
(* disks found, Payload what is done with the initrd.                      *)
(*                                                                         *)
(* A machine: the handles with Block I/O in the firmware's order; whether  *)
(* the console control protocol works; "text" on the command line; the     *)
(* initrd media (LoadFile2), with the length of the initrd when it is      *)
(* asked for and when it is read; the file on the boot device; whether it  *)
(* holds a good archive; whether the loader was built with                 *)
(* ENABLE_TEXT_DEBUG, and how many values its UINTN has (2^32 in the i386  *)
(* program, 2^64 in the others); and how many calls of the firmware may    *)
(* fail.                                                                   *)
(***************************************************************************)
EXTENDS EfiDisks

CONSTANTS
    Machines,
    HandleRoom,     \* the handles in the first buffer of locate_handle (8)
    PageSize,       \* 4096
    Garbage,        \* what an uninitialised variable may hold: sizes
    Gops,           \* handles with a graphics output protocol
    MaxOpens        \* bound: how often the boot manager opens each of them

ASSUME EfiBootAssumption ==
    PageSize \in Nat \ {0} /\ HandleRoom \in Nat /\ Garbage \subseteq Nat /\ MaxOpens \in Nat

\* The handles are a list, sizes are numbers, those of the media and of a page
\* fit into a UINTN, and the rest is there or not.
ASSUME MachinesAssumption ==
    \A m \in Machines :
        /\ m.handles \in Seq(Range(m.handles))
        /\ {m.console, m.text, m.textDebug, m.archive, m.lf2.present} \subseteq BOOLEAN
        /\ {m.lf2.asked, m.lf2.read, m.file.size, m.maxFaults, m.uintn} \subseteq Nat
        /\ m.lf2.asked < m.uintn /\ m.lf2.read < m.uintn /\ PageSize <= m.uintn
        /\ m.file.kind \in {"file", "directory", "missing"}

VARIABLES
    machine,        \* does not change
    pc,
    faults,         \* calls that failed
    console,        \* the mode of the screen
    textmode,       \* nt_cmdline->textmode
    todo,           \* make_devices: the handles that are left
    found,          \* name_devices: the devices, efi_hd and efi_cd
    d,              \* and the device in progress
    initrd,         \* what was loaded
    installed,      \* the devices with Block I/O that the loader has added
    image,          \* the loaded boot manager
    marked,         \* the graphics outputs with the marker of the wrapper
    opens,          \* how often the boot manager opened each graphics output
    blocked         \* how often that was refused

vars == <<machine, pc, faults, console, textmode, todo, found, d,
          initrd, installed, image, marked, opens, blocked>>
diskVars == <<todo, found, d>>
gopVars == <<marked, opens, blocked>>
bootVars == <<installed, image, gopVars>>

NoInitrd == [from |-> "none", start |-> 0, len |-> 0, room |-> 0]
NoImage == [bytes |-> "none", device |-> "none"]

Init ==
    /\ machine \in Machines
    /\ pc = "entry" /\ faults = 0
    /\ console \in {"text", "graphics"} /\ textmode = FALSE
    /\ todo = << >> /\ d = 1
    /\ found = [devices |-> << >>, hd |-> << >>, cd |-> << >>]
    /\ initrd = NoInitrd
    /\ installed = {} /\ image = NoImage
    /\ marked = {} /\ opens = [g \in Gops |-> 0] /\ blocked = [g \in Gops |-> 0]

\* A call of the firmware works, or fails and the loader gives up.
Works(next) == pc' = next /\ UNCHANGED faults
Failed == faults < machine.maxFaults /\ faults' = faults + 1
Fails(next) == Failed /\ pc' = next

----------------------------------------------------------------------------
\* efi_set_text_mode: without the protocol nothing changes, nor if one of its
\* calls fails.  Nobody looks at its result.
SetTextMode(on, next) ==
    \/ /\ Works(next)
       /\ console' = IF ~machine.console THEN console ELSE IF on THEN "text" ELSE "graphics"
    \/ machine.console /\ Fails(next) /\ UNCHANGED console

Entry ==
    /\ pc = "entry"
    /\ SetTextMode(TRUE, "cmdline")
    /\ UNCHANGED <<machine, textmode, diskVars, initrd, bootVars>>

\* The loader's own image, and efi_cmdline with the buffer it needs; CommandLine
\* models process_cmdline.
CmdLine ==
    /\ pc = "cmdline"
    /\ \/ Works("locate") /\ textmode' = machine.text
       \/ Fails("die") /\ UNCHANGED textmode
    /\ UNCHANGED <<machine, console, diskVars, initrd, bootVars>>

(* locate_handle.  When there is no handle, or the call fails, the buffer  *)
(* is freed and nevertheless returned: make_devices then looks at as many  *)
(* words of it as fit.  They are no handles of the firmware, which refuses *)
(* to open them.                                                           *)
Stale == [path |-> NoPath, media |-> NoMedia]
LocateHandle ==
    /\ pc = "locate"
    /\ \/ Works("make") /\ machine.handles # << >> /\ todo' = machine.handles
       \/ Works("make") /\ machine.handles = << >> /\ todo' = [i \in 1..HandleRoom |-> Stale]
       \/ Fails("make") /\ \E n \in {HandleRoom, Len(machine.handles)} :
                            n >= HandleRoom /\ todo' = [i \in 1..n |-> Stale]
       \/ Fails("die") /\ UNCHANGED todo                \* no memory for the buffer
    /\ UNCHANGED <<machine, console, textmode, found, d, initrd, bootVars>>

\* make_devices: the next handle.  Devices are put in front of the list.
MakeDevice ==
    /\ pc = "make" /\ todo # << >>
    /\ \/ /\ Accepted(Head(todo))
          /\ \/ Works(pc) /\ found' = [found EXCEPT !.devices = <<Device(Head(todo))>> \o @]
             \/ Fails(pc) /\ UNCHANGED found          \* the handle is not opened
             \/ Fails("die") /\ UNCHANGED found       \* no memory for the device
       \/ ~Accepted(Head(todo)) /\ Works(pc) /\ UNCHANGED found
    /\ todo' = Tail(todo)
    /\ UNCHANGED <<machine, console, textmode, d, initrd, bootVars>>

MakeDone ==
    /\ pc = "make" /\ todo = << >>
    /\ Works(IF found.devices = << >> THEN "lf2" ELSE "media")
    /\ UNCHANGED <<machine, console, textmode, diskVars, initrd, bootVars>>

\* Looking for the parent, and adding a disk, takes memory.
NeedsMemory == found.devices[d].ldp

NameByMedia ==
    /\ pc = "media"
    /\ \/ /\ d <= Len(found.devices)
          /\ \/ Works(pc) /\ found' = ByMedia(found, d) /\ d' = d + 1
             \/ NeedsMemory /\ Fails("die") /\ UNCHANGED <<found, d>>
       \/ /\ d > Len(found.devices)
          /\ d' = 1 /\ Works("heuristics")
          /\ UNCHANGED found
    /\ UNCHANGED <<machine, console, textmode, todo, initrd, bootVars>>

\* efidisk_init frees the devices, efidisk_iterate reads the disks of efi_hd.
NameByHeuristics ==
    /\ pc = "heuristics"
    /\ \/ /\ d <= Len(found.devices)
          /\ \/ Works(pc) /\ found' = ByHeuristics(found, d) /\ d' = d + 1
             \/ NeedsMemory /\ Fails("die") /\ UNCHANGED <<found, d>>
       \/ /\ d > Len(found.devices)
          /\ Works("lf2")
          /\ UNCHANGED <<found, d>>
    /\ UNCHANGED <<machine, console, textmode, todo, initrd, bootVars>>

----------------------------------------------------------------------------
\* Variant: no whole pages.
RoomExact(len) == len

\* BYTES_TO_PAGES, whose sum is a UINTN, and the bytes of the pages.
Room(len) == (((len + PageSize - 1) % machine.uintn) \div PageSize) * PageSize

\* A length there is, what a UINTN holds of it, and memory for that.  A firmware
\* may or may not refuse to allocate no pages at all.
AskFor(size, start, next) ==
    LET len == size % machine.uintn
    IN  /\ size > 0
        /\ initrd' = [from |-> "none", start |-> start, len |-> len, room |-> Room(len)]
        /\ pc' = next \/ (Room(len) = 0 /\ pc' = "die")

\* Variant: there is no other way to load the initrd.
Lf2LocateOnly ==
    /\ pc = "lf2" /\ machine.lf2.present
    /\ Works("lf2 size") \/ Fails("die")
    /\ UNCHANGED <<machine, console, textmode, diskVars, initrd, bootVars>>

\* efi_load_lf2_initrd: the handle of the initrd media, and its protocol.
Lf2Locate ==
    /\ pc = "lf2"
    /\ \/ machine.lf2.present /\ (Works("lf2 size") \/ Fails("sfs") \/ Fails("die"))
       \/ ~machine.lf2.present /\ Works("sfs")
    /\ UNCHANGED <<machine, console, textmode, diskVars, initrd, bootVars>>

\* The length, if any, and memory for it.
Lf2Size ==
    /\ pc = "lf2 size"
    /\ \/ AskFor(machine.lf2.asked, 0, "lf2 read") /\ UNCHANGED faults
       \/ machine.lf2.asked = 0 /\ Works("die") /\ UNCHANGED initrd
       \/ Fails("die") /\ UNCHANGED initrd
    /\ UNCHANGED <<machine, console, textmode, diskVars, bootVars>>

\* The firmware refuses a buffer that is too short.
Lf2Read ==
    /\ pc = "lf2 read"
    /\ \/ /\ machine.lf2.read <= initrd.len /\ Works("extract")
          /\ initrd' = [initrd EXCEPT !.from = "media", !.len = machine.lf2.read]
       \/ machine.lf2.read > initrd.len /\ Works("die") /\ UNCHANGED initrd
       \/ Fails("die") /\ UNCHANGED initrd
    /\ UNCHANGED <<machine, console, textmode, diskVars, bootVars>>

(* efi_load_sfs_initrd: the protocol, the volume and the file.  Nobody     *)
(* looks at the results of the three calls for its size: a firmware        *)
(* refuses to set or tell the position in a directory, and may fail to for *)
(* a file.  The size is then whatever the variable held, or the file is    *)
(* read from its end.                                                      *)
SfsSize(size, start) ==
    \/ AskFor(size, start, "sfs read")
    \/ size = 0 /\ pc' = "die" /\ UNCHANGED initrd
SfsOpen ==
    /\ pc = "sfs"
    /\ \/ machine.file.kind = "missing" /\ Works("die") /\ UNCHANGED initrd
       \/ machine.file.kind = "directory" /\ UNCHANGED faults /\ \E size \in Garbage : SfsSize(size, 0)
       \/ machine.file.kind = "file" /\ UNCHANGED faults /\ SfsSize(machine.file.size, 0)
       \/ /\ machine.file.kind = "file" /\ Failed
          /\ \E size \in Garbage \cup {machine.file.size}, start \in {0, machine.file.size} : SfsSize(size, start)
       \/ Fails("die") /\ UNCHANGED initrd
    /\ UNCHANGED <<machine, console, textmode, diskVars, bootVars>>

\* Reading a directory gives its next entry, if that fits.
SfsRead ==
    /\ pc = "sfs read"
    /\ \/ /\ machine.file.kind = "file" /\ Works("extract")
          /\ LET left == machine.file.size - initrd.start
             IN  initrd' = [initrd EXCEPT !.from = "file", !.len = IF @ < left THEN @ ELSE left]
       \/ /\ machine.file.kind = "directory"
          /\ \/ machine.file.size <= initrd.len /\ Works("extract")
                /\ initrd' = [initrd EXCEPT !.from = "directory", !.len = machine.file.size]
             \/ machine.file.size > initrd.len /\ Works("die") /\ UNCHANGED initrd
       \/ Fails("die") /\ UNCHANGED initrd
    /\ UNCHANGED <<machine, console, textmode, diskVars, bootVars>>

\* extract_initrd (Payload): a directory's entry is no archive, nothing at all
\* has no boot manager, and a part of an archive is one only if it ends with a
\* member.
Part == initrd.from = "file" /\ initrd.len < machine.file.size
Extract ==
    /\ pc = "extract"
    /\ \/ initrd.from # "directory" /\ machine.archive /\ initrd.len > 0 /\ Works("install disk")
       \/ (initrd.from = "directory" \/ ~machine.archive \/ initrd.len = 0 \/ Part) /\ Works("die")
    /\ UNCHANGED <<machine, console, textmode, diskVars, initrd, bootVars>>
----------------------------------------------------------------------------
\* efi_install.
InstallDisk ==
    /\ pc = "install disk"
    /\ \/ Works("install partition") /\ installed' = installed \cup {"vdisk"}
       \/ Fails("die") /\ UNCHANGED installed
    /\ UNCHANGED <<machine, console, textmode, diskVars, initrd, image, gopVars>>

InstallPartition ==
    /\ pc = "install partition"
    /\ \/ Works("load") /\ installed' = installed \cup {"vpartition"}
       \/ Fails("die") /\ UNCHANGED installed
    /\ UNCHANGED <<machine, console, textmode, diskVars, initrd, image, gopVars>>

\* efi_boot: a copy of the boot manager is loaded, and its image opened.  The
\* firmware looks for the device of its path among the handles, and may find
\* none or another.
LoadImage ==
    /\ pc = "load"
    /\ \/ /\ Works("start")
          /\ \E device \in {"none", "vdisk", "vpartition"} : image' = [bytes |-> "bootmgr", device |-> device]
       \/ Fails("die") /\ UNCHANGED image
    /\ UNCHANGED <<machine, console, textmode, diskVars, initrd, installed, gopVars>>

\* Variant: only a missing device is corrected.
CorrectDeviceMissing(device) == IF device = "none" THEN "vpartition" ELSE device

CorrectDevice(device) == "vpartition"

\* Its device is corrected, the screen prepared, and it is started.
StartImage ==
    /\ pc = "start"
    /\ image' = [image EXCEPT !.device = CorrectDevice(@)]
    /\ IF textmode THEN Works("running") /\ UNCHANGED console ELSE SetTextMode(FALSE, "running")
    /\ UNCHANGED <<machine, textmode, diskVars, initrd, installed, gopVars>>

\* Variant: every attempt is refused in text mode.
RefusesAlways(g) == textmode

\* The first attempt that finds no marker on the handle is refused in text mode.
Refuses(g) == g \notin marked /\ textmode

(* The boot manager opens a graphics output, through the wrapper if there  *)
(* is one: efi_open_protocol_wrapper marks the handle.  When the firmware  *)
(* cannot open the protocol, or cannot install the marker, the answer is   *)
(* the firmware's.                                                         *)
OpenGop(g) ==
    /\ pc = "running" /\ opens[g] < MaxOpens
    /\ \/ /\ Works(pc)
          /\ marked' = IF machine.textDebug THEN marked \cup {g} ELSE marked
          /\ blocked' = [blocked EXCEPT ![g] = IF machine.textDebug /\ Refuses(g) THEN @ + 1 ELSE @]
       \/ Fails(pc) /\ UNCHANGED <<marked, blocked>>
    /\ opens' = [opens EXCEPT ![g] = @ + 1]
    /\ UNCHANGED <<machine, console, textmode, diskVars, initrd, installed, image>>

\* StartImage returns, at once if it fails: the loader has nothing else to start.
BootmgrReturns ==
    /\ pc = "running"
    /\ Works("die")
    /\ UNCHANGED <<machine, console, textmode, diskVars, initrd, bootVars>>

\* die: after a key the system is reset.
KeyPress ==
    /\ pc = "die"
    /\ Works("reset")
    /\ UNCHANGED <<machine, console, textmode, diskVars, initrd, bootVars>>

----------------------------------------------------------------------------
Disks == LocateHandle \/ MakeDevice \/ MakeDone \/ NameByMedia \/ NameByHeuristics
LoadInitrd == Lf2Locate \/ Lf2Size \/ Lf2Read \/ SfsOpen \/ SfsRead \/ Extract
Boot == InstallDisk \/ InstallPartition \/ LoadImage \/ StartImage
Loader == Entry \/ CmdLine \/ Disks \/ LoadInitrd \/ Boot
Next == Loader \/ BootmgrReturns \/ KeyPress \/ \E g \in Gops : OpenGop(g)

\* The loader runs without interruption; what the boot manager and the user
\* do is up to them.
Spec == Init /\ [][Next]_vars /\ WF_vars(Loader)

----------------------------------------------------------------------------
\* Every variable has its type.
Phases ==
    {"entry", "cmdline", "locate", "make", "media", "heuristics", "lf2", "lf2 size", "lf2 read",
     "sfs", "sfs read", "extract", "install disk", "install partition", "load", "start",
     "running", "die", "reset"}
TypeOK ==
    /\ pc \in Phases
    /\ faults \in 0..machine.maxFaults
    /\ console \in {"text", "graphics"} /\ textmode \in BOOLEAN
    /\ Len(todo) + Len(found.devices) <= IF Len(machine.handles) > HandleRoom THEN Len(machine.handles) ELSE HandleRoom
    /\ d \in 1..(Len(found.devices) + 1)
    /\ initrd.len \in Nat /\ initrd.room % PageSize = 0
    /\ installed \subseteq {"vdisk", "vpartition"}
    /\ marked \subseteq Gops /\ opens \in [Gops -> 0..MaxOpens] /\ \A g \in Gops : blocked[g] <= opens[g]

\* What the firmware really has, whatever the order in which it says so: the
\* media that can be read, the partitions of another one, and Apple's ghosts.
Media == {h \in Range(machine.handles) : Accepted(h)}
Above(M, h) == {e \in M : e.path = Front(h.path)}
Partition(M, h) == (HardDrive(Last(h.path)) \/ CdRom(Last(h.path))) /\ Above(M, h) # {}
AppleGhost(M, h) == Vendor(Last(h.path)) /\ Last(h.path)[4] = Apple /\ Above(M, h) # {}

\* The kinds of partitions on a disk that is not below another medium.
PartKinds(M, h) ==
    {IF HardDrive(Last(p.path)) THEN "hd" ELSE "cd" :
        p \in {q \in M : Above(M, h) = {} /\ h \in Above(M, q) /\ Partition(M, q)}}
Optical(h) == h.media.readOnly /\ h.media.blockSize > 512 /\ ~Floppy(Last(h.path))
Kinds(M, h) ==
    IF PartKinds(M, h) # {} THEN PartKinds(M, h)
    ELSE IF Optical(h) THEN {"cd"} ELSE {"hd"}

Sorted(list) == \A i, j \in DOMAIN list : i < j => CompareDisks(list[i], list[j]) < 0

\* The search goes over every disk of the firmware once, in the order of the
\* device paths, never over a partition or an optical disk, whatever the order
\* of the handles; only a disk that has both kinds of partitions is counted
\* by the one that happens to come first (make_devices, name_devices).
DisksAsFound ==
    (pc = "lf2" /\ faults = 0) =>
        LET M == Media
            disks == {h \in M : ~Partition(M, h) /\ ~AppleGhost(M, h)}
            hds == Range(found.hd)
            cds == Range(found.cd)
        IN  /\ hds \cup cds = {h.path : h \in disks}
            /\ hds \cap cds = {}
            /\ \A h \in disks : (IF h.path \in hds THEN "hd" ELSE "cd") \in Kinds(M, h)
            /\ Sorted(found.hd) /\ Sorted(found.cd)

\* The boot manager is started only with both devices there and itself on the
\* partition, whatever fails on the way (efi_extract, efi_install, efi_boot).  The
\* initrd comes from the media if there is one, or else from a file; it fits into
\* its memory, unless its length could not be rounded up to pages in a UINTN; and it
\* is the whole of it, unless the file's size is no UINTN.  What the loader does
\* not look at may be wrong, but only when a call has failed: the screen that the
\* command line asks for, the length of the file, and that there are no media.
BootState ==
    pc = "running" =>
        /\ installed = {"vdisk", "vpartition"}
        /\ image = [bytes |-> "bootmgr", device |-> "vpartition"]
        /\ machine.console /\ faults = 0 => console = IF machine.text THEN "text" ELSE "graphics"
        /\ initrd.len > 0 /\ (initrd.len <= initrd.room \/ initrd.room = 0)
        /\ \/ initrd.from = "media" /\ initrd.len = machine.lf2.read
           \/ /\ initrd.from = "file" /\ machine.file.kind = "file"
              /\ machine.lf2.present => faults > 0
              /\ Part => faults > 0 \/ machine.file.size >= machine.uintn

\* In text mode the boot manager is refused each graphics output once, and only
\* once: "otherwise the OS will fail to boot" (efi_open_protocol_wrapper).
RefusedOnce ==
    \A g \in Gops :
        /\ blocked[g] <= 1
        /\ opens[g] > faults => blocked[g] = IF machine.textDebug /\ machine.text THEN 1 ELSE 0

\* The loader starts the boot manager or gives up.
BootEnds == <>(pc \in {"running", "die", "reset"})
============================================================================
