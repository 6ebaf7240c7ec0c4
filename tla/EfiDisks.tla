------------------------------ MODULE EfiDisks ------------------------------
(***************************************************************************)
(* How the EFI loader finds the disks among the handles of the firmware    *)
(* (disk/efidisk.c).  make_devices lists the handles that can be read, the *)
(* last one first; name_devices sorts the disks into those that are        *)
(* searched (efi_hd) and the optical ones (efi_cd), and leaves partitions  *)
(* out.                                                                    *)
(*                                                                         *)
(* A device path is a sequence of nodes <<type, subtype, length, data>>,   *)
(* without its end node.  A handle is its path, or NoPath, and its media.  *)
(* A device is a handle that was accepted, with ldp: whether its last node *)
(* is still to be looked at ("used" in the comments of the code).          *)
(***************************************************************************)
EXTENDS Integers, Sequences, SequencesExt

\* Types and subtypes of nodes.
ACPI == 2
MEDIA == 4
EndNode == <<127, 255, 4, 0>>

HardDrive(n) == n[1] = MEDIA /\ n[2] = 1
CdRom(n) == n[1] = MEDIA /\ n[2] = 2
Vendor(n) == n[1] = MEDIA /\ n[2] = 3

\* The data of a vendor node that Apple uses, and that of the floppy drives.
Apple == 99
FloppyIds == {1540, 1792, 1793}
Floppy(n) == n[1] = ACPI /\ n[2] = 1 /\ n[4] \in FloppyIds

NoPath == << >>
NoMedia == [id |-> "none", blockSize |-> 0, readOnly |-> FALSE]

----------------------------------------------------------------------------
(* compare_device_paths: the first node in which the paths differ decides. *)
(* Types go down, everything else goes up.                                 *)
CompareNodes(m, n) ==
    IF m[1] # n[1] THEN n[1] - m[1]
    ELSE IF m[2] # n[2] THEN m[2] - n[2]
    ELSE IF m[3] # n[3] THEN m[3] - n[3]
    ELSE m[4] - n[4]

ComparePaths(p, q) ==
    LET a == Append(p, EndNode)
        b == Append(q, EndNode)
        differ == {i \in DOMAIN a \cap DOMAIN b : a[i] # b[i]}
        i == CHOOSE k \in differ : \A j \in differ : k <= j
    IN  IF differ = {} THEN 0 ELSE CompareNodes(a[i], b[i])

\* The order of the lists of disks: by the last node, then by the path.
CompareDisks(p, q) ==
    LET last == ComparePaths(<<Last(p)>>, <<Last(q)>>)
    IN  IF last # 0 THEN last ELSE ComparePaths(p, q)

\* Variant: a new disk always goes to the end.
AddDeviceLast(list, d) == IF \E i \in DOMAIN list : list[i] = d THEN list ELSE Append(list, d)

\* add_device: before the first disk that is not less, unless it is the same one.
AddDevice(list, d) ==
    LET notLess == {i \in DOMAIN list : CompareDisks(list[i], d) >= 0}
        i == CHOOSE k \in notLess : \A j \in notLess : k <= j
    IN  IF notLess = {} THEN Append(list, d)
        ELSE IF CompareDisks(list[i], d) = 0 THEN list
        ELSE SubSeq(list, 1, i - 1) \o <<d>> \o SubSeq(list, i, Len(list))

----------------------------------------------------------------------------
\* make_devices: a stub of iPXE, and block sizes that no disk has, are skipped.
PowerOf2(n) == \E k \in 0..16 : n = 2 ^ k
Accepted(h) ==
    /\ h.path # NoPath
    /\ h.media # NoMedia
    /\ ~(h.media.id = "iPXE" /\ h.media.blockSize = 1)
    /\ h.media.blockSize >= 512 /\ PowerOf2(h.media.blockSize)

Device(h) == [path |-> h.path, media |-> h.media, ldp |-> TRUE]

\* find_parent_device: the first other device whose path is this one without
\* its last node; 0 if there is none.
FindParent(devices, d) ==
    LET above == Front(devices[d].path)
        hits == {i \in DOMAIN devices \ {d} : devices[i].path = above}
    IN  IF hits = {} THEN 0 ELSE CHOOSE i \in hits : \A j \in hits : i <= j

\* What name_devices keeps: the devices and the two lists.
Use(devices, S) == [i \in DOMAIN devices |-> IF i \in S THEN [devices[i] EXCEPT !.ldp = FALSE] ELSE devices[i]]

\* The first loop of name_devices: a partition shows that its parent is a disk.
ByMedia(st, d) ==
    LET dev == st.devices[d]
        node == Last(dev.path)
        parent == FindParent(st.devices, d)
        disk == st.devices[parent].path
    IN  IF ~dev.ldp \/ ~(HardDrive(node) \/ CdRom(node)) THEN st
        ELSE IF parent = 0 THEN st
        ELSE IF FindParent(st.devices, parent) # 0 \/ ~st.devices[parent].ldp
             THEN [st EXCEPT !.devices = Use(@, {d})]
        ELSE [devices |-> Use(st.devices, {d, parent}),
              hd |-> IF HardDrive(node) THEN AddDevice(st.hd, disk) ELSE st.hd,
              cd |-> IF HardDrive(node) THEN st.cd ELSE AddDevice(st.cd, disk)]

\* A device that Apple's firmware shows in addition to the disk.
Ghost(devices, d) ==
    LET node == Last(devices[d].path)
    IN  Vendor(node) /\ node[4] = Apple /\ FindParent(devices, d) # 0

\* The second loop of name_devices: what no partition has decided.
ByHeuristics(st, d) ==
    LET dev == st.devices[d]
        isCd == ~Floppy(Last(dev.path)) /\ dev.media.readOnly /\ dev.media.blockSize > 512
    IN  IF ~dev.ldp \/ Ghost(st.devices, d) THEN st
        ELSE IF isCd THEN [st EXCEPT !.cd = AddDevice(@, dev.path)]
        ELSE [st EXCEPT !.hd = AddDevice(@, dev.path)]
============================================================================
