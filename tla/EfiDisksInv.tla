---------------------------- MODULE EfiDisksInv ----------------------------
(***************************************************************************)
(* What the firmware is assumed to say of its handles, and the inductive   *)
(* invariant of make_devices and name_devices: which devices are decided,  *)
(* and which disks are in the lists, while no call has failed.             *)
(***************************************************************************)
EXTENDS EfiBoot

\* A node is its type, subtype, length and data; the end node ends a path.
Nodes == Int \X Int \X Int \X Int
Paths == Seq(Nodes \ {EndNode})

\* No two handles have the same device path: the firmware refuses the second.
ASSUME HandlesAssumption ==
    \A m \in Machines :
        /\ \A i \in DOMAIN m.handles : m.handles[i].path \in Paths
        /\ \A i, j \in DOMAIN m.handles :
            /\ Accepted(m.handles[i]) /\ Accepted(m.handles[j])
            /\ m.handles[i].path = m.handles[j].path
            => i = j

Shows(dev, h) == dev.path = h.path /\ dev.media = h.media

\* Different devices are different places.
Apart(devices) == \A j, k \in DOMAIN devices : devices[j].path = devices[k].path => j = k

\* make_devices: each medium is in the list, or in the rest of the handles.
Making ==
    /\ \A h \in Media : \/ \E i \in DOMAIN todo : todo[i] = h
                        \/ \E k \in DOMAIN found.devices : Shows(found.devices[k], h)
    /\ \A k \in DOMAIN found.devices : \E h \in Media : Shows(found.devices[k], h)
    /\ \A i \in DOMAIN todo : Accepted(todo[i]) =>
        /\ todo[i] \in Media
        /\ \A j \in DOMAIN todo : Accepted(todo[j]) /\ todo[i].path = todo[j].path => i = j
        /\ \A k \in DOMAIN found.devices : found.devices[k].path # todo[i].path
    /\ Apart(found.devices)

NothingNamed ==
    /\ d = 1 /\ found.hd = << >> /\ found.cd = << >>
    /\ \A k \in DOMAIN found.devices : found.devices[k].ldp

\* The devices are the media.
Made(devices) ==
    /\ \A h \in Media : \E k \in DOMAIN devices : Shows(devices[k], h)
    /\ \A k \in DOMAIN devices : \E h \in Media : Shows(devices[k], h)
    /\ Apart(devices)

\* A partition of another device, and a disk of which one of the first n - 1 is one.
IsPart(devices, k) ==
    /\ HardDrive(Last(devices[k].path)) \/ CdRom(Last(devices[k].path))
    /\ FindParent(devices, k) # 0
PartOf(devices, j, k) == IsPart(devices, j) /\ FindParent(devices, j) = k
Divided(devices, k, n) ==
    /\ FindParent(devices, k) = 0
    /\ \E j \in DOMAIN devices : j < n /\ PartOf(devices, j, k)

\* The first loop has decided that a device is a partition, or a disk with one.
Decided(devices, k, n) == (IsPart(devices, k) /\ k < n) \/ Divided(devices, k, n)

\* The second loop leaves out the ghosts, and decides by the media.
Left(devices, k, n) == k < n /\ devices[k].ldp /\ ~Ghost(devices, k)

\* What a list says of a disk in it: one of its partitions, or else its media.
AsHd(devices, k) ==
    IF devices[k].ldp THEN ~Optical(devices[k])
    ELSE \E j \in DOMAIN devices : PartOf(devices, j, k) /\ HardDrive(Last(devices[j].path))
AsCd(devices, k) ==
    IF devices[k].ldp THEN Optical(devices[k])
    ELSE \E j \in DOMAIN devices : PartOf(devices, j, k) /\ ~HardDrive(Last(devices[j].path))

\* n - 1 devices are done in the first loop, and m - 1 in the second.
Named(st, n, m) ==
    LET devices == st.devices
        hds == Range(st.hd)
        cds == Range(st.cd)
    IN  /\ \A k \in DOMAIN devices : ~devices[k].ldp <=> Decided(devices, k, n)
        /\ st.hd \in Seq(Paths \ {NoPath}) /\ st.cd \in Seq(Paths \ {NoPath})
        /\ Sorted(st.hd) /\ Sorted(st.cd)
        /\ \A p \in hds \cup cds : \E k \in DOMAIN devices : devices[k].path = p
        /\ \A k \in DOMAIN devices :
            devices[k].path \in hds \cup cds <=> Divided(devices, k, n) \/ Left(devices, k, m)
        /\ hds \cap cds = {}
        /\ \A k \in DOMAIN devices :
            /\ devices[k].path \in hds => AsHd(devices, k)
            /\ devices[k].path \in cds => AsCd(devices, k)

\* The inductive invariant.
DiskInv ==
    faults = 0 =>
        /\ pc \in {"entry", "cmdline", "locate"} => NothingNamed /\ found.devices = << >>
        /\ pc = "make" => NothingNamed /\ Making
        /\ pc = "media" => Made(found.devices) /\ Named(found, d, 1)
        /\ pc = "heuristics" => Made(found.devices) /\ Named(found, Len(found.devices) + 1, d)
        /\ DisksAsFound
============================================================================
