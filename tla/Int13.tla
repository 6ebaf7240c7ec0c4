-------------------------------- MODULE Int13 --------------------------------
(***************************************************************************)
(* The INT 13 services that bootmgr gets from the BIOS loader              *)
(* (kern/int13.c): those of the virtual drive, which the loader answers,   *)
(* and those of all other drives, which it passes to the BIOS.  bootmgr    *)
(* asks how many hard drives there are, then asks each of them what it is. *)
(* FatDriver reads the drive that it finds.                                *)
(*                                                                         *)
(* A BIOS is a record: its hard drives and floppy drives, and whether it   *)
(* takes the number of hard drives from the BIOS data area or counts them  *)
(* anew; NoBios stands for an EFI machine.  A drive may be unplugged; the  *)
(* BIOS then corrects its counter, of which the loader has a share.        *)
(***************************************************************************)
EXTENDS Naturals

CONSTANT Bioses

\* The number of hard drives leaves a number for the virtual one.
ASSUME BiosesAssumption ==
    Bioses \subseteq [hard : 0..127, floppies : Nat, reports : {"counter", "own", "none"}]

VARIABLES
    bios,
    counter,        \* INT13_DRIVE_COUNT
    vdisk_drive,    \* 0 until initialise_int13
    scan            \* bootmgr's: [phase, drive, last, found]

NoBios == [hard |-> 0, floppies |-> 0, reports |-> "none"]
HardDrives == 128..(127 + bios.hard)

----------------------------------------------------------------------------
\* The services, by AH.
GetParameters == 8
GetDiskType == 21
GetExtendedParameters == 72

Fails == [cf |-> TRUE, dl |-> 0, disk |-> "none"]
Answer(dl, disk) == [cf |-> FALSE, dl |-> dl, disk |-> disk]

\* What a BIOS answers: 80h is the first hard drive, 0 the first floppy drive.
BiosCall(ah, drive) ==
    IF ~(drive \in HardDrives \/ drive < bios.floppies) THEN Fails
    ELSE IF ah # GetParameters THEN Answer(drive, "other")
    ELSE IF drive < 128 THEN Answer(bios.floppies, "other")
    ELSE Answer(IF bios.reports = "counter" THEN counter ELSE bios.hard, "other")

\* Variant: a number of drives that does not include the virtual one.
MinDrivesBelow == vdisk_drive % 128

\* The drives up to the virtual one.
MinDrives == (vdisk_drive % 128) + 1
AtLeast(n, min) == IF n < min THEN min ELSE n

(* emulate_int13.  On the virtual drive, everything but the five services  *)
(* is refused; here the two that tell the size of the disk are one, and    *)
(* FatDriver models the extended read.  On another drive the number of     *)
(* drives is raised, whether the drive is a hard drive or not, and whether *)
(* the BIOS succeeded or not.                                              *)
EmulateInt13(ah, drive) ==
    IF drive = vdisk_drive
    THEN CASE ah = GetParameters -> Answer(AtLeast(counter, MinDrives), "virtual")
           [] ah \in {GetDiskType, GetExtendedParameters} -> Answer(drive, "virtual")
           [] OTHER -> Fails
    ELSE IF ah = GetParameters
    THEN [BiosCall(ah, drive) EXCEPT !.dl = AtLeast(@, MinDrives)]
    ELSE BiosCall(ah, drive)

----------------------------------------------------------------------------
NoScan == [phase |-> "none", drive |-> 0, last |-> 0, found |-> {}]

BiosInit ==
    /\ bios \in Bioses
    /\ counter = bios.hard
    /\ vdisk_drive = 0
    /\ scan = NoScan

\* initialise_int13: the next drive number, and the counter includes it.
InitialiseInt13 ==
    /\ bios # NoBios /\ vdisk_drive = 0
    /\ vdisk_drive' = 128 + counter
    /\ counter' = (counter + 1) % 256
    /\ scan' = [scan EXCEPT !.phase = "count"]
    /\ UNCHANGED bios

\* A drive is unplugged before bootmgr has found its drives.
Unplug ==
    /\ bios.hard > 0 /\ scan.phase \in {"count", "probe"}
    /\ bios' = [bios EXCEPT !.hard = @ - 1]
    /\ counter' = bios.hard - 1
    /\ UNCHANGED <<vdisk_drive, scan>>

\* bootmgr asks the first hard drive for the number of drives.
CountDrives ==
    /\ scan.phase = "count"
    /\ LET n == EmulateInt13(GetParameters, 128).dl
       IN  scan' = [phase |-> IF n = 0 THEN "done" ELSE "probe",
                       drive |-> 128, last |-> 127 + n, found |-> scan.found]
    /\ UNCHANGED <<bios, counter, vdisk_drive>>

\* It asks the next drive for its type and size.
ProbeDrive ==
    /\ scan.phase = "probe"
    /\ LET answer == EmulateInt13(GetDiskType, scan.drive)
       IN  scan' = [phase |-> IF scan.drive = scan.last THEN "done" ELSE "probe",
                    drive |-> scan.drive + 1, last |-> scan.last,
                    found |-> IF answer.cf THEN scan.found
                              ELSE scan.found \cup {[drive |-> scan.drive, disk |-> answer.disk]}]
    /\ UNCHANGED <<bios, counter, vdisk_drive>>

BiosNext == InitialiseInt13 \/ Unplug \/ CountDrives \/ ProbeDrive

\* The virtual drive, once bootmgr knows it.
Known == scan.phase = "done" /\ \E f \in scan.found : f.disk = "virtual"

----------------------------------------------------------------------------
\* bootmgr finds the virtual drive, once, in addition to every drive of the
\* BIOS, whatever the BIOS counts and although a drive may have gone
\* (initialise_int13, emulate_int13).
DriveFound ==
    scan.phase = "done" =>
        /\ {f.drive : f \in {g \in scan.found : g.disk = "virtual"}} = {vdisk_drive}
        /\ \A d \in HardDrives : [drive |-> d, disk |-> "other"] \in scan.found
=============================================================================
