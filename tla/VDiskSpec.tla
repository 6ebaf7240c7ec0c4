------------------------------ MODULE VDiskSpec ------------------------------
(***************************************************************************)
(* What the virtual disk promises its callers (the INT 13 handler and the  *)
(* EFI block I/O protocol): files are added while the initrd is extracted; *)
(* from then on the disk is read-only, and a read answers every sector of  *)
(* the request, in one step, with the contents the disk's layout promises. *)
(* The promise is a parameter: VDisk instantiates Shows, and the other     *)
(* operators, with those of VDiskImage.                                    *)
(***************************************************************************)
EXTENDS Integers

CONSTANTS
    MaxFiles,       \* how many files the disk can hold
    EmptyFile,      \* an unused entry of the table of files
    Cut(_),         \* the part of a name the disk keeps
    Shows(_, _, _)  \* Shows(files, lba, content): sector lba may read as content

CONSTANTS
    Names,      \* names of the files in the initrd (sequences of characters)
    Lens,       \* lengths in bytes
    Requests    \* the reads the operating system makes: records [lba, count]

VARIABLES
    files,      \* the files of the disk, by index
    index,      \* how many there are
    io          \* the read in progress: [state, lba, count, data]

specVars == <<files, index, io>>

Extracting == [state |-> "extracting"]
Dead == [state |-> "dead"]
Idle == [state |-> "idle"]

SpecInit ==
    /\ files = [idx \in 0..(MaxFiles - 1) |-> EmptyFile]
    /\ index = 0
    /\ io = Extracting

SpecAddFile(name, len) ==
    /\ io = Extracting
    /\ index < MaxFiles
    /\ files' = [files EXCEPT ![index] =
                   [used |-> TRUE, name |-> Cut(name), opaque |-> index, len |-> len]]
    /\ index' = index + 1
    /\ UNCHANGED io

\* There is room for MaxFiles files only.
SpecTooManyFiles ==
    /\ io = Extracting
    /\ index = MaxFiles
    /\ io' = Dead
    /\ UNCHANGED <<files, index>>

SpecReboot ==
    /\ io = Dead
    /\ files' = [idx \in 0..(MaxFiles - 1) |-> EmptyFile]
    /\ index' = 0
    /\ io' = Extracting

SpecServe ==
    /\ io = Extracting
    /\ io' = Idle
    /\ UNCHANGED <<files, index>>

SpecRequest(r) ==
    /\ io = Idle
    /\ io' = [state |-> "reading", lba |-> r.lba, count |-> r.count]
    /\ UNCHANGED <<files, index>>

\* The answer is every sector asked for and nothing else.
SpecAnswer ==
    /\ io.state = "reading"
    /\ io'.state = "done"
    /\ io' = [state |-> "done", lba |-> io.lba, count |-> io.count, data |-> io'.data]
    /\ DOMAIN io'.data = 0..(io.count - 1)
    /\ \A k \in 0..(io.count - 1) : Shows(files, io.lba + k, io'.data[k])
    /\ UNCHANGED <<files, index>>

SpecReturn ==
    /\ io.state = "done"
    /\ io' = Idle
    /\ UNCHANGED <<files, index>>

SpecNext ==
    \/ \E name \in Names, len \in Lens :
          SpecAddFile(name, len)
    \/ SpecTooManyFiles \/ SpecReboot \/ SpecServe
    \/ \E r \in Requests : SpecRequest(r)
    \/ SpecAnswer \/ SpecReturn

AbstractSpec == SpecInit /\ [][SpecNext]_specVars
=============================================================================
