------------------------------ MODULE VDiskInv -------------------------------
(***************************************************************************)
(* The assumptions under which vdisk_read is correct, and the inductive    *)
(* invariant that shows it.  Every conjunct of the assumptions is          *)
(* evaluated by TLC for the disks it checks, and VDiskProofs shows that    *)
(* the numbers of the source satisfy GeometryOK and WidthsOK.              *)
(***************************************************************************)
EXTENDS VDisk

ASSUME GeometryAssumption == GeometryOK

ASSUME WidthsAssumption == WidthsOK

ASSUME LensAssumption == Lens \subseteq 0..(UIntMod - 1)

\* A read that vdisk_read answers as promised: its length in bytes is an
\* unsigned int, the end of its last slot is an unsigned long, and it does not
\* run from the unused clusters into the first slot.
RequestOK(lba, count) ==
    /\ lba \in Nat /\ count \in Nat
    /\ count * SectorSize < UIntMod
    /\ lba + count < U64Mod
    /\ FileLba(FileIdx(lba + count) + 1) < ULongMod
    /\ lba + count =< FileCount \/ FileCount =< lba

ASSUME RequestsAssumption == \A r \in Requests : RequestOK(r.lba, r.count)

-----------------------------------------------------------------------------

RegionStart(i) == VDiskRegions[i].lba
RegionEnd(i) == VDiskRegions[i].lba + VDiskRegions[i].count

\* The fragment shares no sector with region i.
Misses(i) == frag_start >= RegionEnd(i) \/ frag_end =< RegionStart(i)

\* The fragment lies in the request; only an empty request has an empty one.
FragmentOK ==
    /\ frag_start =< frag_end /\ frag_end =< end
    /\ (frag_start = frag_end) => (start = end)

\* The function chosen for the fragment is the one that knows its contents.
InSlot ==
    /\ build = "file"
    /\ FileIdx(frag_start) \in 0..(MaxFiles - 1)
    /\ frag_end =< FileLba(FileIdx(frag_start) + 1)
PastSlots ==
    /\ build = "none"
    /\ FileIdx(frag_start) >= MaxFiles
InRegion ==
    \E i \in 1..RegionCount :
        /\ build = VDiskRegions[i].build
        /\ RegionStart(i) =< frag_start /\ frag_start < RegionEnd(i)
        /\ RegionStart(i) < frag_end /\ frag_end =< RegionEnd(i)
        /\ frag_start < FileCount
InGap ==
    /\ build = "none"
    /\ frag_start < FileCount
    /\ \A i \in 1..RegionCount : Misses(i)
BuilderOK == InSlot \/ PastSlots \/ InRegion \/ InGap

FilesOK ==
    /\ index \in 0..MaxFiles
    /\ DOMAIN files = 0..(MaxFiles - 1)
    /\ \A idx \in 0..(MaxFiles - 1) :
          files[idx].len \in 0..(UIntMod - 1) /\ files[idx].used \in BOOLEAN

RequestInv ==
    /\ RequestOK(start, end - start)
    /\ start =< frag_start /\ frag_start =< end
    /\ data = frag_start - start
    /\ DOMAIN buf = 0..(end - start - 1)
    /\ \A k \in 0..(data - 1) : Shows(files, start + k, buf[k])

\* The inductive invariant: what holds between any two steps of vdisk_read.
ReadInv ==
    /\ FilesOK
    /\ ~stray
    /\ {start, end, frag_start, frag_end, data} \subseteq Nat
    /\ Reading \/ pc = "done" => RequestInv
    /\ Reading /\ frag_start = end => start = end
    /\ pc = "scan" =>
          /\ FragmentOK
          /\ build = "none"
          /\ frag_start < FileCount
          /\ region \in 1..RegionCount
          /\ \A i \in 1..(region - 1) : Misses(i)
    /\ pc = "build" => FragmentOK /\ BuilderOK
    /\ pc = "done" => frag_start = end
=============================================================================
