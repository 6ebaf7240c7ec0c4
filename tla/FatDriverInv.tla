---------------------------- MODULE FatDriverInv -----------------------------
(***************************************************************************)
(* The invariant that shows that a FAT driver gets every file of the       *)
(* virtual disk, and what it assumes of the names in the initrd, of the    *)
(* paths that are opened and of the numbers of vdisk.h.  TLC evaluates     *)
(* the assumptions for the disk of the FatDriver run, and                  *)
(* FatDriverProofs shows that the numbers of the source satisfy theirs.    *)
(***************************************************************************)
EXTENDS FatDriver, VDiskInv

\* A driver may read a cluster at a time, up to the end of the last slot.
ASSUME ReadsAssumption == ReadsOK

DirNames == {BootName, SourcesName, FontsName, ResourcesName, EfiName, MicrosoftName}

\* A name is a string, and none of the directories' (a file of that name would
\* be hidden by the directory in the directories that have it).
ASSUME NamesAssumption ==
    \A name \in Names :
        /\ name \in Seq({name[p] : p \in DOMAIN name} \ {"nul"})
        /\ Cut(name) \notin DirNames

\* A path has at least the name of a file.
ASSUME PathsAssumption ==
    \A p \in Paths : p /= << >> /\ p \in Seq({p[k] : k \in DOMAIN p})

-----------------------------------------------------------------------------
(* The directories and what each of them lists.                            *)

\* The subdirectories of a directory, with their names.
Subs(dir) ==
    CASE dir = RootCluster ->
           {<<EfiName, EfiCluster>>, <<SourcesName, SourcesCluster>>, <<BootName, BootCluster>>}
      [] dir = BootCluster ->
           {<<ResourcesName, ResourcesCluster>>, <<FontsName, FontsCluster>>}
      [] dir = EfiCluster ->
           {<<MicrosoftName, MicrosoftCluster>>, <<BootName, BootCluster>>}
      [] dir = MicrosoftCluster -> {<<BootName, BootCluster>>}
      [] OTHER -> {}

\* There is a walk from a directory through all but the last part of a path.
Reaches(dir, p) ==
    \E w \in [1..Len(p) -> Directories] :
        /\ w[1] = dir
        /\ \A k \in 1..(Len(p) - 1) : <<p[k], w[k + 1]>> \in Subs(w[k])

\* The first n sectors of a directory list nothing under a name.
Unlisted(dir, n, name) ==
    /\ n > 0 => \A d \in Directories : <<name, d>> \notin Subs(dir)
    /\ \A idx \in 0..(n - 2) : ~(files[idx].used /\ files[idx].name = name)

-----------------------------------------------------------------------------
(* What the driver knows, and what it is waiting for.                      *)

Busy == {"mbr", "vbr", "dir", "data", "fat"}
Steps == Busy \cup {"closed", "complete", "missing", "corrupt"}
Waiting == {"fragment", "scan", "build", "done"}

\* The read that a step waits for.
AskLba ==
    CASE step = "mbr" -> 0
      [] step = "vbr" -> VbrLba
      [] step = "dir" -> ClusterLba(cluster) + sector
      [] step = "data" -> ClusterLba(cluster)
      [] step = "fat" -> FatLba + cluster \div FatEntries
AskCount == IF step = "data" THEN ClusterCount ELSE 1

\* A file is only read once the initrd has been extracted.
CallInv ==
    /\ step \in Steps
    /\ step /= "closed" => pc \in Waiting \cup {"idle"}
    /\ pc \in Waiting => step \in Busy /\ start = AskLba /\ end = AskLba + AskCount

\* Where the volume is.
VolumeInv ==
    /\ device \in Devices /\ base \in Nat
    /\ step = "mbr" => device.lba = 0
    /\ step \in {"vbr", "dir", "data", "fat"} => base + device.lba = VbrLba
    /\ step \in {"dir", "data", "fat"} => volume = Vbr

\* The files have the names they were given, cut.
StoredInv == \A idx \in 0..(MaxFiles - 1) : files[idx].used => files[idx].name \in {Cut(n) : n \in Names}

\* What is left of the path ends as the path does, and can be walked from here.
PathInv ==
    /\ IF step = "closed" THEN got = << >> ELSE wanted \in Paths
    /\ step \in {"mbr", "vbr"} => path = wanted
    /\ step = "dir" => path /= << >>
    /\ step = "data" => path = << >>
    /\ step \in Busy /\ path /= << >> =>
          /\ path \in Seq({path[k] : k \in DOMAIN path}) /\ path[Len(path)] = Name
          /\ got = << >>
    /\ step \in {"dir", "fat"} /\ path /= << >> =>
          /\ cluster \in Directories
          /\ Directory \in DirPaths => Reaches(cluster, path)
          /\ Unlisted(cluster, IF step = "dir" THEN sector ELSE ClusterCount, Head(path))
    /\ step = "dir" => sector \in 0..(ClusterCount - 1)

\* The first n bytes of a file, in sectors.
Delivered(file, n) ==
    [k \in 1..SectorsOf(n) |->
       FileData(file, (k - 1) * SectorSize, BytesAt(file.len, (k - 1) * SectorSize))]

\* The file that is read is the first of its name, and what is left of it lies
\* in the clusters from the current one on.
Progress(idx) ==
    LET file == files[idx]
        read == (cluster - FileCluster(idx)) * ClusterSize
    IN  /\ left \in 0..file.len
        /\ got = Delivered(file, file.len - left)
        /\ step \in {"data", "fat"} =>
              cluster >= FileCluster(idx) /\ cluster \in Nat /\ read < file.len
        /\ step = "data" => file.len - left = read
        /\ step = "fat" => left = IF file.len - read > ClusterSize
                                  THEN file.len - read - ClusterSize ELSE 0
        /\ step = "complete" => left = 0

DataInv ==
    step \in {"data", "fat", "complete"} /\ path = << >> =>
        \E idx \in Named : Progress(idx) /\ \A i \in Named : idx =< i

\* A file that is not found is not there.
MissingInv ==
    /\ step = "missing" => ~(Directory \in DirPaths /\ Named /= {})
    /\ step /= "corrupt"
    /\ step = "complete" => path = << >>

DriverInv == CallInv /\ VolumeInv /\ StoredInv /\ PathInv /\ DataInv /\ MissingInv
=============================================================================
