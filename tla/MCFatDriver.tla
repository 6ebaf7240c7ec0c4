----------------------------- MODULE MCFatDriver -----------------------------
(***************************************************************************)
(* FatDriver on a disk with two files: three-sector clusters, 8-byte       *)
(* sectors, slots of 60 sectors.                                           *)
(***************************************************************************)
EXTENDS FatDriverInv

MCLong == [j \in 1..(NameLen + 9) |-> "x"]
MCCut == [j \in 1..NameLen |-> "x"]
MCFull == [j \in 1..LfnChars |-> "y"]

\* A name that fills a long filename record, and one that is cut.
MCNames == {MCFull, MCLong}

\* An empty file, one that ends with its second cluster, and one that fills the
\* slot but for a byte.
MCLens == {0, 2 * ClusterSize, UIntMod - 1}

MCPaths ==
    {dir \o <<name>> : dir \in {<< >>, <<SourcesName>>, <<EfiName, MicrosoftName, BootName, FontsName>>},
                      name \in {MCFull, MCCut, MCLong}}

\* No hard drive, two, and an EFI machine.
MCBioses ==
    {[hard |-> 2, floppies |-> 1, reports |-> r] : r \in {"counter", "own"}}
       \cup {[hard |-> 0, floppies |-> 1, reports |-> "counter"], NoBios}
=============================================================================
