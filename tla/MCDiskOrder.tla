---------------------------- MODULE MCDiskOrder ------------------------------
(***************************************************************************)
(* The machines of MCDiskSearch whose tables list the partitions as the    *)
(* order that FindsFirst promises asks for.                                *)
(***************************************************************************)
EXTENDS MCDiskSearch, DiskOrderInv
=============================================================================
