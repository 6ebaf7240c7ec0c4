------------------------------ MODULE Payload ------------------------------
(***************************************************************************)
(* From the command line to the patched BCD: process_cmdline, the answer   *)
(* of the search for the partition, extract_initrd with cpio_extract and   *)
(* add_file (kern/payload.c), and bcd_patch_data, as main and efi_main     *)
(* call them.  "die" ends the program; pc then says which step gave up.    *)
(*                                                                         *)
(* A machine is what the user and the firmware give: the command line (a   *)
(* sequence of arguments, or NoLine if it is missing or has no character), *)
(* the image of the initrd with the files it was made from, the firmware,  *)
(* the identity of the partition with the wanted UUID, and whether the     *)
(* search succeeds.                                                        *)
(***************************************************************************)
EXTENDS BcdPatch, BcdTemplate, Cpio

CONSTANTS
    Machines,   \* [line, files, image, efi, partition, reachable]
    MaxFiles    \* VDISK_MAX_FILES: the entries of vdisk_files

ASSUME PayloadAssumption == MaxFiles \in Nat \ {0}

VARIABLES
    machine,    \* does not change
    pc,
    pos,        \* the argument in progress
    args,       \* nt_cmdline, without the fields below
    answer,     \* partid, partmap and diskid
    at, left,   \* cpio_extract: the data pointer and the bytes left
    files,      \* vdisk_files
    bootmgr,    \* nt_cmdline->bootmgr and its length
    hive,       \* the BCD in memory
    off,        \* validate_bins: the offset of the bin in progress
    group, nth  \* the group of patches in progress, and the patch in it

vars == <<machine, pc, pos, args, answer, at, left, files, bootmgr, hive, off, group, nth>>
extractVars == <<at, left, files, bootmgr>>
hiveVars == <<hive, off, group, nth>>

\* The command line that process_cmdline does not look at.
NoLine == << [key |-> "no line", val |-> NoText] >>

\* No partition found: the initial values of the three fields.
NoPartition == [partid |-> "zero", partmap |-> 1, diskid |-> "zero"]

NoFile == [name |-> "none", data |-> 0, len |-> 0]
BcdFile == [name |-> "bcd", data |-> 0, len |-> 0]

Init ==
    /\ machine \in Machines
    /\ pc = "cmdline"
    /\ pos = 1
    /\ args = InitArgs
    /\ answer = NoPartition
    /\ at = 0 /\ left = machine.image.len
    /\ files = << >>
    /\ bootmgr = NoFile
    /\ hive = Template
    /\ off = 0
    /\ group = 1 /\ nth = 1

Die(where) == pc' = where

----------------------------------------------------------------------------
\* process_cmdline without a command line returns at once.
EmptyLine ==
    /\ pc = "cmdline" /\ machine.line = NoLine
    /\ pc' = "search"
    /\ UNCHANGED <<machine, pos, args, answer, extractVars, hiveVars>>

ProcessArgument ==
    /\ pc = "cmdline" /\ machine.line # NoLine
    /\ pos <= Len(machine.line)
    /\ LET a == machine.line[pos]
       IN  IF Rejects(a) THEN Die("die_cmdline") /\ UNCHANGED <<pos, args>>
           ELSE args' = Process(args, a) /\ pos' = pos + 1 /\ UNCHANGED pc
    /\ UNCHANGED <<machine, answer, extractVars, hiveVars>>

EndOfLine ==
    /\ pc = "cmdline" /\ machine.line # NoLine
    /\ pos > Len(machine.line)
    /\ args' = Defaults(args)
    /\ pc' = "search"
    /\ UNCHANGED <<machine, pos, answer, extractVars, hiveVars>>

(* biosdisk_iterate or efidisk_iterate: DiskSearch models it.  Without a   *)
(* UUID nothing is found.                                                  *)
Search ==
    /\ pc = "search"
    /\ answer' = IF args.fsuuid # Empty /\ machine.reachable THEN machine.partition ELSE answer
    /\ pc' = "add_bcd"
    /\ UNCHANGED <<machine, pos, args, extractVars, hiveVars>>

----------------------------------------------------------------------------
\* vdisk_add_file: the table of files has an end.
FullLate == Len(files) > MaxFiles       \* variant: one entry too many

Full == Len(files) >= MaxFiles

\* extract_initrd puts the BCD first.
AddBcd ==
    /\ pc = "add_bcd"
    /\ IF Full THEN Die("die_files") /\ UNCHANGED files
       ELSE files' = Append(files, BcdFile) /\ pc' = "extract"
    /\ UNCHANGED <<machine, pos, args, answer, at, left, bootmgr, hiveVars>>

BootmgrName == IF machine.efi THEN "bootx64.efi" ELSE "bootmgr.exe"

\* Variant: the first file with the name stays.
BootmgrFirst(file) == IF bootmgr = NoFile /\ file.name = BootmgrName THEN file ELSE bootmgr

\* add_file: the file with the name of the firmware's boot manager.
Bootmgr(file) == IF file.name = BootmgrName THEN file ELSE bootmgr

\* One turn of cpio_extract, with add_file for the file it finds.
ExtractMember ==
    /\ pc = "extract"
    /\ LET m == Member(machine.image, at, left)
           file == [name |-> m.name, data |-> m.data, len |-> m.len]
       IN  \/ /\ m.rc = "file" /\ ~Full
              /\ files' = Append(files, file)
              /\ bootmgr' = Bootmgr(file)
              /\ left' = left - (m.next - at) /\ at' = m.next
              /\ UNCHANGED pc
           \/ /\ m.rc = "file" /\ Full
              /\ Die("die_files")
              /\ UNCHANGED extractVars
           \/ /\ m.rc = "end"
              /\ pc' = IF bootmgr = NoFile THEN "die_bootmgr" ELSE "header"
              /\ UNCHANGED extractVars
           \/ /\ m.rc \notin {"file", "end"}
              /\ Die("die_cpio")
              /\ UNCHANGED extractVars
    /\ UNCHANGED <<machine, pos, args, answer, hiveVars>>

----------------------------------------------------------------------------
\* reg_open_hive: check_header, the bins one by one, clear_volatile.
OpenHeader ==
    /\ pc = "header"
    /\ IF HeaderValid(hive) THEN hive' = Repaired(hive) /\ pc' = "bins"
       ELSE Die("die_hive") /\ UNCHANGED hive
    /\ UNCHANGED <<machine, pos, args, answer, extractVars, off, group, nth>>

OpenBin ==
    /\ pc = "bins"
    /\ off < hive.length
    /\ IF BinValid(hive, off) THEN off' = NextBin(hive, off) /\ UNCHANGED pc
       ELSE Die("die_hive") /\ UNCHANGED off
    /\ UNCHANGED <<machine, pos, args, answer, extractVars, hive, group, nth>>

OpenDone ==
    /\ pc = "bins"
    /\ off >= hive.length
    /\ hive' = ClearVolatile(hive)
    /\ pc' = IF FindKey(hive, hive.root, "Objects").err = "NONE" THEN "patch" ELSE "die_hive"
    /\ UNCHANGED <<machine, pos, args, answer, extractVars, off, group, nth>>

ObjectsKey == FindKey(hive, hive.root, "Objects").key

Work == Patches(Groups[group], args)

\* One of the patches of bcd_patch_data.
PatchElement ==
    /\ pc = "patch"
    /\ group <= Len(Groups) /\ nth <= Len(Work)
    /\ LET done == Apply(hive, Work[nth], ObjectsKey, args, answer)
       IN  /\ hive' = done.hive
           /\ IF done.dead THEN Die("die_patch") /\ UNCHANGED nth
              ELSE nth' = nth + 1 /\ UNCHANGED pc
    /\ UNCHANGED <<machine, pos, args, answer, extractVars, off, group>>

NextGroup ==
    /\ pc = "patch"
    /\ group <= Len(Groups) /\ nth > Len(Work)
    /\ group' = group + 1 /\ nth' = 1
    /\ UNCHANGED <<machine, pc, pos, args, answer, extractVars, hive, off>>

PatchSuffix ==
    /\ pc = "patch"
    /\ group > Len(Groups)
    /\ hive' = ReplaceSuffix(hive, machine.efi)
    /\ pc' = "done"
    /\ UNCHANGED <<machine, pos, args, answer, extractVars, off, group, nth>>

----------------------------------------------------------------------------
Final == {"done", "die_cmdline", "die_files", "die_cpio", "die_bootmgr", "die_hive", "die_patch"}

\* The loader hands over, or it has given up.
Finished == pc \in Final /\ UNCHANGED vars

Command == EmptyLine \/ ProcessArgument \/ EndOfLine \/ Search
Extract == AddBcd \/ ExtractMember
Patch == OpenHeader \/ OpenBin \/ OpenDone \/ PatchElement \/ NextGroup \/ PatchSuffix
Next == Command \/ Extract \/ Patch \/ Finished

Spec == Init /\ [][Next]_vars
============================================================================
