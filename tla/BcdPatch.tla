----------------------------- MODULE BcdPatch -----------------------------
(***************************************************************************)
(* Patching the boot configuration (libnt/bcd.c).  bcd_patch_data writes   *)
(* into the values of the BCD that is linked into the loader, and deletes  *)
(* keys that must not be there.  The elements of an object are keys below  *)
(* <object>\Elements, each with one value named "Element".                 *)
(*                                                                         *)
(* The contents: [byte], [u64], [text, room] where room is the number of   *)
(* characters of the value, [form, type, identity, path, room] for a       *)
(* device path, and [other] for what the loader never looks at.            *)
(***************************************************************************)
EXTENDS Hive, CommandLine

\* What the entry's object is called for each boot type.
EntryGuid(boottype) ==
    CASE boottype = "VHD" -> "VHDB"
      [] boottype = "WOS" -> "WOSB"
      [] OTHER -> "WIMB"

\* The least length of a device path, and its form.
DpForm(boottype) ==
    CASE boottype \in {"WIM", "RAM"} -> [form |-> "ramdisk", need |-> 650]
      [] boottype = "VHD" -> [form |-> "vhd", need |-> 700]
      [] boottype \in {"WOS", "REC"} -> [form |-> "partition", need |-> 88]

\* UTF-8 to UCS-2: at most n characters, none of them lost or changed below that.
Ucs2(s, n) == IF s.len > n THEN [s EXCEPT !.len = n, !.ext = ""] ELSE s

----------------------------------------------------------------------------
(* One patch is a record: op, the object and element it names, and what to *)
(* write.  The patches, as bcd_patch_data makes them.                      *)
PatchBool(o, e, v) == [op |-> "bool", object |-> o, element |-> e, val |-> v]
PatchU64(o, e, v) == [op |-> "u64", object |-> o, element |-> e, val |-> v]
PatchSz(o, e, s) == [op |-> "sz", object |-> o, element |-> e, val |-> s]
PatchSzw(o, e, g) == [op |-> "szw", object |-> o, element |-> e, val |-> g]
PatchDp(o, e, b) == [op |-> "dp", object |-> o, element |-> e, val |-> b]
Delete(o, e) == [op |-> "delete", object |-> o, element |-> e]

\* The groups of patches, in the order of the code.
Groups == <<"BootMgr", "Resume", "Ramdisk", "Options", "Resolution", "SafeMode", "Entry">>

Patches(group, args) ==
    LET entry == EntryGuid(args.boottype)
    IN
    CASE group = "BootMgr" ->
            << PatchSzw("BOOTMGR", "OBJECT", entry),
               PatchSzw("BOOTMGR", "ORDER", entry),
               PatchU64("BOOTMGR", "TIMEOUT", args.timeout) >>
      [] group = "Resume" ->
            << PatchDp("HIBR", "APPDEV", "REC"),
               PatchDp("HIBR", "OSDDEV", "REC"),
               PatchSz("HIBR", "WINLOAD", DefaultWinresume),
               PatchSz("HIBR", "SYSROOT", DefaultHiberfil) >>
      [] group = "Ramdisk" ->
            IF args.boottype = "RAM"
            THEN << Delete("RAMDISK", "SDIDEV"),
                    Delete("RAMDISK", "SDIPATH"),
                    PatchBool("RAMDISK", "EXPORTCD", args.exportcd),
                    PatchU64("RAMDISK", "IMGOFS", args.imgofs) >>
            ELSE << Delete("RAMDISK", "EXPORTCD"),
                    Delete("RAMDISK", "IMGOFS") >>
      [] group = "Options" ->
            << PatchSz("OPTN", "CMDLINE", args.loadopt),
               PatchBool("OPTN", "TESTMODE", args.testmode),
               PatchBool("OPTN", "DETHAL", args.hal),
               PatchBool("OPTN", "WINPE", args.minint),
               PatchBool("OPTN", "NOVGA", args.novga),
               PatchBool("OPTN", "NOVESA", args.novesa),
               PatchBool("OPTN", "ADVOPT", args.advmenu),
               PatchBool("OPTN", "OPTEDIT", args.optedit),
               PatchBool("OPTN", "TEXT", args.textmode),
               PatchU64("OPTN", "NX", args.nx),
               PatchU64("OPTN", "PAE", args.pae) >>
      [] group = "Resolution" ->
            IF args.hires = BoolNA
            THEN << Delete("OPTN", "HIGHRES"),
                    PatchU64("OPTN", "GFXMODE", args.gfxmode) >>
            ELSE << Delete("OPTN", "GFXMODE"),
                    PatchBool("OPTN", "HIGHRES", args.hires) >>
      [] group = "SafeMode" ->
            IF args.safemode # BoolFalse
            THEN << PatchU64("OPTN", "SAFEMODE", args.safeboot),
                    PatchBool("OPTN", "ALTSHELL", args.altshell) >>
            ELSE << Delete("OPTN", "SAFEMODE"),
                    Delete("OPTN", "ALTSHELL") >>
      [] group = "Entry" ->
            << PatchDp(entry, "APPDEV", args.boottype),
               PatchDp(entry, "OSDDEV", args.boottype),
               PatchSz(entry, "WINLOAD", args.winload),
               PatchSz(entry, "SYSROOT", args.sysroot) >>

----------------------------------------------------------------------------
\* The key that holds an object's elements; an error if it is not there.
ElementsKey(h, objects, o) ==
    LET entry == FindKey(h, objects, o)
    IN  IF entry.err # "NONE" THEN entry ELSE FindKey(h, entry.key, "Elements")

ElementKey(h, objects, o, e) ==
    LET elements == ElementsKey(h, objects, o)
    IN  IF elements.err # "NONE" THEN elements ELSE FindKey(h, elements.key, e)

\* bcd_find_hive: where the value of an element is, and its length.
FindHive(h, objects, o, e) ==
    LET key == ElementKey(h, objects, o, e)
    IN  IF key.err # "NONE" THEN NoValue(key.err) ELSE QueryValue(h, key.key, "Element")

\* bcd_patch_dp: the path's device is the one with the file's partition if
\* the command line names one, the boot device otherwise.
DevicePath(boottype, args, answer, len) ==
    [form |-> DpForm(boottype).form,
     type |-> IF args.fsuuid # Empty THEN "disk" ELSE "boot",
     identity |-> answer,
     path |-> IF boottype \in {"WIM", "VHD", "RAM"} THEN Ucs2(args.filepath, 255) ELSE Empty,
     room |-> len]

\* What a patch writes into a value of the given length, and when it is refused.
Refused(p, len) ==
    CASE p.op = "bool" -> len # 1
      [] p.op = "u64" -> len # 8
      [] p.op = "sz" -> FALSE
      [] p.op = "szw" -> len < 76                \* a GUID in text
      [] p.op = "dp" -> len < DpForm(p.val).need

Content(p, args, answer, len) ==
    CASE p.op = "bool" -> [byte |-> p.val]
      [] p.op = "u64" -> [u64 |-> p.val]
      [] p.op = "sz" -> [text |-> Ucs2(p.val, len \div 2), room |-> len \div 2]
      [] p.op = "szw" -> [text |-> Native(p.val, 38, ""), room |-> len \div 2]
      [] p.op = "dp" -> DevicePath(p.val, args, answer, len)

\* One patch.  The loader gives up (dead) when something is missing or too small.
Apply(h, p, objects, args, answer) ==
    LET elements == ElementsKey(h, objects, p.object)
        key == ElementKey(h, objects, p.object, p.element)
        value == FindHive(h, objects, p.object, p.element)
        Dead == [hive |-> h, dead |-> TRUE]
        Done(to) == [hive |-> to, dead |-> FALSE]
    IN  IF p.op = "delete"
        THEN IF key.err # "NONE" \/ DeleteError(h, elements.key, key.key) # "NONE" THEN Dead
             ELSE Done(DeleteKey(h, elements.key, key.key))
        ELSE IF value.err # "NONE" \/ Refused(p, value.len) THEN Dead
             ELSE Done(SetContent(h, value.at, Content(p, args, answer, value.len)))

----------------------------------------------------------------------------
(* bcd_replace_suffix: every text in the hive that ends in the extension   *)
(* of the other firmware, followed by a zero character, gets the right     *)
(* one.  The texts of device paths are in the hive too.                    *)
OldExt(efi) == IF efi THEN ".exe" ELSE ".efi"
NewExt(efi) == IF efi THEN ".efi" ELSE ".exe"

RightExt(s, room, efi) ==
    IF s.ext = OldExt(efi) /\ s.len < room THEN [s EXCEPT !.ext = NewExt(efi)] ELSE s

\* A path of 255 characters fills its value.  The zero after it is the padding of
\* the cell, which only that of a RAM disk's path has.
PathRoom(form) == IF form = "ramdisk" THEN 256 ELSE 255

ReplaceIn(content, efi) ==
    CASE "text" \in DOMAIN content -> [content EXCEPT !.text = RightExt(@, content.room, efi)]
      [] "path" \in DOMAIN content -> [content EXCEPT !.path = RightExt(@, PathRoom(content.form), efi)]
      [] OTHER -> content

ReplaceSuffix(h, efi) ==
    [h EXCEPT !.cell = [c \in DOMAIN h.cell |->
        IF "content" \in DOMAIN h.cell[c]
        THEN [h.cell[c] EXCEPT !.content = ReplaceIn(@, efi)] ELSE h.cell[c]]]
============================================================================
