---------------------------- MODULE PayloadProps ----------------------------
(***************************************************************************)
(* What Payload must establish: the BCD that the boot manager will find is *)
(* the one that docs/cmdline.md promises for the command line, and the     *)
(* files are those that were packed.  The promise is stated for the whole  *)
(* line and for each element of the BCD, not argument by argument.  Where  *)
(* the loader is known to do something else, Departs names the elements.   *)
(***************************************************************************)
EXTENDS Payload

Line == machine.line

\* The arguments with one of some keys, and the last of them.
With(keys) == {i \in 1..Len(Line) : Line[i].key \in keys}
LastWith(keys) == Line[CHOOSE i \in With(keys) : \A j \in With(keys) : j <= i]

YesNo(key, default) ==
    IF With({key}) = {} THEN default
    ELSE IF LastWith({key}).val = NoText \/ LastWith({key}).val.text \in {"yes", "true", "on", "1"}
         THEN BoolTrue ELSE BoolFalse

\* An option with named choices: the last argument that names one; no name is the first.
Choice(key) ==
    LET named == {i \in With({key}) :
                    Line[i].val = NoText \/ Line[i].val.text \in DOMAIN Words[key]}
        last == CHOOSE i \in named : \A j \in named : j <= i
    IN  IF named = {} \/ Line[last].val = NoText THEN 0 ELSE Words[key][Line[last].val.text]

\* A text given, in the form in which Windows reads it, or a default.
Text(key, default, most) ==
    IF With({key}) = {} THEN default
    ELSE LET s == LastWith({key}).val
         IN  [text |-> s.text, space |-> TRUE, back |-> key # "loadopt",
              len |-> IF s.len > most THEN most ELSE s.len,
              ext |-> IF s.len > most THEN "" ELSE s.ext]

PathKeys == {"wim", "vhd", "ram", "file"}
Type ==
    IF With(PathKeys) = {} THEN "WOS"
    ELSE LET a == LastWith(PathKeys)
         IN  IF a.key = "file" THEN (IF a.val.ext \in WimExts THEN "WIM" ELSE "VHD")
             ELSE CASE a.key = "wim" -> "WIM" [] a.key = "vhd" -> "VHD" [] a.key = "ram" -> "RAM"

Entry == CASE Type = "VHD" -> "VHDB" [] Type = "WOS" -> "WOSB" [] Type \in {"WIM", "RAM"} -> "WIMB"
IfWim == IF Type = "WIM" THEN BoolTrue ELSE BoolFalse
Given(keys) == IF With(keys) = {} THEN BoolFalse ELSE BoolTrue

\* A resolution was asked for after the last "hires".
Resolution == With({"hires", "gfxmode"}) # {} /\ LastWith({"hires", "gfxmode"}).key = "gfxmode"

\* "Boot into safe mode if this parameter is set" (docs/cmdline.md).
Safe == With({"safemode"}) # {}

\* The texts of the command line, or their defaults.
Path == IF With(PathKeys) = {} THEN Empty ELSE Text(LastWith(PathKeys).key, Empty, 255)
LoadOptions == Text("loadopt", DefaultLoadOpt, 127)
Winload == Text("winload", IF Type = "WIM" THEN LongWinload ELSE ShortWinload, 63)
SystemRoot == Text("sysroot", DefaultSysroot, 31)

\* A program gets the extension that the firmware's programs have.
ExeExts == {".exe", ".exE", ".eXe", ".eXE", ".Exe", ".ExE", ".EXe", ".EXE"}
EfiExts == {".efi", ".efI", ".eFi", ".eFI", ".Efi", ".EfI", ".EFi", ".EFI"}
WrongExts == IF machine.efi THEN ExeExts ELSE EfiExts
Corrected(s) ==
    IF s.ext \in WrongExts THEN [s EXCEPT !.ext = IF machine.efi THEN ".efi" ELSE ".exe"] ELSE s

Program(s, room) == [text |-> Corrected(s), room |-> room]
Chars(s, room) == [text |-> s, room |-> room]

\* The partition is that of the file, found by its UUID, or the boot partition.
Device(form, path, room) ==
    [form |-> form, path |-> path, room |-> room,
     type |-> IF With({"uuid"}) = {} THEN "boot" ELSE "disk",
     identity |-> IF With({"uuid"}) # {} /\ machine.reachable THEN machine.partition ELSE NoPartition]

EntryDevice ==
    CASE Type \in {"WIM", "RAM"} -> Device("ramdisk", Path, 650)
      [] Type = "VHD" -> Device("vhd", Path, 700)
      [] Type = "WOS" -> Device("partition", Empty, 88)

----------------------------------------------------------------------------
\* The elements that must not be in the BCD.
Absent ==
    (IF Type = "RAM" THEN {<<"RAMDISK", "SDIDEV">>, <<"RAMDISK", "SDIPATH">>}
     ELSE {<<"RAMDISK", "EXPORTCD">>, <<"RAMDISK", "IMGOFS">>})
    \cup {<<"OPTN", IF Resolution THEN "HIGHRES" ELSE "GFXMODE">>}
    \cup (IF Safe THEN {} ELSE {<<"OPTN", "SAFEMODE">>, <<"OPTN", "ALTSHELL">>})

WantedOption ==
    [CMDLINE |-> Chars(LoadOptions, 128),
     TESTMODE |-> [byte |-> YesNo("testmode", BoolFalse)],
     DETHAL |-> [byte |-> YesNo("detecthal", BoolTrue)],
     WINPE |-> [byte |-> YesNo("minint", IfWim)],
     NOVGA |-> [byte |-> YesNo("novga", BoolFalse)],
     NOVESA |-> [byte |-> YesNo("novesa", BoolFalse)],
     ADVOPT |-> [byte |-> Given({"f8"})],
     OPTEDIT |-> [byte |-> Given({"edit"})],
     TEXT |-> [byte |-> Given({"text", "f8", "edit"})],
     NX |-> [u64 |-> Choice("nx")],
     PAE |-> [u64 |-> Choice("pae")],
     HIGHRES |-> [byte |-> YesNo("hires", IfWim)],
     GFXMODE |-> [u64 |-> Choice("gfxmode")],
     SAFEMODE |-> [u64 |-> Choice("safemode")],
     ALTSHELL |-> [byte |-> YesNo("altshell", BoolFalse)]]

WantedEntry ==
    [APPDEV |-> EntryDevice, OSDDEV |-> EntryDevice,
     WINLOAD |-> Program(Winload, 64),
     SYSROOT |-> Chars(SystemRoot, 32)]

WantedResume ==
    [APPDEV |-> Device("partition", Empty, 88), OSDDEV |-> Device("partition", Empty, 88),
     WINLOAD |-> Program(DefaultWinresume, 64), SYSROOT |-> Chars(DefaultHiberfil, 64)]

WantedBootmgr ==
    [OBJECT |-> [text |-> Native(Entry, 38, ""), room |-> 39],
     ORDER |-> [text |-> Native(Entry, 38, ""), room |-> 40],
     TIMEOUT |-> [u64 |-> 0]]

WantedRamdisk ==
    [EXPORTCD |-> [byte |-> YesNo("exportascd", BoolFalse)],
     IMGOFS |-> [u64 |-> IF With({"imgofs"}) = {} THEN 65536 ELSE LastWith({"imgofs"}).val.len]]

WantedIn(o) ==
    CASE o = "OPTN" -> WantedOption
      [] o = "BOOTMGR" -> WantedBootmgr
      [] o = "HIBR" -> WantedResume
      [] o = Entry -> WantedEntry
      [] o = "RAMDISK" -> WantedRamdisk
      [] OTHER -> << >>

Wanted ==
    [s \in Slots \ Absent |->
        IF s[2] \in DOMAIN WantedIn(s[1]) THEN WantedIn(s[1])[s[2]] ELSE Original]

\* The elements of which the loader makes something else than is documented.
\* "altshell", even "altshell=no", boots into safe mode by itself (cmdline.c:222,
\* docs/cmdline.md:106 and 130).  bcd_replace_suffix (bcd.c:33) knows extensions
\* in small letters only, and corrects them in texts that name no program too.
SmallExts == {".exe", ".efi"}
Departs(s) ==
    \/ With({"altshell"}) # {} /\ ~Safe /\ s \in {<<"OPTN", "SAFEMODE">>, <<"OPTN", "ALTSHELL">>}
    \/ Winload.ext \in WrongExts \ SmallExts /\ s = <<Entry, "WINLOAD">>
    \/ LoadOptions.ext \in SmallExts /\ s = <<"OPTN", "CMDLINE">>
    \/ SystemRoot.ext \in SmallExts /\ s = <<Entry, "SYSROOT">>
    \/ Path.ext \in SmallExts /\ s \in {<<Entry, "APPDEV">>, <<Entry, "OSDDEV">>}

\* What is left of a BCD without them.
Undisputed(bcd) == [s \in {t \in DOMAIN bcd : ~Departs(t)} |-> bcd[s]]

----------------------------------------------------------------------------
\* What a reader of the hive finds: the keys in the lists, and their values.
ListedIn(h, key) ==
    LET l == h.cell[ListOf(h, key)] IN {l.list[i] : i \in 1..l.count}
Listed(key) == ListedIn(hive, key)
ElementsOf(o) == FindKey(hive, o, "Elements").key
LiveKeys == UNION {{<<o, e>> : e \in Listed(ElementsOf(o))} : o \in Listed(ObjectsKey)}
SlotOf(k) == <<hive.cell[k[1]].name, hive.cell[k[2]].name>>
Live ==
    [s \in {SlotOf(k) : k \in LiveKeys} |->
        hive.cell[FindHive(hive, ObjectsKey, s[1], s[2]).at].content]

Phases == {"cmdline", "search", "add_bcd", "extract", "header", "bins", "patch"} \cup Final

\* Every variable has its type.
TypeOK ==
    /\ pc \in Phases
    /\ pos \in Nat \ {0} /\ group \in 1..(Len(Groups) + 1) /\ nth \in 1..12
    /\ DOMAIN args = DOMAIN InitArgs /\ args.boottype \in BootTypes
    /\ answer \in {NoPartition, machine.partition}
    /\ at + left = machine.image.len
    /\ Len(files) <= MaxFiles
    /\ DOMAIN hive.cell = DOMAIN Cells
    /\ off \in 0..hive.length

\* The BCD that is handed over is the one the documentation promises for the
\* whole command line, element by element, whatever the order and repetition
\* of the arguments, the deletions on the way, and the outcome of the search
\* (process_cmdline, bcd_patch_data) - but for the elements in which the loader
\* departs from it.  Of what the documentation does not say (a resolution and
\* "hires" on one line, words that are not in its lists, the text mode of "f8"
\* and "edit") the rule is the loader's.  Without a command line process_cmdline
\* returns before it sets the defaults, cmdline.c:115.
BcdAsDocumented == (pc = "done" /\ Line # NoLine) => Undisputed(Live) = Undisputed(Wanted)

\* No command line makes the loader fail on the BCD it carries: every key that
\* a patch names is there when the patch is made, none has been deleted
\* before, and every value has the right length (the die calls of bcd.c).
TemplateAccepted == pc \notin {"die_hive", "die_patch"}

\* While it is patched the hive stays one that a reader accepts: the count in
\* each key is that of its list, which names no key twice, and every key that
\* is listed is found by its name (reg_delete_key against find_child_key).
HiveStaysSound ==
    pc \in {"patch", "done"} => \A i \in 1..Len(Objects) :
        LET key == ObjectCell(i, 3)
            l == hive.cell[ListOf(hive, key)]
        IN  /\ hive.cell[key].subKeyCount = l.count
            /\ Cardinality(Listed(key)) = l.count
            /\ \A c \in Listed(key) : FindKey(hive, key, hive.cell[c].name) = Found(c)

\* The files that reach the virtual disk are the packed ones, in their order,
\* with their data where the archiver put it, and no file is missing unless
\* the image was cut (cpio_extract, add_file, mkinitrd).
PackedFile(i) ==
    LET o == machine.offsets[i]
        f == machine.files[i]
    IN  [name |-> f.name, data |-> o + DataOffset(f), len |-> f.size]
Packed == <<BcdFile>> \o [i \in 1..Len(machine.files) |-> PackedFile(i)]

FilesAsPacked ==
    /\ pc \in {"header", "bins", "patch", "done"} =>
        /\ IsPrefix(files, Packed)
        /\ machine.whole => files = Packed
    /\ \A i \in 2..Len(files) : files[i].data + files[i].len <= machine.image.len

\* The boot manager that is started is the last file with the firmware's name
\* among those delivered, and there is one (add_file, extract_initrd).
BootmgrIsDelivered ==
    pc \in {"header", "bins", "patch", "done"} =>
        LET named == {i \in 2..Len(files) : files[i].name = BootmgrName}
        IN  named # {} /\ bootmgr = files[CHOOSE i \in named : \A j \in named : j <= i]

(* What is left to do: the phases, and in them the arguments, the bytes of *)
(* the archive, those of the hive, the groups of patches and the patches.  *)
PhaseRank ==
    CASE pc = "cmdline" -> 7
      [] pc = "search" -> 6
      [] pc = "add_bcd" -> 5
      [] pc = "extract" -> 4
      [] pc = "header" -> 3
      [] pc = "bins" -> 2
      [] pc = "patch" -> 1
      [] pc \in Final -> 0
Remaining ==
    <<PhaseRank, Len(Line) + 1 - pos, left, hive.length - off, Len(Groups) + 1 - group, 12 - nth>>

\* The order of such lists by their first difference.
Less(m, n) == \E i \in 1..6 : m[i] < n[i] /\ \A j \in 1..(i - 1) : m[j] = n[j]

\* Every step leaves less to do: no archive, hive or command line keeps the
\* loader busy for ever.  As every state but a last one has a next step (the
\* run looks for deadlocks), the loader hands over or gives up.
Progress ==
    [][(\A i \in 1..6 : Remaining'[i] \in Nat) /\ Less(Remaining', Remaining)]_vars
============================================================================
