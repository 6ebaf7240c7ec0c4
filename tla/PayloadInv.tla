----------------------------- MODULE PayloadInv -----------------------------
(***************************************************************************)
(* What is assumed of the machines and of the BCD that is linked into the  *)
(* loader, and the inductive invariants that show that the hive stays one  *)
(* that a reader accepts, that the BCD becomes the documented one, and     *)
(* that the files are the packed ones.                                     *)
(***************************************************************************)
EXTENDS PayloadProps

\* The keys, and those of them that have a list of subkeys.
Keys(h) == {c \in DOMAIN h.cell : h.cell[c].kind = "nk"}
Parents(h) == {k \in Keys(h) : ListOf(h, k) # NoCell}

KeyFields == {"name", "subKeyCount", "subKeyList"}
ListFields == {"count", "room", "list"}

\* The fields that the code reads are there, and no key is the NoCell.
WellFormed(h) ==
    /\ {"cell", "root"} \subseteq DOMAIN h
    /\ NoCell \notin DOMAIN h.cell
    /\ \A c \in DOMAIN h.cell : "kind" \in DOMAIN h.cell[c]
    /\ \A k \in Keys(h) : KeyFields \subseteq DOMAIN h.cell[k]

\* A key's list has the number of entries that the key counts and no more than
\* it has room for; the entries are keys, and no two have the same name.
SoundList(h, k) ==
    LET l == h.cell[ListOf(h, k)]
    IN  /\ ListOf(h, k) \in DOMAIN h.cell
        /\ ListFields \subseteq DOMAIN l
        /\ l.kind = "lf"
        /\ l.count \in Nat /\ l.room \in Nat /\ l.count <= l.room
        /\ 1..l.count \subseteq DOMAIN l.list
        /\ h.cell[k].subKeyCount = l.count
        /\ \A i \in 1..l.count : l.list[i] \in Keys(h)
        /\ \A i, j \in 1..l.count :
                h.cell[l.list[i]].name = h.cell[l.list[j]].name => i = j

\* The hive is sound at every key, and no list belongs to two of them.
Sound(h) ==
    /\ WellFormed(h)
    /\ \A k \in Parents(h) : SoundList(h, k)
    /\ \A k, k2 \in Parents(h) : ListOf(h, k) = ListOf(h, k2) => k = k2

\* The way to the objects and to the elements of each: bcd_patch_data deletes
\* only below a key called "Elements", so it cannot cut these off.
Objected(h) ==
    /\ h.root \in Parents(h)
    /\ h.cell[h.root].name # "Elements"
    /\ \E i \in 1..h.cell[ListOf(h, h.root)].count :
            h.cell[h.cell[ListOf(h, h.root)].list[i]].name = "Objects"
    /\ \A i \in 1..Len(Objects) : ObjectCell(i, 3) \in Parents(h)

ASSUME TemplateAssumption == Sound(Template) /\ Objected(Template)

\* The inductive invariant of the hive.
HiveInv == Sound(hive) /\ Objected(hive)

-----------------------------------------------------------------------------
(* Where the BCD that is linked in has its objects, their elements and the *)
(* values of these.  The patches look all of them up by name.              *)
ObjectsCell == FindKey(Template, Template.root, "Objects").key
ObjectKey(o) == FindKey(Template, ObjectsCell, o).key
ElementsCell(o) == ElementsKey(Template, ObjectsCell, o).key
SlotKey(s) == ElementKey(Template, ObjectsCell, s[1], s[2]).key
SlotValue(s) == FindHive(Template, ObjectsCell, s[1], s[2])

Present(h, s) == SlotKey(s) \in ListedIn(h, ElementsCell(s[1]))
ContentOf(h, s) == h.cell[SlotValue(s).at].content

\* A key with one value: the cells on the way to it are what they should be.
OneValue(h, k) ==
    LET v == h.cell[k].values
        w == h.cell[v].list[1]
        d == h.cell[w].data
    IN  /\ k \in Keys(h) /\ {"valuesCount", "values"} \subseteq DOMAIN h.cell[k]
        /\ h.cell[k].valuesCount = 1 /\ v # NoCell
        /\ v \in DOMAIN h.cell /\ {"room", "list"} \subseteq DOMAIN h.cell[v]
        /\ h.cell[v].kind = "vl" /\ h.cell[v].room = 1
        /\ w \in DOMAIN h.cell /\ {"name", "len", "inline", "data"} \subseteq DOMAIN h.cell[w]
        /\ h.cell[w].kind = "vk" /\ h.cell[w].name = "Element"
        /\ IF h.cell[w].inline THEN h.cell[w].len \in {1, 2, 4}
           ELSE /\ d \in DOMAIN h.cell /\ "size" \in DOMAIN h.cell[d]
                /\ h.cell[d].kind = "data" /\ h.cell[w].len <= h.cell[d].size

\* Every object is where it was, with what is left of its elements, and the key
\* of each element, listed or not, leads to its value.
Layout(h) ==
    /\ ObjectsCell \in Parents(h) /\ FindKey(h, h.root, "Objects") = Found(ObjectsCell)
    /\ ListedIn(h, ObjectsCell) = {ObjectKey(o) : o \in DOMAIN Elements}
    /\ \A o \in DOMAIN Elements :
        /\ h.cell[ObjectKey(o)].name = o /\ h.cell[ElementsCell(o)].name = "Elements"
        /\ ObjectKey(o) \in Parents(h) /\ ElementsCell(o) \in Parents(h)
        /\ FindKey(h, ObjectKey(o), "Elements") = Found(ElementsCell(o))
        /\ ListedIn(h, ElementsCell(o)) \subseteq {SlotKey(s) : s \in {t \in Slots : t[1] = o}}
    /\ \A s \in Slots :
        /\ OneValue(h, SlotKey(s)) /\ h.cell[SlotKey(s)].name = s[2]
        /\ QueryValue(h, SlotKey(s), "Element") = SlotValue(s)
        /\ SlotValue(s).at \in DOMAIN h.cell /\ "content" \in DOMAIN h.cell[SlotValue(s).at]

\* The BCD as shipped: every element is there, has its length and is like no other.
ASSUME ShippedAssumption ==
    /\ Layout(Template)
    /\ \A s \in Slots : /\ Present(Template, s) /\ ContentOf(Template, s) = Original
                       /\ SlotValue(s).err = "NONE"
    /\ \A s, t \in Slots : SlotKey(s) = SlotKey(t) \/ SlotValue(s).at = SlotValue(t).at => s = t
    /\ \A o, q \in DOMAIN Elements : ElementsCell(o) = ElementsCell(q) => o = q
    /\ \A o \in DOMAIN Elements : \A j \in 1..Len(Elements[o]) :
            SlotValue(<<o, Elements[o][j][1]>>).len = Elements[o][j][2]

-----------------------------------------------------------------------------
(* The arguments are what a user can type: a key and a text.               *)
TypedTexts == [text : STRING, len : Nat, ext : STRING, back : {FALSE}, space : {FALSE}]

ASSUME LineAssumption == \A m \in Machines : m.line \in Seq([key : STRING, val : TypedTexts])

\* The arguments up to the n-th that set a field, and what the last one sets.
Setters(line, f, n) == {i \in 1..n : f \in DOMAIN Sets(line[i])}
LastOf(S) == CHOOSE i \in S : \A j \in S : j <= i
LineArgs(line, n) ==
    [f \in DOMAIN InitArgs |->
        IF Setters(line, f, n) = {} THEN InitArgs[f]
        ELSE Sets(line[LastOf(Setters(line, f, n))])[f]]

\* What the fields are while the line is processed, and what they stay.
LineInv ==
    /\ machine \in Machines
    /\ pos \in 1..(Len(Line) + 1)
    /\ \A i \in 1..(pos - 1) : ~Rejects(Line[i])
    /\ pc = "cmdline" => args = LineArgs(Line, pos - 1) /\ (Line = NoLine => pos = 1)
    /\ pc \notin {"cmdline", "die_cmdline"} =>
            IF Line = NoLine THEN args = InitArgs
            ELSE pos = Len(Line) + 1 /\ args = Defaults(LineArgs(Line, Len(Line)))
    /\ pc = "die_cmdline" => args = LineArgs(Line, pos - 1)
    /\ answer = IF pc \notin {"cmdline", "search", "die_cmdline"} /\ args.fsuuid # Empty /\ machine.reachable
                THEN machine.partition ELSE NoPartition

-----------------------------------------------------------------------------
(* The patches by their places, those done, and what each one names.       *)
Places == UNION {{<<g, n>> : n \in 1..Len(Patches(Groups[g], args))} : g \in 1..Len(Groups)}
PatchAt(i) == Patches(Groups[i[1]], args)[i[2]]
Target(p) == <<p.object, p.element>>
Done == {i \in Places : i[1] < group \/ (i[1] = group /\ i[2] < nth)}

Finally(content) == IF pc = "done" THEN ReplaceIn(content, machine.efi) ELSE content

\* Each patch done shows, and the elements that none of them named are as shipped.
PatchInv ==
    /\ Layout(hive)
    /\ \A i \in Done :
        LET s == Target(PatchAt(i))
        IN  IF PatchAt(i).op = "delete" THEN ~Present(hive, s)
            ELSE /\ Present(hive, s)
                 /\ ContentOf(hive, s) = Finally(Content(PatchAt(i), args, answer, SlotValue(s).len))
    /\ \A s \in Slots :
        (\A i \in Done : Target(PatchAt(i)) # s) =>
            Present(hive, s) /\ ContentOf(hive, s) = Finally(Original)
    /\ pc = "done" => group > Len(Groups)
    /\ pc \notin {"patch", "done"} => group = 1 /\ nth = 1
    /\ group \in 1..(Len(Groups) + 1) /\ nth \in 1..12

\* The bins are those of the BCD that is linked in, and validate_bins is at one of them.
OpenInv ==
    /\ pc \in Phases \ {"die_hive", "die_patch"}
    /\ {"header", "bins", "length"} \subseteq DOMAIN hive /\ DOMAIN hive.cell = DOMAIN Cells
    /\ hive.bins = Template.bins /\ hive.length = Template.length
    /\ pc \notin {"bins", "patch", "done"} => hive = Template /\ off = 0
    /\ off \in DOMAIN Template.bins \cup {Template.length}

-----------------------------------------------------------------------------
(* The image is the archive that mkinitrd wrote, or its first bytes, and   *)
(* it says "whole" only of all of it, with no file that became shorter.    *)
(* No file is called like the trailer; the reader ends at such a file.     *)
(* Where the reader looks after a file that became shorter there is no     *)
(* header, as there is if the file lost just the length of the members     *)
(* that follow it: these would be passed over and the loss not noticed.    *)
ArchiveOK(m) ==
    LET lead == m.offsets[1]
        all == Pack(lead, m.files)
        n == Len(m.files)
    IN  /\ Packable(m.files)
        /\ lead \in Nat /\ lead % 4 = 0
        /\ m.offsets = Offsets(lead, m.files)
        /\ m.image.len \in 0..all.len
        /\ m.image = Truncate(all, m.image.len)
        /\ m.whole => m.image.len = all.len /\ \A i \in 1..n : m.files[i].copied = m.files[i].size
        /\ \A i \in 1..n :
            LET f == m.files[i]
            IN  /\ f.name # TrailerName /\ FitsSize(f)
                /\ f.copied # f.size =>
                    \A j \in 1..(n + 1) : m.offsets[i] + DataOffset(f) + AlignUp(f.size) # m.offsets[j]

ASSUME MachinesAssumption == \A m \in Machines : ArchiveOK(m)

\* The phases after the files were extracted.
Opened == {"header", "bins", "patch", "done"}

\* Where cpio_extract stands: at the start, at the header of the next member, or
\* in an archive that is not whole where it will find nothing.
ReaderPlace ==
    \/ Len(files) = 1 /\ at = 0
    \/ at = machine.offsets[Len(files)]
    \/ /\ ~machine.whole
       /\ at > machine.offsets[1]
       /\ left = 0 \/ at \notin DOMAIN machine.image.heads

\* The files so far are the BCD and the first ones of the archive.
FilesInv ==
    /\ Len(files) <= Len(Packed) /\ \A i \in 1..Len(files) : files[i] = Packed[i]
    /\ \A i \in 2..Len(files) : files[i].data + files[i].len <= machine.image.len
    /\ pc \in Opened /\ machine.whole => Len(files) = Len(Packed)

\* The boot manager is the last file with the name, as far as there is one.
BootmgrInv ==
    LET named == {i \in 2..Len(files) : files[i].name = BootmgrName}
    IN  /\ named = {} => bootmgr = NoFile
        /\ named # {} => \E i \in named : bootmgr = files[i] /\ \A j \in named : j <= i
        /\ pc \in Opened => bootmgr # NoFile

FileRecords == {BcdFile} \cup [name : STRING, data : Nat, len : Nat]

\* The inductive invariant of the extraction.
ExtractInv ==
    /\ machine \in Machines /\ files \in Seq(FileRecords)
    /\ at \in Nat /\ left \in Nat /\ at + left = machine.image.len
    /\ pc \in {"cmdline", "search", "add_bcd"} => files = << >> /\ at = 0
    /\ pc = "extract" => Len(files) >= 1 /\ ReaderPlace
    /\ FilesInv
    /\ BootmgrInv
============================================================================
