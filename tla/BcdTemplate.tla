---------------------------- MODULE BcdTemplate ----------------------------
(***************************************************************************)
(* The BCD that is linked into the loader: utils/bcd, which utils/bcd.bat  *)
(* creates.  Its keys are in the order and its values have the lengths of  *)
(* that file.  The objects that neither the loader nor another object      *)
(* names, and the key "Description" of each object, are left out except    *)
(* for one of the former (GLOBALS).                                        *)
(*                                                                         *)
(* A cell index of 0 stands for 0xffffffff, no cell.                       *)
(***************************************************************************)
EXTENDS Sequences, SequencesExt, Naturals

LoaderElements(dp) ==
    << <<"APPDEV", dp>>, <<"WINLOAD", 128>>, <<"TITLE", 18>>, <<"INHERIT", 80>>,
       <<"OSDDEV", dp>>, <<"SYSROOT", 64>> >>

\* The elements of each object, and the length of each value.
Elements ==
    [WIMB |-> LoaderElements(650),
     VHDB |-> LoaderElements(700),
     WOSB |-> Append(LoaderElements(88), <<"OBJECT", 78>>),
     HIBR |-> << <<"APPDEV", 88>>, <<"WINLOAD", 128>>, <<"TITLE", 24>>, <<"INHERIT", 80>>,
                 <<"OSDDEV", 88>>, <<"SYSROOT", 128>> >>,
     OPTN |-> << <<"CMDLINE", 256>>, <<"GFXMODE", 8>>, <<"ADVOPT", 1>>, <<"OPTEDIT", 1>>,
                 <<"TEXT", 1>>, <<"NOCHECKS", 1>>, <<"TESTMODE", 1>>, <<"HIGHRES", 1>>,
                 <<"NX", 8>>, <<"PAE", 8>>, <<"SAFEMODE", 8>>, <<"DETHAL", 1>>,
                 <<"WINPE", 1>>, <<"NOVESA", 1>>, <<"NOVGA", 1>>, <<"ALTSHELL", 1>> >>,
     GLOBALS |-> << <<"LANG", 12>> >>,
     BOOTMGR |-> << <<"TITLE", 18>>, <<"LANG", 12>>, <<"OBJECT", 78>>, <<"ORDER", 80>>,
                    <<"TIMEOUT", 8>>, <<"DISPLAY", 1>> >>,
     RAMDISK |-> << <<"SDIDEV", 88>>, <<"SDIPATH", 30>>, <<"IMGOFS", 8>>, <<"EXPORTCD", 1>> >>]

\* The objects in the order of the list of keys, which is that of their GUIDs.
Objects == <<"WIMB", "VHDB", "WOSB", "HIBR", "OPTN", "GLOBALS", "BOOTMGR", "RAMDISK">>

\* What no patch has overwritten.
Original == [other |-> "as shipped"]

(* The cells are numbered: first the root, its list and the key "Objects"  *)
(* with its list, then for each object four cells, then for each element   *)
(* its key, its list of values, its value and the content of that.         *)
ObjectCell(i, k) == 4 + 4 * (i - 1) + k         \* k: 1 key, 2 list, 3 Elements, 4 list

FirstElement[i \in 1..(Len(Objects) + 1)] ==
    IF i = 1 THEN 4 + 4 * Len(Objects)
    ELSE FirstElement[i - 1] + 4 * Len(Elements[Objects[i - 1]])
ElementCell(i, j, k) == FirstElement[i] + 4 * (j - 1) + k   \* k: 1 key, 2 values, 3 value, 4 content

Key(name, n, list, values) ==
    [kind |-> "nk", name |-> name, subKeyCount |-> n, subKeyList |-> list,
     valuesCount |-> IF values = 0 THEN 0 ELSE 1, values |-> values, volatile |-> 1]
List(cells) == [kind |-> "lf", count |-> Len(cells), room |-> Len(cells), list |-> cells]

HeadCells ==
    << Key("root", 1, 2, 0), List(<<3>>), Key("Objects", Len(Objects), 4, 0),
       List([i \in 1..Len(Objects) |-> ObjectCell(i, 1)]) >>

ObjectCells(i) ==
    LET es == Elements[Objects[i]]
    IN  << Key(Objects[i], 1, ObjectCell(i, 2), 0), List(<< ObjectCell(i, 3) >>),
           Key("Elements", Len(es), ObjectCell(i, 4), 0),
           List([j \in 1..Len(es) |-> ElementCell(i, j, 1)]) >>

\* A value of at most 4 bytes is kept in its own cell; the fourth is then free.
ElementCells(i, j) ==
    LET e == Elements[Objects[i]][j]
        inline == e[2] <= 4
    IN  << Key(e[1], 0, 0, ElementCell(i, j, 2)),
           [kind |-> "vl", room |-> 1, list |-> << ElementCell(i, j, 3) >>],
           [kind |-> "vk", name |-> "Element", len |-> e[2], inline |-> inline,
            data |-> IF inline THEN 0 ELSE ElementCell(i, j, 4), content |-> Original],
           IF inline THEN [kind |-> "free"]
           ELSE [kind |-> "data", size |-> e[2] + 4, content |-> Original] >>

Cells ==
    LET PerObject(i) == FlattenSeq([j \in 1..Len(Elements[Objects[i]]) |-> ElementCells(i, j)])
    IN  HeadCells \o FlattenSeq([i \in 1..Len(Objects) |-> ObjectCells(i)])
        \o FlattenSeq([i \in 1..Len(Objects) |-> PerObject(i)])

Template ==
    [header |-> [valid |-> TRUE, seq1 |-> 118, seq2 |-> 118, sum |-> "right"],
     length |-> 5,
     bins |-> [off \in {0, 1, 2, 4} |->
                [offset |-> off, size |-> IF off = 2 THEN 2 ELSE 1, aligned |-> TRUE]],
     root |-> 1,
     depth |-> 5,
     cell |-> Cells]

\* Every object and element of the template.
Slots == UNION {{<<o, Elements[o][j][1]>> : j \in 1..Len(Elements[o])} : o \in DOMAIN Elements}
============================================================================
