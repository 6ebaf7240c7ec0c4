------------------------------ MODULE MCRegView ------------------------------
(***************************************************************************)
(* Hives for RegView: a key with up to three subkeys and two values, each  *)
(* of which may be damaged, in a plain list or in a list of two lists;     *)
(* hives in which a list is damaged; and hives whose base block or bins    *)
(* are.                                                                    *)
(***************************************************************************)
EXTENDS RegView

Nk(name, n, list, v, valueList) ==
    [kind |-> "nk", name |-> name, subKeyCount |-> n, subKeyList |-> list,
     valuesCount |-> v, values |-> valueList, volatile |-> 1]
Leaf(cells, n, room) == [kind |-> "lf", count |-> n, room |-> room, list |-> cells]
Free == [kind |-> "free"]
Short == [kind |-> "short"]
Sub(name) == Nk(name, 0, NoCell, 0, NoCell)
Value(name) == [kind |-> "vk", name |-> name, len |-> 4, inline |-> TRUE]

Subs3 == {<<Sub("a"), Sub("b"), Sub("c")>>, <<Sub("a"), Sub("a"), Sub("long")>>,
          <<Sub("a"), Free, Sub("b")>>, <<Short, Sub("b"), Sub("a")>>,
          <<Sub("long"), Sub("b"), Sub("c")>>}
Values2 == {<<Value("x"), Value("")>>, <<Value(""), Value("y")>>, <<Free, Value("x")>>,
            <<Value("long"), Value("x")>>, <<Value("x"), Short>>}

\* Root 1 with the key 3; its subkeys 5, 6, 7 in the list 4, its values 10, 11.
Plain3(count, listed, room, subs, vals) ==
    << Nk("root", 1, 2, 0, NoCell), Leaf(<<3>>, 1, 1), Nk("key", count, 4, 2, 9),
       Leaf(<<5, 6, 7>>, listed, room), subs[1], subs[2], subs[3], Free,
       [kind |-> "vl", room |-> 2, list |-> <<10, 11>>], vals[1], vals[2] >>

\* The same with a list of two lists, of two keys and of one.
Root3(room, subs, vals) ==
    [Plain3(3, 3, 3, subs, vals) \o << Leaf(<<5, 6>>, 2, 2), Leaf(<<7>>, 1, 1) >>
        EXCEPT ![4] = [kind |-> "ri", count |-> 2, room |-> room, list |-> <<12, 13>>]]

GoodHeader == [valid |-> TRUE, seq1 |-> 1, seq2 |-> 1, sum |-> "right"]
DirtyHeader == [valid |-> TRUE, seq1 |-> 2, seq2 |-> 1, sum |-> "wrong"]
BadHeader == [valid |-> FALSE, seq1 |-> 1, seq2 |-> 1, sum |-> "right"]

Bin(at, size) == [offset |-> at, size |-> size, aligned |-> TRUE]
OneBin == (0 :> Bin(0, 2))
TwoBins == (0 :> Bin(0, 1)) @@ (1 :> Bin(1, 1))
BadBins == {(0 :> Bin(0, 1)) @@ (1 :> Bin(0, 1)), 0 :> Bin(0, 3), 0 :> Bin(0, 1),
            (0 :> Bin(0, 1)) @@ (1 :> Bin(1, 0)), 0 :> [offset |-> 0, size |-> 2, aligned |-> FALSE]}

Hive3(header, bins, cells) ==
    [header |-> header, bins |-> bins, length |-> 2, cell |-> cells, root |-> 1, depth |-> 3]
Ask(h, p) == [hive |-> h, path |-> p]

Subs1 == <<Sub("a"), Sub("b"), Sub("c")>>
Values1 == <<Value("x"), Value("y")>>
Ordinary == Plain3(3, 3, 3, Subs1, Values1)

\* The lists of the key are damaged, or it has none.
NoLists ==
    {[Ordinary EXCEPT ![l] = Free] : l \in {4, 9}}
    \cup {[Ordinary EXCEPT ![4] = Short], [Ordinary EXCEPT ![3].subKeyList = NoCell],
          [Ordinary EXCEPT ![3].values = NoCell]}
    \cup {[Root3(3, Subs1, Values1) EXCEPT ![l] = c] : l \in {12, 13}, c \in {Free, Short}}

MCRequests ==
    {Ask(Hive3(GoodHeader, OneBin, Plain3(n[1], n[2], n[3], s, v)), <<"key">>) :
        n \in {<<3, 3, 3>>, <<3, 3, 2>>, <<2, 3, 3>>, <<3, 2, 3>>, <<0, 3, 3>>}, s \in Subs3, v \in Values2}
    \cup {Ask(Hive3(GoodHeader, OneBin, Root3(room, s, v)), <<"key">>) :
            room \in 1..3, s \in Subs3, v \in Values2}
    \cup {Ask(Hive3(GoodHeader, OneBin, cells), <<"key">>) : cells \in NoLists}
    \cup {Ask(Hive3(h, b, Ordinary), p) :
            h \in {GoodHeader, DirtyHeader, BadHeader}, b \in {OneBin, TwoBins} \cup BadBins,
            p \in {<< >>, <<"key">>, <<"key", "b">>, <<"key", "d">>, <<"d", "b">>}}
=============================================================================
