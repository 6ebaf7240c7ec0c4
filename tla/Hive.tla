------------------------------- MODULE Hive -------------------------------
(***************************************************************************)
(* Operations on a registry hive (libnt/reg.c).  A hive is a record: its   *)
(* base block (header), its bins by offset, the sum of their sizes, its    *)
(* cells and its root cell.  A cell is a record tagged by what the         *)
(* signature and the size checks make of it:                               *)
(*   "free"   a cell with a positive size, which is not allocated          *)
(*   "nk"     a key: name, subKeyCount, subKeyList, valuesCount, values    *)
(*   "lf" "lh" a list of subkeys: count, list, and room, the entries that  *)
(*            fit into the cell                                            *)
(*   "ri"     a list of lists; room counts entries of "lf" size, as the    *)
(*            code does                                                    *)
(*   "vl"     the cells of a key's values: room and list                   *)
(*   "vk"     a value: name, len, inline, and its content if it is inline, *)
(*            the cell of its content otherwise (data)                     *)
(*   "data"   size and content                                             *)
(*   "short"  a cell too small for what it should be                       *)
(* Names stand for the names with their letters in lower case: the code    *)
(* compares them so, whether they are stored in one or in two bytes.       *)
(***************************************************************************)
EXTENDS Naturals, FiniteSets

\* The value 0xffffffff of a cell index.
NoCell == 0

Kind(h, c) == h.cell[c].kind

\* The least element of a set of positions.
First(S) == CHOOSE i \in S : \A j \in S : i <= j

----------------------------------------------------------------------------
(* check_header: a hive whose writer was interrupted is accepted, and its  *)
(* base block repaired.                                                    *)
HeaderValid(h) == h.header.valid

Repaired(h) ==
    [h EXCEPT !.header.seq2 = h.header.seq1, !.header.sum = "right"]

(* One turn of validate_bins: the bin at an offset must be there, must say *)
(* where it is, must end inside the hive and be a multiple of a page.      *)
BinValid(h, off) ==
    /\ off \in DOMAIN h.bins
    /\ LET b == h.bins[off]
       IN  b.offset = off /\ b.size <= h.length - off /\ b.aligned

\* Variant: the offset stays.
NextBinSame(h, off) == off

NextBin(h, off) == off + h.bins[off].size

\* clear_volatile: every key below the root forgets its volatile subkeys.
Subkeys(h, c) ==
    IF Kind(h, c) # "nk" \/ h.cell[c].subKeyCount = 0 \/ h.cell[c].subKeyList = NoCell THEN {}
    ELSE LET l == h.cell[h.cell[c].subKeyList]
         IN  IF l.kind \in {"lf", "lh", "ri"} THEN {l.list[i] : i \in 1..l.count} ELSE {}

Below(h) ==
    LET below[n \in Nat] ==
            IF n = 0 THEN {h.root}
            ELSE LET upper == below[n - 1] IN upper \cup UNION {Subkeys(h, c) : c \in upper}
    IN  below[h.depth]

ClearVolatile(h) ==
    LET keys == {c \in Below(h) : Kind(h, c) = "nk"}
    IN  [h EXCEPT !.cell = [c \in DOMAIN h.cell |->
            IF c \in keys THEN [h.cell[c] EXCEPT !.volatile = 0] ELSE h.cell[c]]]

----------------------------------------------------------------------------
(* The checks that find_child_key and reg_delete_key make before they look *)
(* at the entries of a key's list.                                         *)
NodeError(h, c) ==
    CASE Kind(h, c) = "free" -> "FILE_NOT_FOUND"
      [] Kind(h, c) \notin {"free", "nk"} -> "BAD_ARGUMENT"
      [] OTHER -> "NONE"

ListOf(h, key) == h.cell[key].subKeyList

LeafError(h, l) ==
    CASE Kind(h, l) = "free" -> "FILE_NOT_FOUND"
      [] Kind(h, l) \notin {"free", "lf", "lh"} -> "BAD_ARGUMENT"
      [] OTHER -> IF h.cell[l].count > h.cell[l].room THEN "BAD_ARGUMENT" ELSE "NONE"

SubkeysError(h, key) ==
    IF NodeError(h, key) # "NONE" THEN NodeError(h, key)
    ELSE IF h.cell[key].subKeyCount = 0 \/ ListOf(h, key) = NoCell THEN "FILE_NOT_FOUND"
    ELSE LeafError(h, ListOf(h, key))

\* The entries whose key has the name; damaged entries are passed over.
Matching(h, l, name) ==
    {i \in 1..h.cell[l].count :
        LET c == h.cell[l].list[i] IN Kind(h, c) = "nk" /\ h.cell[c].name = name}

Error(e) == [err |-> e, key |-> NoCell]
Found(c) == [err |-> "NONE", key |-> c]

\* find_child_key, and reg_find_key with a path of one name.
FindKey(h, parent, name) ==
    IF SubkeysError(h, parent) # "NONE" THEN Error(SubkeysError(h, parent))
    ELSE LET l == ListOf(h, parent)
             hits == Matching(h, l, name)
         IN  IF hits = {} THEN Error("FILE_NOT_FOUND")
             ELSE Found(h.cell[l].list[First(hits)])

\* The entries that are the key to be deleted.
Entries(h, l, key) == {i \in 1..h.cell[l].count : h.cell[l].list[i] = key}

DeleteError(h, parent, key) ==
    IF SubkeysError(h, parent) # "NONE" THEN SubkeysError(h, parent)
    ELSE IF Entries(h, ListOf(h, parent), key) = {} THEN "FILE_NOT_FOUND" ELSE "NONE"

\* Variant: the entry after the i-th is lost instead.
WithoutNext(l, i) ==
    [l EXCEPT !.count = l.count - 1,
              !.list = [j \in DOMAIN l.list |->
                            IF i < j /\ j < l.count THEN l.list[j + 1] ELSE l.list[j]]]

\* The list without its i-th entry: the later ones move down by one.
Without(l, i) ==
    [l EXCEPT !.count = l.count - 1,
              !.list = [j \in DOMAIN l.list |->
                            IF i <= j /\ j < l.count THEN l.list[j + 1] ELSE l.list[j]]]

\* Variant: the count in the key stays.
DeleteKeyUncounted(h, parent, key) ==
    LET l == ListOf(h, parent)
    IN  [h EXCEPT !.cell[l] = Without(h.cell[l], First(Entries(h, l, key)))]

\* reg_delete_key when nothing is wrong; neither the key nor its values are freed.
DeleteKey(h, parent, key) ==
    LET l == ListOf(h, parent)
        i == First(Entries(h, l, key))
    IN  [h EXCEPT !.cell[l] = Without(h.cell[l], i),
                  !.cell[parent].subKeyCount = @ - 1]

----------------------------------------------------------------------------
(* reg_enum_keys: the index-th subkey, counted from 0.  In a list of lists *)
(* the index goes down by the length of each leaf passed; the length of    *)
(* the leaf is then compared with the size of the list of lists.  Past the *)
(* last leaf the list of lists itself is taken for a leaf, and its entries *)
(* are no keys.                                                            *)
EnumLeaf(h, l, index, room) ==
    LET leaf == h.cell[l]
    IN  IF leaf.count > room \/ index >= leaf.count THEN Error("BAD_ARGUMENT")
        ELSE LET c == leaf.list[index + 1]
             IN  IF NodeError(h, c) # "NONE" THEN Error(NodeError(h, c)) ELSE Found(c)

\* Variant: the index goes on counting in the next leaf.
EnumRootTotal(h, l, index) ==
    LET ri == h.cell[l]
        here == {i \in 1..ri.count :
                    /\ \A j \in 1..i : Kind(h, ri.list[j]) \in {"lf", "lh"}
                    /\ index < h.cell[ri.list[i]].count}
    IN  IF here = {} THEN Error("BAD_ARGUMENT")
        ELSE EnumLeaf(h, ri.list[First(here)], index, ri.room)

EnumRoot(h, l, index) ==
    LET ri == h.cell[l]
        IsLeaf(i) == Kind(h, ri.list[i]) \in {"lf", "lh"}
        before[i \in Nat] ==                \* keys in the leaves before the i-th
            IF i <= 1 THEN 0 ELSE before[i - 1] + h.cell[ri.list[i - 1]].count
        here == {i \in 1..ri.count :
                    /\ \A j \in 1..i : IsLeaf(j)
                    /\ before[i] <= index
                    /\ index < before[i] + h.cell[ri.list[i]].count}
    IN  IF here = {} THEN Error("BAD_ARGUMENT")
        ELSE EnumLeaf(h, ri.list[First(here)], index - before[First(here)], ri.room)

EnumKey(h, key, index) ==
    IF NodeError(h, key) # "NONE" THEN Error(NodeError(h, key))
    ELSE IF index >= h.cell[key].subKeyCount \/ ListOf(h, key) = NoCell THEN Error("FILE_NOT_FOUND")
    ELSE LET l == ListOf(h, key)
         IN  CASE Kind(h, l) = "ri" -> EnumRoot(h, l, index)
               [] Kind(h, l) \in {"lf", "lh"} -> EnumLeaf(h, l, index, h.cell[l].room)
               [] Kind(h, l) = "free" -> Error("FILE_NOT_FOUND")
               [] OTHER -> Error("BAD_ARGUMENT")

----------------------------------------------------------------------------
(* reg_query_value: the first value with the name that passes the checks.  *)
(* The answer is the cell in which its content is, and the length that the *)
(* value claims.                                                           *)
ValuesError(h, key) ==
    IF NodeError(h, key) # "NONE" THEN NodeError(h, key)
    ELSE IF h.cell[key].valuesCount = 0 \/ h.cell[key].values = NoCell THEN "FILE_NOT_FOUND"
    ELSE LET v == h.cell[h.cell[key].values]
         IN  CASE v.kind = "free" -> "FILE_NOT_FOUND"
               [] v.kind # "free" /\ h.cell[key].valuesCount > v.room -> "BAD_ARGUMENT"
               [] OTHER -> "NONE"

NoValue(e) == [err |-> e, at |-> NoCell, len |-> 0]

\* A cell that is not allocated has a negative size, which is no limit.
Fits(h, v) == Kind(h, v.data) = "free" \/ v.len <= h.cell[v.data].size

QueryValue(h, key, name) ==
    IF ValuesError(h, key) # "NONE" THEN NoValue(ValuesError(h, key))
    ELSE LET list == h.cell[h.cell[key].values].list
             hits == {i \in 1..h.cell[key].valuesCount :
                        Kind(h, list[i]) = "vk" /\ h.cell[list[i]].name = name}
             at == list[First(hits)]
             v == h.cell[at]
         IN  CASE hits = {} -> NoValue("FILE_NOT_FOUND")
               [] hits # {} /\ v.inline /\ v.len \in {0, 1, 2, 4} ->
                    [err |-> "NONE", at |-> at, len |-> v.len]
               [] hits # {} /\ ~v.inline /\ Fits(h, v) ->
                    [err |-> "NONE", at |-> v.data, len |-> v.len]
               [] OTHER -> NoValue("BAD_ARGUMENT")

\* reg_enum_values: the index-th value, counted from 0.
EnumValue(h, key, index) ==
    IF NodeError(h, key) # "NONE" THEN Error(NodeError(h, key))
    ELSE IF index >= h.cell[key].valuesCount \/ h.cell[key].values = NoCell THEN Error("FILE_NOT_FOUND")
    ELSE IF ValuesError(h, key) # "NONE" THEN Error(ValuesError(h, key))
    ELSE LET c == h.cell[h.cell[key].values].list[index + 1]
         IN  CASE Kind(h, c) = "free" -> Error("FILE_NOT_FOUND")
               [] Kind(h, c) \notin {"free", "vk"} -> Error("BAD_ARGUMENT")
               [] OTHER -> Found(c)

\* Overwriting the content of a value in place.
SetContent(h, at, content) == [h EXCEPT !.cell[at].content = content]
============================================================================
