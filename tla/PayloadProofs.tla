--------------------------- MODULE PayloadProofs ---------------------------
(***************************************************************************)
(* Whatever the command line: no patch of the BCD leaves a hive that a     *)
(* reader would refuse, every patch is made, the loader always gets on,    *)
(* and the BCD that it hands over is the documented one.                   *)
(*                                                                         *)
(* In this order: how the changes of a hive leave it sound (HiveInv); what *)
(* the arguments so far make of the fields (LineInv); which patches there  *)
(* are, what they need and what they leave alone (PatchInv); how the hive  *)
(* is opened (OpenInv); and last, what all the arguments and all the       *)
(* patches together amount to, against the promise of PayloadProps.        *)
(***************************************************************************)
EXTENDS ExtractProofs, FiniteSetTheorems

-----------------------------------------------------------------------------
(* Changes of a hive that leave every key, list and value as it is, but    *)
(* for the content of a value.                                             *)
ValueFields == {"valuesCount", "values", "len", "inline", "data", "size"}
Kept == KeyFields \cup ListFields \cup ValueFields \cup {"kind"}

SameTree(g, h) ==
    /\ DOMAIN g = DOMAIN h
    /\ DOMAIN g.cell = DOMAIN h.cell
    /\ g.root = h.root
    /\ \A c \in DOMAIN h.cell :
        /\ DOMAIN g.cell[c] = DOMAIN h.cell[c]
        /\ \A f \in DOMAIN h.cell[c] \cap Kept : g.cell[c][f] = h.cell[c][f]

\* Overwriting the content of a value changes no key and no list.
LEMMA SetContentKeeps ==
    ASSUME NEW h, NEW cell, NEW content, WellFormed(h)
    PROVE  SameTree(SetContent(h, cell, content), h)
  BY DEF SetContent, SameTree, WellFormed, Kept, KeyFields, ListFields, ValueFields

\* Neither does the repair of the base block.
LEMMA RepairedKeeps ==
    ASSUME NEW h, WellFormed(h)
    PROVE  SameTree(Repaired(h), h)
  BY DEF Repaired, SameTree, WellFormed, Kept, KeyFields, ListFields, ValueFields

\* Neither does forgetting the volatile subkeys.
LEMMA ClearVolatileKeeps ==
    ASSUME NEW h, WellFormed(h)
    PROVE  SameTree(ClearVolatile(h), h)
<1> DEFINE keys == {c \in Below(h) : Kind(h, c) = "nk"}
           cells == [c \in DOMAIN h.cell |->
                        IF c \in keys THEN [h.cell[c] EXCEPT !.volatile = 0] ELSE h.cell[c]]
<1>1. ClearVolatile(h) = [h EXCEPT !.cell = cells]
  BY DEF ClearVolatile
<1> HIDE DEF keys
<1> QED
  BY <1>1 DEF SameTree, WellFormed, Kept, KeyFields, ListFields, ValueFields

\* Neither does another extension at the end of a text.
LEMMA ReplaceSuffixKeeps ==
    ASSUME NEW h, NEW efi, WellFormed(h)
    PROVE  SameTree(ReplaceSuffix(h, efi), h)
  BY DEF ReplaceSuffix, SameTree, WellFormed, Kept, KeyFields, ListFields, ValueFields

\* Such a change keeps the hive sound.
LEMMA SameTreeSound ==
    ASSUME NEW h, NEW g, SameTree(g, h), Sound(h)
    PROVE  Sound(g)
<1> USE DEF Sound, Kept, KeyFields, ListFields, ValueFields
<1>1. /\ \A c \in DOMAIN h.cell : g.cell[c].kind = h.cell[c].kind
      /\ Keys(g) = Keys(h)
      /\ \A k \in Keys(h) : /\ g.cell[k].name = h.cell[k].name
                            /\ g.cell[k].subKeyCount = h.cell[k].subKeyCount
                            /\ g.cell[k].subKeyList = h.cell[k].subKeyList
  BY DEF SameTree, WellFormed, Keys
<1>2. WellFormed(g)
  BY <1>1 DEF SameTree, WellFormed, Keys
<1>3. Parents(g) = Parents(h) /\ \A k \in Keys(h) : ListOf(g, k) = ListOf(h, k)
  BY <1>1 DEF Parents, ListOf
<1>4. ASSUME NEW k \in Parents(h)
      PROVE  SoundList(g, k)
  <2>1. SoundList(h, k) /\ k \in Keys(h) /\ ListOf(g, k) = ListOf(h, k)
    BY <1>3 DEF Parents
  <2>2. /\ ListOf(h, k) \in DOMAIN h.cell
        /\ g.cell[ListOf(h, k)].kind = h.cell[ListOf(h, k)].kind
        /\ g.cell[ListOf(h, k)].count = h.cell[ListOf(h, k)].count
        /\ g.cell[ListOf(h, k)].room = h.cell[ListOf(h, k)].room
        /\ g.cell[ListOf(h, k)].list = h.cell[ListOf(h, k)].list
        /\ DOMAIN g.cell[ListOf(h, k)] = DOMAIN h.cell[ListOf(h, k)]
    BY <2>1, <1>1 DEF SoundList, SameTree
  <2>3. \A c \in Keys(h) : c \in Keys(g) /\ g.cell[c].name = h.cell[c].name
    BY <1>1
  <2>4. ListOf(h, k) \in DOMAIN g.cell /\ g.cell[k].subKeyCount = h.cell[k].subKeyCount
    BY <1>1, <2>1, <2>2 DEF SameTree
  <2> DEFINE l == h.cell[ListOf(h, k)]
             m == g.cell[ListOf(h, k)]
  <2>5. /\ ListFields \subseteq DOMAIN l
        /\ l.kind = "lf"
        /\ l.count \in Nat /\ l.room \in Nat /\ l.count <= l.room
        /\ 1..l.count \subseteq DOMAIN l.list
        /\ h.cell[k].subKeyCount = l.count
        /\ \A i \in 1..l.count : l.list[i] \in Keys(h)
        /\ \A i, j \in 1..l.count :
                h.cell[l.list[i]].name = h.cell[l.list[j]].name => i = j
    BY <2>1 DEF SoundList
  <2>6. /\ m.kind = l.kind /\ m.count = l.count /\ m.room = l.room /\ m.list = l.list
        /\ DOMAIN m = DOMAIN l
    BY <2>2
  <2> HIDE DEF l
  <2>7. \A i \in 1..l.count : /\ l.list[i] \in Keys(g)
                             /\ g.cell[l.list[i]].name = h.cell[l.list[i]].name
    BY <2>3, <2>5
  <2>8. \A i, j \in 1..m.count :
            g.cell[m.list[i]].name = g.cell[m.list[j]].name => i = j
    <3> HIDE DEF m
    <3> QED
      BY <2>5, <2>6, <2>7
  <2>9. /\ ListFields \subseteq DOMAIN m
        /\ m.kind = "lf"
        /\ m.count \in Nat /\ m.room \in Nat /\ m.count <= m.room
        /\ 1..m.count \subseteq DOMAIN m.list
        /\ g.cell[k].subKeyCount = m.count
        /\ \A i \in 1..m.count : m.list[i] \in Keys(g)
    <3> HIDE DEF m
    <3> QED
      BY <2>4, <2>5, <2>6, <2>7
  <2> QED
    BY <2>1, <2>4, <2>8, <2>9 DEF SoundList
<1> QED
  BY <1>2, <1>3, <1>4 DEF Parents

\* And it keeps the way to the elements of each object.
LEMMA SameTreeObjected ==
    ASSUME NEW h, NEW g, SameTree(g, h), Sound(h), Objected(h)
    PROVE  Objected(g)
<1>1. /\ Keys(g) = Keys(h)
      /\ \A k \in Keys(h) : /\ g.cell[k].name = h.cell[k].name
                            /\ g.cell[k].subKeyList = h.cell[k].subKeyList
  BY DEF SameTree, Sound, WellFormed, Keys, Kept, KeyFields, ListFields, ValueFields
<1>2. Parents(g) = Parents(h) /\ \A k \in Keys(h) : ListOf(g, k) = ListOf(h, k)
  BY <1>1 DEF Parents, ListOf
<1> DEFINE l == ListOf(h, h.root)
<1>3. /\ h.root \in Keys(h) /\ g.root = h.root /\ ListOf(g, h.root) = l
      /\ g.cell[h.root].name = h.cell[h.root].name
  BY <1>1, <1>2 DEF Objected, SameTree, Parents
<1>4. /\ SoundList(h, h.root)
      /\ g.cell[l].count = h.cell[l].count /\ g.cell[l].list = h.cell[l].list
  BY DEF Objected, SameTree, Sound, SoundList, Kept, ListFields, ValueFields
<1>5. \A i \in 1..h.cell[l].count :
        g.cell[h.cell[l].list[i]].name = h.cell[h.cell[l].list[i]].name
  BY <1>1, <1>4 DEF SoundList
<1> QED
  BY <1>2, <1>3, <1>4, <1>5 DEF Objected

-----------------------------------------------------------------------------
(* Looking for a key by its name.                                          *)

\* The first of one position is that position.
LEMMA FirstOfOne ==
    ASSUME NEW i \in Nat
    PROVE  First({i}) = i
  BY DEF First

\* A key that find_child_key finds is an entry of its parent's list.
LEMMA FindKeyFinds ==
    ASSUME NEW h, Sound(h), NEW k \in Keys(h), NEW name, FindKey(h, k, name).err = "NONE"
    PROVE  /\ k \in Parents(h)
           /\ FindKey(h, k, name).key \in Keys(h)
           /\ h.cell[FindKey(h, k, name).key].name = name
<1> DEFINE l == ListOf(h, k)
           hits == Matching(h, l, name)
<1>1. SubkeysError(h, k) = "NONE"
  BY DEF FindKey, Error
<1>2. k \in Parents(h)
  BY <1>1 DEF SubkeysError, Parents, NodeError, Kind, Keys
<1>3. SoundList(h, k)
  BY <1>2 DEF Sound
<1>4. hits # {} /\ FindKey(h, k, name) = Found(h.cell[l].list[First(hits)])
  BY <1>1 DEF FindKey, Error
<1>5. PICK i \in hits : TRUE
  BY <1>4
<1>6. /\ i \in 1..h.cell[l].count /\ i \in Nat
      /\ h.cell[l].list[i] \in Keys(h) /\ h.cell[h.cell[l].list[i]].name = name
  BY <1>5, <1>3 DEF Matching, SoundList
<1>7. hits = {i}
  <2>1. ASSUME NEW j \in hits
        PROVE  j = i
    <3>1. j \in 1..h.cell[l].count /\ h.cell[h.cell[l].list[j]].name = name
      BY DEF Matching
    <3> QED
      BY <3>1, <1>3, <1>6 DEF SoundList
  <2> QED
    BY <2>1, <1>5
<1>8. FindKey(h, k, name).key = h.cell[l].list[i]
  BY <1>4, <1>6, <1>7, FirstOfOne DEF Found
<1> QED
  BY <1>2, <1>6, <1>8

\* And an entry of a list is found by its name.
LEMMA EntryIsFound ==
    ASSUME NEW h, Sound(h), NEW k \in Parents(h), NEW i \in 1..h.cell[ListOf(h, k)].count
    PROVE  LET c == h.cell[ListOf(h, k)].list[i]
           IN  FindKey(h, k, h.cell[c].name) = Found(c)
<1> DEFINE l == ListOf(h, k)
           c == h.cell[l].list[i]
           hits == Matching(h, l, h.cell[c].name)
<1>1. SoundList(h, k) /\ c \in Keys(h) /\ i \in Nat /\ k \in Keys(h) /\ l # NoCell
  BY DEF Sound, SoundList, Parents
<1>2. SubkeysError(h, k) = "NONE"
  <2>1. h.cell[k].subKeyCount # 0 /\ ~(h.cell[l].count > h.cell[l].room)
    BY <1>1 DEF SoundList
  <2>2. NodeError(h, k) = "NONE" /\ LeafError(h, l) = "NONE"
    BY <1>1, <2>1 DEF SoundList, NodeError, LeafError, Kind, Keys
  <2> QED
    BY <1>1, <2>1, <2>2 DEF SubkeysError
<1>3. hits = {i}
  <2>1. i \in hits
    BY <1>1 DEF Matching, Kind, Keys
  <2>2. ASSUME NEW j \in hits
        PROVE  j = i
    <3>1. j \in 1..h.cell[l].count /\ h.cell[h.cell[l].list[j]].name = h.cell[c].name
      BY DEF Matching
    <3> QED
      BY <3>1, <1>1 DEF SoundList
  <2> QED
    BY <2>1, <2>2
<1>4. FindKey(h, k, h.cell[c].name) = Found(h.cell[l].list[First(hits)])
  BY <1>2, <1>3 DEF FindKey
<1> QED
  BY <1>1, <1>3, <1>4, FirstOfOne

-----------------------------------------------------------------------------
(* Deleting a key.                                                         *)

\* The cells after a deletion: the list loses one entry, its key counts one
\* less, the others are as they were.
LEMMA DeleteCells ==
    ASSUME NEW h, Sound(h), NEW p \in Parents(h), NEW i \in 1..h.cell[ListOf(h, p)].count
    PROVE  LET l == ListOf(h, p)
               g == DeleteKey(h, p, h.cell[l].list[i])
           IN  /\ DOMAIN g = DOMAIN h /\ DOMAIN g.cell = DOMAIN h.cell /\ g.root = h.root
               /\ p # l
               /\ g.cell[l] = Without(h.cell[l], i)
               /\ g.cell[p] = [h.cell[p] EXCEPT !.subKeyCount = @ - 1]
               /\ \A c \in DOMAIN h.cell \ {l, p} : g.cell[c] = h.cell[c]
<1> DEFINE l == ListOf(h, p)
           key == h.cell[l].list[i]
<1>1. /\ SoundList(h, p) /\ p \in Keys(h) /\ p \in DOMAIN h.cell /\ l \in DOMAIN h.cell
      /\ {"cell", "root"} \subseteq DOMAIN h /\ i \in Nat
      /\ h.cell[p].kind = "nk" /\ h.cell[l].kind = "lf"
  BY DEF Sound, SoundList, Parents, Keys, WellFormed
<1>2. p # l
  BY <1>1
<1>3. Entries(h, l, key) = {i}
  <2>1. i \in Entries(h, l, key)
    BY DEF Entries
  <2>2. ASSUME NEW j \in Entries(h, l, key)
        PROVE  j = i
    BY <1>1 DEF Entries, SoundList
  <2> QED
    BY <2>1, <2>2
<1>4. First(Entries(h, l, key)) = i
  BY <1>1, <1>3, FirstOfOne
<1>5. DeleteKey(h, p, key) =
        [h EXCEPT !.cell[l] = Without(h.cell[l], i), !.cell[p].subKeyCount = @ - 1]
  BY <1>4 DEF DeleteKey
<1> QED
  BY <1>1, <1>2, <1>5

\* What the list without its i-th entry is.
LEMMA WithoutOne ==
    ASSUME NEW l, ListFields \subseteq DOMAIN l, l.count \in Nat, 1..l.count \subseteq DOMAIN l.list,
           NEW i \in 1..l.count
    PROVE  LET w == Without(l, i)
           IN  /\ DOMAIN w = DOMAIN l /\ DOMAIN w.list = DOMAIN l.list
               /\ w.count = l.count - 1 /\ w.count \in Nat
               /\ \A f \in DOMAIN l \ {"count", "list"} : w[f] = l[f]
               /\ \A j \in 1..w.count : w.list[j] = l.list[IF i <= j THEN j + 1 ELSE j]
<1> DEFINE w == Without(l, i)
           moved == [j \in DOMAIN l.list |->
                        IF i <= j /\ j < l.count THEN l.list[j + 1] ELSE l.list[j]]
<1>1. w = [l EXCEPT !.count = l.count - 1, !.list = moved]
  BY DEF Without
<1>2. w.count = l.count - 1 /\ w.list = moved
  BY <1>1 DEF ListFields
<1>3. DOMAIN w = DOMAIN l /\ \A f \in DOMAIN l \ {"count", "list"} : w[f] = l[f]
  BY <1>1
<1>4. ASSUME NEW j \in 1..(l.count - 1)
      PROVE  moved[j] = l.list[IF i <= j THEN j + 1 ELSE j]
  <2>1. j \in DOMAIN l.list /\ j < l.count /\ j \in Nat
    OBVIOUS
  <2> QED
    BY <2>1
<1> HIDE DEF moved
<1> QED
  BY <1>2, <1>3, <1>4 DEF moved

\* Deleting an entry of a sound hive leaves a sound hive.
LEMMA DeleteSound ==
    ASSUME NEW h, Sound(h), NEW p \in Parents(h), NEW i \in 1..h.cell[ListOf(h, p)].count
    PROVE  LET g == DeleteKey(h, p, h.cell[ListOf(h, p)].list[i])
           IN  /\ Sound(g) /\ g.root = h.root
               /\ Keys(g) = Keys(h) /\ Parents(g) = Parents(h)
               /\ \A k \in Keys(h) : ListOf(g, k) = ListOf(h, k) /\ g.cell[k].name = h.cell[k].name
               /\ \A k \in Parents(h) : k # p => g.cell[ListOf(h, k)] = h.cell[ListOf(h, k)]
<1> DEFINE l == ListOf(h, p)
           g == DeleteKey(h, p, h.cell[l].list[i])
           w == Without(h.cell[l], i)
<1>1. /\ DOMAIN g = DOMAIN h /\ DOMAIN g.cell = DOMAIN h.cell /\ g.root = h.root
      /\ p # l
      /\ g.cell[l] = w
      /\ g.cell[p] = [h.cell[p] EXCEPT !.subKeyCount = @ - 1]
      /\ \A c \in DOMAIN h.cell \ {l, p} : g.cell[c] = h.cell[c]
  BY DeleteCells
<1>2. /\ SoundList(h, p) /\ WellFormed(h)
      /\ p \in Keys(h) /\ p \in DOMAIN h.cell /\ l \in DOMAIN h.cell
      /\ h.cell[p].kind = "nk" /\ h.cell[l].kind = "lf" /\ h.cell[l].count \in Nat
      /\ KeyFields \cup {"kind"} \subseteq DOMAIN h.cell[p]
      /\ ListFields \cup {"kind"} \subseteq DOMAIN h.cell[l]
  BY DEF Sound, SoundList, Parents, Keys, WellFormed
<1>3. /\ DOMAIN w = DOMAIN h.cell[l] /\ DOMAIN w.list = DOMAIN h.cell[l].list
      /\ w.count = h.cell[l].count - 1 /\ w.count \in Nat
      /\ w.kind = "lf" /\ w.room = h.cell[l].room
      /\ \A j \in 1..w.count : w.list[j] = h.cell[l].list[IF i <= j THEN j + 1 ELSE j]
  BY <1>2, WithoutOne DEF SoundList, ListFields
<1> HIDE DEF w
<1>4. /\ DOMAIN g.cell[p] = DOMAIN h.cell[p]
      /\ g.cell[p].kind = "nk" /\ g.cell[p].name = h.cell[p].name
      /\ g.cell[p].subKeyList = h.cell[p].subKeyList
      /\ g.cell[p].subKeyCount = h.cell[p].subKeyCount - 1
  BY <1>1, <1>2 DEF KeyFields
<1> HIDE DEF g, l
<1>5. /\ \A c \in DOMAIN h.cell : DOMAIN g.cell[c] = DOMAIN h.cell[c]
      /\ \A c \in DOMAIN h.cell : g.cell[c].kind = h.cell[c].kind
      /\ Keys(g) = Keys(h)
  BY <1>1, <1>2, <1>3, <1>4 DEF Keys
<1>6. \A k \in Keys(h) : ListOf(g, k) = ListOf(h, k) /\ g.cell[k].name = h.cell[k].name
  BY <1>1, <1>2, <1>4 DEF ListOf, Keys
<1>7. WellFormed(g) /\ Parents(g) = Parents(h)
  <2>1. \A k \in Keys(h) : KeyFields \subseteq DOMAIN g.cell[k]
    BY <1>2, <1>5 DEF WellFormed, Keys
  <2>2. \A c \in DOMAIN h.cell : "kind" \in DOMAIN g.cell[c]
    BY <1>2, <1>5 DEF WellFormed
  <2>3. WellFormed(g)
    BY <2>1, <2>2, <1>1, <1>2, <1>5 DEF WellFormed
  <2>4. Parents(g) = Parents(h)
    BY <1>5, <1>6 DEF Parents
  <2> QED
    BY <2>3, <2>4
<1>8. ASSUME NEW k \in Parents(h), k # p
      PROVE  g.cell[ListOf(h, k)] = h.cell[ListOf(h, k)] /\ g.cell[k] = h.cell[k]
  <2>1. /\ SoundList(h, k) /\ k \in Keys(h) /\ ListOf(h, k) # l
        /\ ListOf(h, k) \in DOMAIN h.cell /\ h.cell[ListOf(h, k)].kind = "lf"
    BY <1>8 DEF Sound, SoundList, Parents, l
  <2> QED
    BY <2>1, <1>1, <1>2, <1>8 DEF Keys
<1>9. ASSUME NEW k \in Parents(h)
      PROVE  SoundList(g, k)
  <2>1. CASE k # p
    <3>1. /\ SoundList(h, k) /\ k \in Keys(h) /\ ListOf(g, k) = ListOf(h, k)
          /\ g.cell[ListOf(h, k)] = h.cell[ListOf(h, k)] /\ g.cell[k] = h.cell[k]
      BY <2>1, <1>6, <1>8 DEF Sound, Parents
    <3> QED
      BY <3>1, <1>1, <1>5, <1>6 DEF SoundList
  <2>2. CASE k = p
    <3>1. ListOf(g, p) = l /\ l \in DOMAIN g.cell /\ g.cell[p].subKeyCount = w.count
      BY <1>1, <1>2, <1>3, <1>4, <1>6 DEF SoundList, l
    <3>2. w.count <= w.room /\ 1..w.count \subseteq DOMAIN w.list /\ w.room \in Nat
      BY <1>2, <1>3 DEF SoundList, l
    <3>3. \A j \in 1..w.count :
            /\ (IF i <= j THEN j + 1 ELSE j) \in 1..h.cell[l].count
            /\ w.list[j] \in Keys(g)
      BY <1>2, <1>3, <1>5 DEF SoundList, l
    <3>4. ASSUME NEW j \in 1..w.count, NEW j2 \in 1..w.count,
                 g.cell[w.list[j]].name = g.cell[w.list[j2]].name
          PROVE  j = j2
      <4> DEFINE from(n) == IF i <= n THEN n + 1 ELSE n
      <4>1. /\ from(j) \in 1..h.cell[l].count /\ w.list[j] = h.cell[l].list[from(j)]
            /\ from(j2) \in 1..h.cell[l].count /\ w.list[j2] = h.cell[l].list[from(j2)]
        BY <1>3, <3>3
      <4>2. h.cell[w.list[j]].name = h.cell[w.list[j2]].name
        BY <3>3, <3>4, <1>5, <1>6
      <4>3. from(j) = from(j2)
        <5> HIDE DEF from
        <5> QED
          BY <4>1, <4>2, <1>2 DEF SoundList, l
      <4>4. i \in Nat /\ j \in Nat /\ j2 \in Nat
        BY <1>2, <1>3 DEF l
      <4> QED
        BY <4>3, <4>4
    <3> QED
      BY <2>2, <3>1, <3>2, <3>3, <3>4, <1>1, <1>3, <1>2 DEF SoundList
  <2> QED
    BY <2>1, <2>2
<1>10. Sound(g)
  <2>1. \A k, k2 \in Parents(g) : ListOf(g, k) = ListOf(g, k2) => k = k2
    BY <1>6, <1>7 DEF Sound, Parents
  <2> QED
    BY <2>1, <1>7, <1>9 DEF Sound
<1> QED
  BY <1>1, <1>5, <1>6, <1>7, <1>8, <1>10 DEF g, l

\* A key called "Elements" may lose a subkey: the objects stay in their place.
LEMMA DeleteObjected ==
    ASSUME NEW h, Sound(h), Objected(h), NEW p \in Parents(h), h.cell[p].name = "Elements",
           NEW i \in 1..h.cell[ListOf(h, p)].count
    PROVE  Objected(DeleteKey(h, p, h.cell[ListOf(h, p)].list[i]))
<1> DEFINE g == DeleteKey(h, p, h.cell[ListOf(h, p)].list[i])
           l == ListOf(h, h.root)
<1>1. /\ g.root = h.root /\ Keys(g) = Keys(h) /\ Parents(g) = Parents(h)
      /\ \A k \in Keys(h) : ListOf(g, k) = ListOf(h, k) /\ g.cell[k].name = h.cell[k].name
      /\ \A k \in Parents(h) : k # p => g.cell[ListOf(h, k)] = h.cell[ListOf(h, k)]
  BY DeleteSound
<1> HIDE DEF g
<1>2. h.root \in Parents(h) /\ h.root \in Keys(h) /\ h.root # p /\ SoundList(h, h.root)
  BY DEF Objected, Sound, Parents
<1>3. /\ ListOf(g, g.root) = l /\ g.cell[l] = h.cell[l] /\ g.cell[g.root].name = h.cell[h.root].name
  BY <1>1, <1>2
<1>4. \A j \in 1..h.cell[l].count :
        g.cell[h.cell[l].list[j]].name = h.cell[h.cell[l].list[j]].name
  BY <1>1, <1>2 DEF SoundList
<1>5. Objected(g)
  BY <1>1, <1>3, <1>4 DEF Objected
<1> QED
  BY <1>5 DEF g

\* The key of the objects is there.
LEMMA ObjectsAreFound ==
    ASSUME NEW h, Sound(h), Objected(h)
    PROVE  FindKey(h, h.root, "Objects").key \in Keys(h)
<1> DEFINE l == ListOf(h, h.root)
<1>1. PICK i \in 1..h.cell[l].count : h.cell[h.cell[l].list[i]].name = "Objects"
  BY DEF Objected
<1>2. h.root \in Parents(h) /\ SoundList(h, h.root)
  BY DEF Objected, Sound
<1>3. FindKey(h, h.root, "Objects") = Found(h.cell[l].list[i])
  BY <1>1, <1>2, EntryIsFound
<1> QED
  BY <1>2, <1>3 DEF Found, SoundList

\* No patch of bcd_patch_data, whatever it names, spoils the hive.
LEMMA PatchSound ==
    ASSUME NEW h, Sound(h), Objected(h), NEW p, NEW settings, NEW where
    PROVE  LET g == Apply(h, p, FindKey(h, h.root, "Objects").key, settings, where).hive
           IN  Sound(g) /\ Objected(g)
<1> DEFINE objects == FindKey(h, h.root, "Objects").key
           elements == ElementsKey(h, objects, p.object)
           key == ElementKey(h, objects, p.object, p.element)
           value == FindHive(h, objects, p.object, p.element)
           text == Content(p, settings, where, value.len)
           g == Apply(h, p, objects, settings, where).hive
<1>1. \/ g = h
      \/ g = SetContent(h, value.at, text)
      \/ /\ key.err = "NONE" /\ DeleteError(h, elements.key, key.key) = "NONE"
         /\ g = DeleteKey(h, elements.key, key.key)
  BY DEF Apply
<1>2. CASE g = SetContent(h, value.at, text)
  <2>1. SameTree(SetContent(h, value.at, text), h)
    BY SetContentKeeps DEF Sound
  <2> QED
    BY <1>2, <2>1, SameTreeSound, SameTreeObjected
<1>3. CASE /\ key.err = "NONE" /\ DeleteError(h, elements.key, key.key) = "NONE"
           /\ g = DeleteKey(h, elements.key, key.key)
  <2>1. objects \in Keys(h)
    BY ObjectsAreFound
  <2> DEFINE entry == FindKey(h, objects, p.object)
  <2>2. /\ elements.err = "NONE" /\ entry.err = "NONE"
        /\ elements = FindKey(h, entry.key, "Elements")
        /\ key = FindKey(h, elements.key, p.element)
    BY <1>3 DEF ElementKey, ElementsKey
  <2>3. entry.key \in Keys(h)
    BY <2>1, <2>2, FindKeyFinds
  <2>4. elements.key \in Keys(h) /\ h.cell[elements.key].name = "Elements"
    BY <2>2, <2>3, FindKeyFinds
  <2>5. elements.key \in Parents(h)
    BY <1>3, <2>2, <2>4, FindKeyFinds
  <2>6. PICK i \in 1..h.cell[ListOf(h, elements.key)].count :
                h.cell[ListOf(h, elements.key)].list[i] = key.key
    BY <1>3 DEF DeleteError, Entries
  <2> HIDE DEF elements, key
  <2>7. Sound(g) /\ Objected(g)
    BY <1>3, <2>4, <2>5, <2>6, DeleteSound, DeleteObjected
  <2> QED
    BY <2>7
<1> QED
  BY <1>1, <1>2, <1>3

-----------------------------------------------------------------------------
(* The hive at every step of the loader.                                   *)

\* The BCD as it is linked in is sound.
LEMMA HiveInit ==
    ASSUME Init
    PROVE  HiveInv
  BY TemplateAssumption DEF Init, HiveInv

\* The steps before the hive is opened do not touch it.
LEMMA HiveOthers ==
    ASSUME HiveInv, Command \/ Extract \/ OpenBin \/ NextGroup \/ Finished \/ UNCHANGED vars
    PROVE  HiveInv'
<1>1. UNCHANGED hive
  BY DEF Command, Extract, OpenBin, NextGroup, Finished, vars, EmptyLine, ProcessArgument,
         EndOfLine, Search, AddBcd, ExtractMember, hiveVars
<1> QED
  BY <1>1 DEF HiveInv

\* reg_open_hive repairs the base block and forgets the volatile keys.
LEMMA HiveOpened ==
    ASSUME HiveInv, OpenHeader \/ OpenDone
    PROVE  HiveInv'
<1>1. hive' = Repaired(hive) \/ hive' = ClearVolatile(hive) \/ hive' = hive
  BY DEF OpenHeader, OpenDone
<1>2. SameTree(Repaired(hive), hive) /\ SameTree(ClearVolatile(hive), hive)
  BY RepairedKeeps, ClearVolatileKeeps DEF HiveInv, Sound
<1> QED
  BY <1>1, <1>2, SameTreeSound, SameTreeObjected DEF HiveInv

\* bcd_patch_data: one patch, or the extensions at the end.
LEMMA HivePatched ==
    ASSUME HiveInv, PatchElement \/ PatchSuffix
    PROVE  HiveInv'
<1>1. CASE PatchElement
  <2>1. hive' = Apply(hive, Work[nth], FindKey(hive, hive.root, "Objects").key, args, answer).hive
    BY <1>1 DEF PatchElement, ObjectsKey
  <2> QED
    BY <2>1, PatchSound DEF HiveInv
<1>2. CASE PatchSuffix
  <2>1. hive' = ReplaceSuffix(hive, machine.efi) /\ SameTree(ReplaceSuffix(hive, machine.efi), hive)
    BY <1>2, ReplaceSuffixKeeps DEF PatchSuffix, HiveInv, Sound
  <2> QED
    BY <2>1, SameTreeSound, SameTreeObjected DEF HiveInv
<1> QED
  BY <1>1, <1>2

\* The hive is sound from the first step to the last.
LEMMA HiveAlwaysSound == Spec => []HiveInv
<1>1. ASSUME HiveInv, [Next]_vars
      PROVE  HiveInv'
  BY <1>1, HiveOthers, HiveOpened, HivePatched DEF Next, Patch
<1> QED
  BY <1>1, HiveInit, PTL DEF Spec

\* A list whose entries have different names names as many keys as it counts.
LEMMA ListedCount ==
    ASSUME NEW l, l.count \in Nat, \A i, j \in 1..l.count : l.list[i] = l.list[j] => i = j
    PROVE  Cardinality({l.list[i] : i \in 1..l.count}) = l.count
<1> DEFINE S == {l.list[i] : i \in 1..l.count}
           f == [i \in 1..l.count |-> l.list[i]]
<1>1. f \in Bijection(1..l.count, S)
  BY DEF Bijection, Injection, Surjection, IsInjective
<1> QED
  BY <1>1, FS_CountingElements DEF ExistsBijection

\* While it is patched the hive stays one that a reader accepts: the count in
\* each key is that of its list, which names no key twice, and every key that
\* is listed is found by its name, whatever the command line makes bcd_patch_data
\* delete and overwrite (reg_delete_key, find_child_key).
THEOREM HiveSoundness == Spec => []HiveStaysSound
<1>1. ASSUME HiveInv
      PROVE  HiveStaysSound
  <2> SUFFICES ASSUME NEW n \in 1..Len(Objects)
               PROVE  LET key == ObjectCell(n, 3)
                          l == hive.cell[ListOf(hive, key)]
                      IN  /\ hive.cell[key].subKeyCount = l.count
                          /\ Cardinality(Listed(key)) = l.count
                          /\ \A c \in Listed(key) : FindKey(hive, key, hive.cell[c].name) = Found(c)
    BY DEF HiveStaysSound
  <2> DEFINE key == ObjectCell(n, 3)
             l == hive.cell[ListOf(hive, key)]
  <2>1. key \in Parents(hive) /\ Sound(hive)
    BY <1>1 DEF HiveInv, Objected
  <2> HIDE DEF key
  <2>2. SoundList(hive, key)
    BY <2>1 DEF Sound
  <2>3. hive.cell[key].subKeyCount = l.count /\ l.count \in Nat
    BY <2>2 DEF SoundList
  <2>4. Cardinality({l.list[i] : i \in 1..l.count}) = l.count
    <3>1. \A i, j \in 1..l.count : l.list[i] = l.list[j] => i = j
      BY <2>2 DEF SoundList
    <3> HIDE DEF l
    <3> QED
      BY <3>1, <2>3, ListedCount
  <2>5. \A c \in Listed(key) : FindKey(hive, key, hive.cell[c].name) = Found(c)
    BY <2>1, EntryIsFound DEF Listed, ListedIn
  <2> QED
    BY <2>3, <2>4, <2>5 DEF Listed, ListedIn, key
<1> QED
  BY <1>1, HiveAlwaysSound, PTL

-----------------------------------------------------------------------------
(* The arguments.                                                          *)

\* An argument sets fields that nt_cmdline has.
LEMMA SetsFields ==
    ASSUME NEW a
    PROVE  DOMAIN Sets(a) \subseteq DOMAIN InitArgs
  BY DEF Sets, OwnField, AlsoSets, TextSets, WordSets, TextField, FlagField, BoolField, WordField,
         Over, Field, NoField, InitArgs

\* One argument more: what it sets is set, the rest stays.
LEMMA OneMore ==
    ASSUME NEW line, NEW n \in Nat
    PROVE  LineArgs(line, n + 1) = Process(LineArgs(line, n), line[n + 1])
<1> DEFINE a == line[n + 1]
<1>1. DOMAIN Process(LineArgs(line, n), a) = DOMAIN InitArgs /\ DOMAIN LineArgs(line, n + 1) = DOMAIN InitArgs
  BY SetsFields DEF Process, Over, LineArgs
<1>2. ASSUME NEW f \in DOMAIN InitArgs
      PROVE  LineArgs(line, n + 1)[f] = Process(LineArgs(line, n), a)[f]
  <2>1. CASE f \in DOMAIN Sets(a)
    <3>1. n + 1 \in Setters(line, f, n + 1) /\ \A j \in Setters(line, f, n + 1) : j <= n + 1
      BY <2>1 DEF Setters
    <3>2. LastOf(Setters(line, f, n + 1)) = n + 1
      <4>1. \A i \in Setters(line, f, n + 1) : i \in Nat
        BY DEF Setters
      <4>2. \A i \in Setters(line, f, n + 1) : (\A j \in Setters(line, f, n + 1) : j <= i) => i = n + 1
        BY <3>1, <4>1
      <4> HIDE DEF a
      <4> QED
        BY <3>1, <4>2 DEF LastOf
    <3> QED
      BY <3>1, <3>2, <2>1 DEF LineArgs, Process, Over
  <2>2. CASE f \notin DOMAIN Sets(a)
    <3>1. Setters(line, f, n + 1) = Setters(line, f, n)
      BY <2>2 DEF Setters
    <3> QED
      BY <3>1, <2>2 DEF LineArgs, Process, Over
  <2> QED
    BY <2>1, <2>2
<1>3. LineArgs(line, n + 1) = [f \in DOMAIN InitArgs |-> LineArgs(line, n + 1)[f]]
  BY DEF LineArgs
<1>4. Process(LineArgs(line, n), a) = [f \in DOMAIN InitArgs |-> Process(LineArgs(line, n), a)[f]]
  BY <1>1 DEF Process, Over
<1> HIDE DEF a
<1>5. [f \in DOMAIN InitArgs |-> LineArgs(line, n + 1)[f]] = [f \in DOMAIN InitArgs |-> Process(LineArgs(line, n), a)[f]]
  BY <1>2
<1> QED
  BY <1>3, <1>4, <1>5 DEF a

\* No argument sets nothing.
LEMMA NoArguments ==
    ASSUME NEW line
    PROVE  LineArgs(line, 0) = InitArgs
<1>1. \A f : Setters(line, f, 0) = {}
  BY DEF Setters
<1>2. InitArgs = [f \in DOMAIN InitArgs |-> InitArgs[f]]
  BY DEF InitArgs
<1> QED
  BY <1>1, <1>2 DEF LineArgs

\* Before the first argument every field has its initial value.
LEMMA LineInit ==
    ASSUME Init
    PROVE  LineInv
<1>1. Line \in Seq([key : STRING, val : TypedTexts])
  BY LineAssumption DEF Init, Line
<1>2. Len(Line) \in Nat
  BY <1>1
<1> QED
  BY <1>2, NoArguments DEF Init, LineInv

\* The steps of process_cmdline, and the answer of the search.
LEMMA LineCommand ==
    ASSUME LineInv, Command
    PROVE  LineInv'
<1>1. Line' = Line /\ machine' = machine /\ Line \in Seq([key : STRING, val : TypedTexts])
  BY LineAssumption DEF LineInv, Line, Command, EmptyLine, ProcessArgument, EndOfLine, Search
<1>3. Len(Line) \in Nat
  BY <1>1
<1>4. CASE EmptyLine
  <2>1. pos = 1 /\ pos - 1 = 0
    BY <1>4 DEF LineInv, EmptyLine, Line
  <2>2. args = InitArgs
    BY <2>1, <1>4, NoArguments DEF LineInv, EmptyLine
  <2> QED
    BY <2>1, <2>2, <1>1, <1>4 DEF LineInv, EmptyLine, Line
<1>5. CASE ProcessArgument
  <2>1. CASE Rejects(Line[pos])
    <3>1. pc' = "die_cmdline" /\ UNCHANGED <<pos, args, answer>> /\ pc = "cmdline"
      BY <1>5, <2>1 DEF ProcessArgument, Die, Line
    <3> QED
      BY <3>1, <1>1 DEF LineInv
  <2>2. CASE ~Rejects(Line[pos])
    <3>1. /\ pc' = pc /\ pos' = pos + 1 /\ args' = Process(args, Line[pos]) /\ answer' = answer
          /\ pc = "cmdline" /\ pos <= Len(Line) /\ Line # NoLine
      BY <1>5, <2>2 DEF ProcessArgument, Line
    <3>2. pos \in Nat /\ pos >= 1 /\ pos - 1 \in Nat /\ (pos - 1) + 1 = pos
      BY <1>3 DEF LineInv
    <3>3. args' = LineArgs(Line, pos)
      BY <3>1, <3>2, OneMore DEF LineInv
    <3>4. args' = LineArgs(Line', pos' - 1)
      <4>1. pos' - 1 = pos
        BY <3>1, <3>2
      <4> QED
        BY <4>1, <3>3, <1>1
    <3>5. \A i \in 1..(pos' - 1) : ~Rejects(Line'[i])
      BY <3>1, <3>2, <2>2, <1>1 DEF LineInv
    <3> QED
      BY <3>1, <3>2, <3>4, <3>5, <1>1, <1>3 DEF LineInv
  <2> QED
    BY <2>1, <2>2
<1>6. CASE EndOfLine
  <2>1. /\ pos > Len(Line) /\ args' = Defaults(args) /\ pc' = "search" /\ pc = "cmdline"
        /\ pos' = pos /\ answer' = answer /\ Line # NoLine
    BY <1>6 DEF EndOfLine, Line
  <2>2. pos - 1 = Len(Line) /\ pos = Len(Line) + 1
    BY <2>1, <1>3 DEF LineInv
  <2>3. args' = Defaults(LineArgs(Line, Len(Line)))
    BY <2>1, <2>2 DEF LineInv
  <2> QED
    BY <2>1, <2>2, <2>3, <1>1 DEF LineInv
<1>7. CASE Search
  <2>1. /\ pc = "search" /\ pc' = "add_bcd" /\ UNCHANGED <<pos, args>>
        /\ answer' = IF args.fsuuid # Empty /\ machine.reachable THEN machine.partition ELSE answer
    BY <1>7 DEF Search
  <2>2. answer = NoPartition
    BY <2>1 DEF LineInv
  <2> QED
    BY <2>1, <2>2, <1>1 DEF LineInv
<1> QED
  BY <1>4, <1>5, <1>6, <1>7 DEF Command

\* Nothing changes the arguments or the answer afterwards.
LEMMA LineOthers ==
    ASSUME LineInv, Extract \/ Patch \/ Finished \/ UNCHANGED vars
    PROVE  LineInv'
<1>1. UNCHANGED <<machine, pos, args, answer>>
  BY DEF Extract, Patch, Finished, vars, AddBcd, ExtractMember, OpenHeader, OpenBin, OpenDone,
         PatchElement, NextGroup, PatchSuffix
<1>2. \/ pc' = pc
      \/ {pc, pc'} \cap {"cmdline", "search", "die_cmdline"} = {}
  BY DEF Extract, Patch, Finished, vars, AddBcd, ExtractMember, OpenHeader, OpenBin, OpenDone,
         PatchElement, NextGroup, PatchSuffix, Die
<1>3. Line' = Line
  BY <1>1 DEF Line
<1> QED
  BY <1>1, <1>2, <1>3 DEF LineInv

\* At every step the fields are what the arguments so far make them.
LEMMA LineAlways == Spec => []LineInv
<1>1. ASSUME LineInv, [Next]_vars
      PROVE  LineInv'
  BY <1>1, LineCommand, LineOthers DEF Next
<1> QED
  BY <1>1, LineInit, PTL DEF Spec

\* The answer to the query for the only value of a key.
TheValue(h, k) ==
    LET w == h.cell[h.cell[k].values].list[1]
    IN  [err |-> "NONE", at |-> IF h.cell[w].inline THEN w ELSE h.cell[w].data, len |-> h.cell[w].len]

\* The value of a key that has just one.
LEMMA QueryOne ==
    ASSUME NEW h, NEW k, OneValue(h, k)
    PROVE  QueryValue(h, k, "Element") = TheValue(h, k)
<1> DEFINE v == h.cell[k].values
           w == h.cell[v].list[1]
           hits == {i \in 1..h.cell[k].valuesCount :
                        Kind(h, h.cell[v].list[i]) = "vk" /\ h.cell[h.cell[v].list[i]].name = "Element"}
<1>1. ValuesError(h, k) = "NONE"
  <2>1. NodeError(h, k) = "NONE"
    BY DEF OneValue, NodeError, Kind, Keys
  <2>2. /\ h.cell[k].valuesCount = 1 /\ v # NoCell /\ v = h.cell[k].values
        /\ h.cell[v].kind = "vl" /\ h.cell[v].room = 1
    BY DEF OneValue
  <2> HIDE DEF v
  <2>3. ~(h.cell[k].valuesCount > h.cell[v].room)
    BY <2>2
  <2> QED
    BY <2>1, <2>2, <2>3 DEF ValuesError
<1>2. hits = {1}
  <2>1. h.cell[k].valuesCount = 1 /\ h.cell[w].kind = "vk" /\ h.cell[w].name = "Element"
    BY DEF OneValue
  <2>2. ASSUME NEW i
        PROVE  i \in hits <=> i = 1
    <3>1. i \in 1..h.cell[k].valuesCount <=> i = 1
      BY <2>1
    <3> HIDE DEF v
    <3> QED
      BY <3>1, <2>1 DEF Kind
  <2> HIDE DEF hits
  <2> QED
    BY <2>2
<1>3. First(hits) = 1
  BY <1>2, FirstOfOne
<1>4. QueryValue(h, k, "Element") =
        CASE hits = {} -> NoValue("FILE_NOT_FOUND")
          [] hits # {} /\ h.cell[w].inline /\ h.cell[w].len \in {0, 1, 2, 4} ->
                [err |-> "NONE", at |-> w, len |-> h.cell[w].len]
          [] hits # {} /\ ~h.cell[w].inline /\ Fits(h, h.cell[w]) ->
                [err |-> "NONE", at |-> h.cell[w].data, len |-> h.cell[w].len]
          [] OTHER -> NoValue("BAD_ARGUMENT")
  BY <1>1, <1>3 DEF QueryValue
<1>5. hits # {}
  BY <1>2
<1> HIDE DEF hits
<1>6. CASE h.cell[w].inline
  <2>1. h.cell[w].len \in {0, 1, 2, 4}
    BY <1>6 DEF OneValue
  <2>2. QueryValue(h, k, "Element") = [err |-> "NONE", at |-> w, len |-> h.cell[w].len]
    <3> HIDE DEF w
    <3> QED
      BY <2>1, <1>4, <1>5, <1>6
  <2> QED
    BY <2>2, <1>6 DEF TheValue
<1>7. CASE ~h.cell[w].inline
  <2>1. Fits(h, h.cell[w])
    BY <1>7 DEF OneValue, Fits
  <2>2. QueryValue(h, k, "Element") = [err |-> "NONE", at |-> h.cell[w].data, len |-> h.cell[w].len]
    <3> HIDE DEF w
    <3> QED
      BY <2>1, <1>4, <1>5, <1>7
  <2> QED
    BY <2>2, <1>7 DEF TheValue
<1> QED
  BY <1>6, <1>7 DEF TheValue

\* The value of a key is found as before if no cell but a list of subkeys is another.
LEMMA ValueKept ==
    ASSUME NEW h, NEW g, NEW k, WellFormed(h), OneValue(h, k), DOMAIN g.cell = DOMAIN h.cell,
           \A c \in DOMAIN h.cell : h.cell[c].kind # "lf" =>
                /\ DOMAIN g.cell[c] = DOMAIN h.cell[c]
                /\ \A f \in DOMAIN h.cell[c] \cap (ValueFields \cup {"kind", "name", "room", "list"}) :
                        g.cell[c][f] = h.cell[c][f]
    PROVE  /\ OneValue(g, k)
           /\ QueryValue(g, k, "Element") = QueryValue(h, k, "Element")
<1> DEFINE v == h.cell[k].values
           w == h.cell[v].list[1]
           d == h.cell[w].data
           F == ValueFields \cup {"kind", "name", "room", "list"}
<1>1. /\ k \in DOMAIN h.cell /\ h.cell[k].kind = "nk"
      /\ {"kind", "valuesCount", "values"} \subseteq DOMAIN h.cell[k] /\ h.cell[k].valuesCount = 1
      /\ v \in DOMAIN h.cell /\ {"kind", "room", "list"} \subseteq DOMAIN h.cell[v] /\ h.cell[v].kind = "vl"
      /\ w \in DOMAIN h.cell /\ {"kind", "name", "len", "inline", "data"} \subseteq DOMAIN h.cell[w]
      /\ h.cell[w].kind = "vk"
      /\ ~h.cell[w].inline =>
            d \in DOMAIN h.cell /\ {"kind", "size"} \subseteq DOMAIN h.cell[d] /\ h.cell[d].kind = "data"
  BY DEF OneValue, WellFormed, Keys
<1>2. /\ g.cell[k].kind = "nk" /\ g.cell[k].valuesCount = 1 /\ g.cell[k].values = v
      /\ DOMAIN g.cell[k] = DOMAIN h.cell[k]
  <2> HIDE DEF v, w, d
  <2> QED
    BY <1>1 DEF ValueFields, v
<1>3. /\ g.cell[v].kind = "vl" /\ g.cell[v].room = h.cell[v].room /\ g.cell[v].list = h.cell[v].list
      /\ DOMAIN g.cell[v] = DOMAIN h.cell[v]
  <2> HIDE DEF v, w, d
  <2> QED
    BY <1>1 DEF ValueFields
<1>4. /\ g.cell[w].kind = "vk" /\ g.cell[w].name = h.cell[w].name /\ g.cell[w].len = h.cell[w].len
      /\ g.cell[w].inline = h.cell[w].inline /\ g.cell[w].data = d
      /\ DOMAIN g.cell[w] = DOMAIN h.cell[w]
  <2> HIDE DEF v, w
  <2> QED
    BY <1>1 DEF ValueFields
<1>5. ~h.cell[w].inline =>
        /\ g.cell[d].kind = h.cell[d].kind /\ g.cell[d].size = h.cell[d].size
        /\ DOMAIN g.cell[d] = DOMAIN h.cell[d]
  <2> HIDE DEF v, w, d
  <2> QED
    BY <1>1 DEF ValueFields
<1>6. OneValue(g, k)
  <2>1. g.cell[k].values = v /\ g.cell[v].list[1] = w /\ g.cell[w].data = d
    BY <1>2, <1>3, <1>4
  <2>2. /\ k \in Keys(g) /\ {"valuesCount", "values"} \subseteq DOMAIN g.cell[k]
        /\ g.cell[k].valuesCount = 1
    BY <1>1, <1>2 DEF Keys
  <2>3. /\ v \in DOMAIN g.cell /\ {"room", "list"} \subseteq DOMAIN g.cell[v] /\ v # NoCell
        /\ g.cell[v].kind = "vl" /\ g.cell[v].room = 1
    BY <1>1, <1>3 DEF OneValue
  <2>4. /\ w \in DOMAIN g.cell /\ {"name", "len", "inline", "data"} \subseteq DOMAIN g.cell[w]
        /\ g.cell[w].kind = "vk" /\ g.cell[w].name = "Element"
    BY <1>1, <1>4 DEF OneValue
  <2>5. IF g.cell[w].inline THEN g.cell[w].len \in {1, 2, 4}
        ELSE /\ d \in DOMAIN g.cell /\ "size" \in DOMAIN g.cell[d]
             /\ g.cell[d].kind = "data" /\ g.cell[w].len <= g.cell[d].size
    <3>1. IF h.cell[w].inline THEN h.cell[w].len \in {1, 2, 4}
          ELSE /\ d \in DOMAIN h.cell /\ "size" \in DOMAIN h.cell[d]
               /\ h.cell[d].kind = "data" /\ h.cell[w].len <= h.cell[d].size
      BY DEF OneValue
    <3> HIDE DEF w, d
    <3> QED
      BY <3>1, <1>1, <1>4, <1>5
  <2> HIDE DEF v, w, d
  <2> QED
    BY <2>1, <2>2, <2>3, <2>4, <2>5 DEF OneValue
<1>7. TheValue(g, k) = TheValue(h, k)
  <2>1. g.cell[k].values = v /\ g.cell[v].list[1] = w
    BY <1>2, <1>3
  <2>2. g.cell[w].inline = h.cell[w].inline /\ g.cell[w].data = h.cell[w].data /\ g.cell[w].len = h.cell[w].len
    BY <1>4
  <2> HIDE DEF w, d
  <2> QED
    BY <2>1, <2>2 DEF TheValue, w
<1> QED
  BY <1>6, <1>7, QueryOne

\* A key is found as before if its parent, the list and the names are as before.
LEMMA FindKept ==
    ASSUME NEW h, NEW g, NEW k \in Parents(h), Sound(h),
           \A f \in {"kind", "subKeyCount", "subKeyList"} : g.cell[k][f] = h.cell[k][f],
           \A f \in {"kind", "count", "room", "list"} : g.cell[ListOf(h, k)][f] = h.cell[ListOf(h, k)][f],
           \A c \in Keys(h) : g.cell[c].kind = h.cell[c].kind /\ g.cell[c].name = h.cell[c].name
    PROVE  /\ \A name : FindKey(g, k, name) = FindKey(h, k, name)
           /\ ListedIn(g, k) = ListedIn(h, k)
<1> DEFINE l == ListOf(h, k)
<1>1. /\ ListOf(g, k) = l /\ g.cell[k].kind = h.cell[k].kind
      /\ g.cell[k].subKeyCount = h.cell[k].subKeyCount
      /\ g.cell[l].kind = h.cell[l].kind /\ g.cell[l].count = h.cell[l].count
      /\ g.cell[l].room = h.cell[l].room /\ g.cell[l].list = h.cell[l].list
  BY DEF ListOf
<1>2. \A i \in 1..h.cell[l].count : h.cell[l].list[i] \in Keys(h)
  BY DEF Sound, SoundList
<1> HIDE DEF l
<1>3. ListedIn(g, k) = ListedIn(h, k)
  BY <1>1 DEF ListedIn, l
<1>4. ASSUME NEW name
      PROVE  FindKey(g, k, name) = FindKey(h, k, name)
  <2>1. NodeError(g, k) = NodeError(h, k) /\ LeafError(g, l) = LeafError(h, l)
    BY <1>1 DEF NodeError, LeafError, Kind
  <2>2. SubkeysError(g, k) = SubkeysError(h, k)
    BY <2>1, <1>1 DEF SubkeysError, l
  <2>3. Matching(g, l, name) = Matching(h, l, name)
    BY <1>1, <1>2 DEF Matching, Kind
  <2> QED
    BY <2>2, <2>3, <1>1 DEF FindKey, l
<1> QED
  BY <1>3, <1>4

\* A slot of the template is an element of one of its objects.
LEMMA SlotFacts ==
    ASSUME NEW s \in Slots
    PROVE  s[1] \in DOMAIN Elements /\ s = <<s[1], s[2]>>
  BY DEF Slots

\* Changes that are not of keys, lists or values leave everything in its place.
LEMMA SameTreeLayout ==
    ASSUME NEW h, NEW g, SameTree(g, h), Sound(h), Objected(h), Layout(h)
    PROVE  Layout(g) /\ \A s \in Slots : Present(g, s) <=> Present(h, s)
<1>1. /\ DOMAIN g.cell = DOMAIN h.cell /\ g.root = h.root /\ WellFormed(h)
      /\ \A c \in DOMAIN h.cell : DOMAIN g.cell[c] = DOMAIN h.cell[c]
      /\ \A c \in DOMAIN h.cell : \A f \in DOMAIN h.cell[c] \cap Kept : g.cell[c][f] = h.cell[c][f]
  BY DEF SameTree, Sound
<1>2. \A c \in Keys(h) :
        /\ g.cell[c].kind = h.cell[c].kind /\ g.cell[c].name = h.cell[c].name
        /\ g.cell[c].subKeyCount = h.cell[c].subKeyCount /\ g.cell[c].subKeyList = h.cell[c].subKeyList
  BY <1>1 DEF WellFormed, Keys, Kept, KeyFields
<1>3. ASSUME NEW k \in Parents(h)
      PROVE  /\ \A name : FindKey(g, k, name) = FindKey(h, k, name)
             /\ ListedIn(g, k) = ListedIn(h, k) /\ k \in Parents(g)
  <2>1. /\ ListOf(h, k) \in DOMAIN h.cell /\ k \in Keys(h)
        /\ {"kind", "count", "room", "list"} \subseteq DOMAIN h.cell[ListOf(h, k)]
    BY <1>1 DEF Sound, SoundList, Parents, WellFormed, ListFields
  <2>2. \A f \in {"kind", "count", "room", "list"} : g.cell[ListOf(h, k)][f] = h.cell[ListOf(h, k)][f]
    BY <1>1, <2>1 DEF Kept, ListFields
  <2>3. k \in Parents(g)
    BY <1>1, <1>2, <2>1 DEF Parents, Keys, ListOf
  <2> QED
    BY <2>1, <2>2, <2>3, <1>2, FindKept
<1>4. ASSUME NEW s \in Slots
      PROVE  /\ OneValue(g, SlotKey(s)) /\ g.cell[SlotKey(s)].name = s[2]
             /\ QueryValue(g, SlotKey(s), "Element") = SlotValue(s)
             /\ SlotValue(s).at \in DOMAIN g.cell /\ "content" \in DOMAIN g.cell[SlotValue(s).at]
  <2> DEFINE k == SlotKey(s)
  <2>1. /\ OneValue(h, k) /\ h.cell[k].name = s[2] /\ k \in Keys(h)
        /\ QueryValue(h, k, "Element") = SlotValue(s)
        /\ SlotValue(s).at \in DOMAIN h.cell /\ "content" \in DOMAIN h.cell[SlotValue(s).at]
    BY DEF Layout, OneValue
  <2> HIDE DEF k
  <2>2. \A c \in DOMAIN h.cell :
            \A f \in DOMAIN h.cell[c] \cap (ValueFields \cup {"kind", "name", "room", "list"}) :
                g.cell[c][f] = h.cell[c][f]
    BY <1>1 DEF Kept, KeyFields, ListFields
  <2>3. OneValue(g, k) /\ QueryValue(g, k, "Element") = QueryValue(h, k, "Element")
    BY <2>1, <2>2, <1>1, ValueKept
  <2> QED
    BY <2>1, <2>3, <1>1, <1>2 DEF k
<1>5. \A o \in DOMAIN Elements :
        /\ ObjectKey(o) \in Parents(h) /\ ElementsCell(o) \in Parents(h)
        /\ ObjectKey(o) \in Keys(h) /\ ElementsCell(o) \in Keys(h)
  BY DEF Layout, Parents
<1>6. h.root \in Parents(h) /\ ObjectsCell \in Parents(h)
  BY DEF Objected, Layout
<1>7. Layout(g)
  <2>1. ObjectsCell \in Parents(g) /\ FindKey(g, g.root, "Objects") = Found(ObjectsCell)
    BY <1>1, <1>3, <1>6 DEF Layout
  <2>2. ListedIn(g, ObjectsCell) = {ObjectKey(o) : o \in DOMAIN Elements}
    BY <1>3, <1>6 DEF Layout
  <2>3. ASSUME NEW o \in DOMAIN Elements
        PROVE  /\ g.cell[ObjectKey(o)].name = o /\ g.cell[ElementsCell(o)].name = "Elements"
               /\ ObjectKey(o) \in Parents(g) /\ ElementsCell(o) \in Parents(g)
               /\ FindKey(g, ObjectKey(o), "Elements") = Found(ElementsCell(o))
               /\ ListedIn(g, ElementsCell(o)) \subseteq {SlotKey(s) : s \in {t \in Slots : t[1] = o}}
    BY <1>2, <1>3, <1>5 DEF Layout
  <2> QED
    BY <2>1, <2>2, <2>3, <1>4 DEF Layout
<1>8. \A s \in Slots : Present(g, s) <=> Present(h, s)
  BY <1>3, <1>5, SlotFacts DEF Present
<1> QED
  BY <1>7, <1>8

\* What is listed after a deletion.
LEMMA DeleteListed ==
    ASSUME NEW h, Sound(h), NEW p \in Parents(h), NEW i \in 1..h.cell[ListOf(h, p)].count
    PROVE  LET x == h.cell[ListOf(h, p)].list[i]
           IN  ListedIn(DeleteKey(h, p, x), p) = ListedIn(h, p) \ {x}
<1> DEFINE l == ListOf(h, p)
           x == h.cell[l].list[i]
           g == DeleteKey(h, p, x)
           w == Without(h.cell[l], i)
           n == h.cell[l].count
           s == h.cell[l].list
<1>1. /\ SoundList(h, p) /\ n \in Nat /\ i \in Nat
      /\ \A j, k \in 1..n : s[j] = s[k] => j = k
  BY DEF Sound, SoundList
<1>2. g.cell[l] = w /\ ListOf(g, p) = l
  <2>1. /\ DOMAIN g = DOMAIN h /\ DOMAIN g.cell = DOMAIN h.cell /\ g.root = h.root
        /\ p # l
        /\ g.cell[l] = w
        /\ g.cell[p] = [h.cell[p] EXCEPT !.subKeyCount = @ - 1]
        /\ \A c \in DOMAIN h.cell \ {l, p} : g.cell[c] = h.cell[c]
    BY DeleteCells
  <2>2. p \in Keys(h) /\ \A k \in Keys(h) : ListOf(g, k) = ListOf(h, k)
    BY DeleteSound DEF Parents
  <2> QED
    BY <2>1, <2>2
<1>3. w.count = n - 1 /\ \A j \in 1..(n - 1) : w.list[j] = s[IF i <= j THEN j + 1 ELSE j]
  BY <1>1, WithoutOne DEF SoundList
<1>4. ListedIn(g, p) = {w.list[j] : j \in 1..(n - 1)} /\ ListedIn(h, p) = {s[j] : j \in 1..n}
  BY <1>2, <1>3 DEF ListedIn
<1> HIDE DEF g, w, s
<1>5. x = s[i] /\ i \in 1..n
  BY DEF s
<1> HIDE DEF l, x, n
<1>6. ASSUME NEW j \in 1..(n - 1)
      PROVE  w.list[j] \in {s[k] : k \in 1..n} \ {x}
  <2> DEFINE m == IF i <= j THEN j + 1 ELSE j
  <2>1. w.list[j] = s[m] /\ m \in 1..n /\ m # i
    BY <1>1, <1>3
  <2> HIDE DEF m
  <2> QED
    BY <2>1, <1>1, <1>5
<1>7. ASSUME NEW j \in 1..n, s[j] # x
      PROVE  \E k \in 1..(n - 1) : w.list[k] = s[j]
  <2>1. j # i /\ j \in Nat
    BY <1>1, <1>5, <1>7
  <2>2. CASE j < i
    <3>1. j \in 1..(n - 1) /\ ~(i <= j)
      BY <2>1, <2>2, <1>1, <1>5
    <3> QED
      BY <3>1, <1>3
  <2>3. CASE j > i
    <3>1. j - 1 \in 1..(n - 1) /\ i <= j - 1 /\ (j - 1) + 1 = j
      BY <2>1, <2>3, <1>1, <1>5
    <3> QED
      BY <3>1, <1>3
  <2> QED
    BY <2>1, <2>2, <2>3, <1>1
<1>8. {w.list[j] : j \in 1..(n - 1)} = {s[j] : j \in 1..n} \ {x}
  BY <1>6, <1>7
<1> QED
  BY <1>4, <1>8 DEF g, l, x

\* Deleting an element takes it out of the list of its object, and no more.
LEMMA DeleteLayout ==
    ASSUME NEW h, Sound(h), Objected(h), Layout(h), NEW t \in Slots, Present(h, t)
    PROVE  LET g == DeleteKey(h, ElementsCell(t[1]), SlotKey(t))
           IN  /\ Layout(g)
               /\ \A s \in Slots : /\ Present(g, s) <=> Present(h, s) /\ s # t
                                  /\ ContentOf(g, s) = ContentOf(h, s)
<1> DEFINE p == ElementsCell(t[1])
           l == ListOf(h, p)
           g == DeleteKey(h, p, SlotKey(t))
<1>1. t[1] \in DOMAIN Elements /\ p \in Parents(h) /\ h.cell[p].name = "Elements" /\ p \in Keys(h)
  BY SlotFacts DEF Layout, Parents
<1>2. PICK i \in 1..h.cell[l].count : h.cell[l].list[i] = SlotKey(t)
  BY DEF Present, ListedIn
<1> DEFINE w == Without(h.cell[l], i)
<1>3. /\ DOMAIN g = DOMAIN h /\ DOMAIN g.cell = DOMAIN h.cell /\ g.root = h.root
      /\ g.cell[l] = w
      /\ g.cell[p] = [h.cell[p] EXCEPT !.subKeyCount = @ - 1]
      /\ \A c \in DOMAIN h.cell \ {l, p} : g.cell[c] = h.cell[c]
  BY <1>1, <1>2, DeleteCells
<1>4. /\ Sound(g) /\ Keys(g) = Keys(h) /\ Parents(g) = Parents(h)
      /\ \A k \in Keys(h) : ListOf(g, k) = ListOf(h, k) /\ g.cell[k].name = h.cell[k].name
      /\ \A k \in Parents(h) : k # p => g.cell[ListOf(h, k)] = h.cell[ListOf(h, k)]
  BY <1>1, <1>2, DeleteSound
<1>5. ListedIn(g, p) = ListedIn(h, p) \ {SlotKey(t)}
  BY <1>1, <1>2, DeleteListed
<1>6. /\ SoundList(h, p) /\ l \in DOMAIN h.cell /\ WellFormed(h) /\ h.cell[l].kind = "lf"
      /\ {"kind", "count", "room", "list"} \subseteq DOMAIN h.cell[l] /\ h.cell[l].count \in Nat
  BY <1>1 DEF Sound, SoundList, WellFormed, ListFields
<1>7. /\ DOMAIN w = DOMAIN h.cell[l]
      /\ \A f \in DOMAIN h.cell[l] \ {"count", "list"} : w[f] = h.cell[l][f]
  BY <1>2, <1>6, WithoutOne DEF SoundList
<1> HIDE DEF g, w
<1>8. ASSUME NEW k \in Parents(h), k # p
      PROVE  /\ \A name : FindKey(g, k, name) = FindKey(h, k, name)
             /\ ListedIn(g, k) = ListedIn(h, k)
  <2>1. k \in Keys(h) /\ k \in DOMAIN h.cell /\ h.cell[k].kind = "nk"
    BY DEF Parents, Keys
  <2>2. g.cell[k] = h.cell[k]
    BY <2>1, <1>3, <1>6, <1>8
  <2>3. \A c \in Keys(h) : g.cell[c].kind = h.cell[c].kind
    BY <1>4 DEF Keys
  <2> QED
    BY <2>2, <2>3, <1>4, <1>8, FindKept
<1>9. ASSUME NEW s \in Slots
      PROVE  /\ OneValue(g, SlotKey(s)) /\ g.cell[SlotKey(s)].name = s[2]
             /\ QueryValue(g, SlotKey(s), "Element") = SlotValue(s)
             /\ SlotValue(s).at \in DOMAIN g.cell /\ "content" \in DOMAIN g.cell[SlotValue(s).at]
             /\ ContentOf(g, s) = ContentOf(h, s)
  <2> DEFINE k == SlotKey(s)
             c == SlotValue(s).at
  <2>1. /\ OneValue(h, k) /\ h.cell[k].name = s[2] /\ k \in Keys(h)
        /\ QueryValue(h, k, "Element") = SlotValue(s)
        /\ c \in DOMAIN h.cell /\ "content" \in DOMAIN h.cell[c]
    BY DEF Layout, OneValue
  <2> HIDE DEF k
  <2>2. ASSUME NEW b \in DOMAIN h.cell
        PROVE  /\ DOMAIN g.cell[b] = DOMAIN h.cell[b]
               /\ \A f \in DOMAIN h.cell[b] \ {"count", "list", "subKeyCount"} : g.cell[b][f] = h.cell[b][f]
               /\ b # l => \A f \in DOMAIN h.cell[b] \ {"subKeyCount"} : g.cell[b][f] = h.cell[b][f]
    <3>1. p # l
      BY <1>1, <1>6 DEF Keys
    <3> QED
      BY <3>1, <1>3, <1>7
  <2>3. \A b \in DOMAIN h.cell : h.cell[b].kind # "lf" =>
            /\ DOMAIN g.cell[b] = DOMAIN h.cell[b]
            /\ \A f \in DOMAIN h.cell[b] \cap (ValueFields \cup {"kind", "name", "room", "list"}) :
                    g.cell[b][f] = h.cell[b][f]
    BY <2>2, <1>6 DEF ValueFields
  <2>4. OneValue(g, k) /\ QueryValue(g, k, "Element") = QueryValue(h, k, "Element")
    BY <2>1, <2>3, <1>3, <1>6, ValueKept
  <2>5. c \in DOMAIN g.cell /\ "content" \in DOMAIN g.cell[c] /\ g.cell[c].content = h.cell[c].content
    BY <2>1, <2>2, <1>3
  <2> QED
    BY <2>1, <2>4, <2>5, <1>4 DEF k, ContentOf
<1>10. \A o \in DOMAIN Elements :
        /\ ObjectKey(o) \in Parents(h) /\ ElementsCell(o) \in Parents(h)
        /\ ObjectKey(o) \in Keys(h) /\ ElementsCell(o) \in Keys(h)
        /\ ObjectKey(o) # p
  <2>1. "Elements" \notin DOMAIN Elements
    BY DEF Elements
  <2> QED
    BY <2>1, <1>1 DEF Layout, Parents
<1>11. /\ h.root \in Parents(h) /\ ObjectsCell \in Parents(h) /\ h.root # p /\ ObjectsCell # p
  <2>1. h.root \in Parents(h) /\ h.root # p /\ h.root \in Keys(h) /\ ObjectsCell \in Parents(h)
    BY <1>1 DEF Objected, Layout, Parents
  <2>2. h.cell[ObjectsCell].name = "Objects"
    BY <2>1, FindKeyFinds DEF Layout, Found
  <2> QED
    BY <2>1, <2>2, <1>1
<1>12. Layout(g)
  <2>1. ObjectsCell \in Parents(g) /\ FindKey(g, g.root, "Objects") = Found(ObjectsCell)
    BY <1>3, <1>4, <1>8, <1>11 DEF Layout
  <2>2. ListedIn(g, ObjectsCell) = {ObjectKey(o) : o \in DOMAIN Elements}
    BY <1>8, <1>11 DEF Layout
  <2>3. ASSUME NEW o \in DOMAIN Elements
        PROVE  /\ g.cell[ObjectKey(o)].name = o /\ g.cell[ElementsCell(o)].name = "Elements"
               /\ ObjectKey(o) \in Parents(g) /\ ElementsCell(o) \in Parents(g)
               /\ FindKey(g, ObjectKey(o), "Elements") = Found(ElementsCell(o))
               /\ ListedIn(g, ElementsCell(o)) \subseteq {SlotKey(s) : s \in {q \in Slots : q[1] = o}}
    <3>1. ListedIn(g, ElementsCell(o)) \subseteq ListedIn(h, ElementsCell(o))
      BY <1>5, <1>8, <1>10
    <3> QED
      BY <3>1, <1>4, <1>8, <1>10 DEF Layout
  <2> QED
    BY <2>1, <2>2, <2>3, <1>9 DEF Layout
<1>13. ASSUME NEW s \in Slots
       PROVE  Present(g, s) <=> Present(h, s) /\ s # t
  <2>1. s[1] \in DOMAIN Elements /\ ElementsCell(s[1]) \in Parents(h)
    BY SlotFacts, <1>10
  <2>2. CASE s[1] = t[1]
    <3>1. Present(g, s) <=> Present(h, s) /\ SlotKey(s) # SlotKey(t)
      BY <2>2, <1>5 DEF Present
    <3> QED
      BY <3>1, ShippedAssumption
  <2>3. CASE s[1] # t[1]
    <3>1. ElementsCell(s[1]) # p
      BY <2>1, <2>3, <1>1, ShippedAssumption
    <3> QED
      BY <3>1, <2>1, <2>3, <1>8 DEF Present
  <2> QED
    BY <2>2, <2>3
<1>14. \A s \in Slots : ContentOf(g, s) = ContentOf(h, s)
  BY <1>9
<1> QED
  BY <1>12, <1>13, <1>14 DEF g

\* Writing a value changes what that element has, and no other.
LEMMA SetContentLayout ==
    ASSUME NEW h, Sound(h), Objected(h), Layout(h), NEW t \in Slots, NEW content
    PROVE  LET g == SetContent(h, SlotValue(t).at, content)
           IN  /\ Layout(g)
               /\ \A s \in Slots : /\ Present(g, s) <=> Present(h, s)
                                  /\ ContentOf(g, s) = IF s = t THEN content ELSE ContentOf(h, s)
<1> DEFINE c == SlotValue(t).at
           g == SetContent(h, c, content)
<1>1. Layout(g) /\ \A s \in Slots : Present(g, s) <=> Present(h, s)
  BY SetContentKeeps, SameTreeLayout DEF Sound
<1>2. /\ c \in DOMAIN h.cell /\ "content" \in DOMAIN h.cell[c] /\ {"cell", "root"} \subseteq DOMAIN h
  BY DEF Layout, Sound, WellFormed
<1>3. g.cell[c].content = content /\ \A b \in DOMAIN h.cell : b # c => g.cell[b] = h.cell[b]
  BY <1>2 DEF SetContent
<1>4. \A s \in Slots : s # t => SlotValue(s).at # c /\ SlotValue(s).at \in DOMAIN h.cell
  BY ShippedAssumption DEF Layout
<1> QED
  BY <1>1, <1>3, <1>4 DEF ContentOf

\* What is present is found, with its value, and could be deleted.
LEMMA PresentIsFound ==
    ASSUME NEW h, Sound(h), Objected(h), Layout(h), NEW t \in Slots, Present(h, t)
    PROVE  /\ ElementsKey(h, ObjectsCell, t[1]) = Found(ElementsCell(t[1]))
           /\ ElementKey(h, ObjectsCell, t[1], t[2]) = Found(SlotKey(t))
           /\ FindHive(h, ObjectsCell, t[1], t[2]) = SlotValue(t)
           /\ DeleteError(h, ElementsCell(t[1]), SlotKey(t)) = "NONE"
<1> DEFINE p == ElementsCell(t[1])
           l == ListOf(h, p)
<1>1. t[1] \in DOMAIN Elements
  BY SlotFacts
<1>2. FindKey(h, ObjectsCell, t[1]) = Found(ObjectKey(t[1]))
  <2>1. ObjectKey(t[1]) \in ListedIn(h, ObjectsCell) /\ h.cell[ObjectKey(t[1])].name = t[1]
        /\ ObjectsCell \in Parents(h)
    BY <1>1 DEF Layout
  <2>2. PICK i \in 1..h.cell[ListOf(h, ObjectsCell)].count :
                h.cell[ListOf(h, ObjectsCell)].list[i] = ObjectKey(t[1])
    BY <2>1 DEF ListedIn
  <2> QED
    BY <2>1, <2>2, EntryIsFound
<1>3. ElementsKey(h, ObjectsCell, t[1]) = Found(p)
  BY <1>1, <1>2 DEF ElementsKey, Layout, Found
<1>4. /\ p \in Parents(h) /\ h.cell[SlotKey(t)].name = t[2]
      /\ QueryValue(h, SlotKey(t), "Element") = SlotValue(t)
  BY <1>1 DEF Layout
<1>5. PICK i \in 1..h.cell[l].count : h.cell[l].list[i] = SlotKey(t)
  BY DEF Present, ListedIn
<1>6. FindKey(h, p, t[2]) = Found(SlotKey(t))
  BY <1>4, <1>5, EntryIsFound
<1>7. ElementKey(h, ObjectsCell, t[1], t[2]) = Found(SlotKey(t))
  BY <1>3, <1>6 DEF ElementKey, Found
<1>8. FindHive(h, ObjectsCell, t[1], t[2]) = SlotValue(t)
  BY <1>4, <1>7 DEF FindHive, Found
<1>9. DeleteError(h, p, SlotKey(t)) = "NONE"
  <2>1. SubkeysError(h, p) = "NONE"
    BY <1>6 DEF FindKey, Found, Error
  <2>2. i \in Entries(h, l, SlotKey(t))
    BY <1>5 DEF Entries
  <2> QED
    BY <2>1, <2>2 DEF DeleteError
<1> QED
  BY <1>3, <1>7, <1>8, <1>9

\* A patch of a present element of the right length is made.
LEMMA PatchIsMade ==
    ASSUME NEW h, Sound(h), Objected(h), Layout(h), NEW p, Target(p) \in Slots, Present(h, Target(p)),
           p.op # "delete" => ~Refused(p, SlotValue(Target(p)).len), NEW settings, NEW where
    PROVE  LET t == Target(p)
           IN  Apply(h, p, ObjectsCell, settings, where) =
                [dead |-> FALSE,
                 hive |-> IF p.op = "delete" THEN DeleteKey(h, ElementsCell(t[1]), SlotKey(t))
                          ELSE SetContent(h, SlotValue(t).at, Content(p, settings, where, SlotValue(t).len))]
<1> DEFINE t == Target(p)
<1>1. p.object = t[1] /\ p.element = t[2]
  BY DEF Target
<1>2. /\ ElementsKey(h, ObjectsCell, p.object) = Found(ElementsCell(t[1]))
      /\ ElementKey(h, ObjectsCell, p.object, p.element) = Found(SlotKey(t))
      /\ FindHive(h, ObjectsCell, p.object, p.element) = SlotValue(t)
      /\ DeleteError(h, ElementsCell(t[1]), SlotKey(t)) = "NONE"
  BY <1>1, PresentIsFound
<1>3. SlotValue(t).err = "NONE"
  BY ShippedAssumption
<1> HIDE DEF t
<1>4. CASE p.op = "delete"
  <2>1. /\ Found(ElementsCell(t[1])).key = ElementsCell(t[1]) /\ Found(SlotKey(t)).key = SlotKey(t)
        /\ Found(SlotKey(t)).err = "NONE"
    BY DEF Found
  <2>2. Apply(h, p, ObjectsCell, settings, where) =
            [hive |-> DeleteKey(h, ElementsCell(t[1]), SlotKey(t)), dead |-> FALSE]
    BY <1>2, <1>4, <2>1 DEF Apply
  <2> QED
    BY <2>2, <1>4 DEF t
<1>5. CASE p.op # "delete"
  <2>1. ~Refused(p, SlotValue(t).len)
    BY <1>5 DEF t
  <2>2. Apply(h, p, ObjectsCell, settings, where) =
            [hive |-> SetContent(h, SlotValue(t).at, Content(p, settings, where, SlotValue(t).len)),
             dead |-> FALSE]
    BY <1>2, <1>3, <1>5, <2>1 DEF Apply
  <2> QED
    BY <2>2, <1>5 DEF t
<1> QED
  BY <1>4, <1>5

\* An element of the template, and the length of its value.
LEMMA ElementIsSlot ==
    ASSUME NEW o \in DOMAIN Elements, NEW j \in 1..Len(Elements[o])
    PROVE  LET s == <<o, Elements[o][j][1]>>
           IN  s \in Slots /\ SlotValue(s).len = Elements[o][j][2]
  BY ShippedAssumption DEF Slots

HasSlot(o, e, n) == <<o, e>> \in Slots /\ SlotValue(<<o, e>>).len = n

\* The lengths of the values that the patches name.
LEMMA LoaderSlots ==
    /\ HasSlot("WIMB", "APPDEV", 650) /\ HasSlot("WIMB", "OSDDEV", 650)
    /\ HasSlot("WIMB", "WINLOAD", 128) /\ HasSlot("WIMB", "SYSROOT", 64)
    /\ HasSlot("VHDB", "APPDEV", 700) /\ HasSlot("VHDB", "OSDDEV", 700)
    /\ HasSlot("VHDB", "WINLOAD", 128) /\ HasSlot("VHDB", "SYSROOT", 64)
<1> DEFINE E(dp) == LoaderElements(dp)
<1>1. /\ Elements["WIMB"] = E(650) /\ Elements["VHDB"] = E(700)
      /\ {"WIMB", "VHDB"} \subseteq DOMAIN Elements
  BY DEF Elements
<1>2. \A dp : /\ Len(E(dp)) = 6
              /\ E(dp)[1] = <<"APPDEV", dp>> /\ E(dp)[2] = <<"WINLOAD", 128>>
              /\ E(dp)[5] = <<"OSDDEV", dp>> /\ E(dp)[6] = <<"SYSROOT", 64>>
  BY DEF LoaderElements
<1> HIDE DEF E
<1>3. ASSUME NEW o \in {"WIMB", "VHDB"}, NEW j \in {1, 2, 5, 6}
      PROVE  HasSlot(o, Elements[o][j][1], Elements[o][j][2])
  <2>1. j \in 1..Len(Elements[o]) /\ o \in DOMAIN Elements
    BY <1>1, <1>2
  <2> QED
    BY <2>1, ElementIsSlot DEF HasSlot
<1>4. \A o \in {"WIMB", "VHDB"} :
        /\ Elements[o][1][1] = "APPDEV" /\ Elements[o][1][2] = IF o = "WIMB" THEN 650 ELSE 700
        /\ Elements[o][5][1] = "OSDDEV" /\ Elements[o][5][2] = IF o = "WIMB" THEN 650 ELSE 700
        /\ Elements[o][2][1] = "WINLOAD" /\ Elements[o][2][2] = 128
        /\ Elements[o][6][1] = "SYSROOT" /\ Elements[o][6][2] = 64
  BY <1>1, <1>2
<1> QED
  BY <1>3, <1>4

\* The lengths of the values of the entry for an installed system.
LEMMA WosSlots ==
    /\ HasSlot("WOSB", "APPDEV", 88) /\ HasSlot("WOSB", "OSDDEV", 88)
    /\ HasSlot("WOSB", "WINLOAD", 128) /\ HasSlot("WOSB", "SYSROOT", 64)
<1> DEFINE s == LoaderElements(88)
           x == <<"OBJECT", 78>>
           S == {<<"APPDEV", 88>>, <<"WINLOAD", 128>>, <<"TITLE", 18>>, <<"INHERIT", 80>>,
                 <<"OSDDEV", 88>>, <<"SYSROOT", 64>>, x}
           e == Elements["WOSB"]
<1>1. e = Append(s, x) /\ "WOSB" \in DOMAIN Elements
  BY DEF Elements
<1>2. /\ Len(s) = 6
      /\ s[1] = <<"APPDEV", 88>> /\ s[2] = <<"WINLOAD", 128>>
      /\ s[5] = <<"OSDDEV", 88>> /\ s[6] = <<"SYSROOT", 64>>
  BY DEF LoaderElements
<1>3. s \in Seq(S) /\ x \in S
  <2>1. \A a, b, c, d, f, g, y : <<a, b, c, d, f, g>> \in Seq({a, b, c, d, f, g, y})
    OBVIOUS
  <2>2. s = << <<"APPDEV", 88>>, <<"WINLOAD", 128>>, <<"TITLE", 18>>, <<"INHERIT", 80>>,
               <<"OSDDEV", 88>>, <<"SYSROOT", 64>> >>
    BY DEF LoaderElements
  <2> HIDE DEF x, s
  <2> QED
    BY <2>1, <2>2
<1> HIDE DEF s, S, x
<1>4. Len(e) = 7 /\ \A j \in 1..6 : e[j] = s[j]
  <2>1. ASSUME NEW T, NEW q \in Seq(T), NEW y \in T, NEW r, r = Append(q, y)
        PROVE  Len(r) = Len(q) + 1 /\ \A j \in 1..Len(q) : r[j] = q[j]
    BY <2>1, AppendProperties
  <2>2. e = Append(s, x)
    BY <1>1
  <2> HIDE DEF e
  <2>3. Len(e) = Len(s) + 1 /\ \A j \in 1..Len(s) : e[j] = s[j]
    BY <2>1, <2>2, <1>3
  <2> QED
    BY <2>3, <1>2
<1>5. ASSUME NEW j \in {1, 2, 5, 6}
      PROVE  HasSlot("WOSB", e[j][1], e[j][2])
  <2>1. j \in 1..Len(e)
    BY <1>4
  <2> QED
    BY <2>1, <1>1, ElementIsSlot DEF HasSlot
<1>6. /\ e[1] = <<"APPDEV", 88>> /\ e[2] = <<"WINLOAD", 128>>
      /\ e[5] = <<"OSDDEV", 88>> /\ e[6] = <<"SYSROOT", 64>>
  BY <1>2, <1>4
<1> HIDE DEF e
<1> QED
  BY <1>5, <1>6

\* Those of the entry that resumes from hibernation.
LEMMA ResumeSlots ==
    /\ HasSlot("HIBR", "APPDEV", 88) /\ HasSlot("HIBR", "OSDDEV", 88)
    /\ HasSlot("HIBR", "WINLOAD", 128) /\ HasSlot("HIBR", "SYSROOT", 128)
<1> DEFINE e == Elements["HIBR"]
<1>1. /\ "HIBR" \in DOMAIN Elements /\ Len(e) = 6
      /\ e[1] = <<"APPDEV", 88>> /\ e[2] = <<"WINLOAD", 128>>
      /\ e[5] = <<"OSDDEV", 88>> /\ e[6] = <<"SYSROOT", 128>>
  BY DEF Elements
<1>2. \A j \in 1..6 : HasSlot("HIBR", e[j][1], e[j][2])
  BY <1>1, ElementIsSlot DEF HasSlot
<1> HIDE DEF e
<1> QED
  BY <1>1, <1>2

\* Those of the options that all entries share.
LEMMA OptionSlots ==
    /\ HasSlot("OPTN", "CMDLINE", 256) /\ HasSlot("OPTN", "GFXMODE", 8) /\ HasSlot("OPTN", "ADVOPT", 1)
    /\ HasSlot("OPTN", "OPTEDIT", 1) /\ HasSlot("OPTN", "TEXT", 1) /\ HasSlot("OPTN", "TESTMODE", 1)
    /\ HasSlot("OPTN", "HIGHRES", 1) /\ HasSlot("OPTN", "NX", 8) /\ HasSlot("OPTN", "PAE", 8)
    /\ HasSlot("OPTN", "SAFEMODE", 8) /\ HasSlot("OPTN", "DETHAL", 1) /\ HasSlot("OPTN", "WINPE", 1)
    /\ HasSlot("OPTN", "NOVESA", 1) /\ HasSlot("OPTN", "NOVGA", 1) /\ HasSlot("OPTN", "ALTSHELL", 1)
<1> DEFINE e == Elements["OPTN"]
<1>1. /\ "OPTN" \in DOMAIN Elements /\ Len(e) = 16
      /\ e[1] = <<"CMDLINE", 256>> /\ e[2] = <<"GFXMODE", 8>> /\ e[3] = <<"ADVOPT", 1>>
      /\ e[4] = <<"OPTEDIT", 1>> /\ e[5] = <<"TEXT", 1>> /\ e[7] = <<"TESTMODE", 1>>
      /\ e[8] = <<"HIGHRES", 1>> /\ e[9] = <<"NX", 8>> /\ e[10] = <<"PAE", 8>>
      /\ e[11] = <<"SAFEMODE", 8>> /\ e[12] = <<"DETHAL", 1>> /\ e[13] = <<"WINPE", 1>>
      /\ e[14] = <<"NOVESA", 1>> /\ e[15] = <<"NOVGA", 1>> /\ e[16] = <<"ALTSHELL", 1>>
  BY DEF Elements
<1>2. \A j \in 1..16 : HasSlot("OPTN", e[j][1], e[j][2])
  BY <1>1, ElementIsSlot DEF HasSlot
<1> HIDE DEF e
<1> QED
  BY <1>1, <1>2

\* Those of the boot manager and of the RAM disk.
LEMMA ManagerSlots ==
    /\ HasSlot("BOOTMGR", "OBJECT", 78) /\ HasSlot("BOOTMGR", "ORDER", 80) /\ HasSlot("BOOTMGR", "TIMEOUT", 8)
    /\ HasSlot("RAMDISK", "SDIDEV", 88) /\ HasSlot("RAMDISK", "SDIPATH", 30)
    /\ HasSlot("RAMDISK", "IMGOFS", 8) /\ HasSlot("RAMDISK", "EXPORTCD", 1)
<1> DEFINE e == Elements["BOOTMGR"]
           r == Elements["RAMDISK"]
<1>1. /\ {"BOOTMGR", "RAMDISK"} \subseteq DOMAIN Elements /\ Len(e) = 6 /\ Len(r) = 4
      /\ e[3] = <<"OBJECT", 78>> /\ e[4] = <<"ORDER", 80>> /\ e[5] = <<"TIMEOUT", 8>>
      /\ r[1] = <<"SDIDEV", 88>> /\ r[2] = <<"SDIPATH", 30>> /\ r[3] = <<"IMGOFS", 8>>
      /\ r[4] = <<"EXPORTCD", 1>>
  BY DEF Elements
<1>2. /\ \A j \in 1..6 : HasSlot("BOOTMGR", e[j][1], e[j][2])
      /\ \A j \in 1..4 : HasSlot("RAMDISK", r[j][1], r[j][2])
  BY <1>1, ElementIsSlot DEF HasSlot
<1> HIDE DEF e, r
<1> QED
  BY <1>1, <1>2

-----------------------------------------------------------------------------
(* The patches of each group.                                              *)

\* The patches of each group, one by one: first those of the boot manager.
LEMMA BootMgrPatches ==
    ASSUME NEW a
    PROVE  LET P == Patches(Groups[1], a)
               entry == EntryGuid(a.boottype)
           IN  /\ Len(P) = 3
               /\ P[1] = PatchSzw("BOOTMGR", "OBJECT", entry)
               /\ P[2] = PatchSzw("BOOTMGR", "ORDER", entry)
               /\ P[3] = PatchU64("BOOTMGR", "TIMEOUT", a.timeout)
  BY DEF Patches, Groups

\* The entry that resumes.
LEMMA ResumePatches ==
    ASSUME NEW a
    PROVE  LET P == Patches(Groups[2], a)
           IN  /\ Len(P) = 4
               /\ P[1] = PatchDp("HIBR", "APPDEV", "REC")
               /\ P[2] = PatchDp("HIBR", "OSDDEV", "REC")
               /\ P[3] = PatchSz("HIBR", "WINLOAD", DefaultWinresume)
               /\ P[4] = PatchSz("HIBR", "SYSROOT", DefaultHiberfil)
  BY DEF Patches, Groups

\* The RAM disk: the boot type decides which elements go.
LEMMA RamdiskPatches ==
    ASSUME NEW a
    PROVE  LET P == Patches(Groups[3], a)
           IN  IF a.boottype = "RAM"
               THEN /\ Len(P) = 4
                    /\ P[1] = Delete("RAMDISK", "SDIDEV")
                    /\ P[2] = Delete("RAMDISK", "SDIPATH")
                    /\ P[3] = PatchBool("RAMDISK", "EXPORTCD", a.exportcd)
                    /\ P[4] = PatchU64("RAMDISK", "IMGOFS", a.imgofs)
               ELSE /\ Len(P) = 2
                    /\ P[1] = Delete("RAMDISK", "EXPORTCD")
                    /\ P[2] = Delete("RAMDISK", "IMGOFS")
  BY DEF Patches, Groups

\* The options.
LEMMA OptionsPatches ==
    ASSUME NEW a
    PROVE  LET P == Patches(Groups[4], a)
           IN  /\ Len(P) = 11
               /\ P[1] = PatchSz("OPTN", "CMDLINE", a.loadopt)
               /\ P[2] = PatchBool("OPTN", "TESTMODE", a.testmode)
               /\ P[3] = PatchBool("OPTN", "DETHAL", a.hal)
               /\ P[4] = PatchBool("OPTN", "WINPE", a.minint)
               /\ P[5] = PatchBool("OPTN", "NOVGA", a.novga)
               /\ P[6] = PatchBool("OPTN", "NOVESA", a.novesa)
               /\ P[7] = PatchBool("OPTN", "ADVOPT", a.advmenu)
               /\ P[8] = PatchBool("OPTN", "OPTEDIT", a.optedit)
               /\ P[9] = PatchBool("OPTN", "TEXT", a.textmode)
               /\ P[10] = PatchU64("OPTN", "NX", a.nx)
               /\ P[11] = PatchU64("OPTN", "PAE", a.pae)
  BY DEF Patches, Groups

\* The resolution: one of two elements goes.
LEMMA ResolutionPatches ==
    ASSUME NEW a
    PROVE  LET P == Patches(Groups[5], a)
           IN  /\ Len(P) = 2
               /\ IF a.hires = BoolNA
                  THEN /\ P[1] = Delete("OPTN", "HIGHRES")
                       /\ P[2] = PatchU64("OPTN", "GFXMODE", a.gfxmode)
                  ELSE /\ P[1] = Delete("OPTN", "GFXMODE")
                       /\ P[2] = PatchBool("OPTN", "HIGHRES", a.hires)
  BY DEF Patches, Groups

\* The safe mode: both elements are set, or both go.
LEMMA SafeModePatches ==
    ASSUME NEW a
    PROVE  LET P == Patches(Groups[6], a)
           IN  /\ Len(P) = 2
               /\ IF a.safemode # BoolFalse
                  THEN /\ P[1] = PatchU64("OPTN", "SAFEMODE", a.safeboot)
                       /\ P[2] = PatchBool("OPTN", "ALTSHELL", a.altshell)
                  ELSE /\ P[1] = Delete("OPTN", "SAFEMODE")
                       /\ P[2] = Delete("OPTN", "ALTSHELL")
  BY DEF Patches, Groups

\* The entry of the boot type.
LEMMA EntryPatches ==
    ASSUME NEW a
    PROVE  LET P == Patches(Groups[7], a)
               entry == EntryGuid(a.boottype)
           IN  /\ Len(P) = 4
               /\ P[1] = PatchDp(entry, "APPDEV", a.boottype)
               /\ P[2] = PatchDp(entry, "OSDDEV", a.boottype)
               /\ P[3] = PatchSz(entry, "WINLOAD", a.winload)
               /\ P[4] = PatchSz(entry, "SYSROOT", a.sysroot)
  BY DEF Patches, Groups

\* A patch names an element that is there, with a value that it may overwrite.
Suits(p) ==
    /\ Target(p) \in Slots
    /\ p.op # "delete" => ~Refused(p, SlotValue(Target(p)).len)

\* A patch suits an element whose value has the length that it asks for.
LEMMA SuitsSlot ==
    ASSUME NEW o, NEW e, NEW n, HasSlot(o, e, n), NEW v
    PROVE  /\ Suits(Delete(o, e))
           /\ n = 1 => Suits(PatchBool(o, e, v))
           /\ n = 8 => Suits(PatchU64(o, e, v))
           /\ Suits(PatchSz(o, e, v))
           /\ n \in {78, 80} => Suits(PatchSzw(o, e, v))
           /\ (n \in Nat /\ n >= DpForm(v).need /\ v \in BootTypes) => Suits(PatchDp(o, e, v))
<1>1. <<o, e>> \in Slots /\ SlotValue(<<o, e>>).len = n
  BY DEF HasSlot
<1>2. v \in BootTypes => DpForm(v).need \in Nat
  BY DEF BootTypes, DpForm
<1>3. /\ Target(Delete(o, e)) = <<o, e>> /\ Target(PatchBool(o, e, v)) = <<o, e>>
      /\ Target(PatchU64(o, e, v)) = <<o, e>> /\ Target(PatchSz(o, e, v)) = <<o, e>>
      /\ Target(PatchSzw(o, e, v)) = <<o, e>> /\ Target(PatchDp(o, e, v)) = <<o, e>>
  BY DEF Target, Delete, PatchBool, PatchU64, PatchSz, PatchSzw, PatchDp
<1>4. /\ Delete(o, e).op = "delete"
      /\ ~Refused(PatchBool(o, e, v), 1)
      /\ ~Refused(PatchU64(o, e, v), 8)
      /\ ~Refused(PatchSz(o, e, v), n)
      /\ ~Refused(PatchSzw(o, e, v), 78) /\ ~Refused(PatchSzw(o, e, v), 80)
      /\ (n \in Nat /\ n >= DpForm(v).need /\ v \in BootTypes) => ~Refused(PatchDp(o, e, v), n)
  BY <1>2 DEF Refused, Delete, PatchBool, PatchU64, PatchSz, PatchSzw, PatchDp
<1> QED
  BY <1>1, <1>3, <1>4 DEF Suits

\* A group has at most eleven patches.
LEMMA PatchCounts ==
    ASSUME NEW a
    PROVE  /\ Len(Groups) = 7
           /\ \A g \in 1..7 : Len(Patches(Groups[g], a)) \in 1..11
<1>1. Len(Groups) = 7
  BY DEF Groups
<1>2. \A g \in 1..7 : g = 1 \/ g = 2 \/ g = 3 \/ g = 4 \/ g = 5 \/ g = 6 \/ g = 7
  OBVIOUS
<1>3. \A g \in 1..7 : Len(Patches(Groups[g], a)) \in {2, 3, 4, 11}
  BY <1>2, BootMgrPatches, ResumePatches, RamdiskPatches, OptionsPatches, ResolutionPatches,
     SafeModePatches, EntryPatches
<1> QED
  BY <1>1, <1>3

\* The elements of the objects OPTN and RAMDISK suit their patches.
LEMMA OptionsSuit ==
    ASSUME NEW a, NEW g \in 3..6, NEW n \in 1..Len(Patches(Groups[g], a))
    PROVE  Suits(Patches(Groups[g], a)[n])
<1>1. CASE g = 3
  <2> DEFINE P == Patches(Groups[3], a)
  <2>1. CASE a.boottype = "RAM"
    <3>1. Suits(P[1]) /\ Suits(P[2]) /\ Suits(P[3]) /\ Suits(P[4]) /\ Len(P) = 4
      BY <2>1, RamdiskPatches, ManagerSlots, SuitsSlot
    <3> HIDE DEF P
    <3> QED
      BY <3>1, <1>1 DEF P
  <2>2. CASE a.boottype # "RAM"
    <3>1. Suits(P[1]) /\ Suits(P[2]) /\ Len(P) = 2
      BY <2>2, RamdiskPatches, ManagerSlots, SuitsSlot
    <3> HIDE DEF P
    <3> QED
      BY <3>1, <1>1 DEF P
  <2> QED
    BY <2>1, <2>2
<1>2. CASE g = 4
  <2> DEFINE P == Patches(Groups[4], a)
  <2>1. /\ Suits(P[1]) /\ Suits(P[2]) /\ Suits(P[3]) /\ Suits(P[4]) /\ Suits(P[5]) /\ Suits(P[6])
        /\ Suits(P[7]) /\ Suits(P[8]) /\ Suits(P[9]) /\ Suits(P[10]) /\ Suits(P[11]) /\ Len(P) = 11
    BY OptionsPatches, OptionSlots, SuitsSlot
  <2>2. \A m \in 1..11 : Suits(P[m])
    <3> HIDE DEF P
    <3>1. \A m \in 1..11 : m \in {1, 2, 3, 4, 5, 6, 7, 8, 9, 10, 11}
      OBVIOUS
    <3> QED
      BY <2>1, <3>1
  <2> QED
    BY <1>2, <2>1, <2>2
<1>3. CASE g = 5
  <2> DEFINE P == Patches(Groups[5], a)
  <2>1. Suits(P[1]) /\ Suits(P[2]) /\ Len(P) = 2
    BY ResolutionPatches, OptionSlots, SuitsSlot
  <2> HIDE DEF P
  <2> QED
    BY <2>1, <1>3 DEF P
<1>4. CASE g = 6
  <2> DEFINE P == Patches(Groups[6], a)
  <2>1. Suits(P[1]) /\ Suits(P[2]) /\ Len(P) = 2
    BY SafeModePatches, OptionSlots, SuitsSlot
  <2> HIDE DEF P
  <2> QED
    BY <2>1, <1>4 DEF P
<1> QED
  BY <1>1, <1>2, <1>3, <1>4

\* So do those of the other objects.
LEMMA ObjectsSuit ==
    ASSUME NEW a, a.boottype \in BootTypes, NEW g \in {1, 2, 7}, NEW n \in 1..Len(Patches(Groups[g], a))
    PROVE  Suits(Patches(Groups[g], a)[n])
<1>1. CASE g = 1
  <2> DEFINE P == Patches(Groups[1], a)
  <2>1. Suits(P[1]) /\ Suits(P[2]) /\ Suits(P[3]) /\ Len(P) = 3
    BY BootMgrPatches, ManagerSlots, SuitsSlot
  <2> HIDE DEF P
  <2> QED
    BY <2>1, <1>1 DEF P
<1>2. CASE g = 2
  <2> DEFINE P == Patches(Groups[2], a)
  <2>1. "REC" \in BootTypes /\ 88 >= DpForm("REC").need
    BY DEF BootTypes, DpForm
  <2>2. Suits(P[1]) /\ Suits(P[2]) /\ Suits(P[3]) /\ Suits(P[4]) /\ Len(P) = 4
    BY <2>1, ResumePatches, ResumeSlots, SuitsSlot
  <2> HIDE DEF P
  <2> QED
    BY <2>2, <1>2 DEF P
<1>3. CASE g = 7
  <2> DEFINE P == Patches(Groups[7], a)
             t == a.boottype
             o == EntryGuid(t)
             dp == IF t = "VHD" THEN 700 ELSE IF t = "WOS" THEN 88 ELSE 650
  <2>1. dp >= DpForm(t).need /\ t \in BootTypes /\ dp \in Nat
    BY DEF BootTypes, DpForm
  <2>2. HasSlot(o, "APPDEV", dp) /\ HasSlot(o, "OSDDEV", dp) /\ HasSlot(o, "WINLOAD", 128) /\ HasSlot(o, "SYSROOT", 64)
    BY LoaderSlots, WosSlots DEF EntryGuid, BootTypes
  <2> HIDE DEF dp
  <2>3. Suits(P[1]) /\ Suits(P[2]) /\ Suits(P[3]) /\ Suits(P[4]) /\ Len(P) = 4
    BY <2>1, <2>2, EntryPatches, SuitsSlot
  <2> HIDE DEF P
  <2> QED
    BY <2>3, <1>3 DEF P
<1> QED
  BY <1>1, <1>2, <1>3

\* The group of the patches of an element.
GroupOf(t) ==
    CASE t[1] = "BOOTMGR" -> 1
      [] t[1] = "HIBR" -> 2
      [] t[1] = "RAMDISK" -> 3
      [] t[1] = "OPTN" -> IF t[2] \in {"HIGHRES", "GFXMODE"} THEN 5
                          ELSE IF t[2] \in {"SAFEMODE", "ALTSHELL"} THEN 6 ELSE 4
      [] OTHER -> 7

\* The element that a patch names.
LEMMA PatchTarget ==
    ASSUME NEW o, NEW e, NEW v
    PROVE  /\ Target(Delete(o, e)) = <<o, e>> /\ Target(PatchBool(o, e, v)) = <<o, e>>
           /\ Target(PatchU64(o, e, v)) = <<o, e>> /\ Target(PatchSz(o, e, v)) = <<o, e>>
           /\ Target(PatchSzw(o, e, v)) = <<o, e>> /\ Target(PatchDp(o, e, v)) = <<o, e>>
  BY DEF Target, Delete, PatchBool, PatchU64, PatchSz, PatchSzw, PatchDp

\* No two patches of the options name the same element.
LEMMA OptionsDiffer ==
    ASSUME NEW a
    PROVE  LET P == Patches(Groups[4], a)
           IN  /\ \A n \in 1..Len(P) : GroupOf(Target(P[n])) = 4
               /\ \A n, m \in 1..Len(P) : Target(P[n]) = Target(P[m]) => n = m
<1> DEFINE P == Patches(Groups[4], a)
           number == [CMDLINE |-> 1, TESTMODE |-> 2, DETHAL |-> 3, WINPE |-> 4, NOVGA |-> 5, NOVESA |-> 6,
                      ADVOPT |-> 7, OPTEDIT |-> 8, TEXT |-> 9, NX |-> 10, PAE |-> 11]
           Right(n) == GroupOf(Target(P[n])) = 4 /\ number[Target(P[n])[2]] = n
<1>1. /\ Target(P[1]) = <<"OPTN", "CMDLINE">> /\ Target(P[2]) = <<"OPTN", "TESTMODE">>
      /\ Target(P[3]) = <<"OPTN", "DETHAL">> /\ Target(P[4]) = <<"OPTN", "WINPE">>
      /\ Target(P[5]) = <<"OPTN", "NOVGA">> /\ Target(P[6]) = <<"OPTN", "NOVESA">>
      /\ Target(P[7]) = <<"OPTN", "ADVOPT">> /\ Target(P[8]) = <<"OPTN", "OPTEDIT">>
      /\ Target(P[9]) = <<"OPTN", "TEXT">> /\ Target(P[10]) = <<"OPTN", "NX">>
      /\ Target(P[11]) = <<"OPTN", "PAE">> /\ Len(P) = 11
  BY OptionsPatches, PatchTarget
<1> HIDE DEF P
<1>2. /\ Right(1) /\ Right(2) /\ Right(3) /\ Right(4) /\ Right(5) /\ Right(6)
      /\ Right(7) /\ Right(8) /\ Right(9) /\ Right(10) /\ Right(11)
  BY <1>1 DEF GroupOf
<1> HIDE DEF Right
<1>3. \A n \in 1..Len(P) : Right(n)
  <2>1. \A n \in 1..11 : n \in {1, 2, 3, 4, 5, 6, 7, 8, 9, 10, 11}
    OBVIOUS
  <2> QED
    BY <1>1, <1>2, <2>1
<1> HIDE DEF number
<1> QED
  BY <1>3 DEF Right, P

\* Neither do two of another group.
LEMMA OthersDiffer ==
    ASSUME NEW a, NEW g \in 1..7, g # 4
    PROVE  LET P == Patches(Groups[g], a)
           IN  /\ \A n \in 1..Len(P) : GroupOf(Target(P[n])) = g
               /\ \A n, m \in 1..Len(P) : Target(P[n]) = Target(P[m]) => n = m
<1> DEFINE P == Patches(Groups[g], a)
<1>1. CASE g = 1
  <2>1. /\ Len(P) = 3 /\ Target(P[1]) = <<"BOOTMGR", "OBJECT">>
        /\ Target(P[2]) = <<"BOOTMGR", "ORDER">> /\ Target(P[3]) = <<"BOOTMGR", "TIMEOUT">>
    BY <1>1, BootMgrPatches, PatchTarget
  <2> HIDE DEF P
  <2> QED
    BY <2>1, <1>1 DEF GroupOf, P
<1>2. CASE g = 2
  <2>1. /\ Len(P) = 4 /\ Target(P[1]) = <<"HIBR", "APPDEV">> /\ Target(P[2]) = <<"HIBR", "OSDDEV">>
        /\ Target(P[3]) = <<"HIBR", "WINLOAD">> /\ Target(P[4]) = <<"HIBR", "SYSROOT">>
    BY <1>2, ResumePatches, PatchTarget
  <2> HIDE DEF P
  <2> QED
    BY <2>1, <1>2 DEF GroupOf, P
<1>3. CASE g = 3
  <2>1. IF a.boottype = "RAM"
        THEN /\ Len(P) = 4
             /\ Target(P[1]) = <<"RAMDISK", "SDIDEV">> /\ Target(P[2]) = <<"RAMDISK", "SDIPATH">>
             /\ Target(P[3]) = <<"RAMDISK", "EXPORTCD">> /\ Target(P[4]) = <<"RAMDISK", "IMGOFS">>
        ELSE /\ Len(P) = 2
             /\ Target(P[1]) = <<"RAMDISK", "EXPORTCD">> /\ Target(P[2]) = <<"RAMDISK", "IMGOFS">>
    BY <1>3, RamdiskPatches, PatchTarget
  <2> HIDE DEF P
  <2> QED
    BY <2>1, <1>3 DEF GroupOf, P
<1>4. CASE g = 5
  <2>1. /\ Len(P) = 2
        /\ \/ Target(P[1]) = <<"OPTN", "HIGHRES">> /\ Target(P[2]) = <<"OPTN", "GFXMODE">>
           \/ Target(P[1]) = <<"OPTN", "GFXMODE">> /\ Target(P[2]) = <<"OPTN", "HIGHRES">>
    BY <1>4, ResolutionPatches, PatchTarget
  <2> HIDE DEF P
  <2> QED
    BY <2>1, <1>4 DEF GroupOf, P
<1>5. CASE g = 6
  <2>1. /\ Len(P) = 2
        /\ Target(P[1]) = <<"OPTN", "SAFEMODE">> /\ Target(P[2]) = <<"OPTN", "ALTSHELL">>
    BY <1>5, SafeModePatches, PatchTarget
  <2> HIDE DEF P
  <2> QED
    BY <2>1, <1>5 DEF GroupOf, P
<1>6. CASE g = 7
  <2> DEFINE o == EntryGuid(a.boottype)
  <2>1. /\ Len(P) = 4 /\ Target(P[1]) = <<o, "APPDEV">> /\ Target(P[2]) = <<o, "OSDDEV">>
        /\ Target(P[3]) = <<o, "WINLOAD">> /\ Target(P[4]) = <<o, "SYSROOT">>
    BY <1>6, EntryPatches, PatchTarget
  <2>2. o \in {"WIMB", "VHDB", "WOSB"}
    BY DEF EntryGuid
  <2> HIDE DEF P, o
  <2> QED
    BY <2>1, <2>2, <1>6 DEF GroupOf, P
<1> QED
  BY <1>1, <1>2, <1>3, <1>4, <1>5, <1>6

\* No element is named by two patches.
LEMMA TargetsDiffer ==
    ASSUME NEW i \in Places, NEW j \in Places, Target(PatchAt(i)) = Target(PatchAt(j))
    PROVE  i = j
<1>1. /\ i = <<i[1], i[2]>> /\ i[1] \in 1..7 /\ i[2] \in 1..Len(Patches(Groups[i[1]], args))
      /\ j = <<j[1], j[2]>> /\ j[1] \in 1..7 /\ j[2] \in 1..Len(Patches(Groups[j[1]], args))
  BY PatchCounts DEF Places
<1>2. \A g \in 1..7 :
        LET P == Patches(Groups[g], args)
        IN  /\ \A n \in 1..Len(P) : GroupOf(Target(P[n])) = g
            /\ \A n, m \in 1..Len(P) : Target(P[n]) = Target(P[m]) => n = m
  BY OptionsDiffer, OthersDiffer
<1>3. i[1] = j[1]
  <2>1. GroupOf(Target(PatchAt(i))) = i[1]
    BY <1>1, <1>2 DEF PatchAt
  <2>2. GroupOf(Target(PatchAt(j))) = j[1]
    BY <1>1, <1>2 DEF PatchAt
  <2> QED
    BY <2>1, <2>2
<1>4. i[2] = j[2]
  BY <1>1, <1>2, <1>3 DEF PatchAt
<1> QED
  BY <1>1, <1>3, <1>4

\* The places, and what the patch in each of them is.
LEMMA PlaceFacts ==
    ASSUME args.boottype \in BootTypes, NEW i \in Places
    PROVE  /\ i = <<i[1], i[2]>> /\ i[1] \in 1..7 /\ i[2] \in 1..11
           /\ i[2] <= Len(Patches(Groups[i[1]], args))
           /\ Suits(PatchAt(i))
<1>1. i[1] \in 1..7 /\ i[2] \in 1..Len(Patches(Groups[i[1]], args))
  BY PatchCounts DEF Places
<1>4. i = <<i[1], i[2]>>
  BY DEF Places
<1>2. Suits(PatchAt(i))
  <2>1. i[1] \in 3..6 \/ i[1] \in {1, 2, 7}
    BY <1>1
  <2> QED
    BY <2>1, <1>1, OptionsSuit, ObjectsSuit DEF PatchAt
<1>3. i[2] \in 1..11 /\ i[2] <= Len(Patches(Groups[i[1]], args))
  <2>1. Len(Patches(Groups[i[1]], args)) \in 1..11
    BY <1>1, PatchCounts
  <2> DEFINE n == i[2]
             k == Len(Patches(Groups[i[1]], args))
  <2>2. n \in 1..k /\ k \in 1..11
    BY <1>1, <2>1
  <2> HIDE DEF n, k
  <2>3. n \in 1..11 /\ n <= k
    BY <2>2
  <2> QED
    BY <2>3 DEF n, k
<1> QED
  BY <1>1, <1>2, <1>3, <1>4

-----------------------------------------------------------------------------
(* What the fields are after some arguments.                               *)

\* The last of some positions is one of them, and none is after it.
LEMMA LastOfSet ==
    ASSUME NEW n \in Nat, NEW S \in SUBSET (1..n), S # {}
    PROVE  /\ LastOf(S) \in S /\ \A j \in S : j <= LastOf(S)
           /\ \A i \in S : (\A j \in S : j <= i) => i = LastOf(S)
<1> DEFINE R == {n - i : i \in S}
<1>1. R \in SUBSET Nat /\ R # {}
  <2>1. \A i \in S : n - i \in Nat /\ i \in Nat
    OBVIOUS
  <2> QED
    BY <2>1
<1>2. PICK k \in R : \A j \in R : k <= j
  BY <1>1, LeastNatural
<1>3. PICK m \in S : k = n - m
  BY <1>2
<1>4. \A j \in S : j <= m
  <2>1. ASSUME NEW j \in S
        PROVE  j <= m
    <3>1. k <= n - j
      BY <1>2
    <3>2. j \in 1..n /\ m \in 1..n
      OBVIOUS
    <3> QED
      BY <1>3, <3>1, <3>2
  <2> QED
    BY <2>1
<1>5. LastOf(S) \in S /\ \A j \in S : j <= LastOf(S)
  BY <1>3, <1>4 DEF LastOf
<1>6. ASSUME NEW i \in S, \A j \in S : j <= i
      PROVE  i = LastOf(S)
  <2>1. LastOf(S) <= i /\ i <= LastOf(S)
    BY <1>5, <1>6
  <2> HIDE DEF R
  <2>2. \A j \in S : j \in Nat
    <3>1. ASSUME NEW j \in S
          PROVE  j \in Nat
      <4>1. j \in 1..n
        OBVIOUS
      <4> QED
        BY <4>1
    <3> QED
      BY <3>1
  <2>3. i \in Nat /\ LastOf(S) \in Nat
    BY <1>5, <2>2
  <2> QED
    BY <2>1, <2>3
<1> QED
  BY <1>5, <1>6

\* A field is what the last argument made it that sets it, or as it was.
LEMMA FieldOf ==
    ASSUME NEW line, NEW n \in Nat, NEW f \in DOMAIN InitArgs
    PROVE  \/ /\ Setters(line, f, n) = {} /\ LineArgs(line, n)[f] = InitArgs[f]
           \/ LET i == LastOf(Setters(line, f, n))
              IN  /\ i \in 1..n /\ i \in Setters(line, f, n) /\ f \in DOMAIN Sets(line[i])
                  /\ \A j \in Setters(line, f, n) : j <= i
                  /\ LineArgs(line, n)[f] = Sets(line[i])[f]
<1>1. Setters(line, f, n) \in SUBSET (1..n)
  BY DEF Setters
<1>2. CASE Setters(line, f, n) = {}
  BY <1>2 DEF LineArgs
<1>3. CASE Setters(line, f, n) # {}
  <2>1. LastOf(Setters(line, f, n)) \in Setters(line, f, n)
        /\ \A j \in Setters(line, f, n) : j <= LastOf(Setters(line, f, n))
    BY <1>1, <1>3, LastOfSet
  <2> QED
    BY <2>1, <1>3 DEF LineArgs, Setters
<1> QED
  BY <1>2, <1>3

\* One field, and fields over others.
LEMMA FieldFacts ==
    ASSUME NEW f, NEW v
    PROVE  DOMAIN Field(f, v) = {f} /\ Field(f, v)[f] = v
  BY DEF Field

\* Fields set over those of before.
LEMMA OverFacts ==
    ASSUME NEW new, NEW old
    PROVE  /\ DOMAIN Over(new, old) = DOMAIN new \cup DOMAIN old
           /\ \A f \in DOMAIN new : Over(new, old)[f] = new[f]
           /\ \A f \in DOMAIN old \ DOMAIN new : Over(new, old)[f] = old[f]
  BY DEF Over

\* The keys of each kind, and their fields.
LEMMA KeyKinds ==
    /\ DOMAIN TextField = {"loadopt", "winload", "sysroot", "initrd", "initrdfile", "wim", "vhd", "ram", "file"}
    /\ DOMAIN FlagField = {"text", "f8", "edit"}
    /\ DOMAIN BoolField = {"testmode", "hires", "detecthal", "minint", "novga", "novesa", "altshell", "exportascd"}
    /\ DOMAIN WordField = {"nx", "pae", "safemode", "gfxmode"}
  BY DEF TextField, FlagField, BoolField, WordField

\* What each kind of key sets by its value.
LEMMA OwnFields ==
    ASSUME NEW a
    PROVE  /\ a.key = "uuid" => OwnField(a) = Field("fsuuid", Cut(a.val, 17))
           /\ a.key = "imgofs" => OwnField(a) = Field("imgofs", a.val.len)
           /\ a.key \in DOMAIN TextField => OwnField(a) = TextSets(a)
           /\ a.key \in DOMAIN FlagField => OwnField(a) = [f \in FlagField[a.key] |-> BoolTrue]
           /\ a.key \in DOMAIN BoolField => OwnField(a) = Field(BoolField[a.key], ConvertBool(a.val))
           /\ a.key \in DOMAIN WordField => OwnField(a) = WordSets(a)
           /\ a.key \notin {"uuid", "imgofs"} \cup DOMAIN TextField \cup DOMAIN FlagField
                    \cup DOMAIN BoolField \cup DOMAIN WordField => OwnField(a) = NoField
<1> DEFINE k == a.key
           T == DOMAIN TextField
           F == DOMAIN FlagField
           B == DOMAIN BoolField
           W == DOMAIN WordField
<1>1. /\ {"uuid", "imgofs"} \cap (T \cup F \cup B \cup W) = {}
      /\ T \cap (F \cup B \cup W) = {} /\ F \cap (B \cup W) = {} /\ B \cap W = {}
  BY KeyKinds
<1>2. OwnField(a) =
        CASE k = "uuid" -> Field("fsuuid", Cut(a.val, 17))
          [] k = "imgofs" -> Field("imgofs", a.val.len)
          [] k \in T -> TextSets(a)
          [] k \in F -> [f \in FlagField[k] |-> BoolTrue]
          [] k \in B -> Field(BoolField[k], ConvertBool(a.val))
          [] k \in W -> WordSets(a)
          [] OTHER -> NoField
  BY DEF OwnField
<1> HIDE DEF T, F, B, W, k
<1>3. /\ k = "uuid" => OwnField(a) = Field("fsuuid", Cut(a.val, 17))
      /\ k = "imgofs" => OwnField(a) = Field("imgofs", a.val.len)
      /\ k \in T => OwnField(a) = TextSets(a)
      /\ k \in F => OwnField(a) = [f \in FlagField[k] |-> BoolTrue]
      /\ k \in B => OwnField(a) = Field(BoolField[k], ConvertBool(a.val))
      /\ k \in W => OwnField(a) = WordSets(a)
      /\ k \notin {"uuid", "imgofs"} \cup T \cup F \cup B \cup W => OwnField(a) = NoField
  BY <1>1, <1>2
<1> QED
  BY <1>3 DEF T, F, B, W, k

\* What a text sets.
LEMMA TextFields ==
    ASSUME NEW a, a.key \in DOMAIN TextField
    PROVE  LET t == TextField[a.key]
           IN  IF t[1] = "filepath"
               THEN /\ DOMAIN TextSets(a) = {"boottype", "filepath"}
                    /\ TextSets(a)["boottype"] = PathBootType(a)
                    /\ TextSets(a)["filepath"] = ConvertPath(Cut(a.val, t[2]), t[3])
               ELSE DOMAIN TextSets(a) = {t[1]} /\ TextSets(a)[t[1]] = ConvertPath(Cut(a.val, t[2]), t[3])
<1> DEFINE t == TextField[a.key]
           text == ConvertPath(Cut(a.val, t[2]), t[3])
<1>1. TextSets(a) = IF t[1] = "filepath" THEN Over(Field("boottype", PathBootType(a)), Field(t[1], text))
                    ELSE Over(NoField, Field(t[1], text))
  BY DEF TextSets
<1>2. DOMAIN NoField = {}
  BY DEF NoField
<1> HIDE DEF text, t
<1>3. CASE t[1] = "filepath"
  <2> DEFINE new == Field("boottype", PathBootType(a))
             old == Field("filepath", text)
  <2>1. /\ DOMAIN new = {"boottype"} /\ new["boottype"] = PathBootType(a)
        /\ DOMAIN old = {"filepath"} /\ old["filepath"] = text
    BY FieldFacts
  <2>2. TextSets(a) = Over(new, old)
    BY <1>1, <1>3
  <2> HIDE DEF new, old
  <2>3. /\ DOMAIN TextSets(a) = {"boottype", "filepath"}
        /\ TextSets(a)["boottype"] = PathBootType(a) /\ TextSets(a)["filepath"] = text
    <3>1. /\ DOMAIN TextSets(a) = DOMAIN new \cup DOMAIN old
          /\ \A f \in DOMAIN new : TextSets(a)[f] = new[f]
          /\ \A f \in DOMAIN old \ DOMAIN new : TextSets(a)[f] = old[f]
      BY <2>2 DEF Over
    <3> QED
      BY <2>1, <3>1
  <2> QED
    BY <2>3, <1>3 DEF t, text
<1>4. CASE t[1] # "filepath"
  <2> DEFINE old == Field(t[1], text)
  <2>1. DOMAIN old = {t[1]} /\ old[t[1]] = text
    BY FieldFacts
  <2>2. TextSets(a) = Over(NoField, old)
    BY <1>1, <1>4
  <2> HIDE DEF old
  <2>3. DOMAIN TextSets(a) = {t[1]} /\ TextSets(a)[t[1]] = text
    <3>1. /\ DOMAIN TextSets(a) = DOMAIN NoField \cup DOMAIN old
          /\ \A f \in DOMAIN old \ DOMAIN NoField : TextSets(a)[f] = old[f]
      BY <2>2 DEF Over
    <3> QED
      BY <2>1, <3>1, <1>2
  <2> QED
    BY <2>3, <1>4 DEF t, text
<1> QED
  BY <1>3, <1>4

\* Only the paths set the boot type.
LEMMA BootTypeSet ==
    ASSUME NEW a, "boottype" \in DOMAIN Sets(a)
    PROVE  /\ a.key \in {"wim", "vhd", "ram", "file"}
           /\ Sets(a)["boottype"] = PathBootType(a)
<1>1. a.key \in {"wim", "vhd", "ram", "file"}
  BY DEF Sets, OwnField, AlsoSets, TextSets, WordSets, TextField, FlagField, BoolField, WordField,
         Over, Field, NoField
<1>2. a.key \in DOMAIN TextField /\ TextField[a.key][1] = "filepath"
  BY <1>1 DEF TextField
<1>3. "boottype" \in DOMAIN OwnField(a) /\ OwnField(a)["boottype"] = PathBootType(a)
  BY <1>2, OwnFields, TextFields
<1> QED
  BY <1>1, <1>3, OverFacts DEF Sets

\* The boot type is one that the loader knows, whatever the arguments.
LEMMA BootTypeKnown ==
    ASSUME NEW line, NEW n \in Nat
    PROVE  /\ LineArgs(line, n)["boottype"] \in {"WIM", "VHD", "WOS", "RAM"}
           /\ Defaults(LineArgs(line, n))["boottype"] = LineArgs(line, n)["boottype"]
           /\ DOMAIN LineArgs(line, n) = DOMAIN InitArgs
           /\ DOMAIN Defaults(LineArgs(line, n)) = DOMAIN InitArgs
<1>1. "boottype" \in DOMAIN InitArgs /\ InitArgs["boottype"] = "WOS"
  BY DEF InitArgs
<1>2. \A a : "boottype" \in DOMAIN Sets(a) => Sets(a)["boottype"] \in {"WIM", "VHD", "RAM"}
  BY BootTypeSet DEF PathBootType
<1>3. LineArgs(line, n)["boottype"] \in {"WIM", "VHD", "WOS", "RAM"}
  BY <1>1, <1>2, FieldOf
<1>4. DOMAIN LineArgs(line, n) = DOMAIN InitArgs
  BY DEF LineArgs
<1> HIDE DEF LineArgs
<1> QED
  BY <1>1, <1>3, <1>4 DEF Defaults

\* What the arguments are whenever they are used.
LEMMA ArgsKnown ==
    ASSUME LineInv
    PROVE  /\ DOMAIN args = DOMAIN InitArgs
           /\ args.boottype \in {"WIM", "VHD", "WOS", "RAM"} /\ args.boottype \in BootTypes
<1>1. pos - 1 \in Nat /\ Len(Line) \in Nat
  <2>1. Line \in Seq([key : STRING, val : TypedTexts])
    BY LineAssumption DEF LineInv, Line
  <2>2. Len(Line) \in Nat
    BY <2>1
  <2> QED
    BY <2>2 DEF LineInv
<1>2. \/ args = InitArgs \/ args = LineArgs(Line, pos - 1)
      \/ args = Defaults(LineArgs(Line, Len(Line)))
  BY DEF LineInv
<1>3. InitArgs.boottype = "WOS"
  BY DEF InitArgs
<1> QED
  BY <1>1, <1>2, <1>3, BootTypeKnown DEF BootTypes

-----------------------------------------------------------------------------
(* The patches at every step of the loader.                                *)

\* Nothing but its content says what a value is.
LEMMA ContentKept ==
    ASSUME NEW h, Sound(h), Layout(h), NEW s \in Slots
    PROVE  /\ ContentOf(Repaired(h), s) = ContentOf(h, s)
           /\ ContentOf(ClearVolatile(h), s) = ContentOf(h, s)
           /\ \A efi : ContentOf(ReplaceSuffix(h, efi), s) = ReplaceIn(ContentOf(h, s), efi)
<1> DEFINE c == SlotValue(s).at
<1>1. c \in DOMAIN h.cell /\ "content" \in DOMAIN h.cell[c] /\ {"cell", "root"} \subseteq DOMAIN h
  BY DEF Layout, Sound, WellFormed
<1> HIDE DEF c
<1>2. Repaired(h).cell[c].content = h.cell[c].content
  BY <1>1 DEF Repaired
<1>3. ClearVolatile(h).cell[c].content = h.cell[c].content
  <2> DEFINE keys == {k \in Below(h) : Kind(h, k) = "nk"}
             cells == [k \in DOMAIN h.cell |->
                          IF k \in keys THEN [h.cell[k] EXCEPT !.volatile = 0] ELSE h.cell[k]]
  <2>1. ClearVolatile(h).cell = cells
    BY <1>1 DEF ClearVolatile
  <2> HIDE DEF keys
  <2>2. cells[c].content = h.cell[c].content
    BY <1>1
  <2> QED
    BY <2>1, <2>2
<1>4. ASSUME NEW efi
      PROVE  ReplaceSuffix(h, efi).cell[c].content = ReplaceIn(h.cell[c].content, efi)
  <2> DEFINE cells == [k \in DOMAIN h.cell |->
                IF "content" \in DOMAIN h.cell[k]
                THEN [h.cell[k] EXCEPT !.content = ReplaceIn(@, efi)] ELSE h.cell[k]]
  <2>1. ReplaceSuffix(h, efi).cell = cells
    BY <1>1 DEF ReplaceSuffix
  <2>2. cells[c].content = ReplaceIn(h.cell[c].content, efi)
    BY <1>1
  <2> QED
    BY <2>1, <2>2
<1> QED
  BY <1>2, <1>3, <1>4 DEF ContentOf, c

\* No patch is done at the start, and every element is as shipped.
LEMMA PatchInit ==
    ASSUME Init
    PROVE  PatchInv
<1>1. hive = Template /\ pc = "cmdline" /\ group = 1 /\ nth = 1
  BY DEF Init
<1>2. Done = {}
  BY <1>1, PatchCounts DEF Done, Places
<1>3. 1 \in 1..(Len(Groups) + 1)
  BY PatchCounts
<1>4. \A s \in Slots : Present(hive, s) /\ ContentOf(hive, s) = Finally(Original)
  BY <1>1, ShippedAssumption DEF Finally
<1> QED
  BY <1>1, <1>2, <1>3, <1>4, ShippedAssumption DEF PatchInv

\* Before the first patch the elements are as shipped.
LEMMA PatchBefore ==
    ASSUME HiveInv, PatchInv, Command \/ Extract \/ OpenHeader \/ OpenBin \/ OpenDone
    PROVE  PatchInv'
<1>1. /\ pc \notin {"patch", "done"} /\ pc' # "done" /\ UNCHANGED <<group, nth>>
      /\ hive' = hive \/ hive' = Repaired(hive) \/ hive' = ClearVolatile(hive)
  BY DEF Command, Extract, EmptyLine, ProcessArgument, EndOfLine, Search, AddBcd, ExtractMember,
         OpenHeader, OpenBin, OpenDone, Die, hiveVars
<1>2. group = 1 /\ nth = 1 /\ group' = 1 /\ nth' = 1
  BY <1>1 DEF PatchInv
<1>3. Done = {}
  BY <1>2, PatchCounts DEF Done, Places
<1>4. Done' = {}
  <2>1. \A i \in Places' : i[1] \in 1..7 /\ i[2] \in 1..Len(Patches(Groups[i[1]], args'))
    BY PatchCounts DEF Places
  <2>2. \A i \in Places' : i[1] \in Nat /\ i[2] \in Nat /\ i[1] >= 1 /\ i[2] >= 1
    BY <2>1
  <2> QED
    BY <2>2, <1>2 DEF Done
<1>5. Layout(hive) /\ \A s \in Slots : Present(hive, s) /\ ContentOf(hive, s) = Original
  BY <1>1, <1>3 DEF PatchInv, Finally
<1>6. Layout(hive') /\ \A s \in Slots : Present(hive', s) /\ ContentOf(hive', s) = Original
  <2>1. SameTree(Repaired(hive), hive) /\ SameTree(ClearVolatile(hive), hive)
    BY RepairedKeeps, ClearVolatileKeeps DEF HiveInv, Sound
  <2>2. \A g : SameTree(g, hive) => Layout(g) /\ \A s \in Slots : Present(g, s) <=> Present(hive, s)
    BY <1>5, SameTreeLayout DEF HiveInv
  <2>3. \A s \in Slots : /\ ContentOf(Repaired(hive), s) = ContentOf(hive, s)
                        /\ ContentOf(ClearVolatile(hive), s) = ContentOf(hive, s)
    BY <1>5, ContentKept DEF HiveInv
  <2> QED
    BY <1>1, <1>5, <2>1, <2>2, <2>3
<1>7. 1 \in 1..(Len(Groups) + 1)
  BY PatchCounts
<1>8. Finally(Original)' = Original
  BY <1>1 DEF Finally
<1>9. /\ \A s \in Slots : Present(hive, s)' /\ ContentOf(hive, s)' = Finally(Original)'
      /\ Layout(hive)'
  BY <1>6, <1>8 DEF Present, ContentOf, Layout
<1> QED
  BY <1>1, <1>2, <1>4, <1>7, <1>9 DEF PatchInv

\* The patch in progress is one of those at the places, not yet done.
LEMMA PatchInProgress ==
    ASSUME PatchInv, LineInv, pc = "patch", group <= Len(Groups), nth <= Len(Work)
    PROVE  /\ <<group, nth>> \in Places /\ <<group, nth>> \notin Done
           /\ PatchAt(<<group, nth>>) = Work[nth]
           /\ nth \in 1..11 /\ group \in 1..7
           /\ Suits(Work[nth])
           /\ \A i \in Done : Target(PatchAt(i)) # Target(Work[nth])
<1>1. group \in 1..7 /\ nth \in Nat /\ nth >= 1 /\ Len(Groups) = 7
  <2>1. Len(Groups) = 7
    BY PatchCounts
  <2>2. group \in 1..(Len(Groups) + 1) /\ nth \in 1..12
    BY DEF PatchInv
  <2> QED
    BY <2>1, <2>2
<1>2. Work = Patches(Groups[group], args) /\ Len(Work) \in 1..11
  BY <1>1, PatchCounts DEF Work
<1>3. nth \in 1..Len(Work)
  BY <1>1, <1>2
<1>4. <<group, nth>> \in Places
  BY <1>1, <1>2, <1>3 DEF Places
<1>5. <<group, nth>> \notin Done
  BY <1>1 DEF Done
<1>6. PatchAt(<<group, nth>>) = Work[nth]
  BY <1>2 DEF PatchAt
<1>7. Suits(Work[nth])
  BY <1>4, <1>6, PlaceFacts, ArgsKnown
<1>8. \A i \in Done : Target(PatchAt(i)) # Target(Work[nth])
  <2>1. Done \subseteq Places
    BY DEF Done
  <2> QED
    BY <2>1, <1>4, <1>5, <1>6, TargetsDiffer
<1> QED
  BY <1>1, <1>2, <1>3, <1>4, <1>5, <1>6, <1>7, <1>8

\* No patch finds its element missing or too small; it changes this one alone.
LEMMA PatchElementDone ==
    ASSUME HiveInv, PatchInv, LineInv, PatchElement
    PROVE  LET p == Work[nth]
               t == Target(p)
           IN  /\ pc = "patch" /\ pc' = "patch" /\ nth' = nth + 1 /\ UNCHANGED <<machine, args, answer, group>>
               /\ group <= Len(Groups) /\ nth <= Len(Work)
               /\ t \in Slots /\ Layout(hive')
               /\ \/ hive' = DeleteKey(hive, ElementsCell(t[1]), SlotKey(t))
                  \/ \E text : hive' = SetContent(hive, SlotValue(t).at, text)
               /\ \A s \in Slots :
                    /\ Present(hive', s) <=> Present(hive, s) /\ (p.op = "delete" => s # t)
                    /\ ContentOf(hive', s) =
                        IF p.op # "delete" /\ s = t THEN Content(p, args, answer, SlotValue(t).len)
                        ELSE ContentOf(hive, s)
<1> DEFINE p == Work[nth]
           t == Target(p)
           made == Apply(hive, p, ObjectsKey, args, answer)
           text == Content(p, args, answer, SlotValue(t).len)
<1>1. /\ pc = "patch" /\ group <= Len(Groups) /\ nth <= Len(Work)
      /\ UNCHANGED <<machine, args, answer, group>>
      /\ hive' = made.hive
      /\ ~made.dead => nth' = nth + 1 /\ pc' = pc
  BY DEF PatchElement
<1>2. Suits(p) /\ \A i \in Done : Target(PatchAt(i)) # t
  BY <1>1, PatchInProgress
<1>3. t \in Slots /\ (p.op # "delete" => ~Refused(p, SlotValue(t).len))
  BY <1>2 DEF Suits
<1>4. Present(hive, t) /\ Layout(hive)
  BY <1>2, <1>3 DEF PatchInv
<1>5. ObjectsKey = ObjectsCell
  BY <1>4 DEF ObjectsKey, Layout, Found
<1>6. made = [dead |-> FALSE,
              hive |-> IF p.op = "delete" THEN DeleteKey(hive, ElementsCell(t[1]), SlotKey(t))
                       ELSE SetContent(hive, SlotValue(t).at, text)]
  BY <1>3, <1>4, <1>5, PatchIsMade DEF HiveInv
<1> HIDE DEF made, text, p, t
<1>7. /\ nth' = nth + 1 /\ pc' = "patch"
      /\ hive' = IF p.op = "delete" THEN DeleteKey(hive, ElementsCell(t[1]), SlotKey(t))
                 ELSE SetContent(hive, SlotValue(t).at, text)
  BY <1>1, <1>6
<1>8. CASE p.op = "delete"
  <2>1. hive' = DeleteKey(hive, ElementsCell(t[1]), SlotKey(t))
    BY <1>7, <1>8
  <2>2. /\ Layout(hive')
        /\ \A s \in Slots : /\ Present(hive', s) <=> Present(hive, s) /\ s # t
                           /\ ContentOf(hive', s) = ContentOf(hive, s)
    BY <2>1, <1>3, <1>4, DeleteLayout DEF HiveInv
  <2> QED
    BY <2>1, <2>2, <1>1, <1>3, <1>7, <1>8 DEF p, t, text
<1>9. CASE p.op # "delete"
  <2>1. hive' = SetContent(hive, SlotValue(t).at, text)
    BY <1>7, <1>9
  <2>2. /\ Layout(hive')
        /\ \A s \in Slots : /\ Present(hive', s) <=> Present(hive, s)
                           /\ ContentOf(hive', s) = IF s = t THEN text ELSE ContentOf(hive, s)
    BY <2>1, <1>3, <1>4, SetContentLayout DEF HiveInv
  <2> QED
    BY <2>1, <2>2, <1>1, <1>3, <1>7, <1>9 DEF p, t, text
<1> QED
  BY <1>8, <1>9

\* One patch more is done, and shows; those before it still do.
LEMMA PatchOne ==
    ASSUME HiveInv, PatchInv, LineInv, PatchElement
    PROVE  PatchInv'
<1> DEFINE p == Work[nth]
           t == Target(p)
           here == <<group, nth>>
<1>1. /\ pc = "patch" /\ pc' = "patch" /\ nth' = nth + 1 /\ UNCHANGED <<machine, args, answer, group>>
      /\ group <= Len(Groups) /\ nth <= Len(Work)
      /\ t \in Slots /\ Layout(hive')
      /\ \A s \in Slots :
            /\ Present(hive', s) <=> Present(hive, s) /\ (p.op = "delete" => s # t)
            /\ ContentOf(hive', s) =
                IF p.op # "delete" /\ s = t THEN Content(p, args, answer, SlotValue(t).len)
                ELSE ContentOf(hive, s)
  BY PatchElementDone
<1>2. /\ here \in Places /\ here \notin Done /\ PatchAt(here) = p /\ nth \in 1..11 /\ group \in 1..7
      /\ \A i \in Done : Target(PatchAt(i)) # t
  BY <1>1, PatchInProgress
<1>3. Places' = Places /\ \A i : PatchAt(i)' = PatchAt(i)
  BY <1>1 DEF Places, PatchAt
<1>4. Done' = Done \cup {here}
  <2>1. \A i \in Places : i = <<i[1], i[2]>> /\ i[1] \in Nat /\ i[2] \in Nat
    BY PlaceFacts, ArgsKnown
  <2>2. ASSUME NEW i \in Places
        PROVE  (i[1] < group \/ (i[1] = group /\ i[2] < nth + 1))
               <=> (i[1] < group \/ (i[1] = group /\ i[2] < nth)) \/ i = here
    <3>1. i[1] \in Nat /\ i[2] \in Nat /\ nth \in Nat
      BY <2>1, <1>2
    <3>2. i = here <=> i[1] = group /\ i[2] = nth
      BY <2>1
    <3> QED
      BY <3>1, <3>2
  <2>3. Done' = {i \in Places : i[1] < group \/ (i[1] = group /\ i[2] < nth + 1)}
    BY <1>1, <1>3 DEF Done
  <2> HIDE DEF here
  <2> QED
    BY <2>2, <2>3, <1>2 DEF Done
<1> HIDE DEF here, p, t
<1>5. /\ \A s \in Slots : (\A i \in Done : Target(PatchAt(i)) # s) =>
            Present(hive, s) /\ ContentOf(hive, s) = Original
      /\ \A i \in Done :
            LET s == Target(PatchAt(i))
            IN  IF PatchAt(i).op = "delete" THEN ~Present(hive, s)
                ELSE /\ Present(hive, s)
                     /\ ContentOf(hive, s) = Content(PatchAt(i), args, answer, SlotValue(s).len)
  BY <1>1 DEF PatchInv, Finally
<1>6. Present(hive, t)
  BY <1>1, <1>2, <1>5
<1>7. \A i \in Done : Target(PatchAt(i)) \in Slots
  <2>1. Done \subseteq Places
    BY DEF Done
  <2> QED
    BY <2>1, PlaceFacts, ArgsKnown DEF Suits
<1>8. \A s \in Slots : (\A i \in Done' : Target(PatchAt(i)) # s) =>
            Present(hive', s) /\ ContentOf(hive', s) = Original
  <2>1. Target(PatchAt(here)) = t
    BY <1>2 DEF t
  <2> QED
    BY <2>1, <1>1, <1>4, <1>5
<1>9. ASSUME NEW i \in Done'
      PROVE  LET s == Target(PatchAt(i))
             IN  IF PatchAt(i).op = "delete" THEN ~Present(hive', s)
                 ELSE /\ Present(hive', s)
                      /\ ContentOf(hive', s) = Content(PatchAt(i), args, answer, SlotValue(s).len)
  <2>1. CASE i = here
    <3>1. PatchAt(i) = p /\ Target(PatchAt(i)) = t
      BY <2>1, <1>2 DEF t
    <3> QED
      BY <3>1, <1>1, <1>6
  <2>2. CASE i \in Done
    <3>1. Target(PatchAt(i)) # t /\ Target(PatchAt(i)) \in Slots
      BY <2>2, <1>2, <1>7
    <3> QED
      BY <3>1, <2>2, <1>1, <1>5
  <2> QED
    BY <2>1, <2>2, <1>4
<1>10. \A c : Finally(c)' = c'
  BY <1>1 DEF Finally
<1>11. \A s : Present(hive, s)' = Present(hive', s) /\ ContentOf(hive, s)' = ContentOf(hive', s)
  BY DEF Present, ContentOf
<1>12. Layout(hive)'
  BY <1>1 DEF Layout
<1>13. nth + 1 \in 1..12 /\ group \in 1..(Len(Groups) + 1)
  BY <1>2, PatchCounts
<1> QED
  BY <1>1, <1>3, <1>8, <1>9, <1>10, <1>11, <1>12, <1>13 DEF PatchInv, Finally

\* The next group, and the correction of the extensions at the end.
LEMMA PatchOn ==
    ASSUME HiveInv, PatchInv, LineInv, NextGroup
    PROVE  PatchInv'
<1>1. /\ pc = "patch" /\ group <= Len(Groups) /\ nth > Len(Work)
      /\ group' = group + 1 /\ nth' = 1 /\ UNCHANGED <<machine, pc, args, answer, hive>>
  BY DEF NextGroup
<1>2. group \in 1..7 /\ nth \in Nat /\ Len(Groups) = 7
  <2>1. Len(Groups) = 7
    BY PatchCounts
  <2>2. group \in 1..(Len(Groups) + 1) /\ nth \in 1..12
    BY DEF PatchInv
  <2> QED
    BY <1>1, <2>1, <2>2
<1>3. Done' = Done
  <2>1. Places' = Places
    BY <1>1 DEF Places
  <2>2. ASSUME NEW i \in Places
        PROVE  (i[1] < group + 1 \/ (i[1] = group + 1 /\ i[2] < 1))
               <=> (i[1] < group \/ (i[1] = group /\ i[2] < nth))
    <3>1. /\ i[1] \in 1..7 /\ i[2] \in 1..11 /\ i[2] <= Len(Patches(Groups[i[1]], args))
      BY PlaceFacts, ArgsKnown
    <3>2. i[1] = group => i[2] < nth
      <4>1. Len(Work) \in 1..11
        BY <1>2, PatchCounts DEF Work
      <4>2. i[1] = group => i[2] <= Len(Work)
        BY <3>1 DEF Work
      <4> QED
        BY <1>1, <1>2, <3>1, <4>1, <4>2
    <3> QED
      BY <1>2, <3>1, <3>2
  <2>3. Done' = {i \in Places : i[1] < group + 1 \/ (i[1] = group + 1 /\ i[2] < 1)}
    BY <1>1, <2>1 DEF Done
  <2> QED
    BY <2>2, <2>3 DEF Done
<1>4. /\ \A i : PatchAt(i)' = PatchAt(i)
      /\ \A c : Finally(c)' = Finally(c')
      /\ \A s : Present(hive, s)' = Present(hive, s) /\ ContentOf(hive, s)' = ContentOf(hive, s)
      /\ Layout(hive)' = Layout(hive)
  BY <1>1 DEF PatchAt, Finally, Present, ContentOf, Layout
<1>5. group' \in 1..(Len(Groups) + 1) /\ nth' \in 1..12 /\ pc' \notin {"done"} /\ pc' = "patch"
  BY <1>1, <1>2
<1>6. Layout(hive')
  BY <1>1 DEF PatchInv
<1>7. \A i \in Done' :
        LET s == Target(PatchAt(i))
        IN  IF PatchAt(i).op = "delete" THEN ~Present(hive, s)
            ELSE /\ Present(hive, s)
                 /\ ContentOf(hive, s) = Finally(Content(PatchAt(i), args, answer, SlotValue(s).len))
  BY <1>3 DEF PatchInv
<1>8. \A s \in Slots :
        (\A i \in Done' : Target(PatchAt(i)) # s) =>
            Present(hive, s) /\ ContentOf(hive, s) = Finally(Original)
  BY <1>3 DEF PatchInv
<1> QED
  BY <1>1, <1>4, <1>5, <1>6, <1>7, <1>8 DEF PatchInv

\* After the last patch every text has the extension of the firmware.
LEMMA PatchLast ==
    ASSUME HiveInv, PatchInv, LineInv, PatchSuffix
    PROVE  PatchInv'
<1>1. /\ pc = "patch" /\ group > Len(Groups) /\ pc' = "done"
      /\ hive' = ReplaceSuffix(hive, machine.efi)
      /\ UNCHANGED <<machine, args, answer, group, nth>>
  BY DEF PatchSuffix
<1>2. /\ Layout(hive')
      /\ \A s \in Slots : /\ Present(hive', s) <=> Present(hive, s)
                         /\ ContentOf(hive', s) = ReplaceIn(ContentOf(hive, s), machine.efi)
  <2>1. SameTree(ReplaceSuffix(hive, machine.efi), hive) /\ Layout(hive)
    BY ReplaceSuffixKeeps DEF HiveInv, Sound, PatchInv
  <2>2. Layout(hive') /\ \A s \in Slots : Present(hive', s) <=> Present(hive, s)
    BY <1>1, <2>1, SameTreeLayout DEF HiveInv
  <2>3. \A s \in Slots : ContentOf(hive', s) = ReplaceIn(ContentOf(hive, s), machine.efi)
    BY <1>1, <2>1, ContentKept DEF HiveInv
  <2> QED
    BY <2>2, <2>3
<1>3. /\ Done' = Done /\ Places' = Places
      /\ \A i : PatchAt(i)' = PatchAt(i)
  BY <1>1 DEF Done, Places, PatchAt
<1>4. /\ \A i \in Done :
            LET s == Target(PatchAt(i))
            IN  IF PatchAt(i).op = "delete" THEN ~Present(hive, s)
                ELSE /\ Present(hive, s)
                     /\ ContentOf(hive, s) = Content(PatchAt(i), args, answer, SlotValue(s).len)
      /\ \A s \in Slots : (\A i \in Done : Target(PatchAt(i)) # s) =>
            Present(hive, s) /\ ContentOf(hive, s) = Original
      /\ group \in 1..(Len(Groups) + 1) /\ nth \in 1..12
  BY <1>1 DEF PatchInv, Finally
<1>5. \A i \in Done : Target(PatchAt(i)) \in Slots
  <2>1. Done \subseteq Places
    BY DEF Done
  <2> QED
    BY <2>1, PlaceFacts, ArgsKnown DEF Suits
<1>6. /\ \A i \in Done :
            LET s == Target(PatchAt(i))
            IN  IF PatchAt(i).op = "delete" THEN ~Present(hive', s)
                ELSE /\ Present(hive', s)
                     /\ ContentOf(hive', s) =
                            ReplaceIn(Content(PatchAt(i), args, answer, SlotValue(s).len), machine.efi)
      /\ \A s \in Slots : (\A i \in Done : Target(PatchAt(i)) # s) =>
            Present(hive', s) /\ ContentOf(hive', s) = ReplaceIn(Original, machine.efi)
  BY <1>2, <1>4, <1>5
<1>7. /\ \A c : Finally(c)' = ReplaceIn(c', machine.efi)
      /\ \A s : Present(hive, s)' = Present(hive', s) /\ ContentOf(hive, s)' = ContentOf(hive', s)
      /\ Layout(hive)' = Layout(hive')
  BY <1>1 DEF Finally, Present, ContentOf, Layout
<1> QED
  BY <1>1, <1>2, <1>3, <1>4, <1>6, <1>7 DEF PatchInv, Finally

\* Nothing else changes the hive.
LEMMA PatchIdle ==
    ASSUME PatchInv, Finished \/ UNCHANGED vars
    PROVE  PatchInv'
<1>1. UNCHANGED <<machine, pc, args, answer, hive, group, nth>>
  BY DEF Finished, vars
<1>2. /\ Done' = Done
      /\ \A i : PatchAt(i)' = PatchAt(i)
      /\ \A c : Finally(c)' = Finally(c')
      /\ \A s : Present(hive, s)' = Present(hive, s) /\ ContentOf(hive, s)' = ContentOf(hive, s)
      /\ Layout(hive)' = Layout(hive)
  BY <1>1 DEF Done, Places, PatchAt, Finally, Present, ContentOf, Layout
<1> QED
  BY <1>1, <1>2 DEF PatchInv

\* At every step each patch done shows, and no other element is changed.
LEMMA PatchAlways == Spec => [](HiveInv /\ LineInv /\ PatchInv)
<1>1. ASSUME HiveInv, LineInv, PatchInv, [Next]_vars
      PROVE  PatchInv'
  BY <1>1, PatchBefore, PatchOne, PatchOn, PatchLast, PatchIdle DEF Next, Patch
<1>2. (HiveInv /\ LineInv /\ PatchInv) /\ [Next]_vars => PatchInv'
  BY <1>1
<1> QED
  BY <1>2, PatchInit, HiveAlwaysSound, LineAlways, PTL DEF Spec

-----------------------------------------------------------------------------
(* The base block, the bins, and the phases of the loader.                 *)

\* The bins of the BCD as shipped follow each other, up to its end.
LEMMA TemplateBins ==
    /\ {"header", "bins", "length", "cell"} \subseteq DOMAIN Template
    /\ Template.header.valid /\ Template.length = 5 /\ Template.cell = Cells
    /\ DOMAIN Template.bins = {0, 1, 2, 4}
    /\ \A x \in {0, 1, 2, 4} :
        LET b == Template.bins[x]
        IN  /\ b.offset = x /\ b.aligned /\ b.size \in 1..2 /\ b.size <= 5 - x
            /\ x + b.size \in {0, 1, 2, 4, 5}
<1> DEFINE bins == [x \in {0, 1, 2, 4} |-> [offset |-> x, size |-> IF x = 2 THEN 2 ELSE 1, aligned |-> TRUE]]
<1>1. /\ {"header", "bins", "length", "cell"} \subseteq DOMAIN Template
      /\ Template.header.valid /\ Template.length = 5 /\ Template.cell = Cells
      /\ Template.bins = bins
  BY DEF Template
<1>2. DOMAIN bins = {0, 1, 2, 4}
  OBVIOUS
<1>3. \A x \in {0, 1, 2, 4} :
        LET b == bins[x]
        IN  /\ b.offset = x /\ b.aligned /\ b.size \in 1..2 /\ b.size <= 5 - x
            /\ x + b.size \in {0, 1, 2, 4, 5}
  OBVIOUS
<1> HIDE DEF bins
<1> QED
  BY <1>1, <1>2, <1>3

\* What the operations of bcd_patch_data leave alone.
SameFrame(g, h) ==
    DOMAIN g = DOMAIN h /\ g.bins = h.bins /\ g.length = h.length /\ DOMAIN g.cell = DOMAIN h.cell

\* The patches change neither the base block nor the bins.
LEMMA FrameKept ==
    ASSUME NEW h, {"header", "bins", "length", "cell", "root"} \subseteq DOMAIN h
    PROVE  /\ SameFrame(Repaired(h), h)
           /\ SameFrame(ClearVolatile(h), h)
           /\ \A efi : SameFrame(ReplaceSuffix(h, efi), h)
           /\ \A c, x : SameFrame(SetContent(h, c, x), h)
           /\ \A p, k : p # ListOf(h, p) => SameFrame(DeleteKey(h, p, k), h)
<1>1. SameFrame(Repaired(h), h)
  BY DEF Repaired, SameFrame
<1>2. SameFrame(ClearVolatile(h), h)
  <2> DEFINE keys == {k \in Below(h) : Kind(h, k) = "nk"}
             cells == [k \in DOMAIN h.cell |->
                          IF k \in keys THEN [h.cell[k] EXCEPT !.volatile = 0] ELSE h.cell[k]]
  <2>1. ClearVolatile(h) = [h EXCEPT !.cell = cells]
    BY DEF ClearVolatile
  <2>2. DOMAIN cells = DOMAIN h.cell
    OBVIOUS
  <2> HIDE DEF cells
  <2> QED
    BY <2>1, <2>2 DEF SameFrame
<1>3. ASSUME NEW efi
      PROVE  SameFrame(ReplaceSuffix(h, efi), h)
  BY DEF ReplaceSuffix, SameFrame
<1>4. ASSUME NEW c, NEW x
      PROVE  SameFrame(SetContent(h, c, x), h)
  BY DEF SetContent, SameFrame
<1>5. ASSUME NEW p, NEW k, p # ListOf(h, p)
      PROVE  SameFrame(DeleteKey(h, p, k), h)
  <2> DEFINE l == ListOf(h, p)
             w == Without(h.cell[l], First(Entries(h, l, k)))
  <2>1. DeleteKey(h, p, k) = [h EXCEPT !.cell[l] = w, !.cell[p].subKeyCount = @ - 1]
    BY DEF DeleteKey
  <2> HIDE DEF w, l
  <2> QED
    BY <2>1 DEF SameFrame
<1> QED
  BY <1>1, <1>2, <1>3, <1>4, <1>5

\* The BCD as it is linked in is still to be opened.
LEMMA OpenInit ==
    ASSUME Init
    PROVE  OpenInv
  BY TemplateBins DEF Init, OpenInv, Phases, Final

\* The command line and the archive come before the hive.
LEMMA OpenBefore ==
    ASSUME OpenInv, Command \/ Extract
    PROVE  OpenInv'
<1>1. /\ UNCHANGED <<hive, off>>
      /\ pc \notin {"bins", "patch", "done"} /\ pc' \in Phases \ {"bins", "patch", "done", "die_hive", "die_patch"}
  BY DEF Command, Extract, EmptyLine, ProcessArgument, EndOfLine, Search, AddBcd, ExtractMember,
         Die, hiveVars, Phases, Final
<1> QED
  BY <1>1 DEF OpenInv

\* The base block is accepted.
LEMMA OpenHeaderDone ==
    ASSUME HiveInv, OpenInv, OpenHeader
    PROVE  OpenInv'
<1>1. pc = "header" /\ hive = Template /\ off = 0
  BY DEF OpenHeader, OpenInv
<1>2. pc' = "bins" /\ hive' = Repaired(hive) /\ off' = off
  BY <1>1, TemplateBins DEF OpenHeader, HeaderValid
<1>3. SameFrame(hive', hive)
  BY <1>1, <1>2, TemplateBins, FrameKept DEF HiveInv, Sound, WellFormed
<1> QED
  BY <1>2, <1>3 DEF OpenInv, SameFrame, Phases, Final

\* Each bin is accepted, and the next one is further on.
LEMMA OpenBinDone ==
    ASSUME OpenInv, OpenBin
    PROVE  /\ OpenInv'
           /\ pc = "bins" /\ pc' = "bins" /\ off < off' /\ off' <= hive.length /\ hive' = hive
           /\ off \in Nat /\ off' \in Nat
<1>1. /\ pc = "bins" /\ off < hive.length /\ hive' = hive
      /\ hive.bins = Template.bins /\ hive.length = 5 /\ off \in {0, 1, 2, 4, 5}
  BY TemplateBins DEF OpenBin, OpenInv
<1>2. off \in {0, 1, 2, 4}
  BY <1>1
<1>3. BinValid(hive, off)
  BY <1>1, <1>2, TemplateBins DEF BinValid
<1>4. pc' = "bins" /\ off' = off + Template.bins[off].size
  BY <1>1, <1>3 DEF OpenBin, NextBin
<1>5. off' \in {0, 1, 2, 4, 5} /\ Template.bins[off].size \in 1..2
  BY <1>2, <1>4, TemplateBins
<1>6. off < off' /\ off' <= hive.length /\ off \in Nat /\ off' \in Nat
  BY <1>1, <1>2, <1>4, <1>5
<1>7. OpenInv'
  BY <1>1, <1>4, <1>5, TemplateBins DEF OpenInv, Phases, Final
<1> QED
  BY <1>1, <1>4, <1>6, <1>7

\* The objects are found.
LEMMA OpenDoneDone ==
    ASSUME HiveInv, PatchInv, OpenInv, OpenDone
    PROVE  OpenInv' /\ pc = "bins" /\ pc' = "patch"
<1>1. /\ pc = "bins" /\ hive' = ClearVolatile(hive) /\ off' = off
      /\ pc' = IF FindKey(hive, hive.root, "Objects").err = "NONE" THEN "patch" ELSE "die_hive"
  BY DEF OpenDone
<1>2. pc' = "patch"
  BY <1>1 DEF PatchInv, Layout, Found
<1>3. SameFrame(hive', hive)
  <2>1. {"header", "bins", "length", "cell", "root"} \subseteq DOMAIN hive
    BY DEF OpenInv, HiveInv, Sound, WellFormed
  <2> QED
    BY <1>1, <2>1, FrameKept
<1> QED
  BY <1>1, <1>2, <1>3 DEF OpenInv, SameFrame, Phases, Final

\* The patches leave the base block and the bins alone.
LEMMA OpenPatched ==
    ASSUME HiveInv, LineInv, PatchInv, OpenInv, PatchElement \/ NextGroup \/ PatchSuffix
    PROVE  OpenInv'
<1>1. {"header", "bins", "length", "cell", "root"} \subseteq DOMAIN hive
  BY DEF OpenInv, HiveInv, Sound, WellFormed
<1>2. CASE PatchElement
  <2> DEFINE t == Target(Work[nth])
  <2>1. /\ pc = "patch" /\ pc' = "patch" /\ t \in Slots /\ off' = off
        /\ \/ hive' = DeleteKey(hive, ElementsCell(t[1]), SlotKey(t))
           \/ \E text : hive' = SetContent(hive, SlotValue(t).at, text)
    BY <1>2, PatchElementDone DEF PatchElement
  <2>2. ElementsCell(t[1]) # ListOf(hive, ElementsCell(t[1]))
    <3>1. ElementsCell(t[1]) \in Parents(hive)
      BY <2>1, SlotFacts DEF PatchInv, Layout
    <3> HIDE DEF t
    <3>2. SoundList(hive, ElementsCell(t[1])) /\ ElementsCell(t[1]) \in Keys(hive)
      BY <3>1 DEF HiveInv, Sound, Parents
    <3> QED
      BY <3>2 DEF SoundList, Keys
  <2>3. SameFrame(hive', hive)
    BY <1>1, <2>1, <2>2, FrameKept
  <2> QED
    BY <2>1, <2>3, <1>1 DEF OpenInv, SameFrame, Phases, Final
<1>3. CASE NextGroup
  BY <1>3 DEF NextGroup, OpenInv
<1>4. CASE PatchSuffix
  <2>1. pc = "patch" /\ pc' = "done" /\ hive' = ReplaceSuffix(hive, machine.efi) /\ off' = off
    BY <1>4 DEF PatchSuffix
  <2>2. SameFrame(hive', hive)
    BY <1>1, <2>1, FrameKept
  <2> QED
    BY <2>1, <2>2, <1>1 DEF OpenInv, SameFrame, Phases, Final
<1> QED
  BY <1>2, <1>3, <1>4

\* What holds of the BCD at every step.
BcdInv == HiveInv /\ LineInv /\ PatchInv /\ OpenInv

\* The four invariants together hold at every step.
LEMMA BcdAlways == Spec => []BcdInv
<1>1. ASSUME HiveInv, LineInv, PatchInv, OpenInv, [Next]_vars
      PROVE  OpenInv'
  <2>1. CASE Finished \/ UNCHANGED vars
    BY <1>1, <2>1 DEF Finished, vars, OpenInv
  <2> QED
    BY <1>1, <2>1, OpenBefore, OpenHeaderDone, OpenBinDone, OpenDoneDone, OpenPatched DEF Next, Patch
<1>2. (HiveInv /\ LineInv /\ PatchInv) /\ OpenInv /\ [Next]_vars => OpenInv'
  BY <1>1
<1>3. BcdInv <=> (HiveInv /\ LineInv /\ PatchInv) /\ OpenInv
  BY DEF BcdInv
<1> QED
  BY <1>2, <1>3, OpenInit, PatchAlways, PTL DEF Spec

\* No command line makes the loader fail on the BCD it carries: every key that
\* a patch names is there when the patch is made, none has been deleted before,
\* and every value has the right length (bcd_patch_data).
THEOREM TemplateIsAccepted == Spec => []TemplateAccepted
<1>1. BcdInv => TemplateAccepted
  BY DEF BcdInv, OpenInv, TemplateAccepted
<1> QED
  BY <1>1, BcdAlways, PTL

\* The table of files is never written past its end.
LEMMA FilesFit ==
    ASSUME ExtractInv, Len(files) <= MaxFiles, [Next]_vars
    PROVE  (Len(files) <= MaxFiles)'
<1>1. Len(files) \in Nat /\ MaxFiles \in Nat
  BY PayloadAssumption DEF ExtractInv
<1>2. ASSUME NEW f, files' = Append(files, f), ~Full
      PROVE  Len(files') <= MaxFiles
  <2>1. Len(files') = Len(files) + 1
    BY <1>2, AppendProperties DEF ExtractInv
  <2> QED
    BY <1>1, <1>2, <2>1 DEF Full
<1>3. files' = files \/ (~Full /\ \E f : files' = Append(files, f))
  BY DEF Next, Command, Extract, Patch, EmptyLine, ProcessArgument, EndOfLine, Search, AddBcd, ExtractMember,
         OpenHeader, OpenBin, OpenDone, PatchElement, NextGroup, PatchSuffix, Finished, vars, extractVars
<1> QED
  BY <1>2, <1>3

\* The table of files is never written past its end.
LEMMA FilesAlwaysFit == Spec => [](Len(files) <= MaxFiles)
<1>1. Init => Len(files) <= MaxFiles
  BY PayloadAssumption DEF Init
<1>2. ExtractInv /\ Len(files) <= MaxFiles /\ [Next]_vars => (Len(files) <= MaxFiles)'
  BY FilesFit
<1> QED
  BY <1>1, <1>2, ExtractAlways, PTL DEF Spec

\* Every variable has its type, whatever the machine: in particular the table of
\* files is never overrun (vdisk_add_file), validate_bins stays inside the hive,
\* and no cell of it comes or goes.
THEOREM TypeCorrect == Spec => []TypeOK
<1>1. ASSUME BcdInv, ExtractInv, Len(files) <= MaxFiles
      PROVE  TypeOK
  <2> USE <1>1 DEF BcdInv
  <2>1. pc \in Phases
    BY DEF OpenInv
  <2>2. pos \in Nat \ {0}
    <3>1. Line \in Seq([key : STRING, val : TypedTexts])
      BY LineAssumption DEF LineInv, Line
    <3>2. Len(Line) \in Nat
      BY <3>1
    <3> QED
      BY <3>2 DEF LineInv
  <2>3. group \in 1..(Len(Groups) + 1) /\ nth \in 1..12
    BY DEF PatchInv
  <2>4. DOMAIN args = DOMAIN InitArgs /\ args.boottype \in BootTypes
    BY ArgsKnown
  <2>5. answer \in {NoPartition, machine.partition}
    BY DEF LineInv
  <2>6. at + left = machine.image.len
    BY DEF ExtractInv
  <2>7. DOMAIN hive.cell = DOMAIN Cells /\ off \in 0..hive.length
    BY TemplateBins DEF OpenInv
  <2> QED
    BY <2>1, <2>2, <2>3, <2>4, <2>5, <2>6, <2>7 DEF TypeOK
<1>2. BcdInv /\ ExtractInv /\ Len(files) <= MaxFiles => TypeOK
  BY <1>1
<1> QED
  BY <1>2, BcdAlways, ExtractAlways, FilesAlwaysFit, PTL

-----------------------------------------------------------------------------
(* Progress.                                                               *)

\* Lists that differ first at some place are in the order of what is there.
LEMMA LessAt ==
    ASSUME NEW m, NEW n, NEW i \in 1..6, m[i] < n[i], \A j \in 1..(i - 1) : m[j] = n[j]
    PROVE  Less(m, n)
  BY DEF Less

\* The six parts of what is left to do.
LEMMA RemainingParts ==
    /\ Remaining[1] = PhaseRank /\ Remaining[2] = Len(Line) + 1 - pos /\ Remaining[3] = left
    /\ Remaining[4] = hive.length - off /\ Remaining[5] = Len(Groups) + 1 - group /\ Remaining[6] = 12 - nth
  BY DEF Remaining

\* The same after a step.
LEMMA RemainingPartsPrime ==
    /\ Remaining'[1] = PhaseRank' /\ Remaining'[2] = Len(Line') + 1 - pos' /\ Remaining'[3] = left'
    /\ Remaining'[4] = hive'.length - off' /\ Remaining'[5] = Len(Groups) + 1 - group' /\ Remaining'[6] = 12 - nth'
  BY DEF Remaining

\* What is left to do is a list of natural numbers.
Counted == \A i \in 1..6 : Remaining[i] \in Nat

\* Each part is a natural number.
LEMMA RemainingCounted ==
    ASSUME BcdInv, ExtractInv
    PROVE  Counted
<1>1. PhaseRank \in Nat
  <2>1. pc \in Phases
    BY DEF BcdInv, OpenInv
  <2> QED
    BY <2>1 DEF PhaseRank, Phases, Final
<1>2. Len(Line) + 1 - pos \in Nat
  <2>1. Line \in Seq([key : STRING, val : TypedTexts])
    BY LineAssumption DEF BcdInv, LineInv, Line
  <2>2. Len(Line) \in Nat
    BY <2>1
  <2>3. pos \in 1..(Len(Line) + 1)
    BY DEF BcdInv, LineInv
  <2> QED
    BY <2>2, <2>3
<1>3. left \in Nat
  BY DEF ExtractInv
<1>4. hive.length - off \in Nat
  <2>1. hive.length = 5 /\ off \in {0, 1, 2, 4, 5}
    BY TemplateBins DEF BcdInv, OpenInv
  <2> QED
    BY <2>1
<1>5. Len(Groups) + 1 - group \in Nat /\ 12 - nth \in Nat
  <2>1. Len(Groups) = 7
    BY PatchCounts
  <2>2. group \in 1..(Len(Groups) + 1) /\ nth \in 1..12
    BY DEF BcdInv, PatchInv
  <2> QED
    BY <2>1, <2>2
<1>6. \A i \in 1..6 : i \in {1, 2, 3, 4, 5, 6}
  OBVIOUS
<1> QED
  BY <1>1, <1>2, <1>3, <1>4, <1>5, <1>6, RemainingParts DEF Counted

\* A step to a later phase.
LEMMA PhaseLess ==
    ASSUME PhaseRank' < PhaseRank
    PROVE  Less(Remaining', Remaining)
  BY RemainingParts, RemainingPartsPrime, LessAt

\* A step over the command line, or the search, leaves less to do.
LEMMA CommandLess ==
    ASSUME BcdInv, Command
    PROVE  Less(Remaining', Remaining)
<1>1. CASE EmptyLine \/ EndOfLine \/ Search
  BY <1>1, PhaseLess DEF EmptyLine, EndOfLine, Search, PhaseRank, Final
<1>2. CASE ProcessArgument
  <2>1. CASE Rejects(machine.line[pos])
    BY <1>2, <2>1, PhaseLess DEF ProcessArgument, Die, PhaseRank, Final
  <2>2. CASE ~Rejects(machine.line[pos])
    <3>1. pos' = pos + 1 /\ pc' = pc /\ Line' = Line
      BY <1>2, <2>2 DEF ProcessArgument, Line
    <3>2. PhaseRank' = PhaseRank
      BY <3>1 DEF PhaseRank
    <3>3. Len(Line) \in Nat /\ pos \in Nat
      <4>1. Line \in Seq([key : STRING, val : TypedTexts])
        BY LineAssumption DEF BcdInv, LineInv, Line
      <4>2. Len(Line) \in Nat
        BY <4>1
      <4> QED
        BY <4>2 DEF BcdInv, LineInv
    <3>4. Remaining'[2] < Remaining[2] /\ Remaining'[1] = Remaining[1]
      BY <3>1, <3>2, <3>3, RemainingParts, RemainingPartsPrime
    <3> QED
      BY <3>4, LessAt
  <2> QED
    BY <2>1, <2>2
<1> QED
  BY <1>1, <1>2 DEF Command

\* So does a step of the extraction.
LEMMA ExtractLess ==
    ASSUME BcdInv, ExtractInv, ExtractInv', Extract
    PROVE  Less(Remaining', Remaining)
<1>1. CASE AddBcd
  BY <1>1, PhaseLess DEF AddBcd, Die, PhaseRank, Final
<1>2. CASE ExtractMember
  <2> DEFINE r == Member(machine.image, at, left)
  <2>1. CASE r.rc = "file" /\ ~Full
    <3>1. /\ left' = left - (r.next - at) /\ at' = r.next /\ UNCHANGED <<pc, machine, pos>>
      BY <1>2, <2>1 DEF ExtractMember
    <3>2. r.next \in Nat /\ at < r.next
      BY <1>2, <2>1, NextMember DEF ExtractMember, ExtractInv
    <3>3. left' < left /\ at \in Nat /\ left \in Nat
      <4>1. at \in Nat /\ left \in Nat
        BY DEF ExtractInv
      <4> HIDE DEF r
      <4> QED
        BY <3>1, <3>2, <4>1
    <3>4. PhaseRank' = PhaseRank /\ Line' = Line
      BY <3>1 DEF PhaseRank, Line
    <3>5. Remaining'[3] < Remaining[3] /\ Remaining'[1] = Remaining[1] /\ Remaining'[2] = Remaining[2]
      BY <3>1, <3>3, <3>4, RemainingParts, RemainingPartsPrime
    <3> QED
      BY <3>5, LessAt
  <2>2. CASE ~(r.rc = "file" /\ ~Full)
    <3>1. pc = "extract" /\ pc' \in {"die_files", "die_bootmgr", "header", "die_cpio"}
      BY <1>2, <2>2 DEF ExtractMember, Die
    <3> QED
      BY <3>1, PhaseLess DEF PhaseRank, Final
  <2> QED
    BY <2>1, <2>2
<1> QED
  BY <1>1, <1>2 DEF Extract

\* So does a step that opens or patches the hive.
LEMMA PatchLess ==
    ASSUME BcdInv, BcdInv', Patch
    PROVE  Less(Remaining', Remaining)
<1> USE DEF BcdInv
<1>1. CASE OpenHeader \/ OpenDone \/ PatchSuffix
  <2>1. \/ pc = "header" /\ pc' \in {"bins", "die_hive"}
        \/ pc = "bins" /\ pc' \in {"patch", "die_hive"}
        \/ pc = "patch" /\ pc' = "done"
    BY <1>1 DEF OpenHeader, OpenDone, PatchSuffix, Die
  <2> QED
    BY <2>1, PhaseLess DEF PhaseRank, Final
<1>2. CASE OpenBin
  <2>1. pc' = pc /\ off < off' /\ hive' = hive /\ off \in Nat /\ off' \in Nat
    BY <1>2, OpenBinDone
  <2>2. UNCHANGED <<machine, pos, left>>
    BY <1>2 DEF OpenBin, extractVars
  <2>3. PhaseRank' = PhaseRank /\ Line' = Line
    BY <2>1, <2>2 DEF PhaseRank, Line
  <2>4. hive.length = 5
    BY TemplateBins DEF OpenInv
  <2>5. /\ Remaining'[4] < Remaining[4] /\ Remaining'[1] = Remaining[1] /\ Remaining'[2] = Remaining[2]
        /\ Remaining'[3] = Remaining[3]
    BY <2>1, <2>2, <2>3, <2>4, RemainingParts, RemainingPartsPrime
  <2> QED
    BY <2>5, LessAt
<1>3. CASE PatchElement \/ NextGroup
  <2>1. /\ pc' = pc /\ UNCHANGED <<machine, pos, left, off>>
        /\ \/ nth' = nth + 1 /\ group' = group
           \/ group' = group + 1
    BY <1>3, PatchElementDone DEF PatchElement, NextGroup, extractVars
  <2>2. PhaseRank' = PhaseRank /\ Line' = Line
    BY <2>1 DEF PhaseRank, Line
  <2>3. hive.length = 5 /\ hive'.length = 5
    BY TemplateBins DEF OpenInv
  <2>4. Len(Groups) \in Nat /\ group \in Nat /\ nth \in Nat
    BY PatchCounts DEF PatchInv
  <2>5. \A j \in 1..4 : Remaining'[j] = Remaining[j]
    <3>1. \A j \in 1..4 : j \in {1, 2, 3, 4}
      OBVIOUS
    <3> QED
      BY <2>1, <2>2, <2>3, <3>1, RemainingParts, RemainingPartsPrime
  <2>6. \/ Remaining'[5] < Remaining[5]
        \/ Remaining'[5] = Remaining[5] /\ Remaining'[6] < Remaining[6]
    BY <2>1, <2>4, RemainingParts, RemainingPartsPrime
  <2> QED
    BY <2>5, <2>6, LessAt
<1> QED
  BY <1>1, <1>2, <1>3 DEF Patch

\* Every step leaves less to do, whatever the command line and the archive: no
\* argument, member, bin or patch keeps the loader busy for ever (cpio_extract,
\* validate_bins).
THEOREM ProgressIsMade == Spec => Progress
<1>1. BcdInv /\ ExtractInv => Counted
  BY RemainingCounted
<1>2. BcdInv /\ BcdInv' /\ ExtractInv /\ ExtractInv' /\ [Next]_vars =>
        UNCHANGED vars \/ Less(Remaining', Remaining)
  BY CommandLess, ExtractLess, PatchLess DEF Next, Finished
<1>3. Counted' <=> \A i \in 1..6 : Remaining'[i] \in Nat
  BY DEF Counted
<1>4. BcdInv /\ BcdInv' /\ ExtractInv /\ ExtractInv' /\ Counted' /\ [Next]_vars =>
        [(\A i \in 1..6 : Remaining'[i] \in Nat) /\ Less(Remaining', Remaining)]_vars
  BY <1>2, <1>3
<1> QED
  BY <1>1, <1>4, BcdAlways, ExtractAlways, PTL DEF Spec, Progress

-----------------------------------------------------------------------------
(* What the arguments of the whole line amount to.                         *)

\* process_cmdline has accepted the line.
Processed ==
    /\ Len(Line) \in Nat
    /\ \A i \in 1..Len(Line) : ~Rejects(Line[i]) /\ Line[i].val \in TypedTexts
    /\ args = Defaults(LineArgs(Line, Len(Line)))
    /\ answer = IF args.fsuuid # Empty /\ machine.reachable THEN machine.partition ELSE NoPartition

LineFields == LineArgs(Line, Len(Line))

\* When the loader hands over, the whole line was accepted.
LEMMA LineIsProcessed ==
    ASSUME LineInv, pc = "done", Line # NoLine
    PROVE  Processed
<1>1. Line \in Seq([key : STRING, val : TypedTexts])
  BY LineAssumption DEF LineInv, Line
<1>2. Len(Line) \in Nat /\ \A i \in 1..Len(Line) : Line[i] \in [key : STRING, val : TypedTexts]
  <2> DEFINE S == [key : STRING, val : TypedTexts]
  <2>1. Line \in Seq(S)
    BY <1>1
  <2> HIDE DEF S
  <2>2. Len(Line) \in Nat /\ \A i \in 1..Len(Line) : Line[i] \in S
    BY <2>1
  <2> QED
    BY <2>2 DEF S
<1>3. pos = Len(Line) + 1 /\ args = Defaults(LineArgs(Line, Len(Line)))
  BY DEF LineInv
<1>4. pos - 1 = Len(Line)
  BY <1>2, <1>3
<1>5. \A i \in 1..Len(Line) : ~Rejects(Line[i]) /\ Line[i].val \in TypedTexts
  BY <1>2, <1>4 DEF LineInv
<1>6. answer = IF args.fsuuid # Empty /\ machine.reachable THEN machine.partition ELSE NoPartition
  BY DEF LineInv
<1> QED
  BY <1>2, <1>3, <1>5, <1>6 DEF Processed

\* The last argument that sets a field.
LEMMA LastSetter ==
    ASSUME Processed, NEW f \in DOMAIN InitArgs, NEW S,
           \A i \in 1..Len(Line) : i \in S <=> f \in DOMAIN Sets(Line[i]), S \subseteq 1..Len(Line)
    PROVE  /\ S = {} => LineFields[f] = InitArgs[f]
           /\ S # {} => /\ LineFields[f] = Sets(Line[LastOf(S)])[f]
                        /\ LastOf(S) \in S /\ LastOf(S) \in 1..Len(Line)
                        /\ \A j \in S : j <= LastOf(S)
<1>1. Setters(Line, f, Len(Line)) = S
  BY DEF Setters
<1>2. Len(Line) \in Nat
  BY DEF Processed
<1> QED
  BY <1>1, <1>2, FieldOf, LastOfSet DEF LineFields

\* The same for a field that some keys set always.
LEMMA LastKey ==
    ASSUME Processed, NEW f \in DOMAIN InitArgs, NEW keys,
           \A a : f \in DOMAIN Sets(a) <=> a.key \in keys
    PROVE  /\ With(keys) = {} => LineFields[f] = InitArgs[f]
           /\ With(keys) # {} => /\ LineFields[f] = Sets(LastWith(keys))[f]
                                 /\ LastWith(keys).key \in keys
                                 /\ ~Rejects(LastWith(keys)) /\ LastWith(keys).val \in TypedTexts
<1> DEFINE S == With(keys)
<1>1. /\ \A i \in 1..Len(Line) : i \in S <=> f \in DOMAIN Sets(Line[i])
      /\ S \subseteq 1..Len(Line)
  BY DEF With
<1>2. LastWith(keys) = Line[LastOf(S)]
  BY DEF LastWith, LastOf
<1>3. \A i \in S : Line[i].key \in keys
  BY DEF With
<1> HIDE DEF S
<1>4. /\ S = {} => LineFields[f] = InitArgs[f]
      /\ S # {} => /\ LineFields[f] = Sets(Line[LastOf(S)])[f]
                   /\ LastOf(S) \in S /\ LastOf(S) \in 1..Len(Line)
  BY <1>1, LastSetter
<1>5. S # {} => /\ LineFields[f] = Sets(LastWith(keys))[f]
                /\ LastWith(keys).key \in keys
                /\ ~Rejects(LastWith(keys)) /\ LastWith(keys).val \in TypedTexts
  BY <1>2, <1>3, <1>4 DEF Processed
<1> QED
  BY <1>4, <1>5 DEF S

\* The last of some keys is the last of fewer if it is one of these.
LEMMA LastOfFewer ==
    ASSUME Processed, NEW keys, NEW some, some \subseteq keys,
           With(keys) # {}, LastWith(keys).key \in some
    PROVE  With(some) # {} /\ LastWith(some) = LastWith(keys)
<1> DEFINE i == LastOf(With(keys))
<1>1. With(keys) \subseteq 1..Len(Line) /\ With(some) \subseteq With(keys) /\ Len(Line) \in Nat
  BY DEF With, Processed
<1>2. i \in With(keys) /\ \A j \in With(keys) : j <= i
  BY <1>1, LastOfSet
<1>3. LastWith(keys) = Line[i] /\ LastWith(some) = Line[LastOf(With(some))]
  BY DEF LastWith, LastOf
<1>4. i \in With(some)
  BY <1>2, <1>3 DEF With
<1>5. LastOf(With(some)) = i
  <2> HIDE DEF i
  <2>1. With(some) \in SUBSET (1..Len(Line)) /\ With(some) # {}
    BY <1>1, <1>4
  <2>2. \A k \in With(some) : (\A j \in With(some) : j <= k) => k = LastOf(With(some))
    BY <2>1, <1>1, LastOfSet
  <2> QED
    BY <2>2, <1>1, <1>2, <1>4
<1> QED
  BY <1>3, <1>4, <1>5

\* An argument sets the field of its value, and what the key sets besides.
LEMMA SetsValue ==
    ASSUME NEW a, NEW f
    PROVE  /\ f \in DOMAIN Sets(a) <=> f \in DOMAIN OwnField(a) \/ f \in DOMAIN AlsoSets(a.key)
           /\ f \in DOMAIN OwnField(a) => Sets(a)[f] = OwnField(a)[f]
           /\ f \in DOMAIN AlsoSets(a.key) \ DOMAIN OwnField(a) => Sets(a)[f] = AlsoSets(a.key)[f]
  BY DEF Sets, Over

\* What some keys set besides.
LEMMA AlsoFacts ==
    ASSUME NEW key
    PROVE  /\ key \in {"altshell", "safemode"} => AlsoSets(key) = Field("safemode", BoolTrue)
           /\ key = "gfxmode" => AlsoSets(key) = Field("hires", BoolNA)
           /\ key \notin {"altshell", "safemode", "gfxmode"} => AlsoSets(key) = NoField
  BY DEF AlsoSets

\* The keys that set each field.
LEMMA FieldKeys ==
    ASSUME NEW a
    PROVE  /\ "testmode" \in DOMAIN Sets(a) <=> a.key \in {"testmode"}
           /\ "hal" \in DOMAIN Sets(a) <=> a.key \in {"detecthal"}
           /\ "minint" \in DOMAIN Sets(a) <=> a.key \in {"minint"}
           /\ "novga" \in DOMAIN Sets(a) <=> a.key \in {"novga"}
           /\ "novesa" \in DOMAIN Sets(a) <=> a.key \in {"novesa"}
           /\ "altshell" \in DOMAIN Sets(a) <=> a.key \in {"altshell"}
           /\ "exportcd" \in DOMAIN Sets(a) <=> a.key \in {"exportascd"}
           /\ "hires" \in DOMAIN Sets(a) <=> a.key \in {"hires", "gfxmode"}
           /\ "safemode" \in DOMAIN Sets(a) <=> a.key \in {"safemode", "altshell"}
           /\ "textmode" \in DOMAIN Sets(a) <=> a.key \in {"text", "f8", "edit"}
           /\ "advmenu" \in DOMAIN Sets(a) <=> a.key \in {"f8"}
           /\ "optedit" \in DOMAIN Sets(a) <=> a.key \in {"edit"}
           /\ "imgofs" \in DOMAIN Sets(a) <=> a.key \in {"imgofs"}
           /\ "loadopt" \in DOMAIN Sets(a) <=> a.key \in {"loadopt"}
           /\ "winload" \in DOMAIN Sets(a) <=> a.key \in {"winload"}
           /\ "sysroot" \in DOMAIN Sets(a) <=> a.key \in {"sysroot"}
           /\ "boottype" \in DOMAIN Sets(a) <=> a.key \in {"wim", "vhd", "ram", "file"}
           /\ "fsuuid" \in DOMAIN Sets(a) <=> a.key \in {"uuid"}
           /\ "filepath" \in DOMAIN Sets(a) <=> a.key \in {"wim", "vhd", "ram", "file"}
           /\ "timeout" \notin DOMAIN Sets(a)
<1> USE DEF Sets, OwnField, AlsoSets, TextSets, WordSets, TextField, FlagField, BoolField, WordField,
        Over, Field, NoField
<1>1. "testmode" \in DOMAIN Sets(a) <=> a.key \in {"testmode"}
  OBVIOUS
<1>2. "hal" \in DOMAIN Sets(a) <=> a.key \in {"detecthal"}
  OBVIOUS
<1>3. "minint" \in DOMAIN Sets(a) <=> a.key \in {"minint"}
  OBVIOUS
<1>4. "novga" \in DOMAIN Sets(a) <=> a.key \in {"novga"}
  OBVIOUS
<1>5. "novesa" \in DOMAIN Sets(a) <=> a.key \in {"novesa"}
  OBVIOUS
<1>6. "altshell" \in DOMAIN Sets(a) <=> a.key \in {"altshell"}
  OBVIOUS
<1>7. "exportcd" \in DOMAIN Sets(a) <=> a.key \in {"exportascd"}
  OBVIOUS
<1>8. "hires" \in DOMAIN Sets(a) <=> a.key \in {"hires", "gfxmode"}
  OBVIOUS
<1>9. "safemode" \in DOMAIN Sets(a) <=> a.key \in {"safemode", "altshell"}
  OBVIOUS
<1>10. "textmode" \in DOMAIN Sets(a) <=> a.key \in {"text", "f8", "edit"}
  OBVIOUS
<1>11. "advmenu" \in DOMAIN Sets(a) <=> a.key \in {"f8"}
  OBVIOUS
<1>12. "optedit" \in DOMAIN Sets(a) <=> a.key \in {"edit"}
  OBVIOUS
<1>13. "imgofs" \in DOMAIN Sets(a) <=> a.key \in {"imgofs"}
  OBVIOUS
<1>14. "loadopt" \in DOMAIN Sets(a) <=> a.key \in {"loadopt"}
  OBVIOUS
<1>15. "winload" \in DOMAIN Sets(a) <=> a.key \in {"winload"}
  OBVIOUS
<1>16. "sysroot" \in DOMAIN Sets(a) <=> a.key \in {"sysroot"}
  OBVIOUS
<1>17. "boottype" \in DOMAIN Sets(a) <=> a.key \in {"wim", "vhd", "ram", "file"}
  OBVIOUS
<1>18. "fsuuid" \in DOMAIN Sets(a) <=> a.key \in {"uuid"}
  OBVIOUS
<1>19. "filepath" \in DOMAIN Sets(a) <=> a.key \in {"wim", "vhd", "ram", "file"}
  OBVIOUS
<1>20. "timeout" \notin DOMAIN Sets(a)
  OBVIOUS
<1> HIDE DEF Sets
<1> QED
  BY <1>1, <1>2, <1>3, <1>4, <1>5, <1>6, <1>7, <1>8, <1>9, <1>10, <1>11, <1>12, <1>13, <1>14, <1>15, <1>16, <1>17, <1>18, <1>19, <1>20

\* A key with a boolean sets its field to that.
LEMMA BoolSets ==
    ASSUME NEW a, a.key \in DOMAIN BoolField
    PROVE  Sets(a)[BoolField[a.key]] = ConvertBool(a.val)
<1> DEFINE f == BoolField[a.key]
<1>1. OwnField(a) = Field(f, ConvertBool(a.val))
  BY OwnFields
<1> HIDE DEF f
<1>2. f \in DOMAIN OwnField(a) /\ OwnField(a)[f] = ConvertBool(a.val)
  BY <1>1, FieldFacts
<1>3. Sets(a)[f] = ConvertBool(a.val)
  BY <1>2, SetsValue
<1> QED
  BY <1>3 DEF f

\* The fields of the keys with a boolean.
LEMMA BoolFields ==
    /\ {"testmode", "hires", "detecthal", "minint", "novga", "novesa", "altshell", "exportascd"} \subseteq DOMAIN BoolField
    /\ BoolField["testmode"] = "testmode" /\ BoolField["hires"] = "hires" /\ BoolField["detecthal"] = "hal"
    /\ BoolField["minint"] = "minint" /\ BoolField["novga"] = "novga" /\ BoolField["novesa"] = "novesa"
    /\ BoolField["altshell"] = "altshell" /\ BoolField["exportascd"] = "exportcd"
  BY DEF BoolField

\* A key that needs no value sets its fields to true.
LEMMA FlagSets ==
    ASSUME NEW a
    PROVE  /\ a.key \in {"text", "f8", "edit"} => Sets(a)["textmode"] = BoolTrue
           /\ a.key = "f8" => Sets(a)["advmenu"] = BoolTrue
           /\ a.key = "edit" => Sets(a)["optedit"] = BoolTrue
<1>1. /\ FlagField["text"] = {"textmode"} /\ FlagField["f8"] = {"advmenu", "textmode"}
      /\ FlagField["edit"] = {"optedit", "textmode"}
  BY DEF FlagField
<1>2. a.key \in {"text", "f8", "edit"} => OwnField(a) = [f \in FlagField[a.key] |-> BoolTrue]
  BY OwnFields, KeyKinds
<1>3. \A f : a.key \in {"text", "f8", "edit"} /\ f \in FlagField[a.key] => Sets(a)[f] = BoolTrue
  BY <1>2, SetsValue
<1> QED
  BY <1>1, <1>3

\* A text sets its field.
LEMMA TextSet ==
    ASSUME NEW a, a.key \in DOMAIN TextField
    PROVE  LET t == TextField[a.key] IN Sets(a)[t[1]] = ConvertPath(Cut(a.val, t[2]), t[3])
<1> DEFINE t == TextField[a.key]
           text == ConvertPath(Cut(a.val, t[2]), t[3])
<1>1. OwnField(a) = TextSets(a)
  BY OwnFields
<1>2. t[1] \in DOMAIN TextSets(a) /\ TextSets(a)[t[1]] = text
  BY TextFields
<1> HIDE DEF text, t
<1>3. Sets(a)[t[1]] = text
  BY <1>1, <1>2, SetsValue
<1> QED
  BY <1>3 DEF t, text

\* The field, the buffer and the separators of the keys with a text.
LEMMA TextKinds ==
    /\ TextField["loadopt"] = <<"loadopt", 128, FALSE>> /\ TextField["winload"] = <<"winload", 64, TRUE>>
    /\ TextField["sysroot"] = <<"sysroot", 32, TRUE>>
    /\ \A k \in {"wim", "vhd", "ram", "file"} : TextField[k] = <<"filepath", 256, TRUE>>
<1>1. /\ TextField["loadopt"] = <<"loadopt", 128, FALSE>> /\ TextField["winload"] = <<"winload", 64, TRUE>>
      /\ TextField["sysroot"] = <<"sysroot", 32, TRUE>>
  BY DEF TextField
<1>2. /\ TextField["wim"] = <<"filepath", 256, TRUE>> /\ TextField["vhd"] = <<"filepath", 256, TRUE>>
      /\ TextField["ram"] = <<"filepath", 256, TRUE>> /\ TextField["file"] = <<"filepath", 256, TRUE>>
  BY DEF TextField
<1> QED
  BY <1>1, <1>2

\* The other fields.
LEMMA OtherSets ==
    ASSUME NEW a
    PROVE  /\ a.key = "uuid" => Sets(a)["fsuuid"] = Cut(a.val, 17)
           /\ a.key = "imgofs" => Sets(a)["imgofs"] = a.val.len
           /\ a.key \in {"safemode", "altshell"} => Sets(a)["safemode"] = BoolTrue
           /\ a.key = "gfxmode" => Sets(a)["hires"] = BoolNA
<1>1. ASSUME a.key = "uuid"
      PROVE  Sets(a)["fsuuid"] = Cut(a.val, 17)
  <2>1. OwnField(a) = Field("fsuuid", Cut(a.val, 17))
    BY <1>1, OwnFields
  <2>2. "fsuuid" \in DOMAIN OwnField(a) /\ OwnField(a)["fsuuid"] = Cut(a.val, 17)
    BY <2>1, FieldFacts
  <2> QED
    BY <2>2, SetsValue
<1>2. ASSUME a.key = "imgofs"
      PROVE  Sets(a)["imgofs"] = a.val.len
  <2>1. OwnField(a) = Field("imgofs", a.val.len)
    BY <1>2, OwnFields
  <2> DEFINE v == a.val.len
  <2>2. "imgofs" \in DOMAIN OwnField(a) /\ OwnField(a)["imgofs"] = v
    <3> HIDE DEF v
    <3>1. DOMAIN Field("imgofs", v) = {"imgofs"} /\ Field("imgofs", v)["imgofs"] = v
      BY FieldFacts
    <3> QED
      BY <2>1, <3>1 DEF v
  <2> QED
    BY <2>2, SetsValue
<1>3. ASSUME a.key \in {"safemode", "altshell"}
      PROVE  Sets(a)["safemode"] = BoolTrue
  <2>1. "safemode" \notin DOMAIN OwnField(a)
    BY <1>3 DEF OwnField, WordSets, TextField, FlagField, BoolField, WordField, Field, NoField
  <2>2. AlsoSets(a.key) = Field("safemode", BoolTrue)
    BY <1>3, AlsoFacts
  <2>3. "safemode" \in DOMAIN AlsoSets(a.key) /\ AlsoSets(a.key)["safemode"] = BoolTrue
    BY <2>2, FieldFacts
  <2> QED
    BY <2>1, <2>3, SetsValue
<1>4. ASSUME a.key = "gfxmode"
      PROVE  Sets(a)["hires"] = BoolNA
  <2>1. "hires" \notin DOMAIN OwnField(a)
    BY <1>4 DEF OwnField, WordSets, TextField, FlagField, BoolField, WordField, Field, NoField
  <2>2. AlsoSets(a.key) = Field("hires", BoolNA)
    BY <1>4, AlsoFacts
  <2>3. "hires" \in DOMAIN AlsoSets(a.key) /\ AlsoSets(a.key)["hires"] = BoolNA
    BY <2>2, FieldFacts
  <2> QED
    BY <2>1, <2>3, SetsValue
<1> QED
  BY <1>1, <1>2, <1>3, <1>4

\* A word sets its field if it is one of the choices, or none.
LEMMA WordSet ==
    ASSUME NEW a, a.key \in DOMAIN WordField
    PROVE  LET f == WordField[a.key]
           IN  /\ a.val = NoText => DOMAIN WordSets(a) = {f} /\ WordSets(a)[f] = 0
               /\ a.val # NoText /\ a.val.text \in DOMAIN Words[a.key] =>
                        DOMAIN WordSets(a) = {f} /\ WordSets(a)[f] = Words[a.key][a.val.text]
               /\ a.val # NoText /\ a.val.text \notin DOMAIN Words[a.key] => DOMAIN WordSets(a) = {}
               /\ OwnField(a) = WordSets(a)
<1> DEFINE f == WordField[a.key]
<1>1. WordSets(a) =
        CASE a.val = NoText -> Field(f, 0)
          [] a.val # NoText /\ a.val.text \in DOMAIN Words[a.key] -> Field(f, Words[a.key][a.val.text])
          [] OTHER -> NoField
  BY DEF WordSets
<1>2. DOMAIN NoField = {}
  BY DEF NoField
<1> HIDE DEF f
<1>3. /\ a.val = NoText => WordSets(a) = Field(f, 0)
      /\ a.val # NoText /\ a.val.text \in DOMAIN Words[a.key] => WordSets(a) = Field(f, Words[a.key][a.val.text])
      /\ a.val # NoText /\ a.val.text \notin DOMAIN Words[a.key] => WordSets(a) = NoField
  BY <1>1
<1>4. \A v : DOMAIN Field(f, v) = {f} /\ Field(f, v)[f] = v
  BY FieldFacts
<1>5. OwnField(a) = WordSets(a)
  BY OwnFields
<1>6. /\ a.val = NoText => DOMAIN WordSets(a) = {f} /\ WordSets(a)[f] = 0
      /\ a.val # NoText /\ a.val.text \in DOMAIN Words[a.key] =>
            DOMAIN WordSets(a) = {f} /\ WordSets(a)[f] = Words[a.key][a.val.text]
      /\ a.val # NoText /\ a.val.text \notin DOMAIN Words[a.key] => DOMAIN WordSets(a) = {}
  BY <1>2, <1>3, <1>4
<1> QED
  BY <1>5, <1>6 DEF f

\* A text that is cut and converted, in the form in which Windows reads it.
LEMMA TextForm ==
    ASSUME NEW v \in TypedTexts, NEW most \in Nat
    PROVE  LET Form(b) == [text |-> v.text, space |-> TRUE, back |-> b,
                           len |-> IF v.len > most THEN most ELSE v.len,
                           ext |-> IF v.len > most THEN "" ELSE v.ext]
           IN  /\ ConvertPath(Cut(v, most + 1), TRUE) = Form(TRUE)
               /\ ConvertPath(Cut(v, most + 1), FALSE) = Form(FALSE)
<1> DEFINE c == Cut(v, most + 1)
           n == IF v.len > most THEN most ELSE v.len
           e == IF v.len > most THEN "" ELSE v.ext
<1>1. /\ v.len \in Nat /\ v.back = FALSE
      /\ v = [text |-> v.text, len |-> v.len, ext |-> v.ext, back |-> v.back, space |-> v.space]
  BY DEF TypedTexts
<1>2. c = [text |-> v.text, len |-> n, ext |-> e, back |-> FALSE, space |-> v.space]
  <2>1. CASE v.len > most
    <3>1. ~(v.len < most + 1) /\ (most + 1) - 1 = most
      BY <1>1, <2>1
    <3>2. c = [v EXCEPT !.len = most, !.ext = ""]
      BY <3>1 DEF Cut
    <3> QED
      BY <3>2, <1>1, <2>1
  <2>2. CASE ~(v.len > most)
    <3>1. v.len < most + 1
      BY <1>1, <2>2
    <3>2. c = v
      BY <3>1 DEF Cut
    <3> QED
      BY <3>2, <1>1, <2>2
  <2> QED
    BY <2>1, <2>2
<1> HIDE DEF c, n, e
<1>3. ConvertPath(c, TRUE) = [text |-> v.text, len |-> n, ext |-> e, back |-> TRUE, space |-> TRUE]
  <2> DEFINE b == c.back \/ TRUE
  <2>1. ConvertPath(c, TRUE) = [c EXCEPT !.space = TRUE, !.back = b]
    BY DEF ConvertPath
  <2>2. c.back = FALSE
    BY <1>2
  <2>3. b = TRUE
    BY <2>2
  <2> HIDE DEF b
  <2> QED
    BY <1>2, <2>1, <2>3
<1>4. ConvertPath(c, FALSE) = [text |-> v.text, len |-> n, ext |-> e, back |-> FALSE, space |-> TRUE]
  <2> DEFINE b == c.back \/ FALSE
  <2>1. ConvertPath(c, FALSE) = [c EXCEPT !.space = TRUE, !.back = b]
    BY DEF ConvertPath
  <2>2. c.back = FALSE
    BY <1>2
  <2>3. b = FALSE
    BY <2>2
  <2> HIDE DEF b
  <2> QED
    BY <1>2, <2>1, <2>3
<1>5. \A b : [text |-> v.text, len |-> n, ext |-> e, back |-> b, space |-> TRUE]
             = [text |-> v.text, space |-> TRUE, back |-> b, len |-> n, ext |-> e]
  OBVIOUS
<1> QED
  BY <1>3, <1>4, <1>5 DEF c, n, e

\* What the defaults leave alone, and what they set.
LEMMA DefaultsSet ==
    ASSUME Processed
    PROVE  LET unset == IF LineFields["boottype"] = "WIM" THEN BoolTrue ELSE BoolFalse
           IN  /\ \A f \in DOMAIN InitArgs \ {"hires", "minint", "winload"} : args[f] = LineFields[f]
               /\ args["hires"] = IF LineFields["hires"] = BoolUnset THEN unset ELSE LineFields["hires"]
               /\ args["minint"] = IF LineFields["minint"] = BoolUnset THEN unset ELSE LineFields["minint"]
               /\ args["winload"] = IF LineFields["winload"] # Empty THEN LineFields["winload"]
                                    ELSE IF LineFields["boottype"] = "WIM" THEN LongWinload ELSE ShortWinload
<1>1. DOMAIN LineFields = DOMAIN InitArgs /\ args = Defaults(LineFields)
  BY DEF LineFields, LineArgs, Processed
<1>2. {"hires", "minint", "winload", "boottype"} \subseteq DOMAIN InitArgs
  BY DEF InitArgs
<1> HIDE DEF LineFields
<1> QED
  BY <1>1, <1>2 DEF Defaults

\* The fields before the first argument.
LEMMA InitFields ==
    /\ {"textmode", "testmode", "hires", "hal", "minint", "novga", "novesa", "safemode", "altshell", "exportcd",
        "advmenu", "optedit", "nx", "pae", "timeout", "safeboot", "gfxmode", "imgofs", "loadopt", "winload",
        "sysroot", "boottype", "fsuuid", "filepath"} \subseteq DOMAIN InitArgs
    /\ InitArgs["textmode"] = BoolFalse /\ InitArgs["testmode"] = BoolFalse /\ InitArgs["hires"] = BoolUnset
    /\ InitArgs["hal"] = BoolTrue /\ InitArgs["minint"] = BoolUnset /\ InitArgs["novga"] = BoolFalse
    /\ InitArgs["novesa"] = BoolFalse /\ InitArgs["safemode"] = BoolFalse /\ InitArgs["altshell"] = BoolFalse
    /\ InitArgs["exportcd"] = BoolFalse /\ InitArgs["advmenu"] = BoolFalse /\ InitArgs["optedit"] = BoolFalse
    /\ InitArgs["nx"] = 0 /\ InitArgs["pae"] = 0 /\ InitArgs["timeout"] = 0 /\ InitArgs["safeboot"] = 0
    /\ InitArgs["gfxmode"] = 0 /\ InitArgs["imgofs"] = 65536 /\ InitArgs["loadopt"] = DefaultLoadOpt
    /\ InitArgs["winload"] = Empty /\ InitArgs["sysroot"] = DefaultSysroot /\ InitArgs["boottype"] = "WOS"
    /\ InitArgs["fsuuid"] = Empty /\ InitArgs["filepath"] = Empty
  BY DEF InitArgs

\* A field that one key sets to a boolean.
LEMMA BoolIsYesNo ==
    ASSUME Processed, NEW key \in DOMAIN BoolField, BoolField[key] \in DOMAIN InitArgs,
           \A a : BoolField[key] \in DOMAIN Sets(a) <=> a.key \in {key}
    PROVE  LineFields[BoolField[key]] = YesNo(key, InitArgs[BoolField[key]])
<1> DEFINE f == BoolField[key]
           a == LastWith({key})
<1>1. /\ With({key}) = {} => LineFields[f] = InitArgs[f]
      /\ With({key}) # {} => LineFields[f] = Sets(a)[f] /\ a.key = key
  <2> HIDE DEF f
  <2>1. f \in DOMAIN InitArgs /\ \A b : f \in DOMAIN Sets(b) <=> b.key \in {key}
    BY DEF f
  <2> QED
    BY <2>1, LastKey
<1>2. a.key = key => Sets(a)[f] = ConvertBool(a.val)
  BY BoolSets
<1>3. ConvertBool(a.val) = IF a.val = NoText \/ a.val.text \in {"yes", "true", "on", "1"}
                           THEN BoolTrue ELSE BoolFalse
  BY DEF ConvertBool
<1> HIDE DEF f, a
<1> QED
  BY <1>1, <1>2, <1>3 DEF YesNo, f, a

\* The booleans that one key each sets are what its last argument says.
LEMMA BoolsAreSet ==
    ASSUME Processed
    PROVE  /\ args.testmode = YesNo("testmode", BoolFalse) /\ args.hal = YesNo("detecthal", BoolTrue)
           /\ args.novga = YesNo("novga", BoolFalse) /\ args.novesa = YesNo("novesa", BoolFalse)
           /\ args.altshell = YesNo("altshell", BoolFalse) /\ args.exportcd = YesNo("exportascd", BoolFalse)
           /\ LineFields["minint"] = YesNo("minint", BoolUnset)
<1>1. /\ LineFields["testmode"] = YesNo("testmode", BoolFalse) /\ LineFields["hal"] = YesNo("detecthal", BoolTrue)
      /\ LineFields["novga"] = YesNo("novga", BoolFalse) /\ LineFields["novesa"] = YesNo("novesa", BoolFalse)
      /\ LineFields["altshell"] = YesNo("altshell", BoolFalse)
      /\ LineFields["exportcd"] = YesNo("exportascd", BoolFalse)
      /\ LineFields["minint"] = YesNo("minint", BoolUnset)
  <2>1. /\ \A a : "testmode" \in DOMAIN Sets(a) <=> a.key \in {"testmode"}
        /\ \A a : "hal" \in DOMAIN Sets(a) <=> a.key \in {"detecthal"}
        /\ \A a : "novga" \in DOMAIN Sets(a) <=> a.key \in {"novga"}
        /\ \A a : "novesa" \in DOMAIN Sets(a) <=> a.key \in {"novesa"}
        /\ \A a : "altshell" \in DOMAIN Sets(a) <=> a.key \in {"altshell"}
        /\ \A a : "exportcd" \in DOMAIN Sets(a) <=> a.key \in {"exportascd"}
        /\ \A a : "minint" \in DOMAIN Sets(a) <=> a.key \in {"minint"}
    BY FieldKeys
  <2>2. \A key \in DOMAIN BoolField :
            BoolField[key] \in DOMAIN InitArgs /\ (\A a : BoolField[key] \in DOMAIN Sets(a) <=> a.key \in {key}) =>
                LineFields[BoolField[key]] = YesNo(key, InitArgs[BoolField[key]])
    BY BoolIsYesNo
  <2> QED
    BY <2>1, <2>2, BoolFields, InitFields
<1> QED
  BY <1>1, DefaultsSet, InitFields

\* The field that some keys, and no others, set.
SetBy(f, keys) == f \in DOMAIN InitArgs /\ \A a : f \in DOMAIN Sets(a) <=> a.key \in keys

\* Such a field is what the last of the keys made it.
LEMMA LastSetBy ==
    ASSUME Processed, NEW f, NEW keys, SetBy(f, keys)
    PROVE  /\ With(keys) = {} => LineFields[f] = InitArgs[f]
           /\ With(keys) # {} => /\ LineFields[f] = Sets(LastWith(keys))[f]
                                 /\ LastWith(keys).key \in keys
                                 /\ ~Rejects(LastWith(keys)) /\ LastWith(keys).val \in TypedTexts
  BY LastKey DEF SetBy

\* The fields that are set whenever one of their keys is given.
LEMMA FieldsSetBy ==
    /\ SetBy("hires", {"hires", "gfxmode"}) /\ SetBy("safemode", {"safemode", "altshell"})
    /\ SetBy("textmode", {"text", "f8", "edit"}) /\ SetBy("advmenu", {"f8"}) /\ SetBy("optedit", {"edit"})
    /\ SetBy("imgofs", {"imgofs"}) /\ SetBy("loadopt", {"loadopt"}) /\ SetBy("winload", {"winload"})
    /\ SetBy("sysroot", {"sysroot"}) /\ SetBy("fsuuid", {"uuid"})
    /\ SetBy("boottype", PathKeys) /\ SetBy("filepath", PathKeys)
<1>1. /\ SetBy("hires", {"hires", "gfxmode"}) /\ SetBy("safemode", {"safemode", "altshell"})
      /\ SetBy("textmode", {"text", "f8", "edit"}) /\ SetBy("advmenu", {"f8"}) /\ SetBy("optedit", {"edit"})
  BY FieldKeys, InitFields DEF SetBy
<1>2. /\ SetBy("imgofs", {"imgofs"}) /\ SetBy("loadopt", {"loadopt"}) /\ SetBy("winload", {"winload"})
      /\ SetBy("sysroot", {"sysroot"}) /\ SetBy("fsuuid", {"uuid"})
  BY FieldKeys, InitFields DEF SetBy
<1>3. SetBy("boottype", PathKeys) /\ SetBy("filepath", PathKeys)
  BY FieldKeys, InitFields DEF SetBy, PathKeys
<1> QED
  BY <1>1, <1>2, <1>3

\* The boot type is that of the last path, and names the entry.
LEMMA TypeSet ==
    ASSUME Processed
    PROVE  /\ args.boottype = Type /\ Type \in {"WIM", "VHD", "RAM", "WOS"}
           /\ EntryGuid(args.boottype) = Entry
           /\ IfWim = IF LineFields["boottype"] = "WIM" THEN BoolTrue ELSE BoolFalse
<1> DEFINE a == LastWith(PathKeys)
<1>1. \A b : "boottype" \in DOMAIN Sets(b) <=> b.key \in PathKeys
  BY FieldKeys DEF PathKeys
<1>2. /\ With(PathKeys) = {} => LineFields["boottype"] = "WOS"
      /\ With(PathKeys) # {} => LineFields["boottype"] = Sets(a)["boottype"] /\ a.key \in PathKeys
  BY FieldsSetBy, LastSetBy, InitFields
<1>3. a.key \in PathKeys => Sets(a)["boottype"] = PathBootType(a)
  BY <1>1, BootTypeSet
<1>4. With(PathKeys) # {} => a.key \in {"wim", "vhd", "ram", "file"} /\ Type = PathBootType(a)
  BY <1>2 DEF Type, PathBootType, PathKeys
<1>5. LineFields["boottype"] = Type
  BY <1>2, <1>3, <1>4 DEF Type
<1>6. a.key \in {"wim", "vhd", "ram", "file"} => PathBootType(a) \in {"WIM", "VHD", "RAM", "WOS"}
  BY DEF PathBootType
<1>7. Type \in {"WIM", "VHD", "RAM", "WOS"}
  BY <1>4, <1>6 DEF Type
<1>8. args.boottype = LineFields["boottype"]
  BY DefaultsSet, InitFields
<1>9. EntryGuid(args.boottype) = Entry
  BY <1>5, <1>7, <1>8 DEF EntryGuid, Entry
<1> QED
  BY <1>5, <1>7, <1>8, <1>9 DEF IfWim

\* The command line makes the loader boot into safe mode.
SafeSet == With({"safemode", "altshell"}) # {}

\* The booleans that are not what one key says.
LEMMA FlagsAreSet ==
    ASSUME Processed
    PROVE  /\ args.textmode = Given({"text", "f8", "edit"}) /\ args.advmenu = Given({"f8"})
           /\ args.optedit = Given({"edit"})
           /\ args.safemode # BoolFalse <=> SafeSet
<1>1. args.textmode = Given({"text", "f8", "edit"})
  <2>1. /\ With({"text", "f8", "edit"}) = {} => LineFields["textmode"] = InitArgs["textmode"]
        /\ With({"text", "f8", "edit"}) # {} => /\ LineFields["textmode"] = Sets(LastWith({"text", "f8", "edit"}))["textmode"]
                             /\ LastWith({"text", "f8", "edit"}).key \in {"text", "f8", "edit"}
    BY FieldsSetBy, LastSetBy
  <2>2. args.textmode = LineFields["textmode"]
    BY DefaultsSet, InitFields
  <2> QED
    BY <2>1, <2>2, InitFields, FlagSets DEF Given
<1>2. args.advmenu = Given({"f8"})
  <2>1. /\ With({"f8"}) = {} => LineFields["advmenu"] = InitArgs["advmenu"]
        /\ With({"f8"}) # {} => /\ LineFields["advmenu"] = Sets(LastWith({"f8"}))["advmenu"]
                             /\ LastWith({"f8"}).key \in {"f8"}
    BY FieldsSetBy, LastSetBy
  <2>2. args.advmenu = LineFields["advmenu"]
    BY DefaultsSet, InitFields
  <2> QED
    BY <2>1, <2>2, InitFields, FlagSets DEF Given
<1>3. args.optedit = Given({"edit"})
  <2>1. /\ With({"edit"}) = {} => LineFields["optedit"] = InitArgs["optedit"]
        /\ With({"edit"}) # {} => /\ LineFields["optedit"] = Sets(LastWith({"edit"}))["optedit"]
                             /\ LastWith({"edit"}).key \in {"edit"}
    BY FieldsSetBy, LastSetBy
  <2>2. args.optedit = LineFields["optedit"]
    BY DefaultsSet, InitFields
  <2> QED
    BY <2>1, <2>2, InitFields, FlagSets DEF Given
<1>4. args.safemode # BoolFalse <=> SafeSet
  <2>1. /\ With({"safemode", "altshell"}) = {} => LineFields["safemode"] = InitArgs["safemode"]
        /\ With({"safemode", "altshell"}) # {} => /\ LineFields["safemode"] = Sets(LastWith({"safemode", "altshell"}))["safemode"]
                             /\ LastWith({"safemode", "altshell"}).key \in {"safemode", "altshell"}
    BY FieldsSetBy, LastSetBy
  <2>2. args.safemode = LineFields["safemode"]
    BY DefaultsSet, InitFields
  <2>3. BoolTrue # BoolFalse
    BY DEF BoolTrue, BoolFalse
  <2> QED
    BY <2>1, <2>2, <2>3, InitFields, OtherSets DEF SafeSet
<1> QED
  BY <1>1, <1>2, <1>3, <1>4

\* The two booleans that depend on the boot type if no argument sets them.
LEMMA MinintIsSet ==
    ASSUME Processed
    PROVE  args.minint = YesNo("minint", IfWim)
<1>1. args["minint"] = IF LineFields["minint"] = BoolUnset THEN IfWim ELSE LineFields["minint"]
  BY DefaultsSet, TypeSet
<1>2. LineFields["minint"] = YesNo("minint", BoolUnset)
  BY BoolsAreSet
<1>3. BoolTrue # BoolUnset /\ BoolFalse # BoolUnset
  BY DEF BoolTrue, BoolFalse, BoolUnset
<1> QED
  BY <1>1, <1>2, <1>3 DEF YesNo

\* A resolution after the last "hires" takes its place.
LEMMA HiresIsSet ==
    ASSUME Processed
    PROVE  /\ args.hires = BoolNA <=> Resolution
           /\ ~Resolution => args.hires = YesNo("hires", IfWim)
<1> DEFINE keys == {"hires", "gfxmode"}
           a == LastWith(keys)
<1>1. args["hires"] = IF LineFields["hires"] = BoolUnset THEN IfWim ELSE LineFields["hires"]
  BY DefaultsSet, TypeSet
<1>3. /\ With(keys) = {} => LineFields["hires"] = BoolUnset
      /\ With(keys) # {} => LineFields["hires"] = Sets(a)["hires"] /\ a.key \in keys
  BY FieldsSetBy, LastSetBy, InitFields
<1>4. /\ BoolTrue # BoolUnset /\ BoolFalse # BoolUnset /\ BoolTrue # BoolNA /\ BoolFalse # BoolNA
      /\ BoolNA # BoolUnset
  BY DEF BoolTrue, BoolFalse, BoolUnset, BoolNA
<1>5. IfWim \in {BoolTrue, BoolFalse} /\ \A v : ConvertBool(v) \in {BoolTrue, BoolFalse}
  BY DEF IfWim, ConvertBool
<1>6. CASE With(keys) = {}
  <2>1. With({"hires"}) = {} /\ ~Resolution
    BY <1>6 DEF With, Resolution
  <2> QED
    BY <2>1, <1>1, <1>3, <1>4, <1>5, <1>6 DEF YesNo
<1>7. CASE With(keys) # {} /\ a.key = "gfxmode"
  <2>1. LineFields["hires"] = BoolNA
    BY <1>3, <1>7, OtherSets
  <2> QED
    BY <2>1, <1>1, <1>4, <1>7 DEF Resolution
<1>8. CASE With(keys) # {} /\ a.key = "hires"
  <2>1. LineFields["hires"] = ConvertBool(a.val)
    BY <1>3, <1>8, BoolSets, BoolFields
  <2>2. With({"hires"}) # {} /\ LastWith({"hires"}) = a
    BY <1>8, LastOfFewer
  <2>3. YesNo("hires", IfWim) = ConvertBool(a.val)
    <3>1. ConvertBool(a.val) = IF a.val = NoText \/ a.val.text \in {"yes", "true", "on", "1"}
                               THEN BoolTrue ELSE BoolFalse
      BY DEF ConvertBool
    <3> QED
      BY <2>2, <3>1 DEF YesNo
  <2>4. args["hires"] = LineFields["hires"] /\ LineFields["hires"] # BoolNA
    BY <2>1, <1>1, <1>4, <1>5
  <2>5. ~Resolution
    BY <1>8 DEF Resolution
  <2> QED
    BY <2>1, <2>3, <2>4, <2>5
<1> QED
  BY <1>3, <1>6, <1>7, <1>8

\* The arguments that choose a word for a key.
Named(key) ==
    {i \in With({key}) : Line[i].val = NoText \/ Line[i].val.text \in DOMAIN Words[key]}

WordKeys == {"nx", "pae", "safemode", "gfxmode"}

\* The fields of the keys with named choices.
LEMMA WordFields ==
    /\ DOMAIN WordField = WordKeys
    /\ WordField["nx"] = "nx" /\ WordField["pae"] = "pae" /\ WordField["safemode"] = "safeboot"
    /\ WordField["gfxmode"] = "gfxmode"
    /\ \A j, k \in WordKeys : WordField[j] = WordField[k] => j = k
<1>1. /\ DOMAIN WordField = WordKeys
      /\ WordField["nx"] = "nx" /\ WordField["pae"] = "pae" /\ WordField["safemode"] = "safeboot"
      /\ WordField["gfxmode"] = "gfxmode"
  BY DEF WordField, WordKeys
<1> QED
  BY <1>1 DEF WordKeys

\* A choice is set by its key if the word is one of the list, or missing.
LEMMA WordsSet ==
    ASSUME NEW a, NEW key \in WordKeys
    PROVE  LET f == WordField[key]
           IN  /\ f \in DOMAIN Sets(a) <=>
                    a.key = key /\ (a.val = NoText \/ a.val.text \in DOMAIN Words[key])
               /\ f \in DOMAIN Sets(a) => Sets(a)[f] = IF a.val = NoText THEN 0 ELSE Words[key][a.val.text]
<1> DEFINE f == WordField[key]
<1>1. f \in {"nx", "pae", "safeboot", "gfxmode"}
  BY WordFields DEF WordKeys
<1>2. f \notin DOMAIN AlsoSets(a.key)
  BY <1>1 DEF AlsoSets, Field, NoField
<1>3. a.key \notin WordKeys => f \notin DOMAIN OwnField(a)
  <2>1. ASSUME a.key \notin WordKeys, f \in DOMAIN OwnField(a)
        PROVE  FALSE
    <3>1. a.key \notin {"nx", "pae", "safemode", "gfxmode"}
      BY <2>1 DEF WordKeys
    <3> HIDE DEF f
    <3>2. "nx" \notin DOMAIN OwnField(a)
      BY <3>1 DEF OwnField, TextSets, TextField, FlagField, BoolField, WordField, Over, Field, NoField
    <3>3. "pae" \notin DOMAIN OwnField(a)
      BY <3>1 DEF OwnField, TextSets, TextField, FlagField, BoolField, WordField, Over, Field, NoField
    <3>4. "safeboot" \notin DOMAIN OwnField(a)
      BY <3>1 DEF OwnField, TextSets, TextField, FlagField, BoolField, WordField, Over, Field, NoField
    <3>5. "gfxmode" \notin DOMAIN OwnField(a)
      BY <3>1 DEF OwnField, TextSets, TextField, FlagField, BoolField, WordField, Over, Field, NoField
    <3> QED
      BY <1>1, <2>1, <3>2, <3>3, <3>4, <3>5
  <2> QED
    BY <2>1
<1>4. ASSUME a.key \in WordKeys
      PROVE  LET g == WordField[a.key]
             IN  /\ a.val = NoText => DOMAIN OwnField(a) = {g} /\ OwnField(a)[g] = 0
                 /\ a.val # NoText /\ a.val.text \in DOMAIN Words[a.key] =>
                        DOMAIN OwnField(a) = {g} /\ OwnField(a)[g] = Words[a.key][a.val.text]
                 /\ a.val # NoText /\ a.val.text \notin DOMAIN Words[a.key] => DOMAIN OwnField(a) = {}
  BY <1>4, WordSet, WordFields
<1>5. a.key \in WordKeys => (WordField[a.key] = f <=> a.key = key)
  BY WordFields
<1>6. /\ f \in DOMAIN Sets(a) <=> f \in DOMAIN OwnField(a)
      /\ f \in DOMAIN OwnField(a) => Sets(a)[f] = OwnField(a)[f]
  BY <1>2, SetsValue
<1> HIDE DEF f
<1>7. CASE a.key \notin WordKeys
  BY <1>3, <1>6, <1>7 DEF f
<1>8. CASE a.key \in WordKeys /\ a.key # key
  BY <1>4, <1>5, <1>6, <1>8 DEF f
<1>9. CASE a.key = key
  BY <1>4, <1>5, <1>6, <1>9 DEF f
<1> QED
  BY <1>7, <1>8, <1>9

\* An option with named choices: the last argument that names one.
LEMMA ChoiceIsSet ==
    ASSUME Processed, NEW key \in WordKeys, WordField[key] \in DOMAIN InitArgs, InitArgs[WordField[key]] = 0
    PROVE  LineFields[WordField[key]] = Choice(key)
<1> DEFINE f == WordField[key]
           S == Named(key)
           last == LastOf(S)
<1>1. S \subseteq 1..Len(Line)
  BY DEF Named, With
<1>2. \A i \in 1..Len(Line) : i \in S <=> f \in DOMAIN Sets(Line[i])
  <2>1. \A a : f \in DOMAIN Sets(a) <=> a.key = key /\ (a.val = NoText \/ a.val.text \in DOMAIN Words[key])
    BY WordsSet
  <2>2. \A i \in 1..Len(Line) : i \in S <=> /\ Line[i].key = key
                                            /\ Line[i].val = NoText \/ Line[i].val.text \in DOMAIN Words[key]
    BY DEF Named, With
  <2> HIDE DEF f, S
  <2> QED
    BY <2>1, <2>2
<1>3. Choice(key) = IF S = {} \/ Line[last].val = NoText THEN 0 ELSE Words[key][Line[last].val.text]
  BY DEF Choice, Named, LastOf
<1>4. f \in DOMAIN Sets(Line[last]) =>
        Sets(Line[last])[f] = IF Line[last].val = NoText THEN 0 ELSE Words[key][Line[last].val.text]
  <2> HIDE DEF last
  <2> QED
    BY WordsSet
<1>5. /\ S = {} => LineFields[f] = InitArgs[f]
      /\ S # {} => LineFields[f] = Sets(Line[last])[f] /\ last \in S /\ last \in 1..Len(Line)
  <2> HIDE DEF f, S
  <2>1. f \in DOMAIN InitArgs
    BY DEF f
  <2> QED
    BY <1>1, <1>2, <2>1, LastSetter
<1> HIDE DEF f, S, last
<1>6. InitArgs[f] = 0
  BY DEF f
<1>7. LineFields[f] = Choice(key)
  BY <1>2, <1>3, <1>4, <1>5, <1>6
<1> QED
  BY <1>7 DEF f

\* The choices are what the last known words say.
LEMMA ChoicesAreSet ==
    ASSUME Processed
    PROVE  /\ args.nx = Choice("nx") /\ args.pae = Choice("pae") /\ args.safeboot = Choice("safemode")
           /\ args.gfxmode = Choice("gfxmode")
<1>1. /\ LineFields["nx"] = Choice("nx") /\ LineFields["pae"] = Choice("pae")
      /\ LineFields["safeboot"] = Choice("safemode") /\ LineFields["gfxmode"] = Choice("gfxmode")
  BY ChoiceIsSet, WordFields, InitFields DEF WordKeys
<1> QED
  BY <1>1, DefaultsSet, InitFields

\* A key of a text: its field, the characters it keeps, and its separators.
Keeps(key, f, most) ==
    /\ key \in DOMAIN TextField /\ most \in Nat
    /\ TextField[key][1] = f /\ TextField[key][2] = most + 1
    /\ IF key = "loadopt" THEN TextField[key][3] = FALSE ELSE TextField[key][3] = TRUE

\* How much of each text is kept.
LEMMA TextsKept ==
    /\ Keeps("loadopt", "loadopt", 127) /\ Keeps("winload", "winload", 63) /\ Keeps("sysroot", "sysroot", 31)
    /\ \A key \in PathKeys : Keeps(key, "filepath", 255)
<1>1. Keeps("loadopt", "loadopt", 127) /\ Keeps("winload", "winload", 63) /\ Keeps("sysroot", "sysroot", 31)
  BY TextKinds, KeyKinds DEF Keeps
<1>2. ASSUME NEW key \in PathKeys
      PROVE  Keeps(key, "filepath", 255)
  <2>1. TextField[key] = <<"filepath", 256, TRUE>> /\ key \in DOMAIN TextField /\ key # "loadopt"
    BY TextKinds, KeyKinds DEF PathKeys
  <2>2. TextField[key][1] = "filepath" /\ TextField[key][2] = 255 + 1 /\ TextField[key][3] = TRUE
    BY <2>1
  <2> QED
    BY <2>1, <2>2 DEF Keeps
<1> QED
  BY <1>1, <1>2

\* The last text with a key; once it is converted it is not empty.
LEMMA TextIsSet ==
    ASSUME Processed, NEW key, NEW f, NEW most, Keeps(key, f, most), With({key}) # {},
           LastWith({key}).key = key, LastWith({key}).val \in TypedTexts, NEW default
    PROVE  /\ Sets(LastWith({key}))[f] = Text(key, default, most)
           /\ Text(key, default, most) # Empty
<1> DEFINE a == LastWith({key})
           v == a.val
           t == TextField[key]
           Form(x) == [text |-> v.text, space |-> TRUE, back |-> x,
                       len |-> IF v.len > most THEN most ELSE v.len,
                       ext |-> IF v.len > most THEN "" ELSE v.ext]
<1>1. Sets(a)[t[1]] = ConvertPath(Cut(v, t[2]), t[3])
  BY TextSet DEF Keeps
<1> DEFINE b == key # "loadopt"
<1>2. t[1] = f /\ t[2] = most + 1 /\ t[3] = b /\ key \in DOMAIN TextField /\ most \in Nat
  BY DEF Keeps
<1>3. ConvertPath(Cut(v, most + 1), TRUE) = Form(TRUE) /\ ConvertPath(Cut(v, most + 1), FALSE) = Form(FALSE)
  BY <1>2, TextForm
<1>4. Text(key, default, most) = Form(key # "loadopt")
  BY DEF Text
<1>5. b = TRUE \/ b = FALSE
  OBVIOUS
<1>6. \A x : Form(x).space = TRUE /\ Form(x).len \in 0..most
  <2>1. v.len \in Nat
    BY DEF TypedTexts
  <2> HIDE DEF v
  <2>2. (IF v.len > most THEN most ELSE v.len) \in 0..most
    BY <2>1, <1>2
  <2> QED
    BY <2>2
<1>7. Form(key # "loadopt") = Form(b)
  BY <1>5
<1>8. Empty.space = FALSE
  BY DEF Empty, NoText
<1> HIDE DEF Form, t, v, a
<1>9. Sets(a)[t[1]] = Form(b)
  BY <1>1, <1>2, <1>3, <1>5
<1>10. Form(b) # Empty
  BY <1>6, <1>8
<1> QED
  BY <1>2, <1>4, <1>6, <1>7, <1>9, <1>10 DEF a

\* It has at most the characters that are kept.
LEMMA TextFits ==
    ASSUME NEW key, NEW default, NEW most \in Nat, With({key}) # {}, LastWith({key}).val \in TypedTexts
    PROVE  Text(key, default, most).len \in 0..most
<1> DEFINE n == LastWith({key}).val.len
<1>1. n \in Nat
  BY DEF TypedTexts
<1>2. Text(key, default, most).len = IF n > most THEN most ELSE n
  BY DEF Text
<1> HIDE DEF n
<1> QED
  BY <1>1, <1>2

\* The texts, their defaults, and the room each has.
LEMMA TextsAreSet ==
    ASSUME Processed
    PROVE  /\ args.loadopt = Text("loadopt", DefaultLoadOpt, 127)
           /\ args.sysroot = Text("sysroot", DefaultSysroot, 31)
           /\ args.winload = Text("winload", IF Type = "WIM" THEN LongWinload ELSE ShortWinload, 63)
<1>1. {"loadopt", "sysroot", "winload"} \subseteq DOMAIN TextField
  BY KeyKinds
<1>2. args.loadopt = Text("loadopt", DefaultLoadOpt, 127)
  <2>1. args.loadopt = LineFields["loadopt"]
    BY DefaultsSet, InitFields
  <2>2. CASE With({"loadopt"}) = {}
    BY <2>1, <2>2, FieldsSetBy, LastSetBy, InitFields DEF Text
  <2>3. CASE With({"loadopt"}) # {}
    <3>1. LineFields["loadopt"] = Sets(LastWith({"loadopt"}))["loadopt"]
      BY <2>3, FieldsSetBy, LastSetBy
    <3>2. LastWith({"loadopt"}).key = "loadopt" /\ LastWith({"loadopt"}).val \in TypedTexts
      BY <2>3, FieldsSetBy, LastSetBy
    <3>3. \A d : Sets(LastWith({"loadopt"}))["loadopt"] = Text("loadopt", d, 127) /\ Text("loadopt", d, 127) # Empty
      BY <2>3, <3>2, TextsKept, TextIsSet
    <3> QED
      BY <2>1, <3>1, <3>3
  <2> QED
    BY <2>2, <2>3
<1>3. args.sysroot = Text("sysroot", DefaultSysroot, 31)
  <2>1. args.sysroot = LineFields["sysroot"]
    BY DefaultsSet, InitFields
  <2>2. CASE With({"sysroot"}) = {}
    BY <2>1, <2>2, FieldsSetBy, LastSetBy, InitFields DEF Text
  <2>3. CASE With({"sysroot"}) # {}
    <3>1. LineFields["sysroot"] = Sets(LastWith({"sysroot"}))["sysroot"]
      BY <2>3, FieldsSetBy, LastSetBy
    <3>2. LastWith({"sysroot"}).key = "sysroot" /\ LastWith({"sysroot"}).val \in TypedTexts
      BY <2>3, FieldsSetBy, LastSetBy
    <3>3. \A d : Sets(LastWith({"sysroot"}))["sysroot"] = Text("sysroot", d, 31) /\ Text("sysroot", d, 31) # Empty
      BY <2>3, <3>2, TextsKept, TextIsSet
    <3> QED
      BY <2>1, <3>1, <3>3
  <2> QED
    BY <2>2, <2>3
<1>4. args.winload = Text("winload", IF Type = "WIM" THEN LongWinload ELSE ShortWinload, 63)
  <2>1. args["winload"] = IF LineFields["winload"] # Empty THEN LineFields["winload"]
                          ELSE IF Type = "WIM" THEN LongWinload ELSE ShortWinload
    <3>1. args.boottype = LineFields["boottype"]
      BY DefaultsSet, InitFields
    <3> QED
      BY <3>1, DefaultsSet, TypeSet
  <2>2. CASE With({"winload"}) = {}
    BY <2>1, <2>2, FieldsSetBy, LastSetBy, InitFields DEF Text
  <2>3. CASE With({"winload"}) # {}
    <3>1. LineFields["winload"] = Sets(LastWith({"winload"}))["winload"]
      BY <2>3, FieldsSetBy, LastSetBy
    <3>2. LastWith({"winload"}).key = "winload" /\ LastWith({"winload"}).val \in TypedTexts
      BY <2>3, FieldsSetBy, LastSetBy
    <3>3. \A d : Sets(LastWith({"winload"}))["winload"] = Text("winload", d, 63) /\ Text("winload", d, 63) # Empty
      BY <2>3, <3>2, TextsKept, TextIsSet
    <3> QED
      BY <2>1, <3>1, <3>3
  <2> QED
    BY <2>2, <2>3
<1> QED
  BY <1>2, <1>3, <1>4

\* The path is that of the last argument that names one.
LEMMA PathIsSet ==
    ASSUME Processed
    PROVE  args.filepath = Path /\ (Path = Empty \/ Path.len \in 0..255)
<1> DEFINE a == LastWith(PathKeys)
<1>1. args.filepath = LineFields["filepath"]
  BY DefaultsSet, InitFields
<1>2. /\ With(PathKeys) = {} => LineFields["filepath"] = Empty
      /\ With(PathKeys) # {} => /\ LineFields["filepath"] = Sets(a)["filepath"] /\ a.key \in PathKeys
                                /\ a.val \in TypedTexts
  BY FieldsSetBy, LastSetBy, InitFields
<1>3. CASE With(PathKeys) = {}
  BY <1>1, <1>2, <1>3 DEF Path
<1>4. CASE With(PathKeys) # {}
  <2> DEFINE key == a.key
  <2>1. key \in PathKeys /\ {key} \subseteq PathKeys /\ key \in {key}
    BY <1>2, <1>4
  <2>2. With({key}) # {} /\ LastWith({key}) = a
    BY <1>4, <2>1, LastOfFewer
  <2>3. Keeps(key, "filepath", 255)
    BY <2>1, TextsKept
  <2>5. LastWith({key}).key = key /\ LastWith({key}).val \in TypedTexts
    BY <1>2, <1>4, <2>2
  <2>6. Path = Text(key, Empty, 255)
    BY <1>4 DEF Path
  <2> HIDE DEF key, a
  <2>7. Sets(LastWith({key}))["filepath"] = Text(key, Empty, 255)
    BY <2>2, <2>3, <2>5, TextIsSet
  <2>9. Text(key, Empty, 255).len \in 0..255
    BY <2>2, <2>5, TextFits
  <2>8. Sets(a)["filepath"] = Path /\ Path.len \in 0..255
    BY <2>2, <2>6, <2>7, <2>9
  <2> QED
    BY <1>1, <1>2, <1>4, <2>8
<1> QED
  BY <1>3, <1>4

\* Whether a UUID is given, and the two numbers.
LEMMA UuidIsSet ==
    ASSUME Processed
    PROVE  args.fsuuid # Empty <=> With({"uuid"}) # {}
<1> DEFINE a == LastWith({"uuid"})
<1>1. args.fsuuid = LineFields["fsuuid"]
  BY DefaultsSet, InitFields
<1>2. /\ With({"uuid"}) = {} => LineFields["fsuuid"] = Empty
      /\ With({"uuid"}) # {} => /\ LineFields["fsuuid"] = Sets(a)["fsuuid"] /\ a.key = "uuid"
                                /\ ~Rejects(a) /\ a.val \in TypedTexts
  BY FieldsSetBy, LastSetBy, InitFields
<1>3. ASSUME With({"uuid"}) # {}
      PROVE  Sets(a)["fsuuid"] # Empty
  <2>1. Sets(a)["fsuuid"] = Cut(a.val, 17)
    BY <1>2, <1>3, OtherSets
  <2>2. a.val # Empty
    BY <1>2, <1>3 DEF Rejects, NeedsValue
  <2>3. CASE a.val.len < 17
    BY <2>1, <2>2, <2>3 DEF Cut
  <2>4. CASE ~(a.val.len < 17)
    <3>1. Cut(a.val, 17) = [a.val EXCEPT !.len = 16, !.ext = ""]
      BY <2>4 DEF Cut
    <3>2. Cut(a.val, 17).len = 16
      BY <1>2, <1>3, <3>1 DEF TypedTexts
    <3>3. Empty.len = 0
      BY DEF Empty, NoText
    <3> QED
      BY <2>1, <3>2, <3>3
  <2> QED
    BY <2>3, <2>4
<1> QED
  BY <1>1, <1>2, <1>3

\* The offset of the image is the last one given; nothing sets the timeout.
LEMMA NumbersAreSet ==
    ASSUME Processed
    PROVE  /\ args.imgofs = IF With({"imgofs"}) = {} THEN 65536 ELSE LastWith({"imgofs"}).val.len
           /\ args.timeout = 0
<1>1. args.imgofs = LineFields["imgofs"] /\ args.timeout = LineFields["timeout"]
  BY DefaultsSet, InitFields
<1>2. LineFields["imgofs"] = IF With({"imgofs"}) = {} THEN 65536 ELSE LastWith({"imgofs"}).val.len
  <2>1. /\ With({"imgofs"}) = {} => LineFields["imgofs"] = InitArgs["imgofs"]
        /\ With({"imgofs"}) # {} => /\ LineFields["imgofs"] = Sets(LastWith({"imgofs"}))["imgofs"]
                                    /\ LastWith({"imgofs"}).key = "imgofs"
    BY FieldsSetBy, LastSetBy
  <2> QED
    BY <2>1, OtherSets, InitFields
<1>3. LineFields["timeout"] = InitArgs["timeout"]
  <2> DEFINE f == "timeout"
  <2>1. f \in DOMAIN InitArgs /\ \A i \in 1..Len(Line) : i \in {} <=> f \in DOMAIN Sets(Line[i])
    BY FieldKeys, InitFields
  <2> HIDE DEF f
  <2>2. {} \subseteq 1..Len(Line)
    OBVIOUS
  <2>3. LineFields[f] = InitArgs[f]
    BY <2>1, <2>2, LastSetter
  <2> QED
    BY <2>3 DEF f
<1> QED
  BY <1>1, <1>2, <1>3, InitFields

-----------------------------------------------------------------------------
(* What each patch writes is what the documentation promises, or the       *)
(* element is one of those in which the loader departs from it.            *)
Matches(p) ==
    LET s == Target(p)
    IN  \/ Departs(s)
        \/ IF p.op = "delete" THEN s \in Absent
           ELSE /\ s \notin Absent /\ s[2] \in DOMAIN WantedIn(s[1])
                /\ ReplaceIn(Content(p, args, answer, SlotValue(s).len), machine.efi) = WantedIn(s[1])[s[2]]

\* What is promised for an element.
Promised(o, e, content) ==
    <<o, e>> \notin Absent /\ e \in DOMAIN WantedIn(o) /\ WantedIn(o)[e] = content

IsText(s) ==
    /\ s = [text |-> s.text, len |-> s.len, ext |-> s.ext, back |-> s.back, space |-> s.space]
    /\ s.len \in Nat

\* A text loses nothing in a value that is long enough.
LEMMA TextFitsValue ==
    ASSUME NEW s, IsText(s), NEW n \in Nat, s.len <= n
    PROVE  Ucs2(s, n) = s
  BY DEF Ucs2, IsText

\* bcd_replace_suffix leaves a text alone that does not end like a program.
LEMMA RightIsPlain ==
    ASSUME NEW s, NEW room, s.ext \notin SmallExts
    PROVE  RightExt(s, room, machine.efi) = s
  BY DEF RightExt, OldExt, SmallExts

\* It corrects the extension of a program that leaves room for the zero at its end.
LEMMA RightIsCorrected ==
    ASSUME NEW s, NEW room \in Nat, s.len < room, s.ext \notin WrongExts \ SmallExts
    PROVE  RightExt(s, room, machine.efi) = Corrected(s)
<1>1. s.ext = OldExt(machine.efi) <=> s.ext \in WrongExts
  <2>1. OldExt(machine.efi) \in WrongExts
    BY DEF OldExt, WrongExts, ExeExts, EfiExts
  <2>2. WrongExts \cap SmallExts = {OldExt(machine.efi)}
    BY DEF OldExt, WrongExts, ExeExts, EfiExts, SmallExts
  <2> QED
    BY <2>1, <2>2
<1> QED
  BY <1>1 DEF RightExt, Corrected, NewExt

\* A patch does what is promised of its element: a deletion.
LEMMA DeleteMatches ==
    ASSUME NEW o, NEW e, <<o, e>> \in Absent
    PROVE  Matches(Delete(o, e))
<1>1. Delete(o, e).op = "delete"
  BY DEF Delete
<1> QED
  BY <1>1, PatchTarget DEF Matches

\* A boolean.
LEMMA BoolMatches ==
    ASSUME NEW o, NEW e, NEW v, Promised(o, e, [byte |-> v])
    PROVE  Matches(PatchBool(o, e, v))
<1> DEFINE p == PatchBool(o, e, v)
           s == <<o, e>>
<1>1. p.op = "bool" /\ p.val = v
  BY DEF PatchBool
<1>2. Target(p) = s /\ s[1] = o /\ s[2] = e
  BY PatchTarget
<1> HIDE DEF p, s
<1>3. \A len : Content(p, args, answer, len) = [byte |-> v]
  BY <1>1 DEF Content
<1>4. ReplaceIn([byte |-> v], machine.efi) = [byte |-> v]
  BY DEF ReplaceIn
<1>5. s \notin Absent /\ e \in DOMAIN WantedIn(o) /\ WantedIn(o)[e] = [byte |-> v]
  BY DEF s, Promised
<1>6. Matches(p)
  BY <1>1, <1>2, <1>3, <1>4, <1>5 DEF Matches
<1> QED
  BY <1>6 DEF p

\* A number.
LEMMA U64Matches ==
    ASSUME NEW o, NEW e, NEW v, Promised(o, e, [u64 |-> v])
    PROVE  Matches(PatchU64(o, e, v))
<1> DEFINE p == PatchU64(o, e, v)
           s == <<o, e>>
<1>1. p.op = "u64" /\ p.val = v
  BY DEF PatchU64
<1>2. Target(p) = s /\ s[1] = o /\ s[2] = e
  BY PatchTarget
<1> HIDE DEF p, s
<1>3. \A len : Content(p, args, answer, len) = [u64 |-> v]
  BY <1>1 DEF Content
<1>4. ReplaceIn([u64 |-> v], machine.efi) = [u64 |-> v]
  BY DEF ReplaceIn
<1>5. s \notin Absent /\ e \in DOMAIN WantedIn(o) /\ WantedIn(o)[e] = [u64 |-> v]
  BY DEF s, Promised
<1>6. Matches(p)
  BY <1>1, <1>2, <1>3, <1>4, <1>5 DEF Matches
<1> QED
  BY <1>6 DEF p

\* A text, as bcd_replace_suffix leaves it.
LEMMA SzMatches ==
    ASSUME NEW o, NEW e, NEW v, IsText(v), NEW n, HasSlot(o, e, n), NEW room \in Nat, n \div 2 = room,
           v.len < room, NEW w, Promised(o, e, [text |-> w, room |-> room]),
           ~Departs(<<o, e>>) => RightExt(v, room, machine.efi) = w
    PROVE  Matches(PatchSz(o, e, v))
<1> DEFINE p == PatchSz(o, e, v)
           s == <<o, e>>
<1>1. p.op = "sz" /\ p.val = v
  BY DEF PatchSz
<1>2. Target(p) = s /\ s[1] = o /\ s[2] = e /\ SlotValue(s).len = n
  BY PatchTarget DEF HasSlot
<1> HIDE DEF p, s
<1>3. Ucs2(v, room) = v
  <2>1. v.len <= room
    BY DEF IsText
  <2> QED
    BY <2>1, TextFitsValue
<1>4. Content(p, args, answer, n) = [text |-> v, room |-> room]
  <2>1. Content(p, args, answer, n) = [text |-> Ucs2(p.val, n \div 2), room |-> n \div 2]
    BY <1>1 DEF Content
  <2> QED
    BY <1>1, <1>3, <2>1
<1>5. ReplaceIn([text |-> v, room |-> room], machine.efi) = [text |-> RightExt(v, room, machine.efi), room |-> room]
  BY DEF ReplaceIn
<1>6. s \notin Absent /\ e \in DOMAIN WantedIn(o) /\ WantedIn(o)[e] = [text |-> w, room |-> room]
  BY DEF s, Promised
<1>7. ~Departs(s) => RightExt(v, room, machine.efi) = w
  BY DEF s
<1>8. Matches(p)
  BY <1>1, <1>2, <1>4, <1>5, <1>6, <1>7 DEF Matches
<1> QED
  BY <1>8 DEF p

\* A text that is not a program, and a program.
LEMMA CharsMatch ==
    ASSUME NEW o, NEW e, NEW v, IsText(v), NEW n, HasSlot(o, e, n), NEW room \in Nat, n \div 2 = room,
           v.len < room, Promised(o, e, Chars(v, room)), v.ext \in SmallExts => Departs(<<o, e>>)
    PROVE  Matches(PatchSz(o, e, v))
<1>1. ~Departs(<<o, e>>) => RightExt(v, room, machine.efi) = v
  BY RightIsPlain
<1>2. Promised(o, e, [text |-> v, room |-> room])
  BY DEF Chars
<1> QED
  BY <1>1, <1>2, SzMatches

LEMMA ProgramMatches ==
    ASSUME NEW o, NEW e, NEW v, IsText(v), NEW n, HasSlot(o, e, n), NEW room \in Nat, n \div 2 = room,
           v.len < room, Promised(o, e, Program(v, room)),
           v.ext \in WrongExts \ SmallExts => Departs(<<o, e>>)
    PROVE  Matches(PatchSz(o, e, v))
<1>1. ~Departs(<<o, e>>) => RightExt(v, room, machine.efi) = Corrected(v)
  BY RightIsCorrected
<1>2. Promised(o, e, [text |-> Corrected(v), room |-> room])
  BY DEF Program
<1> QED
  BY <1>1, <1>2, SzMatches

\* A reference to the entry: it has no extension.
LEMMA SzwMatches ==
    ASSUME NEW o, NEW e, NEW g, NEW n, HasSlot(o, e, n), NEW room, n \div 2 = room,
           Promised(o, e, [text |-> Native(g, 38, ""), room |-> room])
    PROVE  Matches(PatchSzw(o, e, g))
<1> DEFINE p == PatchSzw(o, e, g)
           s == <<o, e>>
           v == Native(g, 38, "")
<1>1. p.op = "szw" /\ p.val = g
  BY DEF PatchSzw
<1>2. Target(p) = s /\ s[1] = o /\ s[2] = e /\ SlotValue(s).len = n
  BY PatchTarget DEF HasSlot
<1>3. v.ext = ""
  BY DEF Native
<1> HIDE DEF p, s
<1>4. Content(p, args, answer, n) = [text |-> v, room |-> room]
  BY <1>1 DEF Content
<1> HIDE DEF v
<1>5. RightExt(v, room, machine.efi) = v
  BY <1>3 DEF RightExt, OldExt
<1>6. ReplaceIn([text |-> v, room |-> room], machine.efi) = [text |-> RightExt(v, room, machine.efi), room |-> room]
  BY DEF ReplaceIn
<1>7. s \notin Absent /\ e \in DOMAIN WantedIn(o) /\ WantedIn(o)[e] = [text |-> v, room |-> room]
  BY DEF s, v, Promised
<1>8. Matches(p)
  BY <1>1, <1>2, <1>4, <1>5, <1>6, <1>7 DEF Matches
<1> QED
  BY <1>8 DEF p

\* The path of a device, with the identity of the partition found.
LEMMA DpMatches ==
    ASSUME NEW o, NEW e, NEW b, NEW n, HasSlot(o, e, n), NEW path, IsText(path), path.len <= 255,
           path = IF b \in {"WIM", "VHD", "RAM"} THEN args.filepath ELSE Empty,
           args.fsuuid # Empty <=> With({"uuid"}) # {},
           answer = IF args.fsuuid # Empty /\ machine.reachable THEN machine.partition ELSE NoPartition,
           Promised(o, e, Device(DpForm(b).form, path, n)), path.ext \in SmallExts => Departs(<<o, e>>)
    PROVE  Matches(PatchDp(o, e, b))
<1> DEFINE p == PatchDp(o, e, b)
           s == <<o, e>>
           type == IF With({"uuid"}) = {} THEN "boot" ELSE "disk"
           form == DpForm(b).form
<1>1. p.op = "dp" /\ p.val = b
  BY DEF PatchDp
<1>2. Target(p) = s /\ s[1] = o /\ s[2] = e /\ SlotValue(s).len = n
  BY PatchTarget DEF HasSlot
<1> HIDE DEF p, s
<1>3. /\ Ucs2(path, 255) = path
      /\ ~Departs(s) => RightExt(path, PathRoom(form), machine.efi) = path
  BY TextFitsValue, RightIsPlain DEF s
<1>4. /\ answer = IF With({"uuid"}) # {} /\ machine.reachable THEN machine.partition ELSE NoPartition
      /\ type = IF args.fsuuid # Empty THEN "disk" ELSE "boot"
  OBVIOUS
<1>5. Content(p, args, answer, n) = DevicePath(b, args, answer, n)
  BY <1>1 DEF Content
<1>6. (IF b \in {"WIM", "VHD", "RAM"} THEN Ucs2(args.filepath, 255) ELSE Empty) = path
  BY <1>3
<1>7. DevicePath(b, args, answer, n) = [form |-> form, type |-> type, identity |-> answer, path |-> path, room |-> n]
  <2>1. DevicePath(b, args, answer, n) =
            [form |-> form, type |-> IF args.fsuuid # Empty THEN "disk" ELSE "boot", identity |-> answer,
             path |-> IF b \in {"WIM", "VHD", "RAM"} THEN Ucs2(args.filepath, 255) ELSE Empty, room |-> n]
    BY DEF DevicePath
  <2> HIDE DEF type, form
  <2> QED
    BY <2>1, <1>4, <1>6
<1>8. Device(form, path, n) = [form |-> form, path |-> path, room |-> n, type |-> type, identity |-> answer]
  <2>1. Device(form, path, n) =
            [form |-> form, path |-> path, room |-> n, type |-> type,
             identity |-> IF With({"uuid"}) # {} /\ machine.reachable THEN machine.partition ELSE NoPartition]
    BY DEF Device
  <2> HIDE DEF type, form
  <2> QED
    BY <2>1, <1>4
<1> HIDE DEF type, form
<1>9. ReplaceIn([form |-> form, type |-> type, identity |-> answer, path |-> path, room |-> n], machine.efi) =
        [form |-> form, type |-> type, identity |-> answer, path |-> RightExt(path, PathRoom(form), machine.efi), room |-> n]
  BY DEF ReplaceIn
<1>10. \A x : [form |-> form, type |-> type, identity |-> answer, path |-> x, room |-> n]
              = [form |-> form, path |-> x, room |-> n, type |-> type, identity |-> answer]
  OBVIOUS
<1>11. s \notin Absent /\ e \in DOMAIN WantedIn(o) /\ WantedIn(o)[e] = Device(form, path, n)
  BY DEF s, form, Promised
<1>12. ~Departs(s) => ReplaceIn(Content(p, args, answer, n), machine.efi) = WantedIn(o)[e]
  BY <1>3, <1>5, <1>7, <1>8, <1>9, <1>10, <1>11
<1>13. Matches(p)
  BY <1>1, <1>2, <1>11, <1>12 DEF Matches
<1> QED
  BY <1>13 DEF p

\* The elements that must not be there.
LEMMA AbsentFacts ==
    ASSUME NEW o, NEW e
    PROVE  <<o, e>> \in Absent <=>
               \/ o = "RAMDISK" /\ Type = "RAM" /\ e \in {"SDIDEV", "SDIPATH"}
               \/ o = "RAMDISK" /\ Type # "RAM" /\ e \in {"EXPORTCD", "IMGOFS"}
               \/ o = "OPTN" /\ Resolution /\ e = "HIGHRES"
               \/ o = "OPTN" /\ ~Resolution /\ e = "GFXMODE"
               \/ o = "OPTN" /\ ~Safe /\ e \in {"SAFEMODE", "ALTSHELL"}
  BY DEF Absent

\* The entry is one of three.
LEMMA EntryKnown ==
    ASSUME Processed
    PROVE  /\ Entry \in {"VHDB", "WOSB", "WIMB"}
           /\ Type = "VHD" => Entry = "VHDB"
           /\ Type = "WOS" => Entry = "WOSB"
           /\ Type \in {"WIM", "RAM"} => Entry = "WIMB"
  BY TypeSet DEF Entry

\* What is promised for each object.
LEMMA WantedObjects ==
    ASSUME Processed
    PROVE  /\ WantedIn("OPTN") = WantedOption /\ WantedIn("BOOTMGR") = WantedBootmgr
           /\ WantedIn("HIBR") = WantedResume /\ WantedIn("RAMDISK") = WantedRamdisk
           /\ WantedIn(Entry) = WantedEntry
<1>4. Entry \in {"VHDB", "WOSB", "WIMB"}
  BY EntryKnown
<1>1. WantedIn("OPTN") = WantedOption
  BY <1>4 DEF WantedIn
<1>2. WantedIn("BOOTMGR") = WantedBootmgr
  BY <1>4 DEF WantedIn
<1>3. WantedIn("HIBR") = WantedResume
  BY <1>4 DEF WantedIn
<1>5. WantedIn("RAMDISK") = WantedRamdisk
  BY <1>4 DEF WantedIn
<1>6. WantedIn(Entry) = WantedEntry
  BY <1>4 DEF WantedIn
<1> QED
  BY <1>1, <1>2, <1>3, <1>5, <1>6

\* The promises for the options.
LEMMA PromisedOptions ==
    ASSUME Processed
    PROVE  /\ Promised("OPTN", "CMDLINE", Chars(LoadOptions, 128))
           /\ Promised("OPTN", "TESTMODE", [byte |-> YesNo("testmode", BoolFalse)])
           /\ Promised("OPTN", "DETHAL", [byte |-> YesNo("detecthal", BoolTrue)])
           /\ Promised("OPTN", "WINPE", [byte |-> YesNo("minint", IfWim)])
           /\ Promised("OPTN", "NOVGA", [byte |-> YesNo("novga", BoolFalse)])
           /\ Promised("OPTN", "NOVESA", [byte |-> YesNo("novesa", BoolFalse)])
           /\ Promised("OPTN", "ADVOPT", [byte |-> Given({"f8"})])
           /\ Promised("OPTN", "OPTEDIT", [byte |-> Given({"edit"})])
           /\ Promised("OPTN", "TEXT", [byte |-> Given({"text", "f8", "edit"})])
           /\ Promised("OPTN", "NX", [u64 |-> Choice("nx")])
           /\ Promised("OPTN", "PAE", [u64 |-> Choice("pae")])
           /\ ~Resolution => Promised("OPTN", "HIGHRES", [byte |-> YesNo("hires", IfWim)])
           /\ Resolution => Promised("OPTN", "GFXMODE", [u64 |-> Choice("gfxmode")])
           /\ Safe => /\ Promised("OPTN", "SAFEMODE", [u64 |-> Choice("safemode")])
                      /\ Promised("OPTN", "ALTSHELL", [byte |-> YesNo("altshell", BoolFalse)])
<1>1. \A e : <<"OPTN", e>> \in Absent <=>
                \/ Resolution /\ e = "HIGHRES"
                \/ ~Resolution /\ e = "GFXMODE"
                \/ ~Safe /\ e \in {"SAFEMODE", "ALTSHELL"}
  BY AbsentFacts
<1>2. WantedIn("OPTN") = WantedOption
  BY WantedObjects
<1> USE <1>1, <1>2 DEF Promised, WantedOption
<1>3. Promised("OPTN", "CMDLINE", Chars(LoadOptions, 128))
  OBVIOUS
<1>4. Promised("OPTN", "TESTMODE", [byte |-> YesNo("testmode", BoolFalse)])
  OBVIOUS
<1>5. Promised("OPTN", "DETHAL", [byte |-> YesNo("detecthal", BoolTrue)])
  OBVIOUS
<1>6. Promised("OPTN", "WINPE", [byte |-> YesNo("minint", IfWim)])
  OBVIOUS
<1>7. Promised("OPTN", "NOVGA", [byte |-> YesNo("novga", BoolFalse)])
  OBVIOUS
<1>8. Promised("OPTN", "NOVESA", [byte |-> YesNo("novesa", BoolFalse)])
  OBVIOUS
<1>9. Promised("OPTN", "ADVOPT", [byte |-> Given({"f8"})])
  OBVIOUS
<1>10. Promised("OPTN", "OPTEDIT", [byte |-> Given({"edit"})])
  OBVIOUS
<1>11. Promised("OPTN", "TEXT", [byte |-> Given({"text", "f8", "edit"})])
  OBVIOUS
<1>12. Promised("OPTN", "NX", [u64 |-> Choice("nx")])
  OBVIOUS
<1>13. Promised("OPTN", "PAE", [u64 |-> Choice("pae")])
  OBVIOUS
<1>14. ~Resolution => Promised("OPTN", "HIGHRES", [byte |-> YesNo("hires", IfWim)])
  OBVIOUS
<1>15. Resolution => Promised("OPTN", "GFXMODE", [u64 |-> Choice("gfxmode")])
  OBVIOUS
<1>16. Safe => Promised("OPTN", "SAFEMODE", [u64 |-> Choice("safemode")])
  OBVIOUS
<1>17. Safe => Promised("OPTN", "ALTSHELL", [byte |-> YesNo("altshell", BoolFalse)])
  OBVIOUS
<1> HIDE <1>1, <1>2 DEF Promised, WantedOption
<1> QED
  BY <1>3, <1>4, <1>5, <1>6, <1>7, <1>8, <1>9, <1>10, <1>11, <1>12, <1>13, <1>14, <1>15, <1>16, <1>17

\* Those for the boot manager.
LEMMA PromisedManager ==
    ASSUME Processed
    PROVE  /\ Promised("BOOTMGR", "OBJECT", [text |-> Native(Entry, 38, ""), room |-> 39])
           /\ Promised("BOOTMGR", "ORDER", [text |-> Native(Entry, 38, ""), room |-> 40])
           /\ Promised("BOOTMGR", "TIMEOUT", [u64 |-> 0])
<1>1. \A e : <<"BOOTMGR", e>> \notin Absent
  BY AbsentFacts
<1> DEFINE v == Native(Entry, 38, "")
<1>2. WantedBootmgr = [OBJECT |-> [text |-> v, room |-> 39], ORDER |-> [text |-> v, room |-> 40],
                       TIMEOUT |-> [u64 |-> 0]]
  BY DEF WantedBootmgr
<1>3. WantedIn("BOOTMGR") = WantedBootmgr
  BY WantedObjects
<1> HIDE DEF v
<1>4. /\ DOMAIN WantedBootmgr = {"OBJECT", "ORDER", "TIMEOUT"}
      /\ WantedBootmgr["OBJECT"] = [text |-> v, room |-> 39] /\ WantedBootmgr["ORDER"] = [text |-> v, room |-> 40]
      /\ WantedBootmgr["TIMEOUT"] = [u64 |-> 0]
  BY <1>2
<1> QED
  BY <1>1, <1>3, <1>4 DEF Promised, v

\* Those for the entry that resumes.
LEMMA PromisedResume ==
    ASSUME Processed
    PROVE  /\ Promised("HIBR", "APPDEV", Device("partition", Empty, 88))
           /\ Promised("HIBR", "OSDDEV", Device("partition", Empty, 88))
           /\ Promised("HIBR", "WINLOAD", Program(DefaultWinresume, 64))
           /\ Promised("HIBR", "SYSROOT", Chars(DefaultHiberfil, 64))
<1>1. \A e : <<"HIBR", e>> \notin Absent
  BY AbsentFacts
<1> QED
  BY <1>1, WantedObjects DEF Promised, WantedResume

\* Those for the RAM disk.
LEMMA PromisedRamdisk ==
    ASSUME Processed, Type = "RAM"
    PROVE  /\ Promised("RAMDISK", "EXPORTCD", [byte |-> YesNo("exportascd", BoolFalse)])
           /\ Promised("RAMDISK", "IMGOFS",
                [u64 |-> IF With({"imgofs"}) = {} THEN 65536 ELSE LastWith({"imgofs"}).val.len])
<1>1. \A e : <<"RAMDISK", e>> \in Absent <=> e \in {"SDIDEV", "SDIPATH"}
  BY AbsentFacts
<1> QED
  BY <1>1, WantedObjects DEF Promised, WantedRamdisk

\* Those for the entry of the boot type.
LEMMA PromisedEntry ==
    ASSUME Processed
    PROVE  /\ Promised(Entry, "APPDEV", EntryDevice)
           /\ Promised(Entry, "OSDDEV", EntryDevice)
           /\ Promised(Entry, "WINLOAD", Program(Winload, 64))
           /\ Promised(Entry, "SYSROOT", Chars(SystemRoot, 32))
<1>1. Entry # "OPTN" /\ Entry # "RAMDISK"
  BY EntryKnown
<1>2. \A e : <<Entry, e>> \notin Absent
  BY <1>1, AbsentFacts
<1> QED
  BY <1>2, WantedObjects DEF Promised, WantedEntry

\* The texts are texts, and short enough.
Room(n) == n \in Nat

\* The characters that are kept are natural numbers.
LEMMA Rooms == Room(31) /\ Room(63) /\ Room(127) /\ Room(255)
  BY DEF Room

\* A text of the command line is a text.
LEMMA TextIsText ==
    ASSUME NEW key, NEW most, Room(most), With({key}) # {}, LastWith({key}).val \in TypedTexts, NEW default
    PROVE  IsText(Text(key, default, most))
<1> DEFINE v == LastWith({key}).val
           n == IF v.len > most THEN most ELSE v.len
           e == IF v.len > most THEN "" ELSE v.ext
           b == key # "loadopt"
           t == v.text
<1>1. Text(key, default, most) = [text |-> t, space |-> TRUE, back |-> b, len |-> n, ext |-> e]
  BY DEF Text
<1>2. n \in Nat
  <2>1. v.len \in Nat
    BY DEF TypedTexts
  <2> HIDE DEF v
  <2> QED
    BY <2>1 DEF Room
<1> HIDE DEF v, n, e, b, t
<1>3. [text |-> t, space |-> TRUE, back |-> b, len |-> n, ext |-> e]
        = [text |-> t, len |-> n, ext |-> e, back |-> b, space |-> TRUE]
  OBVIOUS
<1> QED
  BY <1>1, <1>2, <1>3 DEF IsText

\* So are the defaults, and short ones.
LEMMA DefaultsAreTexts ==
    /\ IsText(DefaultLoadOpt) /\ DefaultLoadOpt.len = 25
    /\ IsText(LongWinload) /\ LongWinload.len = 34 /\ IsText(ShortWinload) /\ ShortWinload.len = 29
    /\ IsText(DefaultWinresume) /\ DefaultWinresume.len = 31
    /\ IsText(DefaultSysroot) /\ DefaultSysroot.len = 8
    /\ IsText(DefaultHiberfil) /\ DefaultHiberfil.len = 13
    /\ IsText(Empty) /\ Empty.len = 0 /\ Empty.ext = ""
<1>1. IsText(DefaultLoadOpt) /\ DefaultLoadOpt.len = 25
  <2> DEFINE a == "DISABLE_INTEGRITY_CHECKS"
             n == 25
             e == ""
             b == FALSE
             c == TRUE
  <2>1. DefaultLoadOpt = [[text |-> a, len |-> n, ext |-> e, back |-> c, space |-> c] EXCEPT !.back = b]
    BY DEF DefaultLoadOpt, Native
  <2>2. n \in Nat
    OBVIOUS
  <2> HIDE DEF a, n, e, b, c
  <2>3. DefaultLoadOpt = [text |-> a, len |-> n, ext |-> e, back |-> b, space |-> c]
    BY <2>1
  <2>4. IsText(DefaultLoadOpt) /\ DefaultLoadOpt.len = n
    BY <2>2, <2>3 DEF IsText
  <2> QED
    BY <2>4 DEF n
<1>2. IsText(Empty) /\ Empty.len = 0 /\ Empty.ext = ""
  <2> DEFINE a == "none"
             t == ""
             n == 0
             b == FALSE
  <2>1. Empty = [[text |-> a, len |-> n, ext |-> t, back |-> b, space |-> b] EXCEPT !.text = t]
    BY DEF Empty, NoText
  <2>2. n \in Nat
    OBVIOUS
  <2> HIDE DEF a, t, n, b
  <2>3. Empty = [text |-> t, len |-> n, ext |-> t, back |-> b, space |-> b]
    BY <2>1
  <2>4. IsText(Empty) /\ Empty.len = n /\ Empty.ext = t
    BY <2>2, <2>3 DEF IsText
  <2> QED
    BY <2>4 DEF n, t
<1>3. IsText(LongWinload) /\ LongWinload.len = 34 /\ IsText(ShortWinload) /\ ShortWinload.len = 29
  BY DEF LongWinload, ShortWinload, Native, IsText
<1>4. IsText(DefaultWinresume) /\ DefaultWinresume.len = 31
  BY DEF DefaultWinresume, Native, IsText
<1>5. IsText(DefaultSysroot) /\ DefaultSysroot.len = 8 /\ IsText(DefaultHiberfil) /\ DefaultHiberfil.len = 13
  BY DEF DefaultSysroot, DefaultHiberfil, Native, IsText
<1> QED
  BY <1>1, <1>2, <1>3, <1>4, <1>5

\* A text of the command line, or its default, is shorter than the value of its element.
LEMMA TextGood ==
    ASSUME Processed, NEW key, NEW f, SetBy(f, {key}), NEW most, Room(most), NEW default, IsText(default), default.len <= most
    PROVE  IsText(Text(key, default, most)) /\ Text(key, default, most).len <= most
<1>1. CASE With({key}) = {}
  <2>1. Text(key, default, most) = default
    BY <1>1 DEF Text
  <2>2. default.len \in Nat /\ most \in Nat
    BY DEF IsText, Room
  <2> QED
    BY <2>1, <2>2
<1>2. CASE With({key}) # {}
  <2>1. LastWith({key}).val \in TypedTexts
    BY <1>2, LastSetBy
  <2>2. IsText(Text(key, default, most))
    BY <1>2, <2>1, TextIsText
  <2>3. most \in Nat
    BY DEF Room
  <2>4. Text(key, default, most).len \in 0..most
    BY <1>2, <2>1, <2>3, TextFits
  <2> QED
    BY <2>2, <2>3, <2>4
<1> QED
  BY <1>1, <1>2

\* So is the path.
LEMMA PathGood ==
    ASSUME Processed
    PROVE  IsText(Path) /\ Path.len <= 255
<1> DEFINE a == LastWith(PathKeys)
           key == a.key
<1>1. CASE With(PathKeys) = {}
  <2>1. Path = Empty
    BY <1>1 DEF Path
  <2>2. IsText(Path) /\ Path.len = 0
    BY <2>1, DefaultsAreTexts
  <2> QED
    BY <2>2
<1>2. CASE With(PathKeys) # {}
  <2>1. key \in PathKeys /\ a.val \in TypedTexts
    BY <1>2, FieldsSetBy, LastSetBy
  <2>2. With({key}) # {} /\ LastWith({key}) = a
    <3>1. {key} \subseteq PathKeys /\ key \in {key}
      BY <2>1
    <3> QED
      BY <1>2, <3>1, LastOfFewer
  <2>3. Path = Text(key, Empty, 255)
    BY <1>2 DEF Path
  <2> HIDE DEF key, a
  <2>4. LastWith({key}).val \in TypedTexts
    BY <2>1, <2>2
  <2>5. IsText(Text(key, Empty, 255))
    BY <2>2, <2>4, Rooms, TextIsText
  <2>6. Text(key, Empty, 255).len \in 0..255
    BY <2>2, <2>4, TextFits
  <2> QED
    BY <2>3, <2>5, <2>6
<1> QED
  BY <1>1, <1>2

\* The texts that are written into the options and the entry.
LEMMA TextsGood ==
    ASSUME Processed
    PROVE  /\ IsText(args.loadopt) /\ args.loadopt.len <= 127
           /\ IsText(args.winload) /\ args.winload.len <= 63
           /\ IsText(args.sysroot) /\ args.sysroot.len <= 31
<1>1. IsText(args.loadopt) /\ args.loadopt.len <= 127
  <2>1. DefaultLoadOpt.len <= 127 /\ IsText(DefaultLoadOpt)
    <3>1. DefaultLoadOpt.len = 25 /\ IsText(DefaultLoadOpt)
      BY DefaultsAreTexts
    <3> QED
      BY <3>1
  <2>2. IsText(Text("loadopt", DefaultLoadOpt, 127)) /\ Text("loadopt", DefaultLoadOpt, 127).len <= 127
    BY <2>1, Rooms, FieldsSetBy, TextGood
  <2> QED
    BY <2>2, TextsAreSet
<1>2. IsText(args.winload) /\ args.winload.len <= 63
  <2> DEFINE d == IF Type = "WIM" THEN LongWinload ELSE ShortWinload
  <2>1. d.len <= 63 /\ IsText(d)
    <3>1. d.len \in {34, 29} /\ IsText(d)
      BY DefaultsAreTexts
    <3> HIDE DEF d
    <3> QED
      BY <3>1
  <2>2. args.winload = Text("winload", d, 63)
    BY TextsAreSet
  <2> HIDE DEF d
  <2>3. IsText(Text("winload", d, 63)) /\ Text("winload", d, 63).len <= 63
    BY <2>1, Rooms, FieldsSetBy, TextGood
  <2> QED
    BY <2>2, <2>3
<1>3. IsText(args.sysroot) /\ args.sysroot.len <= 31
  <2>1. DefaultSysroot.len <= 31 /\ IsText(DefaultSysroot)
    <3>1. DefaultSysroot.len = 8 /\ IsText(DefaultSysroot)
      BY DefaultsAreTexts
    <3> QED
      BY <3>1
  <2>2. IsText(Text("sysroot", DefaultSysroot, 31)) /\ Text("sysroot", DefaultSysroot, 31).len <= 31
    BY <2>1, Rooms, FieldsSetBy, TextGood
  <2> QED
    BY <2>2, TextsAreSet
<1> QED
  BY <1>1, <1>2, <1>3

\* Every patch of a group does what is promised of its element.
AllMatch(g) == \A n \in 1..Len(Patches(Groups[g], args)) : Matches(Patches(Groups[g], args)[n])

\* The groups one by one: the boot manager.
LEMMA ManagerMatches ==
    ASSUME Processed
    PROVE  AllMatch(1)
<1> DEFINE P == Patches(Groups[1], args)
<1>1. /\ Len(P) = 3 /\ P[1] = PatchSzw("BOOTMGR", "OBJECT", Entry)
      /\ P[2] = PatchSzw("BOOTMGR", "ORDER", Entry) /\ P[3] = PatchU64("BOOTMGR", "TIMEOUT", 0)
  BY BootMgrPatches, TypeSet, NumbersAreSet
<1>2. Matches(PatchSzw("BOOTMGR", "OBJECT", Entry))
  <2>1. HasSlot("BOOTMGR", "OBJECT", 78) /\ 78 \div 2 = 39
    BY ManagerSlots
  <2> QED
    BY <2>1, PromisedManager, SzwMatches
<1>3. Matches(PatchSzw("BOOTMGR", "ORDER", Entry))
  <2>1. HasSlot("BOOTMGR", "ORDER", 80) /\ 80 \div 2 = 40
    BY ManagerSlots
  <2> QED
    BY <2>1, PromisedManager, SzwMatches
<1>4. Matches(PatchU64("BOOTMGR", "TIMEOUT", 0))
  BY PromisedManager, U64Matches
<1> HIDE DEF P
<1>5. \A n \in 1..Len(P) : n = 1 \/ n = 2 \/ n = 3
  BY <1>1
<1>6. \A n \in 1..Len(P) : Matches(P[n])
  BY <1>1, <1>2, <1>3, <1>4, <1>5
<1> QED
  BY <1>6 DEF AllMatch, P

\* The entry that resumes.
LEMMA ResumeMatches ==
    ASSUME Processed
    PROVE  AllMatch(2)
<1> DEFINE P == Patches(Groups[2], args)
<1>1. /\ Len(P) = 4 /\ P[1] = PatchDp("HIBR", "APPDEV", "REC") /\ P[2] = PatchDp("HIBR", "OSDDEV", "REC")
      /\ P[3] = PatchSz("HIBR", "WINLOAD", DefaultWinresume) /\ P[4] = PatchSz("HIBR", "SYSROOT", DefaultHiberfil)
  BY ResumePatches
<1>2. Matches(PatchDp("HIBR", "APPDEV", "REC")) /\ Matches(PatchDp("HIBR", "OSDDEV", "REC"))
  <2>1. HasSlot("HIBR", "APPDEV", 88) /\ HasSlot("HIBR", "OSDDEV", 88)
    BY ResumeSlots
  <2>2. DpForm("REC").form = "partition" /\ "REC" \notin {"WIM", "VHD", "RAM"}
    BY DEF DpForm
  <2>3. IsText(Empty) /\ Empty.len <= 255 /\ Empty.ext \notin SmallExts
    <3>1. IsText(Empty) /\ Empty.len = 0
      BY DefaultsAreTexts
    <3>2. Empty.ext \notin SmallExts
      BY DefaultsAreTexts DEF SmallExts
    <3> QED
      BY <3>1, <3>2
  <2>4. answer = IF args.fsuuid # Empty /\ machine.reachable THEN machine.partition ELSE NoPartition
    BY DEF Processed
  <2>5. Promised("HIBR", "APPDEV", Device(DpForm("REC").form, Empty, 88))
    BY <2>2, PromisedResume
  <2>6. Promised("HIBR", "OSDDEV", Device(DpForm("REC").form, Empty, 88))
    BY <2>2, PromisedResume
  <2>7. Empty = IF "REC" \in {"WIM", "VHD", "RAM"} THEN args.filepath ELSE Empty
    BY <2>2
  <2> QED
    BY <2>1, <2>3, <2>4, <2>5, <2>6, <2>7, UuidIsSet, DpMatches
<1>3. Matches(PatchSz("HIBR", "WINLOAD", DefaultWinresume))
  <2>1. HasSlot("HIBR", "WINLOAD", 128) /\ 128 \div 2 = 64
    BY ResumeSlots
  <2>2. IsText(DefaultWinresume) /\ DefaultWinresume.len < 64 /\ DefaultWinresume.ext \in SmallExts
    <3>1. IsText(DefaultWinresume) /\ DefaultWinresume.len = 31
      BY DefaultsAreTexts
    <3>2. DefaultWinresume.ext = ".efi"
      BY DEF DefaultWinresume, Native
    <3> QED
      BY <3>1, <3>2 DEF SmallExts
  <2> QED
    BY <2>1, <2>2, PromisedResume, ProgramMatches
<1>4. Matches(PatchSz("HIBR", "SYSROOT", DefaultHiberfil))
  <2>1. HasSlot("HIBR", "SYSROOT", 128) /\ 128 \div 2 = 64
    BY ResumeSlots
  <2>2. IsText(DefaultHiberfil) /\ DefaultHiberfil.len < 64 /\ DefaultHiberfil.ext \notin SmallExts
    <3>1. IsText(DefaultHiberfil) /\ DefaultHiberfil.len = 13
      BY DefaultsAreTexts
    <3>2. DefaultHiberfil.ext = ".sys"
      BY DEF DefaultHiberfil, Native
    <3> QED
      BY <3>1, <3>2 DEF SmallExts
  <2> QED
    BY <2>1, <2>2, PromisedResume, CharsMatch
<1> HIDE DEF P
<1>5. \A n \in 1..Len(P) : n = 1 \/ n = 2 \/ n = 3 \/ n = 4
  BY <1>1
<1>6. \A n \in 1..Len(P) : Matches(P[n])
  BY <1>1, <1>2, <1>3, <1>4, <1>5
<1> QED
  BY <1>6 DEF AllMatch, P

\* The RAM disk.
LEMMA RamdiskMatches ==
    ASSUME Processed
    PROVE  AllMatch(3)
<1> DEFINE P == Patches(Groups[3], args)
<1>1. CASE Type = "RAM"
  <2>1. /\ Len(P) = 4 /\ P[1] = Delete("RAMDISK", "SDIDEV") /\ P[2] = Delete("RAMDISK", "SDIPATH")
        /\ P[3] = PatchBool("RAMDISK", "EXPORTCD", args.exportcd)
        /\ P[4] = PatchU64("RAMDISK", "IMGOFS", args.imgofs)
    BY <1>1, TypeSet, RamdiskPatches
  <2>2. <<"RAMDISK", "SDIDEV">> \in Absent /\ <<"RAMDISK", "SDIPATH">> \in Absent
    BY <1>1, AbsentFacts
  <2>3. Matches(P[1]) /\ Matches(P[2])
    BY <2>1, <2>2, DeleteMatches
  <2>4. Promised("RAMDISK", "EXPORTCD", [byte |-> args.exportcd])
    BY <1>1, PromisedRamdisk, BoolsAreSet
  <2>5. Promised("RAMDISK", "IMGOFS", [u64 |-> args.imgofs])
    BY <1>1, PromisedRamdisk, NumbersAreSet
  <2>6. Matches(P[3]) /\ Matches(P[4])
    BY <2>1, <2>4, <2>5, BoolMatches, U64Matches
  <2> HIDE DEF P
  <2>7. \A n \in 1..Len(P) : n = 1 \/ n = 2 \/ n = 3 \/ n = 4
    BY <2>1
  <2>8. \A n \in 1..Len(P) : Matches(P[n])
    BY <2>3, <2>6, <2>7
  <2> QED
    BY <2>8 DEF AllMatch, P
<1>2. CASE Type # "RAM"
  <2>1. Len(P) = 2 /\ P[1] = Delete("RAMDISK", "EXPORTCD") /\ P[2] = Delete("RAMDISK", "IMGOFS")
    BY <1>2, TypeSet, RamdiskPatches
  <2>2. <<"RAMDISK", "EXPORTCD">> \in Absent /\ <<"RAMDISK", "IMGOFS">> \in Absent
    BY <1>2, AbsentFacts
  <2>3. Matches(P[1]) /\ Matches(P[2])
    BY <2>1, <2>2, DeleteMatches
  <2> HIDE DEF P
  <2>4. \A n \in 1..Len(P) : n = 1 \/ n = 2
    BY <2>1
  <2>5. \A n \in 1..Len(P) : Matches(P[n])
    BY <2>3, <2>4
  <2> QED
    BY <2>5 DEF AllMatch, P
<1> QED
  BY <1>1, <1>2

\* The options.
LEMMA OptionsMatch ==
    ASSUME Processed
    PROVE  AllMatch(4)
<1> DEFINE P == Patches(Groups[4], args)
<1>1. /\ Len(P) = 11 /\ P[1] = PatchSz("OPTN", "CMDLINE", args.loadopt)
      /\ P[2] = PatchBool("OPTN", "TESTMODE", args.testmode) /\ P[3] = PatchBool("OPTN", "DETHAL", args.hal)
      /\ P[4] = PatchBool("OPTN", "WINPE", args.minint) /\ P[5] = PatchBool("OPTN", "NOVGA", args.novga)
      /\ P[6] = PatchBool("OPTN", "NOVESA", args.novesa) /\ P[7] = PatchBool("OPTN", "ADVOPT", args.advmenu)
      /\ P[8] = PatchBool("OPTN", "OPTEDIT", args.optedit) /\ P[9] = PatchBool("OPTN", "TEXT", args.textmode)
      /\ P[10] = PatchU64("OPTN", "NX", args.nx) /\ P[11] = PatchU64("OPTN", "PAE", args.pae)
  BY OptionsPatches
<1>2. Matches(PatchSz("OPTN", "CMDLINE", args.loadopt))
  <2>1. HasSlot("OPTN", "CMDLINE", 256) /\ 256 \div 2 = 128
    BY OptionSlots
  <2>2. IsText(args.loadopt) /\ args.loadopt.len < 128
    <3>1. IsText(args.loadopt) /\ args.loadopt.len <= 127 /\ args.loadopt.len \in Nat
      BY TextsGood DEF IsText
    <3> QED
      BY <3>1
  <2>3. Promised("OPTN", "CMDLINE", Chars(args.loadopt, 128)) /\ args.loadopt = LoadOptions
    BY PromisedOptions, TextsAreSet DEF LoadOptions
  <2>4. args.loadopt.ext \in SmallExts => Departs(<<"OPTN", "CMDLINE">>)
    BY <2>3 DEF Departs
  <2> QED
    BY <2>1, <2>2, <2>3, <2>4, CharsMatch
<1>3. /\ Matches(PatchBool("OPTN", "TESTMODE", args.testmode)) /\ Matches(PatchBool("OPTN", "DETHAL", args.hal))
      /\ Matches(PatchBool("OPTN", "WINPE", args.minint)) /\ Matches(PatchBool("OPTN", "NOVGA", args.novga))
      /\ Matches(PatchBool("OPTN", "NOVESA", args.novesa)) /\ Matches(PatchBool("OPTN", "ADVOPT", args.advmenu))
      /\ Matches(PatchBool("OPTN", "OPTEDIT", args.optedit)) /\ Matches(PatchBool("OPTN", "TEXT", args.textmode))
  <2>1. /\ Promised("OPTN", "TESTMODE", [byte |-> args.testmode]) /\ Promised("OPTN", "DETHAL", [byte |-> args.hal])
        /\ Promised("OPTN", "NOVGA", [byte |-> args.novga]) /\ Promised("OPTN", "NOVESA", [byte |-> args.novesa])
    BY PromisedOptions, BoolsAreSet
  <2>2. Promised("OPTN", "WINPE", [byte |-> args.minint])
    BY PromisedOptions, MinintIsSet
  <2>3. /\ Promised("OPTN", "ADVOPT", [byte |-> args.advmenu]) /\ Promised("OPTN", "OPTEDIT", [byte |-> args.optedit])
        /\ Promised("OPTN", "TEXT", [byte |-> args.textmode])
    BY PromisedOptions, FlagsAreSet
  <2> QED
    BY <2>1, <2>2, <2>3, BoolMatches
<1>4. Matches(PatchU64("OPTN", "NX", args.nx)) /\ Matches(PatchU64("OPTN", "PAE", args.pae))
  <2>1. Promised("OPTN", "NX", [u64 |-> args.nx]) /\ Promised("OPTN", "PAE", [u64 |-> args.pae])
    BY PromisedOptions, ChoicesAreSet
  <2> QED
    BY <2>1, U64Matches
<1> HIDE DEF P
<1>5. \A n \in 1..Len(P) : n \in {1, 2, 3, 4, 5, 6, 7, 8, 9, 10, 11}
  BY <1>1
<1>6. \A n \in 1..Len(P) : Matches(P[n])
  BY <1>1, <1>2, <1>3, <1>4, <1>5
<1> QED
  BY <1>6 DEF AllMatch, P

\* The resolution.
LEMMA ResolutionMatches ==
    ASSUME Processed
    PROVE  AllMatch(5)
<1> DEFINE P == Patches(Groups[5], args)
<1>1. CASE Resolution
  <2>1. Len(P) = 2 /\ P[1] = Delete("OPTN", "HIGHRES") /\ P[2] = PatchU64("OPTN", "GFXMODE", args.gfxmode)
    BY <1>1, HiresIsSet, ResolutionPatches
  <2>2. <<"OPTN", "HIGHRES">> \in Absent
    BY <1>1, AbsentFacts
  <2>3. Promised("OPTN", "GFXMODE", [u64 |-> args.gfxmode])
    BY <1>1, PromisedOptions, ChoicesAreSet
  <2>4. Matches(P[1]) /\ Matches(P[2])
    BY <2>1, <2>2, <2>3, DeleteMatches, U64Matches
  <2> HIDE DEF P
  <2>5. \A n \in 1..Len(P) : n = 1 \/ n = 2
    BY <2>1
  <2>6. \A n \in 1..Len(P) : Matches(P[n])
    BY <2>4, <2>5
  <2> QED
    BY <2>6 DEF AllMatch, P
<1>2. CASE ~Resolution
  <2>1. Len(P) = 2 /\ P[1] = Delete("OPTN", "GFXMODE") /\ P[2] = PatchBool("OPTN", "HIGHRES", args.hires)
    BY <1>2, HiresIsSet, ResolutionPatches
  <2>2. <<"OPTN", "GFXMODE">> \in Absent
    BY <1>2, AbsentFacts
  <2>3. Promised("OPTN", "HIGHRES", [byte |-> args.hires])
    BY <1>2, PromisedOptions, HiresIsSet
  <2>4. Matches(P[1]) /\ Matches(P[2])
    BY <2>1, <2>2, <2>3, DeleteMatches, BoolMatches
  <2> HIDE DEF P
  <2>5. \A n \in 1..Len(P) : n = 1 \/ n = 2
    BY <2>1
  <2>6. \A n \in 1..Len(P) : Matches(P[n])
    BY <2>4, <2>5
  <2> QED
    BY <2>6 DEF AllMatch, P
<1> QED
  BY <1>1, <1>2

\* The safe mode.
LEMMA SafeModeMatches ==
    ASSUME Processed
    PROVE  AllMatch(6)
<1> DEFINE P == Patches(Groups[6], args)
<1>1. CASE Safe
  <2>1. /\ Len(P) = 2 /\ P[1] = PatchU64("OPTN", "SAFEMODE", args.safeboot)
        /\ P[2] = PatchBool("OPTN", "ALTSHELL", args.altshell)
    <3>1. SafeSet
      BY <1>1 DEF Safe, SafeSet, With
    <3> QED
      BY <3>1, FlagsAreSet, SafeModePatches
  <2>2. Promised("OPTN", "SAFEMODE", [u64 |-> args.safeboot])
    BY <1>1, PromisedOptions, ChoicesAreSet
  <2>3. Promised("OPTN", "ALTSHELL", [byte |-> args.altshell])
    BY <1>1, PromisedOptions, BoolsAreSet
  <2>4. Matches(P[1]) /\ Matches(P[2])
    BY <2>1, <2>2, <2>3, BoolMatches, U64Matches
  <2> HIDE DEF P
  <2>5. \A n \in 1..Len(P) : n = 1 \/ n = 2
    BY <2>1
  <2>6. \A n \in 1..Len(P) : Matches(P[n])
    BY <2>4, <2>5
  <2> QED
    BY <2>6 DEF AllMatch, P
<1>2. CASE ~Safe /\ SafeSet
  <2>1. With({"altshell"}) # {}
    BY <1>2 DEF Safe, SafeSet, With
  <2>2. Departs(<<"OPTN", "SAFEMODE">>) /\ Departs(<<"OPTN", "ALTSHELL">>)
    BY <1>2, <2>1 DEF Departs
  <2>3. /\ Len(P) = 2 /\ P[1] = PatchU64("OPTN", "SAFEMODE", args.safeboot)
        /\ P[2] = PatchBool("OPTN", "ALTSHELL", args.altshell)
    BY <1>2, FlagsAreSet, SafeModePatches
  <2>4. Target(P[1]) = <<"OPTN", "SAFEMODE">> /\ Target(P[2]) = <<"OPTN", "ALTSHELL">>
    BY <2>3, PatchTarget
  <2> HIDE DEF P
  <2>5. Matches(P[1]) /\ Matches(P[2])
    BY <2>2, <2>4 DEF Matches
  <2>6. \A n \in 1..Len(P) : n = 1 \/ n = 2
    BY <2>3
  <2>7. \A n \in 1..Len(P) : Matches(P[n])
    BY <2>5, <2>6
  <2> QED
    BY <2>7 DEF AllMatch, P
<1>3. CASE ~Safe /\ ~SafeSet
  <2>1. Len(P) = 2 /\ P[1] = Delete("OPTN", "SAFEMODE") /\ P[2] = Delete("OPTN", "ALTSHELL")
    BY <1>3, FlagsAreSet, SafeModePatches
  <2>2. <<"OPTN", "SAFEMODE">> \in Absent /\ <<"OPTN", "ALTSHELL">> \in Absent
    BY <1>3, AbsentFacts
  <2>3. Matches(P[1]) /\ Matches(P[2])
    BY <2>1, <2>2, DeleteMatches
  <2> HIDE DEF P
  <2>4. \A n \in 1..Len(P) : n = 1 \/ n = 2
    BY <2>1
  <2>5. \A n \in 1..Len(P) : Matches(P[n])
    BY <2>3, <2>4
  <2> QED
    BY <2>5 DEF AllMatch, P
<1> QED
  BY <1>1, <1>2, <1>3

\* The values of the entry, whichever it is.
LEMMA EntrySlots ==
    ASSUME Processed
    PROVE  /\ LET n == IF Type = "VHD" THEN 700 ELSE IF Type = "WOS" THEN 88 ELSE 650
              IN  HasSlot(Entry, "APPDEV", n) /\ HasSlot(Entry, "OSDDEV", n)
           /\ HasSlot(Entry, "WINLOAD", 128) /\ HasSlot(Entry, "SYSROOT", 64)
<1>1. \/ Type = "VHD" /\ Entry = "VHDB"
      \/ Type = "WOS" /\ Entry = "WOSB"
      \/ Type \in {"WIM", "RAM"} /\ Entry = "WIMB"
  BY TypeSet, EntryKnown
<1> QED
  BY <1>1, LoaderSlots, WosSlots

\* The device of the entry: its form, its path and its room.
LEMMA EntryDeviceIs ==
    ASSUME Processed
    PROVE  LET n == IF Type = "VHD" THEN 700 ELSE IF Type = "WOS" THEN 88 ELSE 650
               path == IF Type \in {"WIM", "VHD", "RAM"} THEN args.filepath ELSE Empty
           IN  EntryDevice = Device(DpForm(args.boottype).form, path, n) /\ IsText(path) /\ path.len <= 255
               /\ (path.ext \in SmallExts => path = Path)
<1> DEFINE path == IF Type \in {"WIM", "VHD", "RAM"} THEN args.filepath ELSE Empty
<1>1. \/ Type \in {"WIM", "RAM"} /\ DpForm(Type).form = "ramdisk"
      \/ Type = "VHD" /\ DpForm(Type).form = "vhd"
      \/ Type = "WOS" /\ DpForm(Type).form = "partition"
  BY TypeSet DEF DpForm
<1>2. args.boottype = Type /\ args.filepath = Path
  BY TypeSet, PathIsSet
<1>3. EntryDevice = Device(DpForm(args.boottype).form, path, IF Type = "VHD" THEN 700 ELSE IF Type = "WOS" THEN 88 ELSE 650)
  BY <1>1, <1>2 DEF EntryDevice
<1>4. IsText(path) /\ path.len <= 255 /\ (path.ext \in SmallExts => path = Path)
  <2>1. IsText(Empty) /\ Empty.len = 0 /\ Empty.ext \notin SmallExts
    BY DefaultsAreTexts DEF SmallExts
  <2>2. IsText(Path) /\ Path.len <= 255
    BY PathGood
  <2> QED
    BY <1>2, <2>1, <2>2
<1> QED
  BY <1>3, <1>4

\* The entry of the boot type.
LEMMA EntryMatches ==
    ASSUME Processed
    PROVE  AllMatch(7)
<1> DEFINE P == Patches(Groups[7], args)
           b == args.boottype
<1>1. /\ Len(P) = 4 /\ P[1] = PatchDp(Entry, "APPDEV", b) /\ P[2] = PatchDp(Entry, "OSDDEV", b)
      /\ P[3] = PatchSz(Entry, "WINLOAD", args.winload) /\ P[4] = PatchSz(Entry, "SYSROOT", args.sysroot)
  BY EntryPatches, TypeSet
<1>2. Matches(PatchDp(Entry, "APPDEV", b)) /\ Matches(PatchDp(Entry, "OSDDEV", b))
  <2> DEFINE n == IF Type = "VHD" THEN 700 ELSE IF Type = "WOS" THEN 88 ELSE 650
             path == IF Type \in {"WIM", "VHD", "RAM"} THEN args.filepath ELSE Empty
  <2>1. HasSlot(Entry, "APPDEV", n) /\ HasSlot(Entry, "OSDDEV", n)
    BY EntrySlots
  <2>2. /\ EntryDevice = Device(DpForm(b).form, path, n) /\ IsText(path) /\ path.len <= 255
        /\ path.ext \in SmallExts => path = Path
    BY EntryDeviceIs
  <2>3. answer = IF args.fsuuid # Empty /\ machine.reachable THEN machine.partition ELSE NoPartition
    BY DEF Processed
  <2>4. path = IF b \in {"WIM", "VHD", "RAM"} THEN args.filepath ELSE Empty
    BY TypeSet
  <2> HIDE DEF n, path, b
  <2>5. Promised(Entry, "APPDEV", Device(DpForm(b).form, path, n)) /\ Promised(Entry, "OSDDEV", Device(DpForm(b).form, path, n))
    BY <2>2, PromisedEntry
  <2>6. path.ext \in SmallExts => Departs(<<Entry, "APPDEV">>) /\ Departs(<<Entry, "OSDDEV">>)
    BY <2>2 DEF Departs
  <2> QED
    BY <2>1, <2>2, <2>3, <2>4, <2>5, <2>6, UuidIsSet, DpMatches
<1>3. Matches(PatchSz(Entry, "WINLOAD", args.winload))
  <2>1. HasSlot(Entry, "WINLOAD", 128) /\ 128 \div 2 = 64
    BY EntrySlots
  <2>2. IsText(args.winload) /\ args.winload.len < 64
    <3>1. IsText(args.winload) /\ args.winload.len <= 63 /\ args.winload.len \in Nat
      BY TextsGood DEF IsText
    <3> QED
      BY <3>1
  <2>3. Promised(Entry, "WINLOAD", Program(args.winload, 64)) /\ args.winload = Winload
    BY PromisedEntry, TextsAreSet DEF Winload
  <2>4. args.winload.ext \in WrongExts \ SmallExts => Departs(<<Entry, "WINLOAD">>)
    BY <2>3 DEF Departs
  <2> QED
    BY <2>1, <2>2, <2>3, <2>4, ProgramMatches
<1>4. Matches(PatchSz(Entry, "SYSROOT", args.sysroot))
  <2>1. HasSlot(Entry, "SYSROOT", 64) /\ 64 \div 2 = 32
    BY EntrySlots
  <2>2. IsText(args.sysroot) /\ args.sysroot.len < 32
    <3>1. IsText(args.sysroot) /\ args.sysroot.len <= 31 /\ args.sysroot.len \in Nat
      BY TextsGood DEF IsText
    <3> QED
      BY <3>1
  <2>3. Promised(Entry, "SYSROOT", Chars(args.sysroot, 32)) /\ args.sysroot = SystemRoot
    BY PromisedEntry, TextsAreSet DEF SystemRoot
  <2>4. args.sysroot.ext \in SmallExts => Departs(<<Entry, "SYSROOT">>)
    BY <2>3 DEF Departs
  <2> QED
    BY <2>1, <2>2, <2>3, <2>4, CharsMatch
<1> HIDE DEF P
<1>5. \A n \in 1..Len(P) : n = 1 \/ n = 2 \/ n = 3 \/ n = 4
  BY <1>1
<1>6. \A n \in 1..Len(P) : Matches(P[n])
  BY <1>1, <1>2, <1>3, <1>4, <1>5
<1> QED
  BY <1>6 DEF AllMatch, P

\* Every patch does what is promised of its element.
LEMMA PlacesMatch ==
    ASSUME Processed, NEW i \in Places
    PROVE  Matches(PatchAt(i)) /\ args.boottype \in BootTypes
<1>1. args.boottype \in BootTypes
  BY TypeSet DEF BootTypes
<1>2. i[1] \in 1..7 /\ i[2] \in 1..Len(Patches(Groups[i[1]], args))
  BY PatchCounts DEF Places
<1>3. AllMatch(1) /\ AllMatch(2) /\ AllMatch(3) /\ AllMatch(4) /\ AllMatch(5) /\ AllMatch(6) /\ AllMatch(7)
  BY ManagerMatches, ResumeMatches, RamdiskMatches, OptionsMatch, ResolutionMatches, SafeModeMatches, EntryMatches
<1>4. i[1] \in {1, 2, 3, 4, 5, 6, 7}
  BY <1>2
<1>5. AllMatch(i[1])
  BY <1>3, <1>4
<1>6. Matches(Patches(Groups[i[1]], args)[i[2]])
  BY <1>2, <1>5 DEF AllMatch
<1> QED
  BY <1>1, <1>6 DEF PatchAt

\* A patch names the element.
Aimed(o, e) == \E i \in Places : Target(PatchAt(i)) = <<o, e>>

\* A patch names its element.
LEMMA AimedAt ==
    ASSUME NEW g \in 1..7, NEW n \in 1..Len(Patches(Groups[g], args)), NEW o, NEW e,
           Target(Patches(Groups[g], args)[n]) = <<o, e>>
    PROVE  Aimed(o, e)
<1>1. <<g, n>> \in Places
  BY PatchCounts DEF Places
<1>2. PatchAt(<<g, n>>) = Patches(Groups[g], args)[n]
  BY DEF PatchAt
<1> QED
  BY <1>1, <1>2 DEF Aimed

\* The elements that are named, group by group: the boot manager.
LEMMA ManagerAimed ==
    ASSUME NEW e \in {"OBJECT", "ORDER", "TIMEOUT"}
    PROVE  Aimed("BOOTMGR", e)
<1> DEFINE P == Patches(Groups[1], args)
           entry == EntryGuid(args.boottype)
<1>1. /\ Len(P) = 3 /\ P[1] = PatchSzw("BOOTMGR", "OBJECT", entry) /\ P[2] = PatchSzw("BOOTMGR", "ORDER", entry)
      /\ P[3] = PatchU64("BOOTMGR", "TIMEOUT", args.timeout)
  BY BootMgrPatches
<1>2. /\ Target(P[1]) = <<"BOOTMGR", "OBJECT">> /\ Target(P[2]) = <<"BOOTMGR", "ORDER">>
      /\ Target(P[3]) = <<"BOOTMGR", "TIMEOUT">>
  BY <1>1, PatchTarget
<1>3. 1 \in 1..Len(P) /\ 2 \in 1..Len(P) /\ 3 \in 1..Len(P)
  BY <1>1
<1>4. \E n \in 1..Len(P) : Target(P[n]) = <<"BOOTMGR", e>>
  BY <1>2, <1>3
<1>5. 1 \in 1..7
  OBVIOUS
<1> QED
  BY <1>4, <1>5, AimedAt

\* The entry that resumes.
LEMMA ResumeAimed ==
    ASSUME NEW e \in {"APPDEV", "OSDDEV", "WINLOAD", "SYSROOT"}
    PROVE  Aimed("HIBR", e)
<1> DEFINE P == Patches(Groups[2], args)
<1>1. /\ Len(P) = 4 /\ P[1] = PatchDp("HIBR", "APPDEV", "REC") /\ P[2] = PatchDp("HIBR", "OSDDEV", "REC")
      /\ P[3] = PatchSz("HIBR", "WINLOAD", DefaultWinresume) /\ P[4] = PatchSz("HIBR", "SYSROOT", DefaultHiberfil)
  BY ResumePatches
<1>2. /\ Target(P[1]) = <<"HIBR", "APPDEV">> /\ Target(P[2]) = <<"HIBR", "OSDDEV">>
      /\ Target(P[3]) = <<"HIBR", "WINLOAD">> /\ Target(P[4]) = <<"HIBR", "SYSROOT">>
  BY <1>1, PatchTarget
<1>3. 1 \in 1..Len(P) /\ 2 \in 1..Len(P) /\ 3 \in 1..Len(P) /\ 4 \in 1..Len(P)
  BY <1>1
<1>4. \E n \in 1..Len(P) : Target(P[n]) = <<"HIBR", e>>
  BY <1>2, <1>3
<1>5. 2 \in 1..7
  OBVIOUS
<1> QED
  BY <1>4, <1>5, AimedAt

\* The entry of the boot type.
LEMMA EntryAimed ==
    ASSUME Processed, NEW e \in {"APPDEV", "OSDDEV", "WINLOAD", "SYSROOT"}
    PROVE  Aimed(Entry, e)
<1> DEFINE P == Patches(Groups[7], args)
           b == args.boottype
<1>1. /\ Len(P) = 4 /\ P[1] = PatchDp(Entry, "APPDEV", b) /\ P[2] = PatchDp(Entry, "OSDDEV", b)
      /\ P[3] = PatchSz(Entry, "WINLOAD", args.winload) /\ P[4] = PatchSz(Entry, "SYSROOT", args.sysroot)
  BY EntryPatches, TypeSet
<1>2. /\ Target(P[1]) = <<Entry, "APPDEV">> /\ Target(P[2]) = <<Entry, "OSDDEV">>
      /\ Target(P[3]) = <<Entry, "WINLOAD">> /\ Target(P[4]) = <<Entry, "SYSROOT">>
  BY <1>1, PatchTarget
<1>3. 1 \in 1..Len(P) /\ 2 \in 1..Len(P) /\ 3 \in 1..Len(P) /\ 4 \in 1..Len(P)
  BY <1>1
<1>4. \E n \in 1..Len(P) : Target(P[n]) = <<Entry, e>>
  BY <1>2, <1>3
<1>5. 7 \in 1..7
  OBVIOUS
<1> QED
  BY <1>4, <1>5, AimedAt

\* The RAM disk.
LEMMA RamdiskAimed ==
    ASSUME Processed
    PROVE  /\ \A e \in {"EXPORTCD", "IMGOFS"} : Aimed("RAMDISK", e)
           /\ Type = "RAM" => \A e \in {"SDIDEV", "SDIPATH"} : Aimed("RAMDISK", e)
<1> DEFINE P == Patches(Groups[3], args)
<1>1. 3 \in 1..7
  OBVIOUS
<1>2. CASE Type = "RAM"
  <2>1. /\ Len(P) = 4 /\ P[1] = Delete("RAMDISK", "SDIDEV") /\ P[2] = Delete("RAMDISK", "SDIPATH")
        /\ P[3] = PatchBool("RAMDISK", "EXPORTCD", args.exportcd)
        /\ P[4] = PatchU64("RAMDISK", "IMGOFS", args.imgofs)
    BY <1>2, TypeSet, RamdiskPatches
  <2>2. /\ Target(P[1]) = <<"RAMDISK", "SDIDEV">> /\ Target(P[2]) = <<"RAMDISK", "SDIPATH">>
        /\ Target(P[3]) = <<"RAMDISK", "EXPORTCD">> /\ Target(P[4]) = <<"RAMDISK", "IMGOFS">>
    BY <2>1, PatchTarget
  <2>3. 1 \in 1..Len(P) /\ 2 \in 1..Len(P) /\ 3 \in 1..Len(P) /\ 4 \in 1..Len(P)
    BY <2>1
  <2>4. \A e \in {"EXPORTCD", "IMGOFS", "SDIDEV", "SDIPATH"} : \E n \in 1..Len(P) : Target(P[n]) = <<"RAMDISK", e>>
    BY <2>2, <2>3
  <2>5. \A e \in {"EXPORTCD", "IMGOFS", "SDIDEV", "SDIPATH"} : Aimed("RAMDISK", e)
    BY <1>1, <2>4, AimedAt
  <2> QED
    BY <2>5
<1>3. CASE Type # "RAM"
  <2>1. Len(P) = 2 /\ P[1] = Delete("RAMDISK", "EXPORTCD") /\ P[2] = Delete("RAMDISK", "IMGOFS")
    BY <1>3, TypeSet, RamdiskPatches
  <2>2. Target(P[1]) = <<"RAMDISK", "EXPORTCD">> /\ Target(P[2]) = <<"RAMDISK", "IMGOFS">>
    BY <2>1, PatchTarget
  <2>3. 1 \in 1..Len(P) /\ 2 \in 1..Len(P)
    BY <2>1
  <2>4. \A e \in {"EXPORTCD", "IMGOFS"} : \E n \in 1..Len(P) : Target(P[n]) = <<"RAMDISK", e>>
    BY <2>2, <2>3
  <2> QED
    BY <1>1, <1>3, <2>4, AimedAt
<1> QED
  BY <1>2, <1>3

\* The options.
LEMMA OptionsAimed ==
    ASSUME NEW e \in {"CMDLINE", "TESTMODE", "DETHAL", "WINPE", "NOVGA", "NOVESA", "ADVOPT", "OPTEDIT",
                      "TEXT", "NX", "PAE"}
    PROVE  Aimed("OPTN", e)
<1> DEFINE P == Patches(Groups[4], args)
<1>1. /\ Len(P) = 11 /\ P[1] = PatchSz("OPTN", "CMDLINE", args.loadopt)
      /\ P[2] = PatchBool("OPTN", "TESTMODE", args.testmode) /\ P[3] = PatchBool("OPTN", "DETHAL", args.hal)
      /\ P[4] = PatchBool("OPTN", "WINPE", args.minint) /\ P[5] = PatchBool("OPTN", "NOVGA", args.novga)
      /\ P[6] = PatchBool("OPTN", "NOVESA", args.novesa) /\ P[7] = PatchBool("OPTN", "ADVOPT", args.advmenu)
      /\ P[8] = PatchBool("OPTN", "OPTEDIT", args.optedit) /\ P[9] = PatchBool("OPTN", "TEXT", args.textmode)
      /\ P[10] = PatchU64("OPTN", "NX", args.nx) /\ P[11] = PatchU64("OPTN", "PAE", args.pae)
  BY OptionsPatches
<1>2. /\ Target(P[1]) = <<"OPTN", "CMDLINE">> /\ Target(P[2]) = <<"OPTN", "TESTMODE">>
      /\ Target(P[3]) = <<"OPTN", "DETHAL">> /\ Target(P[4]) = <<"OPTN", "WINPE">>
      /\ Target(P[5]) = <<"OPTN", "NOVGA">> /\ Target(P[6]) = <<"OPTN", "NOVESA">>
      /\ Target(P[7]) = <<"OPTN", "ADVOPT">> /\ Target(P[8]) = <<"OPTN", "OPTEDIT">>
      /\ Target(P[9]) = <<"OPTN", "TEXT">> /\ Target(P[10]) = <<"OPTN", "NX">>
      /\ Target(P[11]) = <<"OPTN", "PAE">>
  BY <1>1, PatchTarget
<1> HIDE DEF P
<1>3. \A n \in 1..11 : n \in 1..Len(P)
  BY <1>1
<1>4. \E n \in 1..11 : Target(P[n]) = <<"OPTN", e>>
  BY <1>2
<1>5. \E n \in 1..Len(P) : Target(P[n]) = <<"OPTN", e>>
  BY <1>3, <1>4
<1>6. 4 \in 1..7
  OBVIOUS
<1> QED
  BY <1>5, <1>6, AimedAt DEF P

\* The resolution and the safe mode, whether they are set or deleted.
LEMMA ModesAimed ==
    ASSUME NEW e \in {"HIGHRES", "GFXMODE", "SAFEMODE", "ALTSHELL"}
    PROVE  Aimed("OPTN", e)
<1> DEFINE P == Patches(Groups[5], args)
           Q == Patches(Groups[6], args)
<1>1. Len(P) = 2 /\ (\/ /\ P[1] = Delete("OPTN", "HIGHRES")
                        /\ P[2] = PatchU64("OPTN", "GFXMODE", args.gfxmode)
                     \/ /\ P[1] = Delete("OPTN", "GFXMODE")
                        /\ P[2] = PatchBool("OPTN", "HIGHRES", args.hires))
  BY ResolutionPatches
<1>2. Len(Q) = 2 /\ (\/ /\ Q[1] = PatchU64("OPTN", "SAFEMODE", args.safeboot)
                        /\ Q[2] = PatchBool("OPTN", "ALTSHELL", args.altshell)
                     \/ /\ Q[1] = Delete("OPTN", "SAFEMODE")
                        /\ Q[2] = Delete("OPTN", "ALTSHELL"))
  BY SafeModePatches
<1>3. 1 \in 1..Len(P) /\ 2 \in 1..Len(P) /\ 1 \in 1..Len(Q) /\ 2 \in 1..Len(Q) /\ 5 \in 1..7 /\ 6 \in 1..7
  BY <1>1, <1>2
<1>4. \/ Target(P[1]) = <<"OPTN", "HIGHRES">> /\ Target(P[2]) = <<"OPTN", "GFXMODE">>
      \/ Target(P[1]) = <<"OPTN", "GFXMODE">> /\ Target(P[2]) = <<"OPTN", "HIGHRES">>
  BY <1>1, PatchTarget
<1>5. Target(Q[1]) = <<"OPTN", "SAFEMODE">> /\ Target(Q[2]) = <<"OPTN", "ALTSHELL">>
  BY <1>2, PatchTarget
<1>6. e \in {"HIGHRES", "GFXMODE"} => Aimed("OPTN", e)
  <2>1. e \in {"HIGHRES", "GFXMODE"} => \E n \in 1..Len(P) : Target(P[n]) = <<"OPTN", e>>
    BY <1>3, <1>4
  <2> QED
    BY <1>3, <2>1, AimedAt
<1>7. e \in {"SAFEMODE", "ALTSHELL"} => Aimed("OPTN", e)
  <2>1. e \in {"SAFEMODE", "ALTSHELL"} => \E n \in 1..Len(Q) : Target(Q[n]) = <<"OPTN", e>>
    BY <1>3, <1>5
  <2> QED
    BY <1>3, <2>1, AimedAt
<1> QED
  BY <1>6, <1>7

\* Every element of which something is promised is named by a patch.
LEMMA PromisedIsAimed ==
    ASSUME Processed, NEW o, NEW e, <<o, e>> \in Absent \/ e \in DOMAIN WantedIn(o)
    PROVE  Aimed(o, e)
<1>1. CASE o = "BOOTMGR"
  <2>1. DOMAIN WantedIn(o) = {"OBJECT", "ORDER", "TIMEOUT"}
    BY <1>1, WantedObjects DEF WantedBootmgr
  <2>2. <<o, e>> \notin Absent
    BY <1>1, AbsentFacts
  <2> QED
    BY <1>1, <2>1, <2>2, ManagerAimed
<1>2. CASE o = "HIBR"
  <2>1. DOMAIN WantedIn(o) = {"APPDEV", "OSDDEV", "WINLOAD", "SYSROOT"}
    BY <1>2, WantedObjects DEF WantedResume
  <2>2. <<o, e>> \notin Absent
    BY <1>2, AbsentFacts
  <2> QED
    BY <1>2, <2>1, <2>2, ResumeAimed
<1>3. CASE o = Entry
  <2>1. DOMAIN WantedIn(o) = {"APPDEV", "OSDDEV", "WINLOAD", "SYSROOT"}
    BY <1>3, WantedObjects DEF WantedEntry
  <2>2. <<o, e>> \notin Absent
    BY <1>3, AbsentFacts, EntryKnown
  <2> QED
    BY <1>3, <2>1, <2>2, EntryAimed
<1>4. CASE o = "RAMDISK"
  <2>1. DOMAIN WantedIn(o) = {"EXPORTCD", "IMGOFS"}
    BY <1>4, WantedObjects DEF WantedRamdisk
  <2>2. <<o, e>> \in Absent => e \in {"EXPORTCD", "IMGOFS"} \/ (Type = "RAM" /\ e \in {"SDIDEV", "SDIPATH"})
    BY <1>4, AbsentFacts
  <2>3. e \in {"EXPORTCD", "IMGOFS"} => Aimed("RAMDISK", e)
    BY RamdiskAimed
  <2>4. Type = "RAM" /\ e \in {"SDIDEV", "SDIPATH"} => Aimed("RAMDISK", e)
    BY RamdiskAimed
  <2> QED
    BY <1>4, <2>1, <2>2, <2>3, <2>4
<1>5. CASE o = "OPTN"
  <2>1. DOMAIN WantedIn(o) = {"CMDLINE", "TESTMODE", "DETHAL", "WINPE", "NOVGA", "NOVESA", "ADVOPT", "OPTEDIT",
                              "TEXT", "NX", "PAE", "HIGHRES", "GFXMODE", "SAFEMODE", "ALTSHELL"}
    BY <1>5, WantedObjects DEF WantedOption
  <2>2. <<o, e>> \in Absent => e \in {"HIGHRES", "GFXMODE", "SAFEMODE", "ALTSHELL"}
    BY <1>5, AbsentFacts
  <2> QED
    BY <1>5, <2>1, <2>2, OptionsAimed, ModesAimed
<1>6. CASE o \notin {"BOOTMGR", "HIBR", Entry, "RAMDISK", "OPTN"}
  <2>1. WantedIn(o) = << >>
    BY <1>6 DEF WantedIn
  <2>2. DOMAIN WantedIn(o) = {}
    BY <2>1
  <2>3. <<o, e>> \notin Absent
    BY <1>6, AbsentFacts
  <2> QED
    BY <2>2, <2>3
<1> QED
  BY <1>1, <1>2, <1>3, <1>4, <1>5, <1>6

\* When the loader hands over, every element is as promised.
LEMMA SlotsDone ==
    ASSUME BcdInv, pc = "done", Line # NoLine, NEW s \in Slots, ~Departs(s)
    PROVE  IF s \in Absent THEN ~Present(hive, s)
           ELSE Present(hive, s) /\ ContentOf(hive, s) =
                    IF s[2] \in DOMAIN WantedIn(s[1]) THEN WantedIn(s[1])[s[2]] ELSE Original
<1>1. Processed
  BY LineIsProcessed DEF BcdInv
<1>2. Done = Places
  <2>1. group > Len(Groups) /\ group \in 1..(Len(Groups) + 1) /\ Len(Groups) = 7
    BY PatchCounts DEF BcdInv, PatchInv
  <2>2. \A i \in Places : i[1] \in 1..7
    BY <1>1, PlacesMatch, PlaceFacts
  <2>3. \A i \in Places : i[1] < group
    BY <2>1, <2>2
  <2> QED
    BY <2>3 DEF Done
<1>3. s = <<s[1], s[2]>>
  BY DEF Slots
<1>4. \A c : Finally(c) = ReplaceIn(c, machine.efi)
  BY DEF Finally
<1>5. CASE Aimed(s[1], s[2])
  <2>1. PICK i \in Places : Target(PatchAt(i)) = s
    BY <1>3, <1>5 DEF Aimed
  <2>2. Matches(PatchAt(i))
    BY <1>1, PlacesMatch
  <2>3. IF PatchAt(i).op = "delete" THEN ~Present(hive, s)
        ELSE /\ Present(hive, s)
             /\ ContentOf(hive, s) = Finally(Content(PatchAt(i), args, answer, SlotValue(s).len))
    BY <1>2, <2>1 DEF BcdInv, PatchInv
  <2>4. IF PatchAt(i).op = "delete" THEN s \in Absent
        ELSE /\ s \notin Absent /\ s[2] \in DOMAIN WantedIn(s[1])
             /\ ReplaceIn(Content(PatchAt(i), args, answer, SlotValue(s).len), machine.efi) = WantedIn(s[1])[s[2]]
    BY <2>1, <2>2 DEF Matches
  <2> QED
    BY <1>4, <2>3, <2>4
<1>6. CASE ~Aimed(s[1], s[2])
  <2>1. s \notin Absent /\ s[2] \notin DOMAIN WantedIn(s[1])
    BY <1>1, <1>3, <1>6, PromisedIsAimed
  <2>2. \A i \in Done : Target(PatchAt(i)) # s
    BY <1>2, <1>3, <1>6 DEF Aimed
  <2>3. Present(hive, s) /\ ContentOf(hive, s) = Finally(Original)
    BY <2>2 DEF BcdInv, PatchInv
  <2>4. ReplaceIn(Original, machine.efi) = Original
    BY DEF ReplaceIn, Original
  <2> QED
    BY <1>4, <2>1, <2>3, <2>4
<1> QED
  BY <1>5, <1>6

\* The elements that a reader of the hive finds are those that are present.
LEMMA LiveSlots ==
    ASSUME Layout(hive)
    PROVE  {SlotOf(k) : k \in LiveKeys} = {s \in Slots : Present(hive, s)} /\ ObjectsKey = ObjectsCell
<1>1. ObjectsKey = ObjectsCell /\ Listed(ObjectsKey) = {ObjectKey(o) : o \in DOMAIN Elements}
  BY DEF ObjectsKey, Layout, Found, Listed
<1>2. \A o \in DOMAIN Elements :
        /\ ElementsOf(ObjectKey(o)) = ElementsCell(o) /\ hive.cell[ObjectKey(o)].name = o
        /\ Listed(ElementsCell(o)) \subseteq {SlotKey(s) : s \in {t \in Slots : t[1] = o}}
  BY DEF ElementsOf, Layout, Found, Listed
<1>3. ASSUME NEW s \in Slots
      PROVE  /\ s = <<s[1], s[2]>> /\ s[1] \in DOMAIN Elements /\ hive.cell[SlotKey(s)].name = s[2]
             /\ Present(hive, s) <=> SlotKey(s) \in Listed(ElementsCell(s[1]))
             /\ SlotOf(<<ObjectKey(s[1]), SlotKey(s)>>) = s
  <2>1. s = <<s[1], s[2]>> /\ s[1] \in DOMAIN Elements
    BY DEF Slots
  <2>2. hive.cell[SlotKey(s)].name = s[2]
    BY DEF Layout
  <2>3. hive.cell[ObjectKey(s[1])].name = s[1]
    BY <1>2, <2>1
  <2>4. SlotOf(<<ObjectKey(s[1]), SlotKey(s)>>) = s
    BY <2>1, <2>2, <2>3 DEF SlotOf
  <2> QED
    BY <2>1, <2>2, <2>4 DEF Present, Listed
<1>4. ASSUME NEW k \in LiveKeys
      PROVE  \E s \in Slots : Present(hive, s) /\ SlotOf(k) = s
  <2>1. PICK o \in DOMAIN Elements : \E e \in Listed(ElementsCell(o)) : k = <<ObjectKey(o), e>>
    BY <1>1, <1>2 DEF LiveKeys
  <2>2. PICK e \in Listed(ElementsCell(o)) : k = <<ObjectKey(o), e>>
    BY <2>1
  <2>3. PICK s \in Slots : s[1] = o /\ e = SlotKey(s)
    BY <1>2, <2>2
  <2> QED
    BY <1>3, <2>2, <2>3
<1>5. ASSUME NEW s \in Slots, Present(hive, s)
      PROVE  \E k \in LiveKeys : SlotOf(k) = s
  <2>1. <<ObjectKey(s[1]), SlotKey(s)>> \in LiveKeys
    <3>1. SlotKey(s) \in Listed(ElementsOf(ObjectKey(s[1]))) /\ ObjectKey(s[1]) \in Listed(ObjectsKey)
      BY <1>1, <1>2, <1>3, <1>5
    <3> QED
      BY <3>1 DEF LiveKeys
  <2> QED
    BY <1>3, <2>1
<1> QED
  BY <1>1, <1>4, <1>5

\* The BCD that is handed over is the one that is promised.
LEMMA LiveIsWanted ==
    ASSUME BcdInv, pc = "done", Line # NoLine
    PROVE  Undisputed(Live) = Undisputed(Wanted)
<1> DEFINE Read(s) == hive.cell[FindHive(hive, ObjectsKey, s[1], s[2]).at].content
           Promise(s) == IF s[2] \in DOMAIN WantedIn(s[1]) THEN WantedIn(s[1])[s[2]] ELSE Original
           there == {s \in Slots : Present(hive, s)}
           same == {s \in Slots \ Absent : ~Departs(s)}
<1>1. Layout(hive) /\ Sound(hive) /\ Objected(hive)
  BY DEF BcdInv, PatchInv, HiveInv
<1>2. same = {s \in there : ~Departs(s)}
  BY SlotsDone
<1>3. ASSUME NEW s \in same
      PROVE  Read(s) = Promise(s)
  <2>1. Present(hive, s) /\ ContentOf(hive, s) =
            IF s[2] \in DOMAIN WantedIn(s[1]) THEN WantedIn(s[1])[s[2]] ELSE Original
    BY SlotsDone
  <2>2. FindHive(hive, ObjectsCell, s[1], s[2]) = SlotValue(s)
    BY <1>1, <2>1, PresentIsFound
  <2>3. ObjectsKey = ObjectsCell
    BY <1>1, LiveSlots
  <2> QED
    BY <2>1, <2>2, <2>3 DEF ContentOf
<1>4. Live = [s \in there |-> Read(s)]
  BY <1>1, LiveSlots DEF Live
<1>5. Wanted = [s \in Slots \ Absent |-> Promise(s)]
  BY DEF Wanted
<1> HIDE DEF Read, Promise
<1>6. Undisputed(Wanted) = [s \in same |-> Promise(s)]
  <2> DEFINE all == Slots \ Absent
  <2> HIDE DEF all
  <2>1. Wanted = [s \in all |-> Promise(s)] /\ same = {s \in all : ~Departs(s)}
    BY <1>5 DEF all
  <2> QED
    BY <2>1 DEF Undisputed
<1> HIDE DEF there, same
<1>7. Undisputed(Live) = [s \in same |-> Read(s)]
  BY <1>2, <1>4 DEF Undisputed
<1> QED
  BY <1>3, <1>6, <1>7

\* Whatever the command line, the firmware and the outcome of the search, and in
\* whatever order and however often the arguments were given: the BCD that is
\* handed over has exactly the elements that docs/cmdline.md promises, with the
\* values it promises (process_cmdline, bcd_patch_data), but for the elements
\* that Departs names: safe mode when "altshell" is given without "safemode",
\* a "winload" with an extension in capitals, and other texts with the
\* extension of a program.
THEOREM BcdIsDocumented == Spec => []BcdAsDocumented
<1>1. BcdInv => BcdAsDocumented
  BY LiveIsWanted DEF BcdAsDocumented
<1> QED
  BY <1>1, BcdAlways, PTL
=============================================================================
