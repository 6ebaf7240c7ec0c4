------------------------------- MODULE RegView -------------------------------
(***************************************************************************)
(* The tool that lists a key of a registry hive (utils/regview.c), and     *)
(* with it the part of libnt/reg.c that reads hives which the loader does  *)
(* not ship: opening one, looking for a key by its path, and enumerating   *)
(* its subkeys and values.  The operations are those of Hive.              *)
(*                                                                         *)
(* A request is a hive and the path of a key; without a path, the root is  *)
(* listed.  Names longer than the buffer of the tool are in LongNames, and *)
(* "" is the name of a value without one.                                  *)
(***************************************************************************)
EXTENDS Hive, Sequences, SequencesExt

CONSTANTS Requests, LongNames

VARIABLES
    hive, path,     \* the request
    pc,
    off,            \* validate_bins: how far the bins are checked
    key,            \* the key that is listed
    index,          \* the next subkey or value
    keys, values    \* the names that were printed

vars == <<hive, path, pc, off, key, index, keys, values>>

Init ==
    /\ \E r \in Requests : hive = r.hive /\ path = r.path
    /\ pc = "open" /\ off = 0 /\ key = NoCell /\ index = 0
    /\ keys = << >> /\ values = << >>

----------------------------------------------------------------------------
\* reg_open_hive.
CheckHeader ==
    /\ pc = "open"
    /\ \/ HeaderValid(hive) /\ hive' = Repaired(hive) /\ pc' = "bins"
       \/ ~HeaderValid(hive) /\ pc' = "error" /\ UNCHANGED hive
    /\ UNCHANGED <<path, off, key, index, keys, values>>

ValidateBin ==
    /\ pc = "bins" /\ off < hive.length
    /\ \/ BinValid(hive, off) /\ off' = NextBin(hive, off) /\ UNCHANGED pc
       \/ ~BinValid(hive, off) /\ pc' = "error" /\ UNCHANGED off
    /\ UNCHANGED <<hive, path, key, index, keys, values>>

BinsDone ==
    /\ pc = "bins" /\ off >= hive.length
    /\ hive' = ClearVolatile(hive)
    /\ pc' = "find"
    /\ UNCHANGED <<path, off, key, index, keys, values>>

\* reg_find_key: from the root, one name of the path after the other.
FindPath(h, p) ==
    LET to[n \in 0..Len(p)] ==
            IF n = 0 THEN Found(h.root)
            ELSE IF to[n - 1].err # "NONE" THEN to[n - 1]
            ELSE FindKey(h, to[n - 1].key, p[n])
    IN  to[Len(p)]

Find ==
    /\ pc = "find"
    /\ LET answer == FindPath(hive, path)
       IN  /\ key' = answer.key
           /\ pc' = IF answer.err = "NONE" THEN "keys" ELSE "error"
    /\ UNCHANGED <<hive, path, off, index, keys, values>>

(* print_keys.  What has a name is printed.  A name that does not fit is   *)
(* printed in part, and is an error like any other: the loop ends.         *)
Printed(list, answer) ==
    IF answer.err # "NONE" \/ hive.cell[answer.key].name = "" THEN list
    ELSE Append(list, hive.cell[answer.key].name)
Ends(answer) == answer.err = "NONE" => hive.cell[answer.key].name \in LongNames

ListKey ==
    /\ pc = "keys"
    /\ LET answer == EnumKey(hive, key, index)
       IN  /\ keys' = Printed(keys, answer)
           /\ \/ Ends(answer) /\ index' = 0 /\ pc' = "values"
              \/ ~Ends(answer) /\ index' = index + 1 /\ UNCHANGED pc
    /\ UNCHANGED <<hive, path, off, key, values>>

ListValue ==
    /\ pc = "values"
    /\ LET answer == EnumValue(hive, key, index)
       IN  /\ values' = Printed(values, answer)
           /\ \/ Ends(answer) /\ pc' = "done" /\ UNCHANGED index
              \/ ~Ends(answer) /\ index' = index + 1 /\ UNCHANGED pc
    /\ UNCHANGED <<hive, path, off, key, keys>>

Next == CheckHeader \/ ValidateBin \/ BinsDone \/ Find \/ ListKey \/ ListValue

\* A sequential program.
Spec == Init /\ [][Next]_vars /\ WF_vars(Next)

----------------------------------------------------------------------------
\* The names of the entries of a list, up to the first that is not of the kind
\* or whose name does not fit (that one is printed); and those that are printed.
UpTo(entries, kind) ==
    LET bad == {i \in DOMAIN entries : Kind(hive, entries[i]) # kind}
        long == {i \in DOMAIN entries \ bad : hive.cell[entries[i]].name \in LongNames}
        n == CHOOSE k \in 0..Len(entries) :
                /\ \A i \in 1..k : i \notin bad /\ (i < k => i \notin long)
                /\ k = Len(entries) \/ k + 1 \in bad \/ k \in long
    IN  SelectSeq([i \in 1..n |-> hive.cell[entries[i]].name], LAMBDA name : name # "")

\* The subkeys as the two kinds of lists have them, in a list of lists those in
\* front of the first that is damaged.
Subs ==
    LET at == hive.cell[key].subKeyList
        l == hive.cell[at]
        leaf(c) == SubSeq(hive.cell[c].list, 1, hive.cell[c].count)
        good == {n \in 0..l.count : \A i \in 1..n : Kind(hive, l.list[i]) \in {"lf", "lh"}}
    IN  IF hive.cell[key].subKeyCount = 0 \/ at = NoCell \/ l.kind \notin {"ri", "lf", "lh"} THEN << >>
        ELSE IF l.kind = "ri" THEN FlattenSeq([i \in 1..Cardinality(good) - 1 |-> leaf(l.list[i])])
        ELSE leaf(at)
Plain == Kind(hive, hive.cell[key].subKeyList) \in {"lf", "lh"}
Consistent ==
    /\ hive.cell[key].subKeyCount \in {Len(Subs)} \ {0}
    /\ Len(Subs) <= hive.cell[hive.cell[key].subKeyList].room

(* What is listed agrees with what is there and with what can be found: a  *)
(* key's subkeys come in the order of its list, none twice and none left   *)
(* out before the first damaged one; whatever is listed from a plain list  *)
(* can be found by its name, and what is found can be listed unless it     *)
(* comes after damage; values follow the same rule (reg_enum_keys,         *)
(* reg_enum_values, find_child_key: three walks over the same cells).      *)
ListingAgrees ==
    pc = "done" =>
        /\ IsPrefix(keys, UpTo(Subs, "nk"))
        /\ Consistent => keys = UpTo(Subs, "nk")
        /\ Consistent /\ Plain =>
              /\ \A i \in DOMAIN keys : FindKey(hive, key, keys[i]).err = "NONE"
              /\ \A i \in DOMAIN Subs :
                    Kind(hive, Subs[i]) = "nk" =>
                        FindKey(hive, key, hive.cell[Subs[i]].name).key
                           \in {Subs[j] : j \in 1..i}
        /\ LET at == hive.cell[key].values
               list == hive.cell[at]
               n == hive.cell[key].valuesCount
           IN  n > 0 => values = IF at = NoCell \/ list.kind = "free" \/ n > list.room THEN << >>
                                 ELSE UpTo(SubSeq(list.list, 1, n), "vk")

\* The tool ends with a listing or an error, unless the hive has a bin of size 0:
\* validate_bins would look at that one for ever.
OpenEnds ==
    (\A b \in DOMAIN hive.bins : hive.bins[b].size > 0) => <>(pc \in {"done", "error"})
=============================================================================
