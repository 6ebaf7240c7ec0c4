---------------------------- MODULE CommandLine ----------------------------
(***************************************************************************)
(* The command line of NTloader (kern/cmdline.c).  process_cmdline walks   *)
(* over the arguments from left to right, each assigns some fields of      *)
(* args, and three fields that no argument set get a default at the end.   *)
(*                                                                         *)
(* A text is a record: which text it is, its length, its extension, and    *)
(* whether its separators are backslashes (back) and its gaps spaces       *)
(* (space) rather than slashes and colons.  An argument is a key, a value; *)
(* the value is NoText if there is no "=", and Empty if nothing follows it.*)
(* A number is the text "number" with its value as the length, and with    *)
(* what follows its digits as the extension.                               *)
(***************************************************************************)
EXTENDS Naturals, Sequences

\* uint8_t fields are not only true and false.
BoolTrue == 1
BoolFalse == 0
BoolUnset == 255
BoolNA == 15

\* The boot types of cmdline.h.
BootTypes == {"WIM", "VHD", "WOS", "REC", "RAM"}

\* No value at all, and the empty text.
NoText == [text |-> "none", len |-> 0, ext |-> "", back |-> FALSE, space |-> FALSE]
Empty == [NoText EXCEPT !.text = ""]

\* A text as the user types it, and one as the loader's source has it.
Typed(t, n, e) == [text |-> t, len |-> n, ext |-> e, back |-> FALSE, space |-> FALSE]
Native(t, n, e) == [text |-> t, len |-> n, ext |-> e, back |-> TRUE, space |-> TRUE]

\* The defaults of bcd.h.
DefaultLoadOpt == [Native("DISABLE_INTEGRITY_CHECKS", 25, "") EXCEPT !.back = FALSE]
LongWinload == Native("boot.winload", 34, ".efi")
ShortWinload == Native("winload", 29, ".efi")
DefaultWinresume == Native("winresume", 31, ".efi")
DefaultSysroot == Native("Windows", 8, "")
DefaultHiberfil == Native("hiberfil", 13, ".sys")

\* The initial value of args; the identity of the partition is the search's.
InitArgs ==
    [textmode |-> BoolFalse, testmode |-> BoolFalse, hires |-> BoolUnset,
     hal |-> BoolTrue, minint |-> BoolUnset, novga |-> BoolFalse,
     novesa |-> BoolFalse, safemode |-> BoolFalse, altshell |-> BoolFalse,
     exportcd |-> BoolFalse, advmenu |-> BoolFalse, optedit |-> BoolFalse,
     nx |-> 0, pae |-> 0, timeout |-> 0, safeboot |-> 0, gfxmode |-> 0,
     imgofs |-> 65536,
     loadopt |-> DefaultLoadOpt, winload |-> Empty, sysroot |-> DefaultSysroot,
     boottype |-> "WOS", fsuuid |-> Empty, filepath |-> Empty,
     initrd |-> Native("initrd", 12, ".cpio")]

----------------------------------------------------------------------------
\* snprintf into a buffer of n bytes: a longer text loses its end.
Cut(s, n) == IF s.len < n THEN s ELSE [s EXCEPT !.len = n - 1, !.ext = ""]

\* Spaces for colons always, backslashes for slashes where it is asked for.
ConvertPath(s, backslash) ==
    [s EXCEPT !.space = TRUE, !.back = @ \/ backslash]

\* A key alone means yes; whatever is not one of the four words means no.
ConvertBool(v) ==
    IF v = NoText \/ v.text \in {"yes", "on", "true", "1"} THEN BoolTrue ELSE BoolFalse

\* The keys whose value is a boolean, and the field each one sets.
BoolField ==
    [testmode |-> "testmode", hires |-> "hires", detecthal |-> "hal",
     minint |-> "minint", novga |-> "novga", novesa |-> "novesa",
     altshell |-> "altshell", exportascd |-> "exportcd"]

\* The keys whose value is one of a list of words, and the words.
Words ==
    [nx |-> [OptIn |-> 0, OptOut |-> 1, AlwaysOff |-> 2, AlwaysOn |-> 3],
     pae |-> [Default |-> 0, Enable |-> 1, Disable |-> 2],
     safemode |-> [Minimal |-> 0, Network |-> 1, DsRepair |-> 2],
     gfxmode |-> [r \in {"1024x768", "800x600", "1024x600"} |->
                    CASE r = "1024x768" -> 0 [] r = "800x600" -> 1 [] r = "1024x600" -> 2]]

WordField == [nx |-> "nx", pae |-> "pae", safemode |-> "safeboot", gfxmode |-> "gfxmode"]

\* The keys whose value is copied: its field, its buffer, its separators.
TextField ==
    [loadopt |-> <<"loadopt", 128, FALSE>>, winload |-> <<"winload", 64, TRUE>>,
     sysroot |-> <<"sysroot", 32, TRUE>>,
     initrd |-> <<"initrd", 256, TRUE>>, initrdfile |-> <<"initrd", 256, TRUE>>,
     wim |-> <<"filepath", 256, TRUE>>, vhd |-> <<"filepath", 256, TRUE>>,
     ram |-> <<"filepath", 256, TRUE>>, file |-> <<"filepath", 256, TRUE>>]

\* The extension of a WIM file, in any case (strcasecmp).
WimExts == {".wim", ".wiM", ".wIm", ".wIM", ".Wim", ".WiM", ".WIm", ".WIM"}

\* The boot type that a path sets; "file" looks at the end of the path typed.
PathBootType(a) ==
    CASE a.key = "wim" -> "WIM"
      [] a.key = "vhd" -> "VHD"
      [] a.key = "ram" -> "RAM"
      [] a.key = "file" -> IF a.val.ext \in WimExts THEN "WIM" ELSE "VHD"

\* The keys that set a field to true and need no value.
FlagField == [text |-> {"textmode"}, f8 |-> {"advmenu", "textmode"}, edit |-> {"optedit", "textmode"}]

NeedsValue == DOMAIN TextField \cup {"uuid", "imgofs"}

\* The argument that ends the program: no value, or a number with a tail.
Rejects(a) ==
    \/ a.key \in NeedsValue /\ a.val \in {NoText, Empty}
    \/ a.key = "imgofs" /\ a.val.ext # ""

\* One field with its value, no field, and fields set over those of before.
Field(f, v) == [x \in {f} |-> v]
NoField == [x \in {} |-> BoolFalse]
Over(new, old) ==
    [f \in DOMAIN new \cup DOMAIN old |-> IF f \in DOMAIN new THEN new[f] ELSE old[f]]

\* What a word sets: no value means the first word, an unknown one nothing.
WordSets(a) ==
    LET field == WordField[a.key]
    IN  CASE a.val = NoText -> Field(field, 0)
          [] a.val # NoText /\ a.val.text \in DOMAIN Words[a.key] -> Field(field, Words[a.key][a.val.text])
          [] OTHER -> NoField

\* What a text sets; that of a path also the boot type.
TextSets(a) ==
    LET t == TextField[a.key]
    IN  Over(IF t[1] = "filepath" THEN Field("boottype", PathBootType(a)) ELSE NoField,
             Field(t[1], ConvertPath(Cut(a.val, t[2]), t[3])))

\* Variant: a resolution leaves "hires" as it is.
AlsoSetsOnlySafe(key) ==
    IF key \in {"altshell", "safemode"} THEN Field("safemode", BoolTrue) ELSE NoField

\* What some keys set besides their own field.
AlsoSets(key) ==
    CASE key \in {"altshell", "safemode"} -> Field("safemode", BoolTrue)
      [] key = "gfxmode" -> Field("hires", BoolNA)
      [] OTHER -> NoField

\* The field a key sets by its value.
OwnField(a) ==
    CASE a.key = "uuid" -> Field("fsuuid", Cut(a.val, 17))
      [] a.key = "imgofs" -> Field("imgofs", a.val.len)
      [] a.key \in DOMAIN TextField -> TextSets(a)
      [] a.key \in DOMAIN FlagField -> [f \in FlagField[a.key] |-> BoolTrue]
      [] a.key \in DOMAIN BoolField -> Field(BoolField[a.key], ConvertBool(a.val))
      [] a.key \in DOMAIN WordField -> WordSets(a)
      [] OTHER -> NoField

\* The fields that one argument sets, and their values.
Sets(a) == Over(OwnField(a), AlsoSets(a.key))

\* One turn of the loop over the arguments.
Process(args, a) == Over(Sets(a), args)

\* After the last argument: what nobody set depends on the boot type.
Defaults(args) ==
    LET wim == args.boottype = "WIM"
        unset == IF wim THEN BoolTrue ELSE BoolFalse
    IN  [args EXCEPT
            !.hires = IF @ = BoolUnset THEN unset ELSE @,
            !.minint = IF @ = BoolUnset THEN unset ELSE @,
            !.winload = IF @ = Empty THEN (IF wim THEN LongWinload ELSE ShortWinload) ELSE @]
============================================================================
