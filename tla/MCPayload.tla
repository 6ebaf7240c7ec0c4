----------------------------- MODULE MCPayload -----------------------------
(***************************************************************************)
(* Machines for Payload: every command line of up to two arguments, some   *)
(* of three, and archives of up to four files whole, cut and damaged.      *)
(***************************************************************************)
EXTENDS PayloadInv

Arg(k, v) == [key |-> k, val |-> v]
Word(t) == Typed(t, 3, "")
Number(n, tail) == Typed("number", n, tail)

\* Each option with the values that make a difference.
Args ==
    {Arg(k, v) : k \in {"hires", "minint", "altshell"}, v \in {NoText, Word("no")}}
    \cup {Arg(k, Word("yes")) : k \in {"testmode", "exportascd"}}
    \cup {Arg("detecthal", Word("no")), Arg("novga", NoText), Arg("novesa", Empty)}
    \cup {Arg(k, NoText) : k \in {"text", "f8", "edit", "unknown"}}
    \cup {Arg("nx", Word("AlwaysOn")), Arg("nx", Word("wrong")), Arg("nx", NoText), Arg("pae", Word("Disable"))}
    \cup {Arg("safemode", Word("Network")), Arg("safemode", NoText), Arg("gfxmode", Word("800x600")), Arg("gfxmode", Word("wrong"))}
    \cup {Arg("imgofs", Number(512, "")), Arg("imgofs", Number(512, "k")), Arg("imgofs", NoText)}
    \cup {Arg("loadopt", Typed("options", 200, "")), Arg("winload", Typed("own", 20, ".exe")),
          Arg("winload", Typed("long", 63, ".efi")), Arg("winload", Typed("longer", 64, ".efi")),
          Arg("winload", Typed("caps", 20, ".EXE")),
          Arg("loadopt", Typed("run", 20, ".efi")), Arg("sysroot", Typed("tool", 10, ".efi")),
          Arg("sysroot", Typed("root", 10, "")), Arg("initrd", Typed("image", 10, ".cpio"))}
    \cup {Arg("wim", Typed("w", 20, ".wim")), Arg("vhd", Typed("v", 300, ".vhd")),
          Arg("ram", Typed("r", 255, ".vhd")), Arg("file", Typed("f", 20, ".Wim")),
          Arg("file", Typed("g", 20, ".vhdx")), Arg("file", Typed("x", 20, ".exe")), Arg("wim", Empty)}
    \cup {Arg("uuid", Typed("u", 16, "")), Arg("uuid", NoText)}

\* Arguments that work on each other, in threes.
Core ==
    {Arg("hires", Word("no")), Arg("gfxmode", Word("800x600")), Arg("wim", Typed("w", 20, ".wim")),
     Arg("ram", Typed("r", 255, ".vhd")), Arg("altshell", NoText), Arg("safemode", Word("Network")),
     Arg("uuid", Typed("u", 16, ""))}

Lines ==
    {NoLine, << >>} \cup {<<a>> : a \in Args} \cup {<<a, b>> : a, b \in Args}
    \cup {<<a, b, c>> : a, b, c \in Core}

----------------------------------------------------------------------------
File(name, nameLen, size) == [name |-> name, nameLen |-> nameLen, size |-> size, copied |-> size]
Shrunk(f, by) == [f EXCEPT !.copied = @ - by]

Mgr == File("bootmgr.exe", 12, 9)
Efi == File("bootx64.efi", 12, 4)
Sdi == File("boot.sdi", 9, 0)
Ttf == File("wgl4_boot.ttf", 14, 7)

FileSets ==
    {<<Efi, Mgr>>, <<Mgr, Efi, Sdi>>, <<Sdi, Ttf>>, <<Efi, Mgr, Ttf, Mgr>>,
     <<Efi, Mgr, Ttf, Mgr, Sdi>>, <<Ttf, Mgr, Efi>>,
     <<Shrunk(Mgr, 4), Efi>>, <<Mgr, Shrunk(Mgr, 8), Efi>>, <<Efi, Mgr, Shrunk(Ttf, 7)>>}

Machine(line, fs, lead, cut, efi, reachable) ==
    LET image == Pack(lead, fs)
    IN  [line |-> line, files |-> fs, offsets |-> Offsets(lead, fs),
         image |-> Truncate(image, image.len - cut),
         whole |-> cut = 0 /\ \A i \in 1..Len(fs) : fs[i].copied = fs[i].size,
         efi |-> efi, partition |-> [partid |-> "p", partmap |-> 0, diskid |-> "d"],
         reachable |-> reachable]

OneLine == <<Arg("uuid", Typed("u", 16, "")), Arg("file", Typed("f", 20, ".Wim"))>>

\* Images cut inside the trailer, at its start, inside the last file's data and header.
Cuts == {0, 1, 4, 120, 124, 125, 128, 132, 200, 260}

MCMachines ==
    {Machine(l, <<Mgr, Efi>>, 0, 0, FALSE, TRUE) : l \in Lines}
    \cup {Machine(<<a>>, <<Mgr, Efi>>, 0, 0, e, r) : a \in Args, e \in BOOLEAN, r \in BOOLEAN}
    \cup {Machine(OneLine, fs, lead, cut, e, r) :
            fs \in FileSets, lead \in {0, 8}, cut \in Cuts, e \in BOOLEAN, r \in {TRUE}}
    \cup {Machine(OneLine, <<Mgr, Efi>>, 0, 0, e, FALSE) : e \in BOOLEAN}
============================================================================
