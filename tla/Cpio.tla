------------------------------- MODULE Cpio -------------------------------
(***************************************************************************)
(* CPIO archives: what utils/mkinitrd.c writes and how libnt/cpio.c reads  *)
(* it.  An image is a record: its length, the headers by offset, and the   *)
(* offsets of the words that are zero.  A header holds a name, the length  *)
(* of the name with its NUL, and the length of the file's data.            *)
(***************************************************************************)
EXTENDS Naturals, Sequences

CONSTANTS
    HeaderSize,     \* sizeof (struct cpio_header): 110
    SizeMod         \* 2^32 in the BIOS program, 2^64 in the EFI program

ASSUME CpioAssumption == HeaderSize \in Nat /\ HeaderSize >= 4 /\ SizeMod \in Nat \ {0}

TrailerName == "TRAILER!!!"
Trailer == [name |-> TrailerName, nameLen |-> 11, fileLen |-> 0]

----------------------------------------------------------------------------
(* The archiver.  A file is a name, its length with the NUL, the size that *)
(* lstat reported, and the bytes that were still there when it was copied: *)
(* copy_data stops without an error at the end of a file that has become   *)
(* shorter, and pads as if it had not.                                     *)
Files == [name : STRING, nameLen : Nat, size : Nat, copied : Nat]

AlignUp(n) == ((n + 3) \div 4) * 4

DataOffset(f) == AlignUp(HeaderSize + f.nameLen)
Written(f) == DataOffset(f) + f.copied + (AlignUp(f.size) - f.size)

\* The files are as lstat saw them, or have lost their ends since.
Packable(files) ==
    /\ files \in Seq(Files)
    /\ \A i \in 1..Len(files) : files[i].copied <= files[i].size

\* The member of a file does not wrap around the reader's size_t.
FitsSize(f) == DataOffset(f) + f.size + 3 < SizeMod

\* The offset of each member; the one after the last file is the trailer's.
Offsets(lead, files) ==
    LET at[i \in 1..(Len(files) + 1)] ==
            IF i = 1 THEN lead ELSE at[i - 1] + Written(files[i - 1])
    IN  at

\* The archive of some files, after a lead of zero bytes.
Pack(lead, files) ==
    LET at == Offsets(lead, files)
        n == Len(files)
        member == [i \in 1..(n + 1) |->
                    IF i > n THEN Trailer
                    ELSE [name |-> files[i].name, nameLen |-> files[i].nameLen, fileLen |-> files[i].size]]
    IN  [len |-> at[n + 1] + AlignUp(HeaderSize + Trailer.nameLen),
         zeros |-> {4 * k : k \in 0..(lead \div 4)} \ {lead},
         heads |-> [o \in {at[i] : i \in 1..(n + 1)} |->
                        member[CHOOSE i \in 1..(n + 1) : at[i] = o]]]

\* An archive of which only the first bytes arrived.
Truncate(image, len) == [image EXCEPT !.len = len]

----------------------------------------------------------------------------
\* cpio_align, in the width of size_t.
Align(n) == (((n + 3) % SizeMod) \div 4) * 4

\* Skipping words of zeros while a whole word is left.
SkipPadding(image, from, left) ==
    LET skip[k \in Nat] ==
            IF left - 4 * k >= 4 /\ from + 4 * k \in image.zeros THEN skip[k + 1] ELSE k
    IN  4 * skip[0]

\* Variants: the padding at the end is not counted; the next member is this one.
TooLongUnpadded(cpioLen, rest) == cpioLen > rest + 3
AfterSame(at, cpioLen) == at

TooLong(cpioLen, rest) == cpioLen > rest
After(at, cpioLen) == at + cpioLen

\* The data of the file, and the member with what fills its last word, from
\* the header on.
DataFrom(head) == Align(HeaderSize + head.nameLen)
CpioLen(head, rest) ==
    LET sum == (DataFrom(head) + head.fileLen) % SizeMod
    IN  IF sum < rest THEN Align(sum) ELSE sum

\* What one turn of cpio_extract makes of the image at an offset, with left
\* bytes left: how it ends, or the file that it passes on and the next offset.
End(rc) == [rc |-> rc, name |-> "none", data |-> 0, len |-> 0, next |-> 0]

MemberAt(image, at, rest) ==
    LET head == image.heads[at]
    IN  CASE rest = 0 -> End("end")
          [] rest \in 1..(HeaderSize - 1) -> End("truncated_header")
          [] rest >= HeaderSize /\ at \notin DOMAIN image.heads -> End("bad_magic")
          [] rest >= HeaderSize /\ at \in DOMAIN image.heads ->
                IF TooLong(CpioLen(head, rest), rest) THEN End("truncated_file")
                ELSE IF head.name = TrailerName THEN End("end")
                ELSE [rc |-> "file", name |-> head.name, data |-> at + DataFrom(head),
                      len |-> head.fileLen, next |-> After(at, CpioLen(head, rest))]

Member(image, from, left) ==
    LET skip == SkipPadding(image, from, left)
    IN  MemberAt(image, from + skip, left - skip)
============================================================================
