----------------------------- MODULE Decompress -----------------------------
(***************************************************************************)
(* The decompression of an embedded bootmgr: the loop of utils/bmtool.c    *)
(* over the places where a compressed image may begin, which decompresses  *)
(* each of them once to learn its length, allocates the buffer and         *)
(* decompresses it again into the buffer; and the two decompressors, XCA   *)
(* (libnt/xca.c) and LZNT1 (libnt/lznt1.c).                                *)
(*                                                                         *)
(* The formats keep their shape at a smaller width: a byte has ByteBits    *)
(* bits and a word two bytes, a Huffman code at most one word; the table   *)
(* of code lengths is Tables[first byte + 1] and takes TableLen bytes.     *)
(***************************************************************************)
EXTENDS Integers, Sequences, SequencesExt

CONSTANTS
  ByteBits,      \* bits of a byte: 8 in the program
  QuickBits,     \* HUFFMAN_QL_BITS: 7
  Tables,        \* tables of code lengths, at index 1 + first byte
  TableLen,      \* sizeof (struct xca_huf_len): 256
  LenRoom,       \* lengths a match symbol can state: 16
  BlockSize,     \* XCA_BLOCK_SIZE: 64 KiB
  FirstSplit,    \* the split at the start of an LZNT1 block: 12
  HeaderBits,    \* length bits of an LZNT1 header: 12
  CandidateLists \* the candidates of one file, in the order of their offsets

VARIABLES
  candidates, \* the candidates not yet given up, the current one first
  pc,         \* where the decompressor is
  pass,       \* "length": buf is NULL; "data": buf holds "size" bytes
  src,        \* offset of the next byte to read
  outLen,     \* out_len
  out,        \* what was written to buf
  xca,        \* XCA: [lengths, accum, extra, threshold]
  lz,         \* LZNT1: [limit, split, next, tag, bit, blockLen]
  beyond,     \* the bytes the memory after the candidate holds
  size,       \* udata_len, once the length pass has ended
  overread,   \* the length pass read past the candidate's end
  result      \* "none" while the loop runs, "failed" (-1) or "extracted"

vars == <<candidates, pc, pass, src, outLen, out, xca, lz, beyond, size,
          overread, result>>

WordBits == 2 * ByteBits
ByteRoom == 2 ^ ByteBits
WordRoom == 2 ^ WordBits
EndMarker == ByteRoom   \* XCA_END_MARKER: the first symbol that is no byte

INSTANCE Huffman WITH HuffmanBits <- WordBits, QuickBits <- QuickBits

Data == Head(candidates).data
End == Len(Data)

ByteAt(at) == IF at < End THEN Data[at + 1] ELSE beyond
WordAt(at) == ByteAt(at) + ByteRoom * ByteAt(at + 1)

NoXca == [lengths |-> <<>>, accum |-> 0, extra |-> 0, threshold |-> 0]
NoLz == [limit |-> 0, split |-> FirstSplit, next |-> 0, tag |-> 0, bit |-> 0,
         blockLen |-> 0]

-----------------------------------------------------------------------------
(* What the decompressors write, in the data pass only.                    *)

(* Variant: the copy stops one byte before the match's end.                *)
CopiedShort(written, offset, length) ==
  LET from == Len(written) - offset
      copy[i \in 1 .. length - 1] ==
        IF i <= offset
          THEN IF from + i >= 1 THEN written[from + i] ELSE beyond
          ELSE copy[i - offset]
  IN  written \o [i \in 1 .. length - 1 |-> copy[i]]

(* The byte by byte copy of a match: it may overlap what it writes, and it *)
(* reads what precedes the buffer when the offset is too large.            *)
Copied(written, offset, length) ==
  LET from == Len(written) - offset
      copy[i \in 1 .. length] ==
        IF i <= offset
          THEN IF from + i >= 1 THEN written[from + i] ELSE beyond
          ELSE copy[i - offset]
  IN  written \o [i \in 1 .. length |-> copy[i]]

WriteMatch(offset, length) ==
  out' = IF pass = "data" THEN Copied(out, offset, length) ELSE out

WriteBytes(bytes) ==
  out' = IF pass = "data" THEN out \o bytes ELSE out

(* A decompressor returns a length.                                        *)
Return ==
  /\ pc' = "returned"
  /\ UNCHANGED <<candidates, pass, src, outLen, out, xca, lz, beyond, size,
                 overread, result>>

(* A decompressor returns -1.                                              *)
Refuse ==
  /\ pc' = "refused"
  /\ UNCHANGED <<candidates, pass, src, outLen, out, xca, lz, beyond, size,
                 overread, result>>

-----------------------------------------------------------------------------
(* XCA                                                                     *)

XcaBlockStarts == outLen >= xca.threshold

(* A block starts: the table of lengths must fit, its alphabet must be     *)
(* complete; two words fill the accumulator.                               *)
XcaBlock ==
  /\ pc = "xca" /\ src < End /\ XcaBlockStarts
  /\ src + TableLen <= End
  /\ LET lengths == Tables[ByteAt(src) + 1]
         after == src + TableLen
     IN  /\ Accepted(lengths)
         /\ xca' = [lengths |-> lengths,
                    accum |-> WordAt(after) * WordRoom + WordAt(after + 2),
                    extra |-> WordBits,
                    threshold |-> outLen + BlockSize]
         /\ src' = after + 4
  /\ pc' = "xca_symbol"
  /\ UNCHANGED <<candidates, pass, outLen, out, lz, beyond, size, overread,
                 result>>

XcaBadBlock ==
  /\ pc = "xca" /\ src < End /\ XcaBlockStarts
  /\ \/ src + TableLen > End
     \/ ~ Accepted(Tables[ByteAt(src) + 1])
  /\ Refuse

XcaGoesOn ==
  /\ pc = "xca" /\ src < End /\ ~ XcaBlockStarts
  /\ pc' = "xca_symbol"
  /\ UNCHANGED <<candidates, pass, src, outLen, out, xca, lz, beyond, size,
                 overread, result>>

(* The input is used up: exactly, or the last word lay beyond it.          *)
XcaInputEnds ==
  /\ pc = "xca" /\ src >= End
  /\ IF src = End THEN Return ELSE Refuse

(* Variant: the next word is read as soon as no more than a word is left.  *)
TakenEager(acc, extra, at, bits) ==
  LET left == extra - bits
      rest == (acc * 2 ^ bits) % WordRoom ^ 2
  IN  IF left <= 0
        THEN [accum |-> rest + WordAt(at) * 2 ^ (-left),
              extra |-> left + WordBits, src |-> at + 2]
        ELSE [accum |-> rest, extra |-> left, src |-> at]

(* Bits leave the accumulator at its top; when fewer than a word are left  *)
(* the next word of the input joins below them.                            *)
Taken(acc, extra, at, bits) ==
  LET left == extra - bits
      rest == (acc * 2 ^ bits) % WordRoom ^ 2
  IN  IF left < 0
        THEN [accum |-> rest + WordAt(at) * 2 ^ (-left),
              extra |-> left + WordBits, src |-> at + 2]
        ELSE [accum |-> rest, extra |-> left, src |-> at]

(* A match symbol: the bits of its offset and the length it states; the    *)
(* largest length is continued in a byte, and the largest byte in a word.  *)
Match(raw, at) ==
  LET stated == (raw - EndMarker) % LenRoom
      byte == ByteAt(at)
  IN [bits |-> (raw - EndMarker) \div LenRoom,
      length |-> 3 + (IF stated < LenRoom - 1 THEN stated
                      ELSE IF byte < ByteRoom - 1 THEN byte + stated
                      ELSE WordAt(at + 1)),
      src |-> at + (IF stated < LenRoom - 1 THEN 0
                    ELSE IF byte < ByteRoom - 1 THEN 1 ELSE 3)]

(* One turn of the loop after the block's start: a literal, the end marker *)
(* once the input is read, or a match.                                     *)
XcaSymbol ==
  /\ pc = "xca_symbol"
  /\ LET huf == xca.accum \div WordRoom
         bits == Sym(xca.lengths, huf)
         raw == Raw(xca.lengths, bits, huf)
         now == Taken(xca.accum, xca.extra, src, bits)
         atEnd == raw = EndMarker /\ now.src >= End - 1
         match == Match(raw, now.src)
         offset == IF match.bits = 0 THEN 1
                   ELSE 2 ^ match.bits
                        + now.accum \div 2 ^ (2 * WordBits - match.bits)
         then == Taken(now.accum, now.extra, match.src, match.bits)
     IN \/ /\ raw < EndMarker
           /\ xca' = [xca EXCEPT !.accum = now.accum, !.extra = now.extra]
           /\ src' = now.src
           /\ outLen' = outLen + 1
           /\ WriteBytes(<<raw>>)
           /\ pc' = "xca"
        \/ /\ atEnd
           /\ xca' = [xca EXCEPT !.accum = now.accum, !.extra = now.extra]
           /\ src' = now.src
           /\ pc' = "returned"
           /\ UNCHANGED <<outLen, out>>
        \/ /\ raw >= EndMarker /\ ~ atEnd
           /\ xca' = [xca EXCEPT !.accum = then.accum, !.extra = then.extra]
           /\ src' = then.src
           /\ outLen' = outLen + match.length
           /\ WriteMatch(offset, match.length)
           /\ pc' = "xca"
  /\ UNCHANGED <<candidates, pass, lz, beyond, size, overread, result>>

-----------------------------------------------------------------------------
(* LZNT1                                                                   *)

(* The data is used up, or a single zero byte is left.                     *)
LzEnds == src = End \/ (src + 1 = End /\ ByteAt(src) = 0)

LzEnd == pc = "lznt1" /\ LzEnds /\ Return

BlockLen(header) == 1 + (header % 2 ^ HeaderBits)
IsCompressed(header) == header >= WordRoom \div 2

LzBadHeader ==
  /\ pc = "lznt1" /\ ~ LzEnds
  /\ \/ src + 2 > End
     \/ /\ ~ IsCompressed(WordAt(src))
        /\ src + 2 + BlockLen(WordAt(src)) > End
  /\ Refuse

(* A block that is not compressed is copied.                               *)
LzPlain ==
  /\ pc = "lznt1" /\ ~ LzEnds /\ src + 2 <= End
  /\ LET header == WordAt(src)
         length == BlockLen(header)
     IN  /\ ~ IsCompressed(header)
         /\ src + 2 + length <= End
         /\ src' = src + 2 + length
         /\ outLen' = outLen + length
         /\ WriteBytes(SubSeq(Data, src + 3, src + 2 + length))
  /\ UNCHANGED <<candidates, pc, pass, xca, lz, beyond, size, overread, result>>

(* A compressed block may state a length past the data's end; nothing      *)
(* compares the two.                                                       *)
LzCompressed ==
  /\ pc = "lznt1" /\ ~ LzEnds /\ src + 2 <= End
  /\ LET header == WordAt(src)
     IN  /\ IsCompressed(header)
         /\ lz' = [limit |-> src + 2 + BlockLen(header), split |-> FirstSplit,
                   next |-> 2 ^ (WordBits - FirstSplit), tag |-> 0, bit |-> 0,
                   blockLen |-> 0]
  /\ src' = src + 2
  /\ pc' = "lznt1_block"
  /\ UNCHANGED <<candidates, pass, outLen, out, xca, beyond, size, overread,
                 result>>

(* The split moves down each time the block's output passes a threshold.   *)
Raised(split, next, length) ==
  LET times == Min({n \in 0 .. WordBits : length <= next * 2 ^ n})
  IN [split |-> split - times, next |-> next * 2 ^ times]

(* One turn of lznt1_block: a tag byte first when the last one is used up, *)
(* then a literal or a tuple of offset and length.                         *)
LzValue ==
  /\ pc = "lznt1_block" /\ src # lz.limit
  /\ LET tagged == lz.bit = 0
         tag == IF tagged THEN ByteAt(src) ELSE lz.tag
         at == IF tagged THEN src + 1 ELSE src
         tuple == WordAt(at)
         length == 3 + (tuple % 2 ^ lz.split)
         Advance(taken, written) ==
           LET raised == Raised(lz.split, lz.next, lz.blockLen + written)
           IN /\ src' = at + taken
              /\ lz' = [lz EXCEPT !.split = raised.split, !.next = raised.next,
                                  !.tag = tag \div 2,
                                  !.bit = (@ + 1) % ByteBits,
                                  !.blockLen = @ + written]
              /\ pc' = "lznt1_block"
     IN \/ /\ at = lz.limit
           /\ src' = at
           /\ pc' = "lznt1_block"
           /\ UNCHANGED <<out, lz>>
        \/ /\ at # lz.limit /\ tag % 2 = 0
           /\ Advance(1, 1)
           /\ WriteBytes(<<ByteAt(at)>>)
        \/ /\ at # lz.limit /\ tag % 2 = 1 /\ at + 2 <= lz.limit
           /\ Advance(2, length)
           /\ WriteMatch(tuple \div 2 ^ lz.split + 1, length)
        \/ /\ at # lz.limit /\ tag % 2 = 1 /\ at + 2 > lz.limit
           /\ pc' = "refused"
           /\ UNCHANGED <<src, out, lz>>
  /\ UNCHANGED <<candidates, pass, outLen, xca, beyond, size, overread, result>>

LzBlockEnds ==
  /\ pc = "lznt1_block" /\ src = lz.limit
  /\ outLen' = outLen + lz.blockLen
  /\ lz' = NoLz
  /\ pc' = "lznt1"
  /\ UNCHANGED <<candidates, pass, src, out, xca, beyond, size, overread, result>>

-----------------------------------------------------------------------------
(* The loop of decompress_bootmgr                                          *)

Fresh ==
  /\ src' = 0
  /\ outLen' = 0
  /\ out' = <<>>
  /\ xca' = NoXca
  /\ lz' = NoLz

(* A candidate that is refused was a false match: the next one is tried.   *)
NextCandidate ==
  /\ pc = "refused" /\ pass = "length"
  /\ candidates' = Tail(candidates)
  /\ IF candidates' = <<>>
       THEN /\ pc' = "done"
            /\ result' = "failed"
       ELSE /\ pc' = Head(candidates').format
            /\ UNCHANGED result
  /\ Fresh
  /\ UNCHANGED <<pass, beyond, size, overread>>

(* The buffer is allocated and the second pass begins; what lies behind    *)
(* the file in memory may have changed by then.                            *)
Allocate ==
  /\ pc = "returned" /\ pass = "length"
  /\ size' = outLen
  /\ overread' = (src > End)
  /\ pass' = "data"
  /\ pc' = Head(candidates).format
  /\ beyond' \in 0 .. ByteRoom - 1
  /\ Fresh
  /\ UNCHANGED <<candidates, result>>

OutOfMemory ==
  /\ pc = "returned" /\ pass = "length"
  /\ pc' = "done"
  /\ result' = "failed"
  /\ UNCHANGED <<candidates, pass, src, outLen, out, xca, lz, beyond, size,
                 overread>>

(* What the second pass returns is not looked at: "size" bytes are         *)
(* written to the file.                                                    *)
Extracted ==
  /\ pc \in {"returned", "refused"} /\ pass = "data"
  /\ pc' = "done"
  /\ result' = "extracted"
  /\ UNCHANGED <<candidates, pass, src, outLen, out, xca, lz, beyond, size,
                 overread>>

Init ==
  /\ candidates \in CandidateLists
  /\ pc = Head(candidates).format
  /\ pass = "length"
  /\ src = 0 /\ outLen = 0 /\ out = <<>>
  /\ xca = NoXca /\ lz = NoLz
  /\ beyond \in 0 .. ByteRoom - 1
  /\ size = 0
  /\ overread = FALSE
  /\ result = "none"

Next ==
  \/ XcaBlock \/ XcaBadBlock \/ XcaGoesOn \/ XcaInputEnds \/ XcaSymbol
  \/ LzEnd \/ LzBadHeader \/ LzPlain \/ LzCompressed \/ LzValue \/ LzBlockEnds
  \/ NextCandidate \/ Allocate \/ OutOfMemory \/ Extracted

Spec == Init /\ [][Next]_vars

-----------------------------------------------------------------------------
(* Properties.  A candidate that an encoder wrote also has its "text", and *)
(* says whether the text is "plain": it has no match of the code the end   *)
(* marker shares, three bytes at offset one.                               *)

(* A candidate that an encoder wrote is never taken for a false match, and *)
(* what is extracted is its text; when the text is not plain, a match      *)
(* within the last words read may be taken for the end marker and the      *)
(* text stops before it (xca_decompress, lznt1_decompress,                 *)
(* huffman_alphabet).                                                      *)
StreamsDecoded ==
  candidates # <<>> /\ Head(candidates).encoded =>
    /\ pc # "refused"
    /\ result = "extracted" =>
         /\ IsPrefix(out, Head(candidates).text)
         /\ Head(candidates).plain => out = Head(candidates).text

(* Whatever the bytes of a candidate are: if the length pass read nothing  *)
(* past them, the data pass never writes more than the buffer holds, is    *)
(* not refused, and fills the buffer (decompress_bootmgr ignores what its  *)
(* second call returns).                                                   *)
PassesAgree ==
  pass = "data" /\ ~ overread =>
    /\ pc # "refused"
    /\ Len(out) <= size
    /\ result = "extracted" => Len(out) = size
=============================================================================
