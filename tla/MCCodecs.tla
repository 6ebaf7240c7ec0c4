------------------------------ MODULE MCCodecs ------------------------------
(***************************************************************************)
(* Decompression for TLC, with bytes of two bits: every sequence of up to  *)
(* MaxBytes bytes in both formats (XCA: behind each table), and the        *)
(* streams that the encoders below                                         *)
(* write for every text of up to MaxTokens literals and matches.           *)
(***************************************************************************)
EXTENDS Decompress

CONSTANTS MaxBytes, MaxTokens

(* The alphabets: all symbols of three bits; codes of one, two and three   *)
(* bits; one code left over; one code too many.                            *)
MCTables ==
  << [raw \in 0 .. 7 |-> 3],
     [raw \in 0 .. 7 |-> CASE raw = 0 -> 1 [] raw = 4 -> 2
                           [] raw \in {1, 7} -> 3 [] OTHER -> 0],
     [raw \in 0 .. 7 |-> IF raw = 2 THEN 0 ELSE 3],
     [raw \in 0 .. 7 |-> IF raw = 2 THEN 2 ELSE 3] >>

Literal(byte) == [offset |-> 0, byte |-> byte, length |-> 1]
Repeat(offset, length) == [offset |-> offset, byte |-> 0, length |-> length]

MCTokens ==
  {Literal(0), Literal(1), Repeat(1, 3), Repeat(2, 4), Repeat(3, 8),
   Repeat(1, 6)}

(* The text a sequence of tokens stands for.                               *)
Expand(tokens) ==
  FoldLeft(LAMBDA text, token :
             IF token.offset = 0 THEN Append(text, token.byte)
             ELSE FoldLeft(LAMBDA t, i : Append(t, t[Len(t) - token.offset + 1]),
                           text, [i \in 1 .. token.length |-> i]),
           <<>>, tokens)

IsText(tokens) ==
  \A i \in 1 .. Len(tokens) :
    tokens[i].offset <= Len(Expand(SubSeq(tokens, 1, i - 1)))

TokenLists ==
  {tokens \in UNION {[1 .. n -> MCTokens] : n \in 1 .. MaxTokens} :
     IsText(tokens)}

-----------------------------------------------------------------------------
(* The XCA encoder: canonical Huffman codes, written into words that are   *)
(* reserved two ahead, the bytes that continue a length between them.      *)

LowWord(word) == <<word % ByteRoom, word \div ByteRoom>>
PutWord(bytes, at, word) ==
  [i \in 1 .. Len(bytes) |->
     IF i \in {at + 1, at + 2} THEN LowWord(word)[i - at] ELSE bytes[i]]

PutBits(e, count, bits) ==
  IF count <= e.free
    THEN [e EXCEPT !.word = @ * 2 ^ count + bits, !.free = @ - count]
    ELSE LET over == count - e.free
         IN [e EXCEPT !.bytes = PutWord(@, e.first, e.word * 2 ^ e.free
                                                    + bits \div 2 ^ over)
                                \o <<0, 0>>,
                      !.first = e.second, !.second = Len(e.bytes),
                      !.word = bits % 2 ^ over, !.free = WordBits - over]

PutBytes(e, bytes) == [e EXCEPT !.bytes = @ \o bytes]

Flush(e) == [e EXCEPT !.bytes = PutWord(@, e.first, e.word * 2 ^ e.free)]

StartBlock(e, table) ==
  [e EXCEPT !.bytes = @ \o <<table - 1, 0>> \o <<0, 0, 0, 0>>,
            !.first = Len(e.bytes) + 2, !.second = Len(e.bytes) + 4,
            !.word = 0, !.free = WordBits, !.limit = e.length + BlockSize]

(* The code of a symbol: what the codes before it leave.                   *)
CodeOf(lengths, raw) ==
  LET before == {other \in DOMAIN lengths :
                   /\ lengths[other] > 0
                   /\ \/ lengths[other] < lengths[raw]
                      \/ lengths[other] = lengths[raw] /\ other < raw}
  IN FoldFunctionOnSet(+, 0, [other \in DOMAIN lengths |->
                                2 ^ (WordBits - lengths[other])], before)
     \div 2 ^ (WordBits - lengths[raw])

OffsetBits(offset) == IF offset = 1 THEN 0 ELSE 1

SymbolOf(token) ==
  IF token.offset = 0 THEN token.byte
  ELSE EndMarker + LenRoom * OffsetBits(token.offset)
       + (IF token.length = 3 THEN 0 ELSE 1)

MoreLength(token) ==
  IF token.offset = 0 \/ token.length = 3 THEN <<>>
  ELSE IF token.length < 7 THEN <<token.length - 4>>
  ELSE <<ByteRoom - 1>> \o LowWord(token.length - 3)

PutSymbol(e, table, raw) ==
  PutBits(e, MCTables[table][raw], CodeOf(MCTables[table], raw))

PutToken(e, table, token) ==
  LET block == IF e.length >= e.limit
                 THEN StartBlock(IF e.length = 0 THEN e ELSE Flush(e), table)
                 ELSE e
      coded == PutBytes(PutSymbol(block, table, SymbolOf(token)),
                        MoreLength(token))
      bits == IF token.offset = 0 THEN 0 ELSE OffsetBits(token.offset)
  IN [PutBits(coded, bits, IF bits = 0 THEN 0 ELSE token.offset - 2 ^ bits)
        EXCEPT !.length = @ + token.length]

(* The end marker, and one byte behind the last word.                      *)
EncodeXca(tokens, table) ==
  LET start == [bytes |-> <<>>, first |-> 0, second |-> 0, word |-> 0,
                free |-> 0, length |-> 0, limit |-> 0]
      texted == FoldLeft(LAMBDA e, token : PutToken(e, table, token), start,
                         tokens)
      last == IF texted.length >= texted.limit
                THEN StartBlock(Flush(texted), table) ELSE texted
  IN Append(Flush(PutSymbol(last, table, EndMarker)).bytes, 0)

Codable(tokens, table) ==
  \A i \in 1 .. Len(tokens) : MCTables[table][SymbolOf(tokens[i])] > 0

-----------------------------------------------------------------------------
(* The LZNT1 encoder: one compressed block; a tag byte before every        *)
(* ByteBits tokens, and tuples split by what the block holds so far.       *)

SplitAt(length) ==
  CHOOSE split \in 0 .. FirstSplit :
    /\ length <= 2 ^ (WordBits - split)
    /\ split < FirstSplit => length > 2 ^ (WordBits - split - 1)

LzTokenBytes(tokens, i) ==
  LET token == tokens[i]
      split == SplitAt(Len(Expand(SubSeq(tokens, 1, i - 1))))
  IN IF token.offset = 0 THEN <<token.byte>>
     ELSE LowWord((token.offset - 1) * 2 ^ split + token.length - 3)

LzTag(tokens, i) ==
  LET flag(j) == IF i + j <= Len(tokens) /\ tokens[i + j].offset > 0
                   THEN 2 ^ j ELSE 0
  IN FoldLeft(LAMBDA sum, j : sum + flag(j), 0, [j \in 1 .. ByteBits |-> j - 1])

LzBlock(tokens) ==
  FoldLeft(LAMBDA bytes, i :
             bytes \o (IF (i - 1) % ByteBits = 0 THEN <<LzTag(tokens, i)>>
                       ELSE <<>>)
                   \o LzTokenBytes(tokens, i),
           <<>>, [i \in 1 .. Len(tokens) |-> i])

(* A tuple has room for the token: its offset and its length.              *)
LzCodable(tokens) ==
  /\ \A i \in 1 .. Len(tokens) :
       LET split == SplitAt(Len(Expand(SubSeq(tokens, 1, i - 1))))
       IN tokens[i].offset > 0 =>
            /\ tokens[i].length - 3 < 2 ^ split
            /\ tokens[i].offset <= 2 ^ (WordBits - split)
  /\ Len(LzBlock(tokens)) <= 2 ^ HeaderBits

EncodeLz(tokens) ==
  LowWord(WordRoom \div 2 + Len(LzBlock(tokens)) - 1) \o LzBlock(tokens) \o <<0>>

-----------------------------------------------------------------------------
Bytes(max) == UNION {[1 .. n -> 0 .. ByteRoom - 1] : n \in 1 .. max}

Arbitrary(format, bytes) ==
  [format |-> format, data |-> bytes, encoded |-> FALSE, plain |-> FALSE,
   text |-> <<>>]

(* XCA: too short for a table, or any bytes behind a table.                *)
XcaRaws ==
  {Arbitrary("xca", bytes) : bytes \in Bytes(3)}
  \cup {Arbitrary("xca", <<table - 1, 0>> \o bytes) :
          table \in DOMAIN MCTables, bytes \in Bytes(MaxBytes)}
LzRaws == {Arbitrary("lznt1", bytes) : bytes \in Bytes(MaxBytes)}

Encoded(format, bytes, tokens) ==
  [format |-> format, data |-> bytes, encoded |-> TRUE,
   plain |-> format = "lznt1" \/ Repeat(1, 3) \notin {tokens[i] : i \in DOMAIN tokens},
   text |-> Expand(tokens)]

XcaStreams ==
  {Encoded("xca", EncodeXca(pair[1], pair[2]), pair[1]) :
     pair \in {p \in TokenLists \X {1, 2} : Codable(p[1], p[2])}}
LzStreams ==
  {Encoded("lznt1", EncodeLz(tokens), tokens) :
     tokens \in {t \in TokenLists : LzCodable(t)}}

(* A false match, or several bytes that decompress by accident, may come   *)
(* before the image.                                                       *)
MCCandidateLists ==
  {<<candidate>> : candidate \in XcaStreams \cup LzStreams \cup XcaRaws \cup LzRaws}
  \cup {<<first, Encoded("lznt1", EncodeLz(<<Literal(1)>>), <<Literal(1)>>)>> :
          first \in {r \in XcaRaws : Len(r.data) <= 3}}
=============================================================================
