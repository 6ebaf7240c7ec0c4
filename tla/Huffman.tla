------------------------------ MODULE Huffman ------------------------------
(***************************************************************************)
(* The Huffman alphabets of libnt/huffman.c: from the length of every      *)
(* symbol's code to the sets of symbols of one length, the quick lookup    *)
(* table over the first bits of a code, and the search of a symbol.        *)
(*                                                                         *)
(* A table of lengths is a function from the symbols to 0 .. HuffmanBits;  *)
(* 0 is a symbol that is not used.  The program has HuffmanBits = 16 and   *)
(* QuickBits = 7.                                                          *)
(***************************************************************************)
EXTENDS Integers, FiniteSets, FiniteSetsExt

CONSTANTS HuffmanBits, QuickBits

Sizes == 1 .. HuffmanBits

OfLength(lengths, bits) == {raw \in DOMAIN lengths : lengths[raw] = bits}

(* The number of symbols of a length; an alphabet without symbols gets two *)
(* codes of one bit.                                                       *)
Freq(lengths, bits) ==
  IF bits = 1 /\ \A raw \in DOMAIN lengths : lengths[raw] = 0
    THEN 2
    ELSE Cardinality(OfLength(lengths, bits))

(* The counter "huf" when the codes of each length begin.                  *)
FirstCodes(lengths) ==
  LET first[bits \in 1 .. HuffmanBits + 1] ==
        IF bits = 1 THEN 0
        ELSE 2 * (first[bits - 1] + Freq(lengths, bits - 1))
  IN first

Start(lengths, bits) == FirstCodes(lengths)[bits] * 2 ^ (HuffmanBits - bits)

(* huffman_alphabet succeeds: no length has too many symbols and no code   *)
(* is left over.                                                           *)
Accepted(lengths) ==
  LET first == FirstCodes(lengths)
  IN  /\ \A bits \in Sizes : first[bits] + Freq(lengths, bits) <= 2 ^ bits
      /\ first[HuffmanBits + 1] = 2 ^ (HuffmanBits + 1)

(* Each length in turn overwrites the lookup table from the first prefix   *)
(* of its codes on: the last length that reaches a prefix stays.           *)
Lookup(lengths, prefix) ==
  Max({bits \in Sizes :
         Start(lengths, bits) \div 2 ^ (HuffmanBits - QuickBits) <= prefix})

(* huffman_sym: the lookup gives the longest candidate; shorter lengths    *)
(* are tried until one begins at or before the code.                       *)
Sym(lengths, huf) ==
  LET longest == Lookup(lengths, huf \div 2 ^ (HuffmanBits - QuickBits))
  IN  Max({bits \in 1 .. longest : Start(lengths, bits) <= huf})

(* huffman_raw: the symbols of one length stand in increasing order, the   *)
(* first code of the length at the first of them.                          *)
Raw(lengths, bits, huf) ==
  LET index == (huf - Start(lengths, bits)) \div 2 ^ (HuffmanBits - bits)
      equal == OfLength(lengths, bits)
  IN  CHOOSE raw \in equal :
        Cardinality({other \in equal : other < raw}) = index
=============================================================================
