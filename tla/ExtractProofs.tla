--------------------------- MODULE ExtractProofs ---------------------------
(***************************************************************************)
(* What cpio_extract finds in an archive that mkinitrd wrote, whatever its *)
(* files and wherever it is cut, and that the files that reach the virtual *)
(* disk are those that were packed.                                        *)
(***************************************************************************)
EXTENDS PayloadInv, ArithLemmas, SequenceTheorems

-----------------------------------------------------------------------------
(* Alignment.                                                              *)

\* AlignUp rounds up to the next multiple of 4.
LEMMA AlignUpFacts ==
    ASSUME NEW n \in Nat
    PROVE  /\ AlignUp(n) \in Nat /\ n <= AlignUp(n) /\ AlignUp(n) <= n + 3
           /\ AlignUp(n) = 4 * ((n + 3) \div 4)
           /\ \A k \in Nat : n <= 4 * k => AlignUp(n) <= 4 * k
  BY DEF AlignUp

\* What comes after a multiple of 4 is rounded up on its own.
LEMMA AlignUpAfter ==
    ASSUME NEW k \in Nat, NEW n \in Nat
    PROVE  AlignUp(4 * k + n) = 4 * k + AlignUp(n)
<1>1. (4 * k + n + 3) \div 4 = k + (n + 3) \div 4
  OBVIOUS
<1> QED
  BY <1>1 DEF AlignUp

\* The reader's rounding is the archiver's while nothing wraps around.
LEMMA AlignIsAlignUp ==
    ASSUME NEW n \in Nat, n + 3 < SizeMod
    PROVE  Align(n) = AlignUp(n)
<1>1. (n + 3) % SizeMod = n + 3
  BY CpioAssumption, ModSmall
<1> QED
  BY <1>1 DEF Align, AlignUp

\* The parts of a member.
LEMMA WrittenFacts ==
    ASSUME NEW f \in Files, f.copied <= f.size
    PROVE  /\ DataOffset(f) \in Nat /\ DataOffset(f) >= HeaderSize
           /\ Written(f) \in Nat /\ Written(f) >= DataOffset(f)
           /\ Written(f) <= DataOffset(f) + AlignUp(f.size)
           /\ f.copied = f.size => Written(f) = DataOffset(f) + AlignUp(f.size)
<1>1. /\ f.nameLen \in Nat /\ f.size \in Nat /\ f.copied \in Nat /\ HeaderSize \in Nat
      /\ HeaderSize + f.nameLen \in Nat
  BY CpioAssumption DEF Files
<1>2. /\ AlignUp(HeaderSize + f.nameLen) \in Nat /\ AlignUp(f.size) \in Nat
      /\ HeaderSize + f.nameLen <= AlignUp(HeaderSize + f.nameLen) /\ f.size <= AlignUp(f.size)
  BY <1>1, AlignUpFacts
<1> QED
  BY <1>1, <1>2 DEF Written, DataOffset

-----------------------------------------------------------------------------
(* Where the archiver puts the members.                                    *)

\* A function defined from its value one before exists.
LEMMA SumExists ==
    ASSUME NEW n \in Nat, NEW a \in Nat, NEW d \in [1..n -> Nat]
    PROVE  \E f \in [1..(n + 1) -> Nat] : f[1] = a /\ \A i \in 1..n : f[i + 1] = f[i] + d[i]
<1> DEFINE Starts(k) == \E f \in [1..(k + 1) -> Nat] : f[1] = a /\ \A i \in 1..k : f[i + 1] = f[i] + d[i]
           Bad == {k \in 0..n : ~Starts(k)}
<1>1. Starts(0)
  <2> DEFINE f == [i \in 1..(0 + 1) |-> a]
  <2>1. f \in [1..(0 + 1) -> Nat] /\ f[1] = a /\ \A i \in 1..0 : f[i + 1] = f[i] + d[i]
    OBVIOUS
  <2> HIDE DEF f
  <2> QED
    BY <2>1
<1>2. ASSUME NEW k \in 1..n, Starts(k - 1)
      PROVE  Starts(k)
  <2>1. (k - 1) + 1 = k
    OBVIOUS
  <2>2. PICK f \in [1..k -> Nat] : f[1] = a /\ \A i \in 1..(k - 1) : f[i + 1] = f[i] + d[i]
    BY <1>2, <2>1
  <2> DEFINE g == [i \in 1..(k + 1) |-> IF i <= k THEN f[i] ELSE f[k] + d[k]]
  <2>3. k \in 1..n /\ f[k] \in Nat /\ d[k] \in Nat
    BY <2>2
  <2>4. g \in [1..(k + 1) -> Nat]
    BY <2>2, <2>3
  <2>5. g[1] = a
    BY <2>2
  <2>6. \A i \in 1..k : g[i + 1] = g[i] + d[i]
    BY <2>2, <2>3
  <2> HIDE DEF g
  <2> QED
    BY <2>4, <2>5, <2>6
<1> HIDE DEF Starts
<1>3. Bad = {}
  <2>1. SUFFICES ASSUME Bad # {} PROVE FALSE
    OBVIOUS
  <2>2. Bad \in SUBSET Nat
    OBVIOUS
  <2>3. PICK k \in Bad : \A j \in Bad : k <= j
    BY <2>1, <2>2, LeastNatural
  <2>4. k \in 0..n /\ ~Starts(k) /\ k # 0
    BY <2>3, <1>1
  <2>5. k \in 1..n /\ k - 1 \in 0..n /\ ~(k <= k - 1)
    BY <2>4
  <2>6. Starts(k - 1)
    BY <2>3, <2>5
  <2> QED
    BY <2>4, <2>5, <2>6, <1>2
<1>4. n \in 0..n
  OBVIOUS
<1>5. Starts(n)
  BY <1>3, <1>4
<1> QED
  BY <1>5 DEF Starts

\* A file in the archive takes the bytes that the archiver writes for it.
Lengths(fs) == [i \in 1..Len(fs) |-> Written(fs[i])]

\* Each member begins where the one before ends.
LEMMA OffsetsAre ==
    ASSUME NEW lead \in Nat, NEW fs, Packable(fs)
    PROVE  LET o == Offsets(lead, fs)
               n == Len(fs)
           IN  /\ n \in Nat /\ o \in [1..(n + 1) -> Nat]
               /\ o[1] = lead
               /\ \A i \in 1..n : o[i + 1] = o[i] + Written(fs[i])
<1> DEFINE n == Len(fs)
           d == Lengths(fs)
           Step(f) == [i \in 1..(n + 1) |-> IF i = 1 THEN lead ELSE f[i - 1] + Written(fs[i - 1])]
<1>1. n \in Nat /\ \A i \in 1..n : fs[i] \in Files
  BY DEF Packable
<1>2. d \in [1..n -> Nat] /\ \A i \in 1..n : d[i] = Written(fs[i])
  BY <1>1, WrittenFacts DEF Packable, Lengths
<1>3. PICK f \in [1..(n + 1) -> Nat] : f[1] = lead /\ \A i \in 1..n : f[i + 1] = f[i] + d[i]
  <2> HIDE DEF n, d
  <2> QED
    BY <1>1, <1>2, SumExists
<1>4. f = Step(f)
  <2>1. ASSUME NEW i \in 1..(n + 1)
        PROVE  f[i] = IF i = 1 THEN lead ELSE f[i - 1] + Written(fs[i - 1])
    <3>1. CASE i = 1
      BY <3>1, <1>3
    <3>2. CASE i # 1
      <4>1. i - 1 \in 1..n /\ (i - 1) + 1 = i
        BY <3>2, <1>1
      <4> QED
        BY <3>2, <4>1, <1>2, <1>3
    <3> QED
      BY <3>1, <3>2
  <2> QED
    BY <2>1, <1>3
<1> DEFINE o == CHOOSE g : g = Step(g)
<1>5. o = Step(o)
  <2> HIDE DEF Step
  <2> QED
    BY <1>4
<1>6. Offsets(lead, fs) = o
  BY DEF Offsets
<1> HIDE DEF o
<1>7. o[1] = lead /\ DOMAIN o = 1..(n + 1)
  BY <1>1, <1>5
<1>8. \A i \in 1..n : o[i + 1] = o[i] + d[i]
  <2> SUFFICES ASSUME NEW i \in 1..n PROVE o[i + 1] = o[i] + d[i]
    OBVIOUS
  <2>1. i + 1 \in 1..(n + 1) /\ i + 1 # 1 /\ (i + 1) - 1 = i
    BY <1>1
  <2>2. o[i + 1] = o[(i + 1) - 1] + Written(fs[(i + 1) - 1])
    BY <1>5, <2>1
  <2> QED
    BY <2>1, <2>2, <1>2
<1>9. \A i \in 1..(n + 1) : o[i] \in Nat
  <2> DEFINE Bad == {i \in 1..(n + 1) : o[i] \notin Nat}
  <2>1. SUFFICES ASSUME Bad # {} PROVE FALSE
    OBVIOUS
  <2>2. PICK i \in Bad : \A j \in Bad : i <= j
    <3>1. Bad \in SUBSET Nat
      BY <1>1
    <3> QED
      BY <2>1, <3>1, LeastNatural
  <2>3. i \in 1..(n + 1) /\ o[i] \notin Nat /\ i # 1
    BY <2>2, <1>7
  <2>4. i - 1 \in 1..n /\ (i - 1) + 1 = i /\ i - 1 \in 1..(n + 1) /\ ~(i <= i - 1)
    BY <2>3, <1>1
  <2>5. o[i - 1] \in Nat
    BY <2>2, <2>4
  <2>6. o[(i - 1) + 1] = o[i - 1] + d[i - 1] /\ d[i - 1] \in Nat
    BY <2>4, <1>2, <1>8
  <2>7. o[i] = o[i - 1] + d[i - 1]
    BY <2>4, <2>6
  <2> QED
    BY <2>3, <2>5, <2>6, <2>7
<1> QED
  BY <1>1, <1>2, <1>5, <1>6, <1>7, <1>8, <1>9

\* The members follow each other, each at least a header long.
LEMMA OffsetsIncrease ==
    ASSUME NEW n \in Nat, NEW o \in [1..(n + 1) -> Nat], NEW d \in [1..n -> Nat],
           \A i \in 1..n : o[i + 1] = o[i] + d[i] /\ d[i] >= HeaderSize,
           NEW i \in 1..(n + 1), NEW j \in 1..(n + 1), i < j
    PROVE  o[i] + HeaderSize <= o[j]
<1> DEFINE Bad == {k \in (i + 1)..(n + 1) : ~(o[i] + HeaderSize <= o[k])}
<1>1. HeaderSize \in Nat /\ i \in Nat /\ j \in Nat /\ j \in (i + 1)..(n + 1)
  BY CpioAssumption
<1>2. SUFFICES ASSUME Bad # {} PROVE FALSE
  BY <1>1
<1>3. PICK k \in Bad : \A m \in Bad : k <= m
  <2>1. Bad \in SUBSET Nat
    BY <1>1
  <2> QED
    BY <1>2, <2>1, LeastNatural
<1>4. /\ k \in (i + 1)..(n + 1) /\ ~(o[i] + HeaderSize <= o[k])
      /\ k - 1 \in 1..n /\ (k - 1) + 1 = k /\ k - 1 \in 1..(n + 1) /\ ~(k <= k - 1)
      /\ o[k] \in Nat /\ o[i] \in Nat /\ o[k - 1] \in Nat
  BY <1>1, <1>3
<1>5. o[(k - 1) + 1] = o[k - 1] + d[k - 1] /\ d[k - 1] \in Nat /\ d[k - 1] >= HeaderSize
  BY <1>4
<1>6. o[k] = o[k - 1] + d[k - 1]
  BY <1>4, <1>5
<1>7. CASE k - 1 = i
  BY <1>1, <1>4, <1>5, <1>6, <1>7
<1>8. CASE k - 1 # i
  <2>1. k - 1 \in (i + 1)..(n + 1)
    BY <1>1, <1>4, <1>8
  <2>2. o[i] + HeaderSize <= o[k - 1]
    BY <1>3, <1>4, <2>1
  <2> QED
    BY <2>2, <1>1, <1>4, <1>5, <1>6
<1> QED
  BY <1>7, <1>8

-----------------------------------------------------------------------------
(* Where the reader looks for a member.                                    *)

\* There is a word of zeros k words on, and it is whole.
Skips(image, from, more, k) == more - 4 * k >= 4 /\ from + 4 * k \in image.zeros

\* The reader passes over all words of zeros and no other.
LEMMA SkipsPadding ==
    ASSUME NEW image, NEW from \in Nat, NEW more \in Nat
    PROVE  \E k \in Nat :
                /\ SkipPadding(image, from, more) = 4 * k /\ 4 * k <= more
                /\ ~Skips(image, from, more, k)
                /\ \A j \in 0..(k - 1) : Skips(image, from, more, j)
<1> DEFINE Goes(k) == more - 4 * k >= 4 /\ from + 4 * k \in image.zeros
           Stops(k) == {j \in Nat : k <= j /\ ~Goes(j)}
           Step(f) == [k \in Nat |-> IF Goes(k) THEN f[k + 1] ELSE k]
           Least(k) == CHOOSE j \in Stops(k) : \A i \in Stops(k) : j <= i
           g == [k \in Nat |-> Least(k)]
           skip == CHOOSE f : f = Step(f)
<1>1. ASSUME NEW k \in Nat
      PROVE  Least(k) \in Stops(k) /\ \A i \in Stops(k) : Least(k) <= i
  <2>1. more + k \in Stops(k)
    OBVIOUS
  <2>2. Stops(k) \in SUBSET Nat /\ Stops(k) # {}
    BY <2>1
  <2> HIDE DEF Stops
  <2>3. \E j \in Stops(k) : \A i \in Stops(k) : j <= i
    BY <2>2, LeastNatural
  <2> QED
    BY <2>3
<1> HIDE DEF Least
<1>2. g = Step(g)
  <2>1. ASSUME NEW k \in Nat
        PROVE  Least(k) = IF Goes(k) THEN Least(k + 1) ELSE k
    <3>1. CASE Goes(k)
      <4>1. Stops(k) = Stops(k + 1)
        <5>1. ASSUME NEW j \in Nat, k <= j, ~Goes(j)
              PROVE  k + 1 <= j
          <6>1. j # k
            BY <3>1, <5>1
          <6> QED
            BY <5>1, <6>1
        <5> HIDE DEF Goes
        <5> QED
          BY <5>1
      <4> HIDE DEF Stops
      <4> QED
        BY <3>1, <4>1 DEF Least
    <3>2. CASE ~Goes(k)
      <4>1. k \in Stops(k)
        BY <3>2
      <4>2. Least(k) <= k /\ k <= Least(k) /\ Least(k) \in Nat
        BY <1>1, <4>1
      <4> QED
        BY <3>2, <4>2
    <3> QED
      BY <3>1, <3>2
  <2>2. ASSUME NEW k \in Nat
        PROVE  g[k] = IF Goes(k) THEN g[k + 1] ELSE k
    <3> HIDE DEF Goes
    <3> QED
      BY <2>1
  <2> HIDE DEF Goes
  <2> QED
    BY <2>2
<1>3. skip = Step(skip)
  <2> HIDE DEF Step, g
  <2> QED
    BY <1>2
<1>4. SkipPadding(image, from, more) = 4 * skip[0]
  BY DEF SkipPadding
<1> HIDE DEF skip
<1>5. PICK n \in Nat : n = Least(0)
  BY <1>1
<1>6. ~Goes(n) /\ \A j \in 0..(n - 1) : Goes(j)
  <2>1. n \in Stops(0) /\ \A i \in Stops(0) : n <= i
    BY <1>1, <1>5
  <2>2. ASSUME NEW j \in 0..(n - 1), ~Goes(j)
        PROVE  FALSE
    <3>1. j \in Stops(0) /\ ~(n <= j)
      BY <2>2, <1>5
    <3> QED
      BY <3>1, <2>1
  <2> QED
    BY <2>1, <2>2
<1>7. \A k \in Nat : skip[k] = IF Goes(k) THEN skip[k + 1] ELSE k
  BY <1>3
<1>8. ASSUME NEW k \in 0..n
      PROVE  skip[0] = skip[k]
  <2> DEFINE Bad == {j \in 0..n : skip[0] # skip[j]}
  <2>1. SUFFICES ASSUME Bad # {} PROVE FALSE
    OBVIOUS
  <2>2. PICK j \in Bad : \A i \in Bad : j <= i
    <3>1. Bad \in SUBSET Nat
      BY <1>5
    <3> QED
      BY <2>1, <3>1, LeastNatural
  <2>3. /\ j \in 0..n /\ skip[0] # skip[j] /\ j # 0
        /\ j - 1 \in 0..(n - 1) /\ j - 1 \in 0..n /\ j - 1 \in Nat /\ (j - 1) + 1 = j
        /\ ~(j <= j - 1)
    BY <2>2, <1>5
  <2>4. Goes(j - 1) /\ skip[0] = skip[j - 1]
    <3> HIDE DEF Goes
    <3> QED
      BY <2>2, <2>3, <1>6
  <2>5. skip[j - 1] = skip[(j - 1) + 1]
    <3> HIDE DEF Goes
    <3> QED
      BY <2>3, <2>4, <1>7
  <2> QED
    BY <2>3, <2>4, <2>5
<1>9. skip[0] = n
  <2>1. n \in 0..n
    BY <1>5
  <2> HIDE DEF Goes
  <2> QED
    BY <2>1, <1>5, <1>6, <1>7, <1>8
<1>10. 4 * n <= more
  <2>1. CASE n = 0
    BY <2>1
  <2>2. CASE n # 0
    <3>1. n - 1 \in 0..(n - 1)
      BY <2>2, <1>5
    <3>2. Goes(n - 1)
      BY <3>1, <1>6
    <3> QED
      BY <3>2, <1>5
  <2> QED
    BY <2>1, <2>2
<1> QED
  BY <1>4, <1>5, <1>6, <1>9, <1>10 DEF Skips

\* Nothing is passed over where no whole word of zeros is.
LEMMA NoPadding ==
    ASSUME NEW image, NEW from \in Nat, NEW more \in Nat, ~Skips(image, from, more, 0)
    PROVE  SkipPadding(image, from, more) = 0
<1>1. PICK k \in Nat : /\ SkipPadding(image, from, more) = 4 * k
                       /\ \A j \in 0..(k - 1) : Skips(image, from, more, j)
  BY SkipsPadding
<1>2. k = 0
  <2>1. SUFFICES ASSUME k # 0 PROVE FALSE
    OBVIOUS
  <2>2. 0 \in 0..(k - 1)
    BY <1>1, <2>1
  <2> QED
    BY <1>1, <2>2
<1> QED
  BY <1>1, <1>2

\* Then the reader looks for a header right there.
LEMMA MemberHere ==
    ASSUME NEW image, NEW here \in Nat, NEW more \in Nat, ~Skips(image, here, more, 0)
    PROVE  Member(image, here, more) = MemberAt(image, here, more)
<1>1. here + SkipPadding(image, here, more) = here /\ more - SkipPadding(image, here, more) = more
  BY NoPadding
<1> QED
  BY <1>1 DEF Member

\* What the reader makes of the rest is what it makes of it after the padding.
LEMMA MemberAfterPadding ==
    ASSUME NEW image, NEW from \in Nat, NEW more \in Nat
    PROVE  \E k \in Nat :
                /\ 4 * k <= more
                /\ Member(image, from, more) = Member(image, from + 4 * k, more - 4 * k)
                /\ ~Skips(image, from + 4 * k, more - 4 * k, 0)
                /\ \A j \in 0..(k - 1) : from + 4 * j \in image.zeros
<1>1. PICK k \in Nat : /\ SkipPadding(image, from, more) = 4 * k /\ 4 * k <= more
                       /\ ~Skips(image, from, more, k)
                       /\ \A j \in 0..(k - 1) : Skips(image, from, more, j)
  BY SkipsPadding
<1> DEFINE here == from + 4 * k
           rest == more - 4 * k
<1>2. here \in Nat /\ rest \in Nat
  BY <1>1
<1>3. ~Skips(image, here, rest, 0)
  BY <1>1 DEF Skips
<1>4. Member(image, from, more) = Member(image, here, rest)
  BY <1>1, <1>2, <1>3, MemberHere DEF Member
<1> QED
  BY <1>1, <1>3, <1>4 DEF Skips

-----------------------------------------------------------------------------
(* The archive that the reader gets.                                       *)

\* The headers are where the members begin, the members follow each other, and
\* the words of zeros are before the first.
LaidOut(image, o, fs) ==
    LET n == Len(fs)
    IN  /\ n \in Nat /\ o \in [1..(n + 1) -> Nat]
        /\ \A i \in 1..n : o[i + 1] = o[i] + Written(fs[i])
        /\ \A i, j \in 1..(n + 1) : i < j => o[i] + HeaderSize <= o[j]
        /\ \A i \in 1..(n + 1) : o[1] <= o[i]
        /\ image.zeros = {4 * k : k \in 0..(o[1] \div 4)} \ {o[1]}
        /\ DOMAIN image.heads = {o[i] : i \in 1..(n + 1)}
        /\ image.heads[o[n + 1]] = Trailer
        /\ \A i \in 1..n : image.heads[o[i]] =
            [name |-> fs[i].name, nameLen |-> fs[i].nameLen, fileLen |-> fs[i].size]

\* The first bytes of the archive of some files, which may be all of them.
LEMMA ImageFacts ==
    ASSUME NEW lead \in Nat, NEW fs, Packable(fs), NEW len \in Nat
    PROVE  LET o == Offsets(lead, fs)
           IN  /\ LaidOut(Truncate(Pack(lead, fs), len), o, fs)
               /\ Pack(lead, fs).len = o[Len(fs) + 1] + AlignUp(HeaderSize + Trailer.nameLen)
               /\ o[1] = lead
<1> DEFINE o == Offsets(lead, fs)
           n == Len(fs)
           image == Truncate(Pack(lead, fs), len)
           d == Lengths(fs)
           member == [i \in 1..(n + 1) |->
                        IF i > n THEN Trailer
                        ELSE [name |-> fs[i].name, nameLen |-> fs[i].nameLen,
                              fileLen |-> fs[i].size]]
           place(p) == CHOOSE i \in 1..(n + 1) : o[i] = p
<1>1. /\ n \in Nat /\ o \in [1..(n + 1) -> Nat] /\ o[1] = lead
      /\ \A i \in 1..n : o[i + 1] = o[i] + Written(fs[i])
  BY OffsetsAre
<1>2. /\ Pack(lead, fs).len = o[n + 1] + AlignUp(HeaderSize + Trailer.nameLen)
      /\ image.len = len
      /\ image.zeros = {4 * k : k \in 0..(lead \div 4)} \ {lead}
      /\ image.heads = [p \in {o[i] : i \in 1..(n + 1)} |-> member[place(p)]]
  BY DEF Truncate, Pack
<1> HIDE DEF o, image
<1>3. /\ d \in [1..n -> Nat]
      /\ \A i \in 1..n : o[i + 1] = o[i] + d[i] /\ d[i] >= HeaderSize
  <2> SUFFICES ASSUME NEW i \in 1..n
               PROVE  /\ d[i] = Written(fs[i]) /\ Written(fs[i]) \in Nat
                      /\ Written(fs[i]) >= HeaderSize
    BY <1>1 DEF Lengths
  <2>1. fs[i] \in Files /\ fs[i].copied <= fs[i].size
    BY DEF Packable
  <2> QED
    BY <2>1, WrittenFacts, CpioAssumption DEF Lengths
<1> HIDE DEF d
<1>4. \A i, j \in 1..(n + 1) : i < j => o[i] + HeaderSize <= o[j]
  <2> HIDE DEF n
  <2> QED
    BY <1>1, <1>3, OffsetsIncrease
<1>5. \A i \in 1..(n + 1) : lead <= o[i]
  BY <1>1, <1>4, CpioAssumption
<1>6. ASSUME NEW i \in 1..(n + 1)
      PROVE  o[i] \in DOMAIN image.heads /\ image.heads[o[i]] = member[i]
  <2>1. \A j \in 1..(n + 1) : o[j] = o[i] => j = i
    BY <1>1, <1>4, CpioAssumption
  <2>2. place(o[i]) = i
    BY <2>1
  <2>3. o[i] \in {o[j] : j \in 1..(n + 1)}
    OBVIOUS
  <2> HIDE DEF member, place
  <2> QED
    BY <1>2, <2>2, <2>3
<1>7. image.heads[o[n + 1]] = Trailer
  <2>1. n + 1 \in 1..(n + 1) /\ n + 1 > n
    BY <1>1
  <2> QED
    BY <1>6, <2>1
<1>8. ASSUME NEW i \in 1..n
      PROVE  image.heads[o[i]] = [name |-> fs[i].name, nameLen |-> fs[i].nameLen,
                                  fileLen |-> fs[i].size]
  <2>1. i \in 1..(n + 1) /\ ~(i > n)
    BY <1>1
  <2> QED
    BY <1>6, <2>1
<1>9. DOMAIN image.heads = {o[i] : i \in 1..(n + 1)}
  BY <1>2
<1>10. LaidOut(image, o, fs)
  BY <1>1, <1>2, <1>4, <1>5, <1>7, <1>8, <1>9 DEF LaidOut
<1> QED
  BY <1>1, <1>2, <1>10 DEF o, image

-----------------------------------------------------------------------------
(* One turn of the reader, where no padding is left.                       *)

\* The length of a member as the reader computes it.
LEMMA CpioLenIs ==
    ASSUME NEW f \in Files, FitsSize(f), NEW more \in Nat,
           NEW head, head = [name |-> f.name, nameLen |-> f.nameLen, fileLen |-> f.size]
    PROVE  /\ DataFrom(head) = DataOffset(f)
           /\ CpioLen(head, more) \in Nat
           /\ DataOffset(f) + f.size <= CpioLen(head, more)
           /\ CpioLen(head, more) <= DataOffset(f) + AlignUp(f.size)
           /\ \/ CpioLen(head, more) = DataOffset(f) + AlignUp(f.size)
              \/ more <= CpioLen(head, more)
<1> DEFINE whole == DataOffset(f) + f.size
<1>1. /\ f.nameLen \in Nat /\ f.size \in Nat /\ HeaderSize \in Nat /\ SizeMod \in Nat
      /\ HeaderSize + f.nameLen \in Nat
      /\ head.nameLen = f.nameLen /\ head.fileLen = f.size
  BY CpioAssumption DEF Files
<1>2. /\ DataOffset(f) \in Nat /\ HeaderSize + f.nameLen <= DataOffset(f)
      /\ DataOffset(f) = 4 * ((HeaderSize + f.nameLen + 3) \div 4)
  BY <1>1, AlignUpFacts DEF DataOffset
<1>3. DataFrom(head) = DataOffset(f)
  <2>1. HeaderSize + f.nameLen + 3 < SizeMod
    BY <1>1, <1>2 DEF FitsSize
  <2> QED
    BY <2>1, <1>1, AlignIsAlignUp DEF DataFrom, DataOffset
<1>4. whole \in Nat /\ whole + 3 < SizeMod /\ whole < SizeMod
  BY <1>1, <1>2 DEF FitsSize
<1>5. whole % SizeMod = whole
  <2> HIDE DEF whole
  <2> QED
    BY <1>1, <1>4, ModSmall
<1>6. Align(whole) = AlignUp(whole)
  <2> HIDE DEF whole
  <2> QED
    BY <1>4, AlignIsAlignUp
<1>7. /\ AlignUp(f.size) \in Nat /\ f.size <= AlignUp(f.size)
      /\ AlignUp(whole) = DataOffset(f) + AlignUp(f.size)
  <2>1. (HeaderSize + f.nameLen + 3) \div 4 \in Nat
    BY <1>1
  <2>2. AlignUp(f.size) \in Nat /\ f.size <= AlignUp(f.size)
    BY <1>1, AlignUpFacts
  <2> DEFINE k == (HeaderSize + f.nameLen + 3) \div 4
  <2>3. AlignUp(4 * k + f.size) = 4 * k + AlignUp(f.size)
    <3> HIDE DEF k
    <3> QED
      BY <2>1, <1>1, AlignUpAfter DEF k
  <2> QED
    BY <2>2, <2>3, <1>2
<1>8. CpioLen(head, more) = IF whole < more THEN AlignUp(whole) ELSE whole
  <2>1. DataFrom(head) + head.fileLen = whole
    BY <1>1, <1>3
  <2> HIDE DEF whole
  <2> QED
    BY <2>1, <1>5, <1>6 DEF CpioLen
<1> QED
  BY <1>1, <1>2, <1>3, <1>4, <1>7, <1>8

\* At the header of a file the reader passes on that file, or gives up because
\* the archive was cut, or has reached its end just here.
LEMMA FileHere ==
    ASSUME NEW image, NEW here \in Nat, NEW more \in Nat, ~Skips(image, here, more, 0),
           NEW f \in Files, FitsSize(f), here \in DOMAIN image.heads,
           image.heads[here] = [name |-> f.name, nameLen |-> f.nameLen, fileLen |-> f.size]
    PROVE  LET r == Member(image, here, more)
           IN  /\ r.rc = "end" => more = 0 \/ f.name = TrailerName
               /\ r.rc = "file" =>
                    /\ r.name = f.name /\ r.data = here + DataOffset(f) /\ r.len = f.size
                    /\ r.next \in Nat /\ here < r.next /\ r.next <= here + more
                    /\ r.data + r.len <= r.next
                    /\ r.next <= here + DataOffset(f) + AlignUp(f.size)
                    /\ \/ r.next = here + DataOffset(f) + AlignUp(f.size)
                       \/ r.next = here + more
<1> DEFINE head == image.heads[here]
           r == Member(image, here, more)
<1>1. r = MemberAt(image, here, more) /\ HeaderSize \in Nat /\ HeaderSize >= 4
  BY MemberHere, CpioAssumption
<1>2. /\ DataFrom(head) = DataOffset(f) /\ CpioLen(head, more) \in Nat
      /\ DataOffset(f) + f.size <= CpioLen(head, more)
      /\ CpioLen(head, more) <= DataOffset(f) + AlignUp(f.size)
      /\ \/ CpioLen(head, more) = DataOffset(f) + AlignUp(f.size)
         \/ more <= CpioLen(head, more)
      /\ head.name = f.name /\ head.fileLen = f.size
  BY CpioLenIs
<1>3. DataOffset(f) \in Nat /\ DataOffset(f) >= HeaderSize /\ AlignUp(f.size) \in Nat /\ f.size \in Nat
  <2>1. f.nameLen \in Nat /\ f.size \in Nat /\ HeaderSize + f.nameLen \in Nat
    BY <1>1 DEF Files
  <2>2. /\ AlignUp(HeaderSize + f.nameLen) \in Nat
        /\ HeaderSize + f.nameLen <= AlignUp(HeaderSize + f.nameLen)
    BY <2>1, AlignUpFacts
  <2>3. AlignUp(f.size) \in Nat
    BY <2>1, AlignUpFacts
  <2> QED
    BY <2>1, <2>2, <2>3, <1>1 DEF DataOffset
<1>4. CASE r.rc = "file"
  <2>1. /\ ~TooLong(CpioLen(head, more), more)
        /\ r = [rc |-> "file", name |-> head.name, data |-> here + DataFrom(head),
                len |-> head.fileLen, next |-> After(here, CpioLen(head, more))]
    BY <1>1, <1>4 DEF MemberAt, End
  <2>2. /\ CpioLen(head, more) <= more
        /\ r.name = f.name /\ r.data = here + DataOffset(f) /\ r.len = f.size
        /\ r.next = here + CpioLen(head, more)
    BY <2>1, <1>2 DEF TooLong, After
  <2> HIDE DEF r, head
  <2>3. \/ r.next = here + DataOffset(f) + AlignUp(f.size)
        \/ r.next = here + more
    BY <2>2, <1>2, <1>3
  <2>4. r.next \in Nat /\ here < r.next /\ r.next <= here + more /\ r.data + r.len <= r.next
        /\ r.next <= here + DataOffset(f) + AlignUp(f.size)
    BY <2>2, <1>1, <1>2, <1>3
  <2> QED
    BY <2>2, <2>3, <2>4, <1>4 DEF r
<1>5. CASE r.rc = "end"
  <2>1. more = 0 \/ head.name = TrailerName
    BY <1>1, <1>5 DEF MemberAt, End
  <2> QED
    BY <2>1, <1>2, <1>5
<1> QED
  BY <1>4, <1>5

\* The trailer is no file.
LEMMA TrailerHere ==
    ASSUME NEW image, NEW here \in Nat, NEW more \in Nat, ~Skips(image, here, more, 0),
           here \in DOMAIN image.heads, image.heads[here].name = TrailerName
    PROVE  Member(image, here, more).rc # "file"
<1>1. Member(image, here, more) = MemberAt(image, here, more)
  BY MemberHere
<1>2. \E e : MemberAt(image, here, more) = End(e) /\ e # "file"
  <2>1. HeaderSize \in Nat /\ (more = 0 \/ more \in 1..(HeaderSize - 1) \/ more >= HeaderSize)
    BY CpioAssumption
  <2> QED
    BY <2>1 DEF MemberAt
<1> QED
  BY <1>1, <1>2 DEF End

\* Where no header is the reader finds no file, and the end only where nothing
\* is left.
LEMMA NothingHere ==
    ASSUME NEW image, NEW here \in Nat, NEW more \in Nat, ~Skips(image, here, more, 0),
           here \notin DOMAIN image.heads \/ more < 4
    PROVE  LET r == Member(image, here, more)
           IN  r.rc # "file" /\ (r.rc = "end" => more = 0)
<1>1. Member(image, here, more) = MemberAt(image, here, more)
  BY MemberHere
<1>2. HeaderSize \in Nat /\ HeaderSize >= 4
  BY CpioAssumption
<1>3. CASE more = 0
  <2>1. more \notin 1..(HeaderSize - 1) /\ ~(more >= HeaderSize)
    BY <1>2, <1>3
  <2>2. MemberAt(image, here, more) = End("end")
    BY <2>1, <1>3 DEF MemberAt
  <2> QED
    BY <2>2, <1>1, <1>3 DEF End
<1>4. CASE more \in 1..(HeaderSize - 1)
  <2>1. more # 0 /\ ~(more >= HeaderSize)
    BY <1>2, <1>4
  <2>2. MemberAt(image, here, more) = End("truncated_header")
    BY <2>1, <1>4 DEF MemberAt
  <2> QED
    BY <2>2, <1>1 DEF End
<1>5. CASE more >= HeaderSize
  <2>1. here \notin DOMAIN image.heads /\ more # 0 /\ more \notin 1..(HeaderSize - 1)
    BY <1>2, <1>5
  <2>2. MemberAt(image, here, more) = End("bad_magic")
    BY <2>1, <1>5 DEF MemberAt
  <2> QED
    BY <2>2, <1>1 DEF End
<1> QED
  BY <1>2, <1>3, <1>4, <1>5

-----------------------------------------------------------------------------
(* The archive of a machine.                                               *)

\* The image of a machine is laid out as the archiver laid it out.
LEMMA MachineFacts ==
    ASSUME NEW m \in Machines
    PROVE  LET o == m.offsets
               n == Len(m.files)
           IN  /\ LaidOut(m.image, o, m.files)
               /\ m.image.len \in Nat
               /\ o[1] = 4 * (o[1] \div 4)
               /\ \A i \in 1..n : m.files[i] \in Files /\ m.files[i].copied <= m.files[i].size
               /\ m.whole =>
                    o[n + 1] < m.image.len /\ \A i \in 1..n : m.files[i].copied = m.files[i].size
<1> DEFINE o == m.offsets
           n == Len(m.files)
           all == Pack(o[1], m.files)
<1>1. /\ Packable(m.files) /\ o[1] \in Nat /\ o[1] % 4 = 0
      /\ o = Offsets(o[1], m.files)
      /\ m.image.len \in 0..all.len /\ m.image = Truncate(all, m.image.len)
      /\ m.whole => m.image.len = all.len /\ \A i \in 1..n : m.files[i].copied = m.files[i].size
  BY MachinesAssumption DEF ArchiveOK
<1>2. HeaderSize \in Nat /\ HeaderSize >= 4 /\ HeaderSize + Trailer.nameLen \in Nat
  BY CpioAssumption DEF Trailer
<1>3. /\ AlignUp(HeaderSize + Trailer.nameLen) \in Nat
      /\ AlignUp(HeaderSize + Trailer.nameLen) > 0
  <2>1. /\ AlignUp(HeaderSize + Trailer.nameLen) \in Nat
        /\ HeaderSize + Trailer.nameLen <= AlignUp(HeaderSize + Trailer.nameLen)
    BY <1>2, AlignUpFacts
  <2> QED
    BY <2>1, <1>2 DEF Trailer
<1>4. /\ n \in Nat /\ o[n + 1] \in Nat
      /\ all.len = o[n + 1] + AlignUp(HeaderSize + Trailer.nameLen)
  <2>1. LET p == Offsets(o[1], m.files)
        IN  /\ LaidOut(Truncate(Pack(o[1], m.files), 0), p, m.files)
            /\ all.len = p[n + 1] + AlignUp(HeaderSize + Trailer.nameLen)
    BY <1>1, ImageFacts, 0 \in Nat
  <2> QED
    BY <2>1, <1>1 DEF LaidOut
<1>5. m.image.len \in Nat /\ (m.whole => o[n + 1] < m.image.len)
  <2> HIDE DEF all
  <2> QED
    BY <1>1, <1>3, <1>4
<1>6. LaidOut(m.image, o, m.files)
  <2>1. LaidOut(Truncate(Pack(o[1], m.files), m.image.len), Offsets(o[1], m.files), m.files)
    BY <1>1, <1>5, ImageFacts
  <2> QED
    BY <2>1, <1>1
<1>7. \A i \in 1..n : m.files[i] \in Files /\ m.files[i].copied <= m.files[i].size
  BY <1>1 DEF Packable
<1>8. o[1] = 4 * (o[1] \div 4)
  BY <1>1, DivMod
<1> QED
  BY <1>1, <1>5, <1>6, <1>7, <1>8

\* A later member begins later.
LEMMA MembersFollow ==
    ASSUME NEW m \in Machines, NEW i \in 1..(Len(m.files) + 1), NEW j \in 1..(Len(m.files) + 1), i < j
    PROVE  m.offsets[i] < m.offsets[j]
<1>1. /\ m.offsets[i] + HeaderSize <= m.offsets[j]
      /\ m.offsets[i] \in Nat /\ m.offsets[j] \in Nat
  BY MachineFacts DEF LaidOut
<1> QED
  BY <1>1, CpioAssumption

\* From the first member on there is nothing that the reader passes over.
LEMMA NoZeros ==
    ASSUME NEW m \in Machines, NEW p \in Nat, m.offsets[1] <= p, NEW rest \in Nat
    PROVE  ~Skips(m.image, p, rest, 0)
<1> DEFINE lead == m.offsets[1]
<1>1. /\ lead \in Nat /\ lead = 4 * (lead \div 4)
      /\ m.image.zeros = {4 * k : k \in 0..(lead \div 4)} \ {lead}
  <2>1. /\ Len(m.files) \in Nat /\ m.offsets \in [1..(Len(m.files) + 1) -> Nat]
        /\ 1 \in 1..(Len(m.files) + 1)
    BY MachineFacts DEF LaidOut
  <2> QED
    BY <2>1, MachineFacts DEF LaidOut
<1>2. p \notin m.image.zeros
  BY <1>1
<1> QED
  BY <1>2 DEF Skips

\* At a member the reader passes on the packed file, and comes to the next one
\* or, in an archive that is not whole, to a place where it will find nothing.
LEMMA AtMember ==
    ASSUME NEW m \in Machines, NEW i \in 1..(Len(m.files) + 1), NEW rest \in Nat,
           m.offsets[i] + rest = m.image.len
    PROVE  LET o == m.offsets
               r == Member(m.image, o[i], rest)
           IN  /\ r.rc = "file" =>
                    /\ i <= Len(m.files)
                    /\ r.name = m.files[i].name /\ r.len = m.files[i].size
                    /\ r.data = o[i] + DataOffset(m.files[i])
                    /\ r.next \in Nat /\ o[i] < r.next /\ r.next <= m.image.len
                    /\ r.data + r.len <= m.image.len
                    /\ \/ r.next = o[i + 1]
                       \/ /\ ~m.whole /\ r.next > o[1]
                          /\ r.next = m.image.len \/ r.next \notin DOMAIN m.image.heads
               /\ r.rc = "end" /\ m.whole => i = Len(m.files) + 1
<1> DEFINE o == m.offsets
           n == Len(m.files)
           image == m.image
           f == m.files[i]
           r == Member(image, o[i], rest)
<1>1. /\ n \in Nat /\ i \in 1..(n + 1) /\ o[i] \in Nat /\ o[1] <= o[i] /\ o[1] \in Nat
      /\ o[i] \in DOMAIN image.heads /\ o[n + 1] \in Nat /\ image.len \in Nat
  <2>1. n \in Nat /\ o \in [1..(n + 1) -> Nat] /\ 1 \in 1..(n + 1) /\ n + 1 \in 1..(n + 1)
    BY MachineFacts DEF LaidOut
  <2> QED
    BY <2>1, MachineFacts DEF LaidOut
<1>2. ~Skips(image, o[i], rest, 0)
  BY <1>1, NoZeros
<1>3. CASE i = n + 1
  <2>1. image.heads[o[i]].name = TrailerName
    BY <1>3, MachineFacts DEF LaidOut, Trailer
  <2>2. r.rc # "file"
    BY <2>1, <1>1, <1>2, TrailerHere
  <2> QED
    BY <2>2, <1>3
<1>4. CASE i # n + 1
  <2>1. i \in 1..n /\ i + 1 \in 1..(n + 1)
    BY <1>1, <1>4
  <2>2. /\ f \in Files /\ f.copied <= f.size
        /\ image.heads[o[i]] = [name |-> f.name, nameLen |-> f.nameLen, fileLen |-> f.size]
        /\ o[i + 1] = o[i] + Written(f)
        /\ m.whole => o[n + 1] < image.len /\ f.copied = f.size
    BY <2>1, MachineFacts DEF LaidOut
  <2>3. /\ FitsSize(f) /\ f.name # TrailerName
        /\ f.copied # f.size => \A j \in 1..(n + 1) : o[i] + DataOffset(f) + AlignUp(f.size) # o[j]
    BY <2>1, MachinesAssumption DEF ArchiveOK
  <2>4. o[i + 1] \in Nat /\ o[i + 1] <= o[n + 1]
    <3>1. o \in [1..(n + 1) -> Nat] /\ \A a, b \in 1..(n + 1) : a < b => o[a] < o[b]
      BY MachineFacts, MembersFollow DEF LaidOut
    <3>2. i + 1 = n + 1 \/ i + 1 < n + 1
      BY <2>1, <1>1
    <3>3. n + 1 \in 1..(n + 1)
      BY <1>1
    <3> HIDE DEF o, n
    <3>4. o[i + 1] \in Nat /\ (i + 1 < n + 1 => o[i + 1] < o[n + 1])
      BY <3>1, <3>3, <2>1
    <3> QED
      BY <3>2, <3>4, <1>1
  <2> DEFINE here == o[i]
  <2> HIDE DEF o, image, n, f
  <2>5. /\ r.rc = "end" => rest = 0
        /\ r.rc = "file" =>
            /\ r.name = f.name /\ r.data = o[i] + DataOffset(f) /\ r.len = f.size
            /\ r.next \in Nat /\ o[i] < r.next /\ r.next <= o[i] + rest
            /\ r.data + r.len <= r.next
            /\ r.next <= o[i] + DataOffset(f) + AlignUp(f.size)
            /\ \/ r.next = o[i] + DataOffset(f) + AlignUp(f.size)
               \/ r.next = o[i] + rest
    <3>1. /\ here \in Nat /\ here \in DOMAIN image.heads /\ ~Skips(image, here, rest, 0)
          /\ image.heads[here] = [name |-> f.name, nameLen |-> f.nameLen, fileLen |-> f.size]
      BY <2>2, <1>1, <1>2
    <3> HIDE DEF here
    <3> DEFINE q == Member(image, here, rest)
    <3>2. /\ q.rc = "end" => rest = 0 \/ f.name = TrailerName
          /\ q.rc = "file" =>
            /\ q.name = f.name /\ q.data = here + DataOffset(f) /\ q.len = f.size
            /\ q.next \in Nat /\ here < q.next /\ q.next <= here + rest
            /\ q.data + q.len <= q.next
            /\ q.next <= here + DataOffset(f) + AlignUp(f.size)
            /\ \/ q.next = here + DataOffset(f) + AlignUp(f.size)
               \/ q.next = here + rest
      BY <3>1, <2>2, <2>3, FileHere
    <3>3. q = r /\ here = o[i]
      BY DEF here
    <3> HIDE DEF q
    <3> QED
      BY <3>2, <3>3, <2>3
  <2>6. /\ DataOffset(f) \in Nat /\ AlignUp(f.size) \in Nat /\ f.size \in Nat
        /\ f.copied = f.size => Written(f) = DataOffset(f) + AlignUp(f.size)
    BY <2>2, WrittenFacts, AlignUpFacts DEF Files
  <2>7. o[i] + rest = image.len
    BY DEF o, image
  <2> HIDE DEF r
  <2>8. ASSUME r.rc = "end", m.whole
        PROVE  FALSE
    <3>1. o[i] = image.len
      BY <2>5, <2>7, <2>8, <1>1
    <3>2. o[i] < o[i + 1]
      <4>1. \A a, b \in 1..(n + 1) : a < b => o[a] < o[b]
        BY MembersFollow DEF o, n
      <4> QED
        BY <4>1, <2>1, <1>1
    <3> QED
      BY <3>1, <3>2, <2>2, <2>4, <2>8, <1>1
  <2>9. ASSUME r.rc = "file"
        PROVE  /\ i <= n /\ r.next \in Nat /\ o[i] < r.next /\ r.next <= image.len
               /\ r.data + r.len <= image.len
               /\ \/ r.next = o[i + 1]
                  \/ /\ ~m.whole /\ r.next > o[1]
                     /\ r.next = image.len \/ r.next \notin DOMAIN image.heads
    <3>1. /\ i <= n /\ r.next \in Nat /\ o[i] < r.next /\ r.next <= image.len
          /\ r.data + r.len <= image.len /\ r.next > o[1]
      BY SMTT(30), <2>1, <2>5, <2>6, <2>7, <2>9, <1>1
    <3>2. CASE r.next = o[i] + DataOffset(f) + AlignUp(f.size) /\ f.copied = f.size
      BY <3>1, <3>2, <2>2, <2>6, <1>1
    <3>3. CASE r.next = o[i] + DataOffset(f) + AlignUp(f.size) /\ f.copied # f.size
      <4>1. DOMAIN image.heads = {o[j] : j \in 1..(n + 1)}
        BY MachineFacts DEF LaidOut, o, n, image
      <4>2. r.next \notin DOMAIN image.heads
        BY <4>1, <3>3, <2>3
      <4> QED
        BY <4>2, <3>1, <3>3, <2>2
    <3>4. CASE r.next = o[i] + rest
      <4>1. ~m.whole \/ r.next = o[i + 1]
        BY SMTT(30), <3>4, <2>2, <2>4, <2>5, <2>6, <2>7, <2>9, <1>1
      <4> QED
        BY <4>1, <3>1, <3>4, <2>7
    <3> QED
      BY <3>2, <3>3, <3>4, <2>5, <2>9
  <2> QED
    BY <2>5, <2>8, <2>9 DEF o, n, f, r, image
<1> QED
  BY <1>3, <1>4

-----------------------------------------------------------------------------
(* One turn of cpio_extract on the archive of the machine.                 *)

\* The packed files, the BCD before them.
LEMMA PackedFacts ==
    ASSUME machine \in Machines
    PROVE  LET n == Len(machine.files)
           IN  /\ n \in Nat /\ Packed \in Seq(FileRecords) /\ Len(Packed) = n + 1
               /\ Packed[1] = BcdFile
               /\ \A i \in 1..n : Packed[i + 1] = PackedFile(i) /\ PackedFile(i) \in FileRecords
<1> DEFINE n == Len(machine.files)
           rest == [i \in 1..n |-> PackedFile(i)]
           first == <<BcdFile>>
<1>1. n \in Nat
  BY MachineFacts DEF LaidOut
<1>2. \A i \in 1..n : PackedFile(i) \in FileRecords
  <2> SUFFICES ASSUME NEW i \in 1..n PROVE PackedFile(i) \in FileRecords
    OBVIOUS
  <2>1. machine.files[i] \in Files /\ machine.offsets[i] \in Nat /\ machine.files[i].copied <= machine.files[i].size
    <3>1. i \in 1..(n + 1) /\ machine.offsets \in [1..(n + 1) -> Nat]
      BY <1>1, MachineFacts DEF LaidOut
    <3> QED
      BY <3>1, MachineFacts
  <2>2. DataOffset(machine.files[i]) \in Nat
    BY <2>1, WrittenFacts
  <2> QED
    BY <2>1, <2>2 DEF PackedFile, FileRecords, Files
<1>3. BcdFile \in FileRecords
  BY DEF FileRecords
<1>4. rest \in Seq(FileRecords) /\ Len(rest) = n /\ first \in Seq(FileRecords) /\ Len(first) = 1
  <2> HIDE DEF n
  <2> QED
    BY <1>1, <1>2, <1>3
<1>5. Packed = first \o rest
  BY DEF Packed
<1>6. \A i \in 1..n : rest[i] = PackedFile(i)
  OBVIOUS
<1>7. first[1] = BcdFile
  OBVIOUS
<1> HIDE DEF rest, first, n
<1>8. Packed \in Seq(FileRecords) /\ Len(Packed) = n + 1 /\ Packed[1] = BcdFile
  <2>1. /\ first \o rest \in Seq(FileRecords) /\ Len(first \o rest) = 1 + n
        /\ \A i \in 1..(1 + n) : (first \o rest)[i] = IF i <= 1 THEN first[i] ELSE rest[i - 1]
    <3>1. Len(first) = 1 /\ Len(rest) = n
      BY <1>4
    <3>2. /\ first \o rest \in Seq(FileRecords) /\ Len(first \o rest) = Len(first) + Len(rest)
          /\ \A i \in 1..(Len(first) + Len(rest)) :
                (first \o rest)[i] = IF i <= Len(first) THEN first[i] ELSE rest[i - Len(first)]
      BY <1>4, ConcatProperties
    <3> QED
      BY <3>1, <3>2
  <2>2. 1 \in 1..(1 + n)
    BY <1>1
  <2>3. (first \o rest)[1] = first[1]
    BY <2>1, <2>2
  <2> QED
    BY <2>1, <2>3, <1>1, <1>5, <1>7
<1>9. \A i \in 1..n : Packed[i + 1] = rest[i]
  <2> SUFFICES ASSUME NEW i \in 1..n PROVE Packed[i + 1] = rest[i]
    OBVIOUS
  <2>1. i + 1 \in 1..(Len(first) + Len(rest)) /\ ~(i + 1 <= Len(first)) /\ (i + 1) - Len(first) = i
    BY <1>1, <1>4
  <2>2. (first \o rest)[i + 1] = rest[(i + 1) - Len(first)]
    BY <2>1, <1>4, ConcatProperties
  <2> QED
    BY <2>1, <2>2, <1>5
<1> QED
  BY <1>1, <1>2, <1>6, <1>8, <1>9 DEF n

\* Wherever the reader stands, it passes on the next packed file or none, and
\* in a whole archive it ends only after the last.
LEMMA NextMember ==
    ASSUME ExtractInv, pc = "extract"
    PROVE  LET k == Len(files)
               o == machine.offsets
               n == Len(machine.files)
               r == Member(machine.image, at, left)
           IN  /\ r.rc = "file" =>
                    /\ k \in 1..n
                    /\ r.name = machine.files[k].name /\ r.len = machine.files[k].size
                    /\ r.data = o[k] + DataOffset(machine.files[k])
                    /\ r.next \in Nat /\ at < r.next /\ r.next <= machine.image.len
                    /\ r.data + r.len <= machine.image.len
                    /\ \/ r.next = o[k + 1]
                       \/ /\ ~machine.whole /\ r.next > o[1]
                          /\ r.next = machine.image.len \/ r.next \notin DOMAIN machine.image.heads
               /\ r.rc = "end" /\ machine.whole => k = n + 1
<1> DEFINE k == Len(files)
           o == machine.offsets
           n == Len(machine.files)
           image == machine.image
           r == Member(image, at, left)
<1>1. /\ machine \in Machines /\ k \in Nat /\ k >= 1
      /\ at \in Nat /\ left \in Nat /\ at + left = image.len /\ image.len \in Nat
      /\ ReaderPlace /\ n \in Nat /\ o \in [1..(n + 1) -> Nat]
  BY MachineFacts DEF ExtractInv, LaidOut
<1>2. k \in 1..(n + 1)
  <2>1. Len(Packed) = n + 1
    BY <1>1, PackedFacts
  <2> QED
    BY <2>1, <1>1 DEF ExtractInv, FilesInv
<1>3. 1 \in 1..(n + 1) /\ o[1] \in Nat /\ (machine.whole => o[1] < image.len)
  <2>1. 1 \in 1..(n + 1) /\ n + 1 \in 1..(n + 1)
    BY <1>1
  <2>2. o[1] \in Nat /\ o[n + 1] \in Nat /\ o[1] <= o[n + 1]
    BY <1>1, <2>1, MachineFacts DEF LaidOut
  <2>3. machine.whole => o[n + 1] < image.len
    BY <1>1, MachineFacts
  <2> QED
    BY <2>1, <2>2, <2>3, <1>1
<1>4. CASE at = o[k]
  <2>1. o[k] + left = machine.image.len
    BY <1>1, <1>4
  <2> QED
    BY <2>1, <1>1, <1>2, <1>4, AtMember
<1>5. CASE k = 1 /\ at = 0
  <2>1. PICK j \in Nat :
            /\ 4 * j <= left
            /\ r = Member(image, 4 * j, left - 4 * j)
            /\ ~Skips(image, 4 * j, left - 4 * j, 0)
            /\ \A i \in 0..(j - 1) : 4 * i \in image.zeros
    <3>1. PICK j \in Nat :
                /\ 4 * j <= left
                /\ Member(image, at, left) = Member(image, at + 4 * j, left - 4 * j)
                /\ ~Skips(image, at + 4 * j, left - 4 * j, 0)
                /\ \A i \in 0..(j - 1) : at + 4 * i \in image.zeros
      <4> HIDE DEF image
      <4> QED
        BY <1>1, MemberAfterPadding
    <3>2. at + 4 * j = 4 * j /\ \A i \in 0..(j - 1) : at + 4 * i = 4 * i
      BY <1>5
    <3> QED
      BY <3>1, <3>2
  <2>2. image.zeros = {4 * i : i \in 0..(o[1] \div 4)} \ {o[1]} /\ o[1] = 4 * (o[1] \div 4)
    BY <1>1, MachineFacts DEF LaidOut
  <2>3. 4 * j <= o[1]
    <3>1. SUFFICES ASSUME j >= 1 PROVE 4 * j <= o[1]
      BY <2>1, <1>3
    <3>2. j - 1 \in 0..(j - 1)
      BY <3>1, <2>1
    <3>3. 4 * (j - 1) \in image.zeros
      BY <3>2, <2>1
    <3>4. PICK i \in 0..(o[1] \div 4) : 4 * (j - 1) = 4 * i /\ 4 * (j - 1) # o[1]
      BY <3>3, <2>2
    <3> QED
      BY <3>4, <2>1, <2>2, <1>3
  <2>4. CASE 4 * j = o[1]
    <3> DEFINE rest == left - 4 * j
    <3>1. rest \in Nat /\ o[1] + rest = image.len /\ r = Member(image, o[1], rest) /\ at <= o[1]
      <4>1. rest \in Nat /\ o[1] + rest = image.len /\ at <= o[1]
        BY <2>1, <2>4, <1>1, <1>3, <1>5
      <4>2. r = Member(image, o[1], rest)
        BY <2>1, <2>4
      <4> QED
        BY <4>1, <4>2
    <3> HIDE DEF rest
    <3> DEFINE q == Member(image, o[1], rest)
    <3>2. /\ q.rc = "file" =>
            /\ 1 <= n
            /\ q.name = machine.files[1].name /\ q.len = machine.files[1].size
            /\ q.data = o[1] + DataOffset(machine.files[1])
            /\ q.next \in Nat /\ o[1] < q.next /\ q.next <= image.len
            /\ q.data + q.len <= image.len
            /\ \/ q.next = o[1 + 1]
               \/ /\ ~machine.whole /\ q.next > o[1]
                  /\ q.next = image.len \/ q.next \notin DOMAIN image.heads
          /\ q.rc = "end" /\ machine.whole => 1 = n + 1
      BY <3>1, <1>1, <1>3, AtMember
    <3>3. k = 1
      BY <1>5
    <3> HIDE DEF q, k
    <3>4. r = q
      BY <3>1 DEF q
    <3> HIDE DEF r
    <3>5. r.rc = "file" => at < r.next /\ k \in 1..n
      BY <3>1, <3>2, <3>3, <3>4, <1>1, <1>3
    <3> QED
      BY <3>2, <3>3, <3>4, <3>5 DEF r, k
  <2>5. CASE 4 * j # o[1]
    <3>1. 4 * j \in image.zeros
      <4>1. j \in 0..(o[1] \div 4)
        BY <2>1, <2>2, <2>3, <1>3
      <4> QED
        BY <4>1, <2>2, <2>5
    <3>2. left - 4 * j \in Nat /\ 4 * j \in Nat /\ left - 4 * j < 4
      BY <3>1, <2>1, <1>1 DEF Skips
    <3>3. r.rc # "file" /\ (r.rc = "end" => left - 4 * j = 0)
      <4> DEFINE p == 4 * j
                 rest == left - 4 * j
      <4>1. p \in Nat /\ rest \in Nat /\ rest < 4 /\ ~Skips(image, p, rest, 0) /\ r = Member(image, p, rest)
        BY <3>2, <2>1
      <4> HIDE DEF p, rest, image
      <4>2. LET q == Member(image, p, rest) IN q.rc # "file" /\ (q.rc = "end" => rest = 0)
        BY <4>1, NothingHere
      <4> QED
        BY <4>1, <4>2 DEF rest
    <3>4. r.rc = "end" => ~machine.whole
      BY <3>2, <3>3, <2>3, <2>5, <1>1, <1>3, <1>5
    <3> QED
      BY <3>3, <3>4
  <2> QED
    BY <2>4, <2>5
<1>6. CASE /\ ~machine.whole
           /\ at > o[1]
           /\ left = 0 \/ at \notin DOMAIN image.heads
  <2>1. ~Skips(image, at, left, 0)
    BY <1>1, <1>3, <1>6, NoZeros
  <2>2. r.rc # "file"
    <3>1. at \notin DOMAIN image.heads \/ left < 4
      BY <1>1, <1>6
    <3> HIDE DEF image
    <3> QED
      BY <2>1, <3>1, <1>1, NothingHere
  <2> QED
    BY <2>2, <1>6
<1> QED
  BY <1>1, <1>4, <1>5, <1>6 DEF ReaderPlace

-----------------------------------------------------------------------------
(* The files at every step of the loader.                                  *)

LEMMA ExtractInit ==
    ASSUME Init
    PROVE  ExtractInv
<1>1. machine \in Machines /\ pc = "cmdline" /\ files = << >> /\ at = 0
      /\ left = machine.image.len /\ bootmgr = NoFile
  BY DEF Init
<1>2. machine.image.len \in Nat /\ Len(Packed) \in Nat
  BY <1>1, MachineFacts, PackedFacts
<1>3. files \in Seq(FileRecords) /\ Len(files) = 0
  BY <1>1
<1>4. FilesInv
  BY <1>1, <1>2, <1>3 DEF FilesInv, Opened
<1>5. BootmgrInv
  BY <1>1, <1>3 DEF BootmgrInv, Opened
<1> QED
  BY <1>1, <1>2, <1>3, <1>4, <1>5 DEF ExtractInv

\* While nothing is extracted the invariant depends on the phase alone.
LEMMA ExtractKept ==
    ASSUME ExtractInv, UNCHANGED <<machine, extractVars>>,
           pc' \in {"cmdline", "search", "add_bcd"} => pc \in {"cmdline", "search", "add_bcd"},
           pc' = "extract" => pc = "extract",
           pc' \in Opened => pc \in Opened
    PROVE  ExtractInv'
<1>1. UNCHANGED <<machine, files, at, left, bootmgr>>
  BY DEF extractVars
<1>2. Packed' = Packed /\ BootmgrName' = BootmgrName
  BY <1>1 DEF Packed, PackedFile, BootmgrName
<1>3. FilesInv'
  BY <1>1, <1>2 DEF ExtractInv, FilesInv
<1>4. BootmgrInv'
  BY <1>1, <1>2 DEF ExtractInv, BootmgrInv
<1>5. pc' = "extract" => Len(files) >= 1 /\ ReaderPlace'
  BY <1>1 DEF ExtractInv, ReaderPlace
<1> QED
  BY <1>1, <1>3, <1>4, <1>5 DEF ExtractInv

\* extract_initrd puts the BCD before the members of the archive.
LEMMA ExtractBcd ==
    ASSUME ExtractInv, AddBcd
    PROVE  ExtractInv'
<1>1. CASE Full
  <2>1. UNCHANGED <<machine, extractVars>> /\ pc' = "die_files"
    BY <1>1 DEF AddBcd, Die, extractVars
  <2> QED
    BY <2>1, ExtractKept DEF Opened
<1>2. CASE ~Full
  <2>1. /\ UNCHANGED <<machine, at, left, bootmgr>> /\ pc' = "extract"
        /\ files = << >> /\ at = 0 /\ files' = <<BcdFile>>
    BY <1>2 DEF AddBcd, ExtractInv
  <2>2. /\ Len(files) = 0 /\ Len(files') = 1 /\ files'[1] = BcdFile
        /\ files' \in Seq(FileRecords)
    BY <2>1 DEF FileRecords
  <2>3. machine \in Machines /\ Packed' = Packed /\ Len(Packed) >= 1 /\ Packed[1] = BcdFile
    BY <2>1, PackedFacts DEF ExtractInv, Packed, PackedFile
  <2>4. FilesInv'
    BY <2>1, <2>2, <2>3 DEF FilesInv, Opened
  <2>5. BootmgrInv'
    <3>1. bootmgr = NoFile
      BY <2>2 DEF ExtractInv, BootmgrInv
    <3> QED
      BY <3>1, <2>1, <2>2 DEF BootmgrInv, Opened
  <2>6. ReaderPlace'
    BY <2>1, <2>2 DEF ReaderPlace
  <2> QED
    BY <2>1, <2>2, <2>4, <2>5, <2>6 DEF ExtractInv
<1> QED
  BY <1>1, <1>2

\* One file more: it is the next of the packed ones.
LEMMA ExtractFile ==
    ASSUME ExtractInv, ExtractMember, Member(machine.image, at, left).rc = "file", ~Full
    PROVE  ExtractInv'
<1> DEFINE r == Member(machine.image, at, left)
           k == Len(files)
           file == [name |-> r.name, data |-> r.data, len |-> r.len]
<1>1. /\ pc = "extract" /\ machine' = machine /\ pc' = pc
      /\ files' = Append(files, file)
      /\ bootmgr' = Bootmgr(file)
      /\ left' = left - (r.next - at) /\ at' = r.next
  BY DEF ExtractMember
<1>2. /\ machine \in Machines /\ files \in Seq(FileRecords) /\ k \in Nat /\ k >= 1
      /\ at \in Nat /\ left \in Nat /\ at + left = machine.image.len
      /\ FilesInv /\ BootmgrInv
  BY <1>1 DEF ExtractInv
<1>3. /\ k \in 1..Len(machine.files)
      /\ r.name = machine.files[k].name /\ r.len = machine.files[k].size
      /\ r.data = machine.offsets[k] + DataOffset(machine.files[k])
      /\ r.next \in Nat /\ at < r.next /\ r.next <= machine.image.len
      /\ r.data + r.len <= machine.image.len
      /\ \/ r.next = machine.offsets[k + 1]
         \/ /\ ~machine.whole /\ r.next > machine.offsets[1]
            /\ r.next = machine.image.len \/ r.next \notin DOMAIN machine.image.heads
  BY <1>1, NextMember
<1>4. /\ file = PackedFile(k)
      /\ Packed[k + 1] = PackedFile(k) /\ PackedFile(k) \in FileRecords
      /\ Len(Packed) = Len(machine.files) + 1 /\ Len(machine.files) \in Nat
  BY <1>2, <1>3, PackedFacts DEF PackedFile
<1>5. machine.image.len \in Nat
  BY <1>2, MachineFacts
<1> HIDE DEF r, file
<1>6. /\ files' \in Seq(FileRecords) /\ Len(files') = k + 1
      /\ \A i \in 1..k : files'[i] = files[i]
      /\ files'[k + 1] = file
  BY <1>1, <1>2, <1>4, AppendProperties
<1>7. Packed' = Packed /\ BootmgrName' = BootmgrName
  BY <1>1 DEF Packed, PackedFile, BootmgrName
<1>8. at' \in Nat /\ left' \in Nat /\ at' + left' = machine.image.len
  BY <1>1, <1>2, <1>3, <1>5
<1>9. FilesInv'
  <2>1. Len(files') <= Len(Packed)
    BY <1>3, <1>4, <1>6
  <2>2. \A i \in 1..Len(files') : files'[i] = Packed[i]
    <3>1. \A i \in 1..(k + 1) : i \in 1..k \/ i = k + 1
      BY <1>2
    <3>2. \A i \in 1..k : files[i] = Packed[i]
      BY <1>2 DEF FilesInv
    <3> QED
      BY <3>1, <3>2, <1>4, <1>6
  <2>3. \A i \in 2..Len(files') : files'[i].data + files'[i].len <= machine.image.len
    <3>1. \A i \in 2..(k + 1) : (i \in 2..k /\ i \in 1..k) \/ i = k + 1
      BY <1>2
    <3>2. \A i \in 2..k : files[i].data + files[i].len <= machine.image.len
      BY <1>2 DEF FilesInv
    <3>3. file.data + file.len <= machine.image.len
      BY <1>3 DEF file
    <3> QED
      BY <3>1, <3>2, <3>3, <1>6
  <2>4. pc' \notin Opened
    BY <1>1 DEF Opened
  <2> QED
    BY <2>1, <2>2, <2>3, <2>4, <1>1, <1>7 DEF FilesInv
<1>10. BootmgrInv'
  <2> DEFINE named == {i \in 2..k : files[i].name = BootmgrName}
             later == {i \in 2..(k + 1) : files'[i].name = BootmgrName}
  <2>1. /\ named = {} => bootmgr = NoFile
        /\ named # {} => \E i \in named : bootmgr = files[i] /\ \A j \in named : j <= i
    BY <1>2 DEF BootmgrInv
  <2>2. \A i \in 2..k : files'[i] = files[i] /\ i \in 2..(k + 1) /\ i <= k + 1
    BY <1>2, <1>6
  <2>3. CASE file.name = BootmgrName
    <3>1. bootmgr' = file /\ k + 1 \in later
      BY <2>3, <1>1, <1>2, <1>6 DEF Bootmgr
    <3>2. \A j \in later : j <= k + 1
      BY <1>2
    <3> HIDE DEF later
    <3>3. \E i \in later : bootmgr' = files'[i] /\ \A j \in later : j <= i
      BY <3>1, <3>2, <1>6
    <3> QED
      BY <3>1, <3>3, <1>1, <1>6, <1>7 DEF BootmgrInv, Opened, later
  <2>4. CASE file.name # BootmgrName
    <3>1. bootmgr' = bootmgr
      BY <2>4, <1>1 DEF Bootmgr
    <3>2. \A i \in 2..(k + 1) : i \in 2..k \/ i = k + 1
      BY <1>2
    <3>3. later = named
      BY <3>2, <2>2, <2>4, <1>6
    <3>4. named # {} => \E i \in named : bootmgr' = files'[i] /\ \A j \in named : j <= i
      BY <3>1, <2>1, <2>2
    <3> HIDE DEF named, later
    <3> QED
      BY <3>1, <3>3, <3>4, <2>1, <1>1, <1>6, <1>7 DEF BootmgrInv, Opened, later
  <2> QED
    BY <2>3, <2>4
<1>11. ReaderPlace'
  <2>1. CASE r.next = machine.offsets[k + 1]
    BY <2>1, <1>1, <1>6 DEF ReaderPlace
  <2>2. CASE /\ ~machine.whole /\ r.next > machine.offsets[1]
             /\ r.next = machine.image.len \/ r.next \notin DOMAIN machine.image.heads
    <3>1. r.next = machine.image.len => left' = 0
      BY <1>1, <1>2, <1>5
    <3> QED
      BY <3>1, <2>2, <1>1 DEF ReaderPlace
  <2> QED
    BY <2>1, <2>2, <1>3
<1> QED
  BY <1>1, <1>2, <1>6, <1>8, <1>9, <1>10, <1>11 DEF ExtractInv

\* The end of the archive: all files of a whole one are there.
LEMMA ExtractEnd ==
    ASSUME ExtractInv, ExtractMember, Member(machine.image, at, left).rc # "file" \/ Full
    PROVE  ExtractInv'
<1> DEFINE r == Member(machine.image, at, left)
<1>1. /\ pc = "extract" /\ UNCHANGED <<machine, extractVars>>
      /\ \/ pc' \in {"die_files", "die_cpio", "die_bootmgr"}
         \/ r.rc = "end" /\ bootmgr # NoFile /\ pc' = "header"
  BY DEF ExtractMember, Die, extractVars
<1>2. CASE pc' \in {"die_files", "die_cpio", "die_bootmgr"}
  BY <1>1, <1>2, ExtractKept DEF Opened
<1>3. CASE r.rc = "end" /\ bootmgr # NoFile /\ pc' = "header"
  <2>1. UNCHANGED <<machine, files, at, left, bootmgr>>
    BY <1>1 DEF extractVars
  <2>2. Packed' = Packed /\ BootmgrName' = BootmgrName
    BY <2>1 DEF Packed, PackedFile, BootmgrName
  <2>3. machine.whole => Len(files) = Len(Packed)
    <3>1. machine.whole => Len(files) = Len(machine.files) + 1
      BY <1>1, <1>3, NextMember
    <3> QED
      BY <3>1, PackedFacts DEF ExtractInv
  <2>4. FilesInv'
    BY <2>1, <2>2, <2>3 DEF ExtractInv, FilesInv
  <2>5. BootmgrInv'
    BY <2>1, <2>2, <1>3 DEF ExtractInv, BootmgrInv
  <2> QED
    BY <2>1, <2>4, <2>5, <1>3 DEF ExtractInv
<1> QED
  BY <1>1, <1>2, <1>3

\* The steps before and after the extraction.
LEMMA ExtractOthers ==
    ASSUME ExtractInv, Command \/ Patch \/ Finished \/ UNCHANGED vars
    PROVE  ExtractInv'
<1>1. UNCHANGED <<machine, extractVars>>
  BY DEF Command, Patch, Finished, vars, EmptyLine, ProcessArgument, EndOfLine, Search, OpenHeader,
         OpenBin, OpenDone, PatchElement, NextGroup, PatchSuffix, extractVars
<1>2. CASE Command
  <2>1. pc \in {"cmdline", "search"} /\ pc' \in {"cmdline", "search", "add_bcd", "die_cmdline"}
    BY <1>2 DEF Command, EmptyLine, ProcessArgument, EndOfLine, Search, Die
  <2> QED
    BY <2>1, <1>1, ExtractKept DEF Opened
<1>3. CASE Patch
  <2>1. pc \in Opened /\ pc' \in Opened \cup {"die_hive", "die_patch"}
    BY <1>3 DEF Patch, OpenHeader, OpenBin, OpenDone, PatchElement, NextGroup, PatchSuffix, Die, Opened
  <2> QED
    BY <2>1, <1>1, ExtractKept DEF Opened
<1>4. CASE Finished \/ UNCHANGED vars
  <2>1. pc' = pc
    BY <1>4 DEF Finished, vars
  <2> QED
    BY <2>1, <1>1, ExtractKept
<1> QED
  BY <1>2, <1>3, <1>4

\* The files are the packed ones from the first step to the last.
LEMMA ExtractAlways == Spec => []ExtractInv
<1>1. ASSUME ExtractInv, [Next]_vars
      PROVE  ExtractInv'
  BY <1>1, ExtractBcd, ExtractFile, ExtractEnd, ExtractOthers DEF Next, Extract
<1> QED
  BY <1>1, ExtractInit, PTL DEF Spec

\* The files that reach the virtual disk are the packed ones, in their order,
\* with their data where the archiver put it and inside the image, and no file is
\* missing unless the image was cut (cpio_extract, add_file, mkinitrd).
THEOREM FilesDelivered == Spec => []FilesAsPacked
<1>1. ASSUME ExtractInv
      PROVE  FilesAsPacked
  <2>1. /\ machine \in Machines /\ files \in Seq(FileRecords) /\ FilesInv
        /\ Packed \in Seq(FileRecords) /\ Len(files) \in Nat /\ Len(Packed) \in Nat
    BY <1>1, PackedFacts DEF ExtractInv
  <2>2. SubSeq(files, 1, Len(files)) = files
    BY <2>1
  <2>3. SubSeq(Packed, 1, Len(files)) = files
    BY <2>1 DEF FilesInv
  <2>4. IsPrefix(files, Packed)
    BY <2>1, <2>2, <2>3 DEF IsPrefix, FilesInv
  <2>5. pc \in Opened /\ machine.whole => files = Packed
    <3>1. SUFFICES ASSUME Len(files) = Len(Packed) PROVE files = Packed
      BY <2>1 DEF FilesInv
    <3> QED
      BY <3>1, <2>1 DEF FilesInv
  <2> QED
    BY <2>1, <2>4, <2>5 DEF FilesAsPacked, FilesInv, Opened
<1> QED
  BY <1>1, ExtractAlways, PTL

\* The boot manager that is started is the last file with the firmware's name
\* among those delivered, and there is one (add_file, extract_initrd).
THEOREM BootmgrDelivered == Spec => []BootmgrIsDelivered
<1>1. ASSUME ExtractInv
      PROVE  BootmgrIsDelivered
  <2> DEFINE named == {i \in 2..Len(files) : files[i].name = BootmgrName}
             last == CHOOSE i \in named : \A j \in named : j <= i
  <2>1. SUFFICES ASSUME pc \in Opened
                 PROVE  named # {} /\ bootmgr = files[last]
    BY DEF BootmgrIsDelivered, Opened
  <2>2. PICK i \in named : bootmgr = files[i] /\ \A j \in named : j <= i
    BY <1>1, <2>1 DEF ExtractInv, BootmgrInv
  <2>3. last = i
    <3>1. last \in named /\ \A j \in named : j <= last
      BY <2>2
    <3>2. i <= last /\ last <= i /\ i \in Nat /\ last \in Nat
      BY <3>1, <2>2
    <3> QED
      BY <3>2
  <2> QED
    BY <2>2, <2>3
<1> QED
  BY <1>1, ExtractAlways, PTL
============================================================================
