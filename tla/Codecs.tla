------------------------------- MODULE Codecs -------------------------------
(***************************************************************************)
(* The gradient compressors of src/byteps/common/compressor: onebit, topk, *)
(* randomk and dithering, with the bit streams and the Elias delta code of *)
(* utils.h.  A tensor is a sequence of integers.  What floating point      *)
(* rounds (the mean of onebit, a level of dithering) is rounded down: both *)
(* decoders of a compressor compute it by the same expression.  Random     *)
(* numbers are a choice, so compressing yields a set.                      *)
(*                                                                         *)
(* A codec is a record c = [type, k, scaling, natural, width]: width is    *)
(* the bits of index_t, the unsigned integer as large as an element, 16    *)
(* for half precision.  It is the word of the streams, and an index or a   *)
(* count of bits that is stored in one is cut off to it.  Streams in words *)
(* of 64 bits, where BitReader::Get shifts an int by up to 63, and the L2  *)
(* norm of dithering are left out.                                         *)
(***************************************************************************)
EXTENDS Integers, FiniteSetsExt, SequencesExt

Abs(x)        == IF x < 0 THEN -x ELSE x
Zeros(n)      == [i \in 1..n |-> 0]
Plus(t, u)    == [i \in DOMAIN t |-> t[i] + u[i]]
Times(a, t)   == [i \in DOMAIN t |-> a * t[i]]
Log2(x)       == CHOOSE n \in 0..x : 2^n <= x /\ x < 2^(n + 1)
CeilDiv(a, b) == (a + b - 1) \div b

FloatWords(c)  == CeilDiv(32, c.width)
Index_t(c, n)  == n % 2^c.width   \* the conversion to index_t

-----------------------------------------------------------------------------
(* Bit streams *)

\* BitWriter: the words of the bits that were put, the last one shifted to the left by Flush.
Words(c, bits) ==
  [i \in 1..CeilDiv(Len(bits), c.width) |->
     [j \in 1..c.width |-> LET n == (i - 1) * c.width + j IN IF n <= Len(bits) THEN bits[n] ELSE 0]]

\* The bits i, ..., 0 of x.
BitsFrom(x, i) == [j \in 1..(i + 1) |-> (x \div 2^(i + 1 - j)) % 2]

EliasDeltaEncode(x) ==
  LET len == 1 + Log2(x)
      length_of_len == Log2(len)
  IN  Zeros(length_of_len) \o BitsFrom(len, length_of_len) \o BitsFrom(x, len - 2)

\* BitReader, at bit pos of the stream; the words are read from the left.
Get(c, data, pos) == data[(pos \div c.width) + 1][(pos % c.width) + 1]

\* 1 and the n bits from pos on, as a number.
ReadBits(c, data, pos, n) == FoldLeft(LAMBDA num, i : 2 * num + Get(c, data, pos + i), 1, [i \in 1..n |-> i - 1])

EliasDeltaDecode(c, data, pos) ==
  LET length_of_len == Min({z \in 0..(Len(data) * c.width - pos - 1) : Get(c, data, pos + z) = 1})
      len == ReadBits(c, data, pos + length_of_len + 1, length_of_len)
  IN  [num |-> ReadBits(c, data, pos + 2 * length_of_len + 1, len - 1), pos |-> pos + 2 * length_of_len + len]

-----------------------------------------------------------------------------
(* onebit: the signs, packed into words, and the mean of the absolute values *)

Mean(x) == FoldLeft(LAMBDA s, y : s + Abs(y), 0, x) \div Len(x)

Onebit(c, x) ==
  LET chunk_len == CeilDiv(Len(x), c.width)
      Negative(i) == IF i <= Len(x) /\ x[i] < 0 THEN 1 ELSE 0
  IN  [data |-> [i \in 1..chunk_len |-> [j \in 1..c.width |-> Negative((i - 1) * c.width + j)]],
       scale |-> IF c.scaling THEN Mean(x) ELSE 1, size |-> chunk_len + FloatWords(c)]

OnebitDecompress(c, z, n) == [i \in 1..n |-> (1 - 2 * Get(c, z.data, i - 1)) * z.scale]

OnebitError(c, corrected, z) == [i \in DOMAIN corrected |-> corrected[i] + (2 * Get(c, z.data, i - 1) - 1) * z.scale]

-----------------------------------------------------------------------------
(* topk and randomk: pairs of an index and its element *)

\* The sets of indices that the heap may hold at the end: its top is one of the smallest.
KeptBy(size, k) ==
  FoldLeft(LAMBDA kept, i :
             UNION {LET top == Min({size[j] : j \in S})
                    IN  IF i <= k THEN {S \cup {i}}
                        ELSE IF size[i] > top THEN {(S \ {j}) \cup {i} : j \in {h \in S : size[h] = top}}
                        ELSE {S} : S \in kept},
           {{}}, [i \in DOMAIN size |-> i])

\* Mutant: the elements are compared with their signs.
KeptSigned(x, k) == KeptBy(x, k)

Kept(x, k) == KeptBy([i \in DOMAIN x |-> Abs(x[i])], k)

\* The place, counted from 1, that the stored index of element i points to.
Place(c, i) == Index_t(c, i - 1) + 1

\* The pairs of the elements S, as what they write to which place: the last pair for a
\* place wins.
Pairs(c, x, S) ==
  LET Writing(p) == {x[i] : i \in {j \in S : Place(c, j) = p}}
      places     == {Place(c, i) : i \in S}
  IN  {[pairs |-> f, size |-> 2 * c.k] :
         f \in {g \in [places -> UNION {Writing(p) : p \in places}] : \A p \in places : g[p] \in Writing(p)}}

Topk(c, x) == UNION {Pairs(c, x, S) : S \in Kept(x, c.k)}

\* k indices that may coincide.
Randomk(c, x) == UNION {Pairs(c, x, ToSet(f)) : f \in [1..c.k -> DOMAIN x]}

PairsDecompress(z, n)      == [i \in 1..n |-> IF i \in DOMAIN z.pairs THEN z.pairs[i] ELSE 0]
PairsError(corrected, z)   == [i \in DOMAIN corrected |-> IF i \in DOMAIN z.pairs THEN 0 ELSE corrected[i]]

-----------------------------------------------------------------------------
(* dithering: random rounding to levels; the distances, signs and levels of the elements *)
(* that are not rounded to zero                                                          *)

Levels(c) == IF c.natural THEN 2^(c.k - 1) ELSE c.k

RoundNextPow2(v) == IF v = 0 THEN 0 ELSE Min({2^n : n \in 0..v} \cap v..(2 * v))

\* The levels that an element may be rounded to: floor unless p = 1, the next one unless
\* p = 0; none but 0 if all elements are 0 (0 / 0 is converted to 0).
Quantized(c, y, scale) ==
  LET normalized == Abs(y) * Levels(c)  \* times scale
      floor  == IF c.natural THEN RoundNextPow2(CeilDiv(normalized, scale)) \div 2 ELSE normalized \div scale
      length == IF c.natural /\ floor # 0 THEN floor ELSE 1
  IN  IF scale = 0 THEN {0}
      ELSE {q \in {floor, floor + length} : Abs(q * scale - normalized) < length * scale}

Code(distance, y, level) == EliasDeltaEncode(distance) \o <<IF y < 0 THEN 1 ELSE 0>> \o EliasDeltaEncode(level)

\* The bits for the elements x whose levels q are not 0.
Encoded(x, q) ==
  LET kept == SelectSeq([i \in DOMAIN x |-> i], LAMBDA i : q[i] # 0)
      Before(n) == IF n = 1 THEN 0 ELSE kept[n - 1]
  IN  FlattenSeq([n \in DOMAIN kept |-> Code(kept[n] - Before(n), x[kept[n]], q[kept[n]])])

Roundings(c, x, scale) == {q \in [DOMAIN x -> UNION {Quantized(c, x[i], scale) : i \in DOMAIN x}] :
                             \A i \in DOMAIN x : q[i] \in Quantized(c, x[i], scale)}

Dithering(c, x) ==
  LET scale == Max({Abs(x[i]) : i \in DOMAIN x})
  IN  {LET bits == Encoded(x, q)
       IN  [data |-> Words(c, bits), bits |-> Index_t(c, Len(bits)), scale |-> scale,
            size |-> CeilDiv(Len(bits), c.width) + 1 + FloatWords(c)] : q \in Roundings(c, x, scale)}

\* The loop of both decoders: what is at which index.
RECURSIVE Entries(_, _, _, _)
Entries(c, z, pos, last) ==
  IF pos >= z.bits THEN {}
  ELSE LET diff == EliasDeltaDecode(c, z.data, pos)
           quantized == EliasDeltaDecode(c, z.data, diff.pos + 1)
           num == (quantized.num * z.scale) \div Levels(c)
       IN  {<<last + diff.num, (1 - 2 * Get(c, z.data, diff.pos)) * num>>} \cup Entries(c, z, quantized.pos, last + diff.num)

DitheringDecompress(c, z, n) ==
  LET e == Entries(c, z, 0, 0)
  IN  [i \in 1..n |-> IF \E v \in e : v[1] = i THEN (CHOOSE v \in e : v[1] = i)[2] ELSE 0]

DitheringError(c, corrected, z) ==
  LET e == Entries(c, z, 0, 0)
  IN  [i \in DOMAIN corrected |-> corrected[i] - (IF \E v \in e : v[1] = i THEN (CHOOSE v \in e : v[1] = i)[2] ELSE 0)]

-----------------------------------------------------------------------------
(* The interface *)

Compressed(c, x) ==
  CASE c.type = "onebit"    -> {Onebit(c, x)}
    [] c.type = "topk"      -> Topk(c, x)
    [] c.type = "randomk"   -> Randomk(c, x)
    [] c.type = "dithering" -> Dithering(c, x)

Decompressed(c, z, n) ==
  CASE c.type = "onebit"    -> OnebitDecompress(c, z, n)
    [] c.type = "dithering" -> DitheringDecompress(c, z, n)
    [] OTHER                -> PairsDecompress(z, n)

FastUpdateError(c, corrected, z) ==
  CASE c.type = "onebit"    -> OnebitError(c, corrected, z)
    [] c.type = "dithering" -> DitheringError(c, corrected, z)
    [] OTHER                -> PairsError(corrected, z)
=============================================================================
