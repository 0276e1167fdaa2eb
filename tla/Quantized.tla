------------------------------ MODULE Quantized -----------------------------
(***************************************************************************)
(* The blocks of a quantized matrix, bit by bit.                           *)
(*                                                                         *)
(* A block holds 256 weights: a header with the scales of its groups and   *)
(* a payload with the codes.  Each format has several readers, written     *)
(* apart: the product that decodes a lane of eight weights from 32-bit     *)
(* words, the dequantization before cuBLAS and the lookup of a row of the  *)
(* embeddings.  A value read is the sequence of the bits of the block it   *)
(* is made of, the least significant one first; the bits a register holds  *)
(* beyond what was loaded are NoBit.                                       *)
(*                                                                         *)
(* A reader gives for a weight k of the block                              *)
(*   base   the factors of the whole block                                 *)
(*   scale  the scale of its group, and min its minimum                    *)
(*   code   its code                                                       *)
(***************************************************************************)
EXTENDS Integers, Sequences, FiniteSets

NoBit == -1

Bytes(b, n) == [j \in 1 .. 8 * n |-> 8 * b + j - 1]
Word(w) == Bytes(4 * w, 4)
Half(b) == Bytes(b, 2)

Lowest(x, n) == SubSeq(x, 1, n)
Shr(x, s) == [j \in 1 .. Len(x) |-> IF j + s <= Len(x) THEN x[j + s] ELSE NoBit]

\* __funnelshift_r: the low half of hi:lo shifted right by s modulo 32.
Funnel(lo, hi, s) == SubSeq(lo \o hi, (s % 32) + 1, (s % 32) + 32)

\* The half of a byte: the high nibble or the low one.
Nibble(b, high) == Lowest(IF high THEN Shr(Bytes(b, 1), 4) ELSE Bytes(b, 1), 4)

Weight(base, scale, min, code) == [base |-> base, scale |-> scale, min |-> min, code |-> code]
-----------------------------------------------------------------------------
(* Compact header: hq31k, hq41k and hq51k.                                  *)

\* decode_compact_group, and the words of the products.
CompactGroup(g) == [base |-> <<Half(0), Half(2), Half(4)>>, scale |-> Nibble(8 + g \div 2, g % 2 = 0), min |-> Nibble(24 + g \div 2, g % 2 = 0)]
CompactLane(lane) ==
  [base |-> <<Lowest(Word(0), 16), Lowest(Shr(Word(0), 16), 16), Lowest(Word(1), 16)>>,
   scale |-> Nibble(8 + lane \div 2, lane % 2 # 1), min |-> Nibble(24 + lane \div 2, lane % 2 # 1)]

\* Two codes in a byte, the first one in the high nibble.
NibbleOf(packed, i) == LET byte == Lowest(Shr(packed, 8 * (i \div 2)), 8) IN Lowest(IF i % 2 = 0 THEN Shr(byte, 4) ELSE byte, 4)

\* Codes one after the other from the lowest bit.
CodeOf(packed, bits, i) == Lowest(Shr(packed, i * bits), bits)

\* Five bytes of a lane from two words: seven codes by funnel shifts and the
\* last one from the high word.
FiveBits(offset, i) ==
  LET w == offset \div 4
      shift == (offset % 4) * 8
      lo == Funnel(Word(w), Word(w + 1), shift)
      hi == Shr(Word(w + 1), shift)
  IN  IF i < 7 THEN Lowest(Funnel(lo, hi, i * 5), 5) ELSE Lowest(Shr(hi, 3), 5)

Decoded(group, code) == Weight(group.base, group.scale, group.min, code)

Hq31kProduct(k) == Decoded(CompactLane(k \div 8), CodeOf(Bytes(40 + 3 * (k \div 8), 3), 3, k % 8))
Hq41kProduct(k) == Decoded(CompactLane(k \div 8), NibbleOf(Word(10 + k \div 8), k % 8))
Hq41kDequant(k) == Decoded(CompactGroup(k \div 8), NibbleOf(Bytes(40 + 4 * (k \div 8), 4), k % 8))
Hq51kProduct(k) == Decoded(CompactLane(k \div 8), FiveBits(40 + 5 * (k \div 8), k % 8))
Hq51kDequant(k) == Decoded(CompactGroup(k \div 8), CodeOf(Bytes(40 + 5 * (k \div 8), 5), 5, k % 8))
Hq51kRow(k) == Decoded(CompactGroup((k % 256) \div 8), CodeOf(Bytes(40 + 5 * ((k % 256) \div 8), 5), 5, (k % 256) % 8))

\* Byte-aligned scales: the embeddings of hq62k.
Hq62kRow(k) ==
  LET g == k \div 8
  IN  Weight(<<Half(0), Half(2), Half(4)>>, Bytes(8 + g, 1), Bytes(40 + g, 1), CodeOf(Bytes(72 + 6 * g, 6), 6, k % 8))
-----------------------------------------------------------------------------
(* Symmetric formats: a step per group of eight and no minimum.             *)

\* decode_symmetric_step: five bits that may straddle two bytes.
SymmetricStep(g) == Lowest(Shr(Bytes(4 + (g * 5) \div 8, 2), (g * 5) % 8), 5)

\* The kernel of a warp per row takes them from two words.
RowwarpStep(lane) == Lowest(Funnel(Word(1 + (lane * 5) \div 32), Word(2 + (lane * 5) \div 32), (lane * 5) % 32), 5)

SymmetricProduct(bits, k) ==
  Weight(<<Half(0)>>, SymmetricStep(k \div 8), <<>>,
         IF bits = 4 THEN NibbleOf(Word(6 + k \div 8), k % 8) ELSE CodeOf(Bytes(24 + 5 * (k \div 8), 5), 5, k % 8))
SymmetricRowwarp(bits, k) ==
  LET offset == 24 + 5 * (k \div 8)
      packed == Shr(Word(offset \div 4) \o Word((offset \div 4) + 1), 8 * (offset % 4))
  IN  Weight(<<Lowest(Word(0), 16)>>, RowwarpStep(k \div 8), <<>>,
             IF bits = 4 THEN NibbleOf(Word(6 + k \div 8), k % 8) ELSE CodeOf(packed, 5, k % 8))
SymmetricDequant(bits, k) ==
  Weight(<<Half(0)>>, SymmetricStep(k \div 8), <<>>,
         IF bits = 4 THEN NibbleOf(Bytes(24 + 4 * (k \div 8), 4), k % 8) ELSE CodeOf(Bytes(24 + 5 * (k \div 8), 5), 5, k % 8))
SymmetricRow(bits, k) ==
  Weight(<<Half(0)>>, SymmetricStep(k \div 8), <<>>,
         IF bits = 4 THEN Nibble(24 + k \div 2, k % 2 = 0) ELSE CodeOf(Bytes(24 + 5 * (k \div 8), 5), 5, k % 8))
-----------------------------------------------------------------------------
(* x.3: a step per group of 16 or 32 weights, a padded header.              *)

V3Header(group) == IF group = 16 THEN 12 ELSE 8
V3Step(g) == Lowest(Shr(Bytes(2 + (g * 5) \div 8, 2), (g * 5) % 8), 5)

V3Product(bits, group, k) ==
  LET lane == k \div 8
      offset == V3Header(group) + lane * bits
  IN  Weight(<<Half(0)>>, V3Step(lane \div (group \div 8)), <<>>,
             CASE bits = 4 -> NibbleOf(Bytes(offset, 4), k % 8)
               [] bits = 5 -> FiveBits(offset, k % 8)
               [] bits = 3 -> CodeOf(Bytes(offset, 3), 3, k % 8))

\* decode_v3: a code that ends in its byte does not read the next one.
V3Decode(bits, group, k) ==
  LET p == k * bits
      off == V3Header(group) + p \div 8
      value == IF (p % 8) + bits > 8 THEN Bytes(off, 2) ELSE Bytes(off, 1)
  IN  Weight(<<Half(0)>>, V3Step(k \div group), <<>>,
             IF bits = 4 THEN Nibble(V3Header(group) + k \div 2, k % 2 = 0) ELSE Lowest(Shr(value, p % 8), bits))
-----------------------------------------------------------------------------
(* hq44k and hq8k.  The products read the headers of U superblocks at once, *)
(* a word per lane, and the lanes pass them around.                         *)

\* What a shuffle sees of a header: eight or four lanes hold its words, those
\* beyond the last one hold nothing.
HeaderWord(words, w) == IF w < words THEN Word(w) ELSE [j \in 1 .. 32 |-> NoBit]

Field5(bit) == Lowest(Shr(Bytes(4 + bit \div 8, 2), bit % 8), 5)
ShuffledField5(bit) == Lowest(Funnel(HeaderWord(6, bit \div 32), HeaderWord(6, (bit \div 32) + 1), bit % 32), 5)

\* The first code of a byte is in the low nibble.
LowFirst(packed, i) == LET byte == Lowest(Shr(packed, 8 * (i \div 2)), 8) IN Lowest(IF i % 2 = 0 THEN byte ELSE Shr(byte, 4), 4)

Hq44kProduct(k) ==
  LET group == (k \div 8) \div 2
  IN  Weight(<<Lowest(HeaderWord(6, 0), 16), Lowest(Shr(HeaderWord(6, 0), 16), 16)>>,
             ShuffledField5(32 + group * 5), ShuffledField5(112 + group * 5), LowFirst(Bytes(24 + 4 * (k \div 8), 4), k % 8))

\* hq44_eight: dequantization and lookup.
Hq44kEight(k) ==
  LET group == (k \div 8) \div 2
  IN  Weight(<<Half(0), Half(2)>>, Field5(group * 5), Field5(80 + group * 5), LowFirst(Bytes(24 + 4 * (k \div 8), 4), k % 8))

Hq8kCode(k) ==
  LET words == Bytes(16 + 8 * (k \div 8), 8)
      word == IF k % 8 < 4 THEN Lowest(words, 32) ELSE Lowest(Shr(words, 32), 32)
  IN  Lowest(Shr(word, 8 * (k % 4)), 8)
Hq8kProduct(k) ==
  LET qbyte == 2 + (k \div 8) \div 4
  IN  Weight(<<Lowest(HeaderWord(3, 0), 16)>>, Lowest(Shr(HeaderWord(3, qbyte \div 4), (qbyte % 4) * 8), 8), <<>>, Hq8kCode(k))
Hq8kDequant(k) == Weight(<<Half(0)>>, Bytes(2 + k \div 32, 1), <<>>, Hq8kCode(k))
Hq8kRow(k) == Weight(<<Half(0)>>, Bytes(2 + k \div 32, 1), <<>>, Bytes(16 + k, 1))
-----------------------------------------------------------------------------
\* Format -> how each of its readers sees weight k.
Readers(format, k) ==
  CASE format = "hq31k" -> {Hq31kProduct(k)}
    [] format = "hq41k" -> {Hq41kProduct(k), Hq41kDequant(k)}
    [] format = "hq51k" -> {Hq51kProduct(k), Hq51kDequant(k), Hq51kRow(k)}
    [] format = "hq62k" -> {Hq62kRow(k)}
    [] format = "hq42k" -> {SymmetricProduct(4, k), SymmetricRowwarp(4, k), SymmetricDequant(4, k), SymmetricRow(4, k)}
    [] format = "hq52k" -> {SymmetricProduct(5, k), SymmetricRowwarp(5, k), SymmetricDequant(5, k), SymmetricRow(5, k)}
    [] format = "hq33k_g16" -> {V3Product(3, 16, k), V3Decode(3, 16, k)}
    [] format = "hq33k_g32" -> {V3Product(3, 32, k), V3Decode(3, 32, k)}
    [] format = "hq43k_g16" -> {V3Product(4, 16, k), V3Decode(4, 16, k)}
    [] format = "hq43k_g32" -> {V3Product(4, 32, k), V3Decode(4, 32, k)}
    [] format = "hq53k_g16" -> {V3Product(5, 16, k), V3Decode(5, 16, k)}
    [] format = "hq53k_g32" -> {V3Product(5, 32, k), V3Decode(5, 32, k)}
    [] format = "hq44k" -> {Hq44kProduct(k), Hq44kEight(k)}
    [] format = "hq8k" -> {Hq8kProduct(k), Hq8kDequant(k), Hq8kRow(k)}

Formats == {"hq31k", "hq41k", "hq51k", "hq42k", "hq52k", "hq62k", "hq33k_g16", "hq33k_g32", "hq43k_g16",
            "hq43k_g32", "hq53k_g16", "hq53k_g32", "hq44k", "hq8k"}

\* Bytes of a block, weights that share a scale and bits of a code.
Blocks ==
  [hq31k |-> <<136, 8, 3>>, hq41k |-> <<168, 8, 4>>, hq51k |-> <<200, 8, 5>>, hq62k |-> <<264, 8, 6>>,
   hq42k |-> <<152, 8, 4>>, hq52k |-> <<184, 8, 5>>,
   hq33k_g16 |-> <<108, 16, 3>>, hq33k_g32 |-> <<104, 32, 3>>, hq43k_g16 |-> <<140, 16, 4>>,
   hq43k_g32 |-> <<136, 32, 4>>, hq53k_g16 |-> <<172, 16, 5>>, hq53k_g32 |-> <<168, 32, 5>>,
   hq44k |-> <<152, 16, 4>>, hq8k |-> <<272, 32, 8>>]

Bits(w) == {w.code[j] : j \in DOMAIN w.code}
GroupBits(w) == {w.scale[j] : j \in DOMAIN w.scale} \cup {w.min[j] : j \in DOMAIN w.min}
BaseBits(w) == UNION {{b[j] : j \in DOMAIN b} : b \in {w.base[j] : j \in DOMAIN w.base}}

(* The readers of a format, given the weights 0 .. 255 they see, agree: they *)
(* read the same bits of the block for every weight; no two weights share the *)
(* bits of a code, no two groups those of a scale, and none lies outside the  *)
(* block.                                                                     *)
ReadersAgree(format, views) ==
  LET group == Blocks[format][2]
      one(k) == CHOOSE w \in views[k] : TRUE
      inside == 0 .. 8 * Blocks[format][1] - 1
      codes == UNION {Bits(one(k)) : k \in 0 .. 255}
      scales == UNION {GroupBits(one(k)) : k \in 0 .. 255}
      base == BaseBits(one(0))
  IN  /\ \A k \in 0 .. 255 :
           /\ Cardinality(views[k]) = 1
           /\ GroupBits(one(k)) = GroupBits(one((k \div group) * group))
           /\ BaseBits(one(k)) = base
      /\ Cardinality(codes) = 256 * Blocks[format][3]
      /\ Cardinality(scales) = (256 \div group) * Cardinality(GroupBits(one(0)))
      /\ codes \cup scales \cup base \subseteq inside
      /\ codes \cap scales = {} /\ codes \cap base = {} /\ scales \cap base = {}
=============================================================================
