------------------------------ MODULE Products ------------------------------
(***************************************************************************)
(* The products with a quantized matrix, whose kernel the tuner picks.     *)
(*                                                                         *)
(* The last bit of a sum depends on its order, so here a sum is its tree:  *)
(* the warps of a row, in each one its lanes, in each lane the chains it   *)
(* accumulates, in each chain the superblocks and their terms, in order.   *)
(* A term is                                                               *)
(*   <<block of the matrix, lane, weight of the lane, element of the input>> *)
(* The bits of a weight are those of Quantized.                            *)
(***************************************************************************)
EXTENDS Ranges, Quantized, Tuner, SequencesExt

CONSTANTS
  Superblock,   \* weights of a block
  Lane,         \* weights of a lane, and halves of a vector
  InputChunk,   \* COMPACT_INPUT_CHUNK: elements of the input in shared memory
  Pair,         \* elements of the input as wide as a partial sum
  Threshold,    \* COMPACT_GEMM_THRESHOLD
  Requests      \* products to ask for

VARIABLES
  asked,        \* the last request and how it was served
  out           \* what it left in its output

products == <<tuner, asked, out>>

Lanes == Superblock \div Lane
-----------------------------------------------------------------------------
(* Sums.  A request gives format, M, K, N and whether the input is aligned. *)

Compact == {"hq41k", "hq51k"}
Symmetric == {"hq42k", "hq52k"}
V3 == {"hq33k_g16", "hq33k_g32", "hq43k_g16", "hq43k_g32", "hq53k_g16", "hq53k_g32"}

\* The elements a block copies to shared memory: by vectors, and the rest.
Staged(base, len) == [j \in 0 .. len - 1 |-> IF j < (len \div Lane) * Lane THEN base + (j \div Lane) * Lane + (j % Lane) ELSE base + j]

\* What a kernel finds of the input, by the start of its chunk.
Chunks(K) == Steps(0, K, InputChunk)
ChunkLen(base, K) == Smaller(InputChunk, K - base)
SharedInput(K) == [base \in 0 .. K - 1 |-> Staged(base, ChunkLen(base, K))]
InputInPlace(K) == [base \in 0 .. K - 1 |-> [j \in 0 .. K - base - 1 |-> base + j]]

\* The superblocks a warp takes of a chunk, each with the start of the chunk.
ChunkBlocks(base, K, warp, warps) ==
  LET turns == Steps(base \div Superblock + warp, CeilDiv(base + ChunkLen(base, K), Superblock), warps)
  IN  [t \in DOMAIN turns |-> <<base, turns[t]>>]

WarpBlocks(K, warp, warps) ==
  FlattenSeq([c \in DOMAIN Chunks(K) |-> ChunkBlocks(Chunks(K)[c], K, warp, warps)])

\* Those of a row that is a single chunk.
WholeBlocks(count, warp, warps) ==
  LET turns == Steps(warp, count, warps) IN [t \in DOMAIN turns |-> <<0, turns[t]>>]

\* The terms of a superblock in a lane, which end with the row.
Terms(block, lane, K, input) ==
  LET start == block[2] * Superblock + lane * Lane
  IN  [i \in 1 .. Smaller(Lane, K - start) |-> <<block[2], lane, i - 1, input[block[1]][start + i - 1 - block[1]]>>]

\* The sum of the chains of blocks of each warp: every lane takes its part.
SumOf(warps, K, input) ==
  [w \in DOMAIN warps |-> [lane \in 0 .. Lanes - 1 |-> [c \in DOMAIN warps[w] |->
     [s \in DOMAIN warps[w][c] |-> Terms(warps[w][c][s], lane, K, input)]]]]

\* rotate_single_warp: a warp alone swaps two accumulators after every
\* superblock, and once more after an odd number of them.
Alternate(chain, total) ==
  LET both[n \in 0 .. Len(chain)] ==
        IF n = 0 THEN <<<<>>, <<>>>> ELSE <<both[n - 1][2], Append(both[n - 1][1], chain[n])>>
      last == both[Len(chain)]
  IN  IF total % 2 = 1 THEN <<last[2], last[1]>> ELSE last

\* A row, chunk after chunk.
WindowedBlocks(K, warps) ==
  IF warps = 1 THEN LET alone == Alternate(WarpBlocks(K, 0, 1), CeilDiv(K, Superblock)) IN [a \in 1 .. 2 |-> <<alone[a]>>]
  ELSE [w \in 1 .. warps |-> <<WarpBlocks(K, w - 1, warps)>>]

WindowedSum(K, warps) == SumOf(WindowedBlocks(K, warps), K, SharedInput(K))

\* Four kernels written apart, which differ in how they read a block.
Hq41kSum(K, warps) == WindowedSum(K, warps)
Hq51kSum(K, warps) == WindowedSum(K, warps)
SymmetricSum(K, warps) == WindowedSum(K, warps)
V3Sum(K, warps) == WindowedSum(K, warps)

\* gemv_hq_symmetric_rowwarp_kernel: the input in place, even superblocks in
\* one accumulator and odd ones in the other.
RowwarpSum(K) == SumOf([a \in 1 .. 2 |-> <<WholeBlocks(K \div Superblock, a - 1, 2)>>], K, InputInPlace(K))

\* gemv_hq31k_kernel: the whole input in shared memory.
WholeSum(K, warps) ==
  SumOf([w \in 1 .. warps |-> <<WholeBlocks(CeilDiv(K, Superblock), w - 1, warps)>>], K, [base \in {0} |-> Staged(0, K)])

\* Mutant of UnrolledTurns: the remainder is left.
UnrolledTurns_NoRest(turns, U) ==
  LET full == Len(turns) \div U IN [g \in 1 .. full |-> SubSeq(turns, (g - 1) * U + 1, g * U)]

\* The turns of U superblocks, then one by one.
UnrolledTurns(turns, U) ==
  LET full == Len(turns) \div U
  IN  [g \in 1 .. full |-> SubSeq(turns, (g - 1) * U + 1, g * U)]
        \o [r \in 1 .. Len(turns) - full * U |-> <<turns[full * U + r]>>]

\* The turns of a warp, chunk after chunk; each one is a chain of its own.
WarpTurns(K, warp, warps, U) ==
  FlattenSeq([c \in DOMAIN Chunks(K) |-> UnrolledTurns(ChunkBlocks(Chunks(K)[c], K, warp, warps), U)])

\* The input may be read in place.
UnrolledSum(K, warps, U, direct) ==
  SumOf([w \in 1 .. warps |-> WarpTurns(K, w - 1, warps, U)], K, IF direct THEN InputInPlace(K) ELSE SharedInput(K))

\* hq44k reads in place an aligned input that is a single chunk.
InPlace(K, aligned) == K <= InputChunk /\ aligned

Hq44kSum(K, warps, U, aligned) == UnrolledSum(K, warps, U, InPlace(K, aligned))
Hq8kSum(K, warps, U) == UnrolledSum(K, warps, U, FALSE)

\* launch_symmetric: a warp alone takes whole superblocks of an aligned input.
Rowwarp(r, v) == r.f \in Symmetric /\ Variants(r.f)[v][1] = 1 /\ r.K % Superblock = 0 /\ r.aligned

\* The sum of a row by a variant.
RowSum(r, v) ==
  LET warps == Variants(r.f)[v][1]
      U == Variants(r.f)[v][3]
  IN  CASE r.f = "hq31k" -> WholeSum(r.K, warps)
        [] r.f = "hq41k" -> Hq41kSum(r.K, warps)
        [] r.f = "hq51k" -> Hq51kSum(r.K, warps)
        [] r.f = "hq44k" -> Hq44kSum(r.K, warps, U, r.aligned)
        [] r.f = "hq8k" -> Hq8kSum(r.K, warps, U)
        [] r.f \in Symmetric -> IF Rowwarp(r, v) THEN RowwarpSum(r.K) ELSE SymmetricSum(r.K, warps)
        [] r.f \in V3 -> V3Sum(r.K, warps)

RowsPerBlock(r, v) == IF Rowwarp(r, v) THEN 8 ELSE Variants(r.f)[v][2]

\* Where a term of row n for input m lies in the whole matrix and input.
Place(tree, n, m, K) ==
  [w \in DOMAIN tree |-> [lane \in DOMAIN tree[w] |-> [c \in DOMAIN tree[w][lane] |-> [s \in DOMAIN tree[w][lane][c] |->
     [i \in DOMAIN tree[w][lane][c][s] |->
        LET t == tree[w][lane][c][s][i] IN <<n * CeilDiv(K, Superblock) + t[1], t[2], t[3], m * K + t[4]>>]]]]]

\* A product by rows: the blocks of the grid, the rows beyond N write nothing.
ByRows(r, v) ==
  LET rows == {n \in 0 .. CeilDiv(r.N, RowsPerBlock(r, v)) * RowsPerBlock(r, v) - 1 : n < r.N}
      tree == RowSum(r, v)
  IN  [at \in {m * r.N + n : m \in 0 .. r.M - 1, n \in rows} |-> Place(tree, at % r.N, at \div r.N, r.K)]

\* launch_gemv2_indexed: a product per expert, all of them over the same row
\* of the input (stride 0) or each over its own.
Experts(r) ==
  LET blocks == CeilDiv(r.N, 8)
      slots == {<<b \div blocks, (b % blocks) * 8 + g>> : b \in 0 .. Len(r.experts) * blocks - 1, g \in 0 .. 7}
      tree == Hq44kSum(r.K, 1, 4, r.aligned /\ r.stride % Lane = 0)
  IN  [at \in {s[1] * r.N + s[2] : s \in {t \in slots : t[2] < r.N}} |->
         Place(tree, r.experts[(at \div r.N) + 1] * r.N + (at % r.N), IF r.stride = 0 THEN 0 ELSE at \div r.N, r.K)]

\* A thread per group; the compact formats have them for whole superblocks.
GroupThreads(f, K) == IF f \in Compact THEN CeilDiv(K, Superblock) * Lanes ELSE CeilDiv(K, Lane)

\* The dequantization of N rows.  A thread writes eight weights at once when
\* every group of the row is whole.
Dequantized(f, K, N) ==
  LET threads == GroupThreads(f, K)
      written(t) == IF K % Lane = 0 /\ f \notin Compact THEN 0 .. Lane - 1 ELSE {i \in 0 .. Lane - 1 : t * Lane + i < K}
      writes == UNION {{<<n * K + t * Lane + i, <<n * CeilDiv(K, Superblock) + t \div Lanes, t % Lanes, i>> >> : i \in written(t)} :
                         n \in 0 .. N - 1, t \in {x \in 0 .. threads - 1 : x * Lane < K}}
  IN  [at \in {w[1] : w \in writes} |-> (CHOOSE w \in writes : w[1] = at)[2]]

\* cublasHgemm over the dequantized matrix: its order is its own.
Gemm(r, buffer) ==
  [at \in 0 .. (r.M * r.N) - 1 |->
     LET n == at % r.N
         m == at \div r.N
     IN  {buffer[n * r.K + k] \o <<m * r.K + k>> : k \in 0 .. r.K - 1}]
-----------------------------------------------------------------------------
\* hq31k has no dequantization.
Dequantizes(r) == r.M >= Threshold /\ r.f # "hq31k"

Key(r) == <<r.f, r.K, r.N>>

NoRequest == [k |-> "none"]
Served(r, v) == [k |-> "product", r |-> r, v |-> v]

ProductsInit == TunerInit /\ asked = NoRequest /\ out = <<>>

\* launch_matmul_*: the rows of a batch go one by one below the threshold.
Multiply(d, r) ==
  /\ r.k = "product" /\ ~Dequantizes(r)
  /\ \E choice \in Letters(Key(r)) :
       /\ Tune(d, Key(r), choice)
       /\ asked' = Served(r, choice)
       /\ out' = ByRows(r, choice)

\* launch_matmul_*_cublas: dequantize to the scratch of the GPU and multiply.
MultiplyDequantized(r) ==
  /\ r.k = "product" /\ Dequantizes(r)
  /\ asked' = Served(r, 0)
  /\ out' = Gemm(r, Dequantized(r.f, r.K, r.N))
  /\ UNCHANGED tuner

MultiplyExperts(r) ==
  /\ r.k = "experts"
  /\ asked' = [k |-> "experts", r |-> r, v |-> 0]
  /\ out' = Experts(r)
  /\ UNCHANGED tuner

\* Every reader of a format decodes a block.
DecodeBlock(r) ==
  /\ r.k = "decode"
  /\ asked' = [k |-> "decode", r |-> r, v |-> 0]
  /\ out' = [w \in 0 .. 255 |-> Readers(r.f, w)]
  /\ UNCHANGED tuner

Restart(nocache, removed) ==
  /\ StartAgain(nocache, removed)
  /\ asked' = NoRequest /\ out' = <<>>

ServeProduct(d, r) == Multiply(d, r) \/ MultiplyDequantized(r) \/ MultiplyExperts(r) \/ DecodeBlock(r)

ProductsNext ==
  \/ \E d \in Devices, r \in Requests : ServeProduct(d, r)
  \/ \E nocache, removed \in BOOLEAN : Restart(nocache, removed)

ProductsSpec == ProductsInit /\ [][ProductsNext]_products
-----------------------------------------------------------------------------
\* The formats a product is asked of.
ProductFormats == {"hq31k"} \cup Compact \cup Symmetric \cup V3 \cup Wide

(* A lane has a part of a superblock, and a chunk an even number of them    *)
(* (the static_assert of COMPACT_INPUT_CHUNK).  The products of hq44k and   *)
(* hq8k refuse a row that does not end with a superblock, those of x.3 one  *)
(* that does not end with a lane.  The kernels load the input by vectors,   *)
(* which must be aligned in each row of a batch, and keep their partial     *)
(* sums behind it: other calls fault (section 6 of the README).             *)
ProductAssumption(r) ==
  /\ r \in [k : {"product"}, f : ProductFormats, M : Nat, K : Nat \ {0}, N : Nat \ {0}, aligned : BOOLEAN]
  /\ r.f \in Wide => r.K % Superblock = 0
  /\ r.f \in V3 => r.K % Lane = 0
  /\ ~Dequantizes(r) => r.aligned /\ (r.K % Lane = 0 \/ (r.M = 1 /\ r.K % Pair = 0))

ExpertsAssumption(r) ==
  /\ r \in [k : {"experts"}, K : Nat \ {0}, N : Nat \ {0}, aligned : BOOLEAN, stride : Nat, experts : Seq(Nat)]
  /\ r.K % Superblock = 0
  /\ r.aligned /\ r.stride % Lane = 0

ASSUME ProductsAssumption ==
  /\ Lane \in Nat \ {0} /\ Lanes \in Nat \ {0} /\ Superblock = Lanes * Lane
  /\ InputChunk \in Nat \ {0} /\ InputChunk % (2 * Superblock) = 0
  /\ Pair \in Nat \ {0} /\ Threshold \in Nat
  /\ \A r \in Requests : ProductAssumption(r) \/ ExpertsAssumption(r) \/ r \in [k : {"decode"}, f : Formats]
-----------------------------------------------------------------------------
\* The places of a sum, and the term in each.
Places(tree) ==
  UNION {UNION {UNION {UNION {{<<w, lane, c, s, i>> : i \in DOMAIN tree[w][lane][c][s]} :
    s \in DOMAIN tree[w][lane][c]} : c \in DOMAIN tree[w][lane]} : lane \in DOMAIN tree[w]} : w \in DOMAIN tree}
TermAt(tree, p) == tree[p[1]][p[2]][p[3]][p[4]][p[5]]

\* The weights of a row, each with its element of a row of the input.
Wanted(row, from, K) ==
  {<<row * CeilDiv(K, Superblock) + k \div Superblock, (k % Superblock) \div Lane, k % Lane, from * K + k>> : k \in 0 .. K - 1}

SumsOnce(tree, wanted) ==
  /\ {TermAt(tree, p) : p \in Places(tree)} = wanted
  /\ \A p, q \in Places(tree) : p # q => TermAt(tree, p) # TermAt(tree, q)

(* A product sums, for each row of the matrix and each row of the input,      *)
(* every weight of the row once and with its own element, whatever variant    *)
(* the tuner chose, chunks it took and tail the row leaves; and writes every  *)
(* row and no other.                                                          *)
SumsEachWeightOnce ==
  LET r == asked.r IN
  /\ asked.k = "product" =>
       /\ DOMAIN out = 0 .. r.M * r.N - 1
       /\ \A at \in 0 .. r.M * r.N - 1 :
            IF Dequantizes(r) THEN out[at] = Wanted(at % r.N, at \div r.N, r.K)
            ELSE SumsOnce(out[at], Wanted(at % r.N, at \div r.N, r.K))
  /\ asked.k = "experts" =>
       /\ DOMAIN out = 0 .. Len(r.experts) * r.N - 1
       /\ \A at \in 0 .. Len(r.experts) * r.N - 1 :
            SumsOnce(out[at], Wanted(r.experts[(at \div r.N) + 1] * r.N + (at % r.N), IF r.stride = 0 THEN 0 ELSE at \div r.N, r.K))

\* The formats whose variants add in one order.
OneOrder == Compact \cup Symmetric \cup V3

\* The same product with the input copied to shared memory.
Copied(r) == [r EXCEPT !.aligned = FALSE]

(* "The tuned variant changes speed, never the result", where the code says   *)
(* so: each variant of hq41k, hq51k, the symmetric and the x.3 formats adds   *)
(* the same terms in the same order as the first one, whole superblocks of    *)
(* the symmetric ones read in place included.  And hq44k reads its input in   *)
(* place with the sums it would have in shared memory, variant by variant.    *)
(* The variants of hq44k, hq8k and hq31k have orders of their own.            *)
VariantsAgree ==
  asked.k = "product" /\ asked.r.M < Threshold =>
    /\ asked.r.f \in OneOrder => out = ByRows(Copied(asked.r), 1)
    /\ asked.r.f = "hq44k" => out = ByRows(Copied(asked.r), asked.v)

(* The readers of every format see the same weights in a block.               *)
ReadersSeeTheSame == asked.k = "decode" => ReadersAgree(asked.r.f, out)

(* Every variant sums each weight of a row once, with its own element; the *)
(* readers of every format see the same weights in a block; and in the      *)
(* formats that promise it (hq41k, hq51k, symmetric, x.3) tuning changes    *)
(* the speed of a product and not its result.                              *)
ProductIsExact == SumsEachWeightOnce /\ ReadersSeeTheSame /\ VariantsAgree
=============================================================================
