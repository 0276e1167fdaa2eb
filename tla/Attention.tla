------------------------------ MODULE Attention ------------------------------
(***************************************************************************)
(* The attention kernels (attention*.cu), and the operations that choose   *)
(* one of them (register_kernels.cpp).                                     *)
(*                                                                         *)
(* Every kernel divides the keys a query sees among warps, blocks or tiles *)
(* in its own way, keeps a running maximum so that exp does not overflow,  *)
(* and merges what the parts found.  A part is a record                    *)
(*   max    the largest score it has met                                   *)
(*   rows   what it has added up: a row is <<slot of the key, slot of the  *)
(*          value, KV head>>, weighted by exp(its score - ref)             *)
(* and multiplying it by exp(a - b) moves its references from a to b.  The *)
(* output is right when every visible row was added once, and all relative *)
(* to the same maximum, which the normalisation then cancels.              *)
(*                                                                         *)
(* The numbers of the code (16 warps, tiles of 256 keys, a budget of 128   *)
(* MiB...) are the fields of Shape, so that small contexts have all cases. *)
(***************************************************************************)
EXTENDS Ranges, SequencesExt, FiniteSetsExt

CONSTANTS
  Shape,      \* warps, splits, minChunk, tile, tileWarps, ilp, vilp, groups, groupedTile, queryTile,
              \* keyTile, rowTile, wideTile, wideLimit, gemmFrom, keyUnit, keyAlign, budget
  Calls,      \* the attentions and rotations that may be asked for
  MayFail     \* whether device memory may be refused

VARIABLES
  call,       \* the attention in progress
  stage,      \* how far it is
  partials,   \* workspace of the decode kernels, in device memory: <<head, split>> -> part
  ws,         \* workspace of the GEMM path: elements behind each pointer (0: null), sizes noted
  merging,    \* running accumulator of the GEMM path: <<query, head>> -> part
  output      \* what was written for each query and head

kernels == <<call, stage, partials, ws, merging, output>>

Low == -1000
Empty == [max |-> Low, rows |-> <<>>]
Nothing == [x \in {} |-> Empty]

-----------------------------------------------------------------------------
(* A call: past rows of context and new ones, a window, the slots of the    *)
(* cache, heads and KV heads, and the image block of the chunk; its opts    *)
(* are what the device, the configuration and the command allow.            *)

End(c) == c.past + c.new
Ring(c) == IF c.slots = 0 THEN c.maxSeq ELSE c.slots
KvHead(c, h) == h \div (c.heads \div c.kvHeads)
HasBlock(c) == c.to > c.from
BlockInChunk(c) == HasBlock(c) => c.from >= c.past /\ c.to <= End(c)
InBlock(c, p) == c.from <= p /\ p < c.to
Pairs(c) == (0 .. c.new - 1) \X (0 .. c.heads - 1)

\* The last position written to a slot, which is where its row is from.
Holds(c, slot) == Max({p \in 0 .. End(c) - 1 : p % Ring(c) = slot} \cup {-1})
Score(c, slot) == c.score[Holds(c, slot)]

\* What a query sees, by the definition of the naive kernel and the image block.
Sees(c, q, k) ==
  /\ k <= q \/ (InBlock(c, q) /\ InBlock(c, k))
  /\ c.window = 0 \/ k + c.window > q

Visible(c, q) == {k \in 0 .. End(c) - 1 : Sees(c, q, k)}

\* The angles of a head: an even number of its elements, or a share of it.
Rotary(c) == (IF c.rotary = 0 THEN c.dim ELSE c.rotary) \div 2

Positive == Nat \ {0}

\* The rings of KvRing: the whole sequence, or the window and a batch.
Attends(c) ==
  /\ c.past \in Nat /\ c.new \in Positive /\ c.maxSeq \in Nat /\ c.slots \in Nat /\ c.window \in Nat
  /\ End(c) <= Ring(c) \/ (c.window > 0 /\ c.window + c.new <= Ring(c))
  /\ c.heads \in Positive /\ c.kvHeads \in 1 .. c.heads /\ c.dim \in Positive /\ c.from \in Nat /\ c.to \in Nat
  /\ \A k \in 0 .. End(c) - 1 : c.score[k] \in Int /\ c.score[k] >= Low
  /\ CASE c.op = "attention" -> c.past = 0 /\ End(c) <= Ring(c) /\ ~HasBlock(c)
       [] c.op = "cached" -> c.new = 1 /\ ~HasBlock(c)
       [] OTHER -> c.op = "prefill"

Rotates(c) ==
  /\ c.past \in Nat /\ c.new \in Positive /\ c.maxSeq \in Nat
  /\ c.heads \in Positive /\ c.kvHeads \in Positive /\ c.dim \in Positive
  /\ Rotary(c) \in 1 .. c.dim \div 2
  /\ c.fused => ~c.proportional

ASSUME KernelsAssumption ==
  /\ Shape \in [warps : Positive, splits : Positive, minChunk : Positive, tile : Positive, tileWarps : Positive,
                ilp : Positive, vilp : Positive, groups : Positive, groupedTile : Positive, queryTile : Positive,
                keyTile : Positive, rowTile : Positive, wideTile : Positive, wideLimit : Positive,
                gemmFrom : Positive, keyUnit : Positive, keyAlign : Positive, budget : Positive]
  /\ \A c \in Calls : IF c.op = "rope" THEN Rotates(c) ELSE Attends(c)
  /\ MayFail \in BOOLEAN

-----------------------------------------------------------------------------
(* Online softmax.                                                          *)

Weighted(row, m) == [row |-> row, ref |-> m]

\* Multiplied by exp(p.max - m).
Rescaled(p, m) == [i \in DOMAIN p.rows |-> Weighted(p.rows[i].row, p.rows[i].ref + m - p.max)]

\* The rows of a tile are added.  Those masked with -inf are not among them, and
\* a part that has seen nothing yet is left alone.
Absorb(c, p, reads) ==
  LET m == Max({p.max} \cup {Score(c, reads[i][1]) : i \in DOMAIN reads})
  IN  [max |-> m, rows |-> Rescaled(p, m) \o [i \in DOMAIN reads |-> Weighted(reads[i], m)]]

\* Tile after tile.
Online(c, tiles) == FoldLeft(LAMBDA p, reads : Absorb(c, p, reads), Empty, tiles)

\* The parts brought to the largest of their maxima and added up.
Merge(ps) ==
  LET m == Max({ps[i].max : i \in DOMAIN ps})
  IN  [max |-> m, rows |-> FlattenSeq([i \in DOMAIN ps |-> Rescaled(ps[i], m)])]

Row(slot, c, h) == <<slot, slot, KvHead(c, h)>>
RowsAt(slots, c, h) == [i \in DOMAIN slots |-> Row(slots[i], c, h)]

\* The keys of a tile that the mask lets through.
Where(range, seen) == FoldLeft(LAMBDA kept, k : IF k \in seen THEN Append(kept, k) ELSE kept, <<>>, range)

-----------------------------------------------------------------------------
(* One query over a context of total rows, by warps.                        *)

First(window, total) == IF window > 0 THEN Larger(0, total - window) ELSE 0

WarpRange(first, total, w) ==
  LET chunk == CeilDiv(total - first, Shape.warps)
      start == first + w * chunk
  IN  Steps(start, Smaller(start + chunk, total), 1)

\* The coalesced and split kernels count slots along, and wrap them.
Walk(range, slots) ==
  FoldLeft(LAMBDA walked, p : Append(walked, IF walked = <<>> THEN p % slots
                                             ELSE IF Last(walked) + 1 = slots THEN 0 ELSE Last(walked) + 1),
           <<>>, range)

Slotted(range, slots) == [i \in DOMAIN range |-> range[i] % slots]

WarpPart(c, h, slots) == Online(c, [i \in DOMAIN slots |-> <<Row(slots[i], c, h)>>])

WarpParts(c, h, total, counted) ==
  [w \in 1 .. Shape.warps |->
     LET range == WarpRange(First(c.window, total), total, w - 1)
     IN  WarpPart(c, h, IF counted THEN Walk(range, Ring(c)) ELSE Slotted(range, Ring(c)))]

\* attention_cached_v2: one new row; attention_prefill_cached: each query up to itself.
ByWarps(c, counted) ==
  [x \in Pairs(c) |-> Merge(WarpParts(c, x[2], c.past + x[1] + 1, counted))]

\* attention_naive: three passes over all the keys, in their own rows.
Naive(c) ==
  [x \in Pairs(c) |->
     WarpPart(c, x[2], Where(Steps(0, c.new, 1), {k \in 0 .. c.new - 1 : ~(k > x[1] \/ (c.window > 0 /\ k + c.window <= x[1]))}))]

-----------------------------------------------------------------------------
(* Decode split along the sequence: a kernel of parts, a kernel that merges *)

SplitChunk(c, window) == Larger(Shape.minChunk, CeilDiv(End(c) - First(window, End(c)), Shape.splits))
ActiveSplits(c, window) == CeilDiv(End(c) - First(window, End(c)), SplitChunk(c, window))
SplitStart(c, window, split) == First(window, End(c)) + split * SplitChunk(c, window)
SplitEnd(c, window, split) == Smaller(SplitStart(c, window, split) + SplitChunk(c, window), End(c))

\* The keys of a tile of n that the warps score, ilp at a time.
Scored(n) ==
  {base + j : base \in UNION {Range(Steps(w * Shape.ilp, n, Shape.tileWarps * Shape.ilp)) : w \in 0 .. Shape.tileWarps - 1},
              j \in 0 .. Shape.ilp - 1} \cap 0 .. n - 1

\* The values a group of threads takes: vilp loaded ahead, then the rest.
Unrolled(n, g) ==
  Cardinality({r \in 0 .. n : g + (r * Shape.vilp + Shape.vilp - 1) * Shape.groups < n}) * Shape.vilp

Taken(n, g) ==
  [i \in 1 .. Unrolled(n, g) |-> g + (i - 1) * Shape.groups]
    \o Steps(g + Unrolled(n, g) * Shape.groups, n, Shape.groups)

\* flash_decode_partial_kernel, one tile: s_p holds the scores, then the values.
DecodeTile(c, h, tile, n) ==
  LET scored == Scored(n)
      taken == FlattenSeq([g \in 1 .. Shape.groups |-> Taken(n, g - 1)])
      slot(i) == (tile + i) % Ring(c)
  IN  [i \in DOMAIN taken |->
        <<IF taken[i] \in scored THEN slot(taken[i]) ELSE -1, slot(taken[i]), KvHead(c, h)>>]

DecodePart(c, h, split) ==
  LET to == SplitEnd(c, c.window, split)
      tiles == Steps(SplitStart(c, c.window, split), to, Shape.tile)
  IN  Online(c, [i \in DOMAIN tiles |-> DecodeTile(c, h, tiles[i], Smaller(Shape.tile, to - tiles[i]))])

\* attention_global_grouped: linear cache, the heads of a block share its tiles.
GroupedPart(c, h, split) ==
  LET to == SplitEnd(c, 0, split)
      tiles == Steps(SplitStart(c, 0, split), to, Shape.groupedTile)
  IN  Online(c, [i \in DOMAIN tiles |-> RowsAt(Steps(tiles[i], Smaller(tiles[i] + Shape.groupedTile, to), 1), c, h)])

\* The splits that have keys.
Splits(c, path) ==
  CASE path = "split" -> Shape.warps
    [] path = "grouped" -> ActiveSplits(c, 0)
    [] OTHER -> ActiveSplits(c, c.window)

SplitPart(c, path, h, split) ==
  CASE path = "split" -> WarpParts(c, h, End(c), TRUE)[split + 1]
    [] path = "grouped" -> GroupedPart(c, h, split)
    [] OTHER -> DecodePart(c, h, split)

\* Blocks beyond the context return without writing; their parts keep what
\* they held.
SplitParts(c, path) ==
  LET active == (0 .. c.heads - 1) \X (0 .. Splits(c, path) - 1)
  IN  [x \in active \cup DOMAIN partials |-> IF x \in active THEN SplitPart(c, path, x[1], x[2]) ELSE partials[x]]

\* Mutant of Merged: every split of the workspace is merged.
Merged_All(c, path) == IF path = "split" THEN Shape.warps ELSE Shape.splits

\* How many splits the merge kernel reads.
Merged(c, path) == Splits(c, path)
-----------------------------------------------------------------------------
(* Fused prefill: a block owns a tile of rows and walks the keys by tiles.  *)

\* head_dim 128.  The mask is only applied to tiles that reach past the first
\* query of the block.
Flash128(c) ==
  [x \in Pairs(c) |->
     LET q0 == (x[1] \div Shape.queryTile) * Shape.queryTile
         kvEnd == c.past + Smaller(q0 + Shape.queryTile, c.new)
         seen(k0) == {k \in 0 .. kvEnd - 1 : ~(k0 + Shape.keyTile - 1 > c.past + q0 /\ k > c.past + x[1])}
         tiles == Steps(0, kvEnd, Shape.keyTile)
     IN  Online(c, [i \in DOMAIN tiles |-> RowsAt(Where(Steps(tiles[i], tiles[i] + Shape.keyTile, 1), seen(tiles[i])), c, x[2])])]

\* head_dim 256 and 512.  The rows of a tile are the queries of the heads that
\* share a KV head; its keys go from the oldest that any of them sees...
WideFrom(c, qFirst, qLast) ==
  LET inRing == Larger(0, End(c) - Ring(c))
  IN  IF c.window > 0 THEN Larger(inRing, qFirst - c.window + 1) ELSE inRing

\* ... to the newest.
WideTo(c, qFirst, qLast) ==
  Smaller(IF HasBlock(c) /\ qLast >= c.from /\ qFirst < c.to THEN Larger(qLast, c.to - 1) ELSE qLast, End(c) - 1)

FlashWide(c) ==
  LET group == c.heads \div c.kvHeads
  IN  [x \in Pairs(c) |->
         LET row0 == ((x[1] * group + (x[2] % group)) \div Shape.rowTile) * Shape.rowTile
             qFirst == c.past + row0 \div group
             qLast == c.past + Smaller(c.new * group - 1, row0 + Shape.rowTile - 1) \div group
             hi == WideTo(c, qFirst, qLast)
             q == c.past + x[1]
             seen == {p \in 0 .. hi : Sees(c, q, p)}
             tiles == Steps(WideFrom(c, qFirst, qLast), hi + 1, Shape.wideTile)
         IN  Online(c, [i \in DOMAIN tiles |->
               RowsAt(Slotted(Where(Steps(tiles[i], tiles[i] + Shape.wideTile, 1), seen), Ring(c)), c, x[2])])]

\* launch_attention_prefill_flash: the shapes it takes.
FlashTakes(c) ==
  /\ "mma" \in c.opts
  /\ BlockInChunk(c)
  /\ CASE c.dim = 256 -> TRUE
       [] c.dim = 512 -> Smaller(End(c), Ring(c)) <= Shape.wideLimit
       [] OTHER -> c.dim = 128 /\ c.window = 0 /\ End(c) <= Ring(c) /\ ~HasBlock(c)
-----------------------------------------------------------------------------
(* Prefill by GEMMs over blocks of slots.                                   *)

Keys(c) == Smaller(Ring(c), End(c))
BlockKeys(c) ==
  Smaller(Larger(Shape.keyUnit, ((Shape.budget \div (c.heads * c.new)) \div Shape.keyUnit) * Shape.keyUnit),
          Up(Keys(c), Shape.keyAlign))

\* The position of a slot, from the last one written.
KeyPos(c, slot) == slot + ((End(c) - 1 - slot) \div Ring(c)) * Ring(c)

\* prefill_block_softmax_kernel and the two products around it.
KeyBlock(c, base) ==
  [x \in Pairs(c) |->
     LET seen == {s \in 0 .. Keys(c) - 1 : Sees(c, c.past + x[1], KeyPos(c, s))}
     IN  Absorb(c, Empty, RowsAt(Where(Steps(base, Smaller(base + BlockKeys(c), Keys(c)), 1), seen), c, x[2]))]

\* prefill_merge_kernel: the first block is copied.
Accumulate(base, block) ==
  [x \in DOMAIN block |-> IF base = 0 THEN block[x] ELSE Merge(<<merging[x], block[x]>>)]

\* ensure_workspace: the scores and probabilities, the output of a block and the
\* accumulator, and the statistics, with what each pointer has behind it and the
\* size noted once the group is complete.  The allocation number fail is refused.
NoMemory == [first |-> 0, second |-> 0, noted |-> 0]
NoWorkspace == [scores |-> NoMemory, outs |-> NoMemory, stats |-> 0, statElems |-> 0]

Grown(group, need, fail) ==
  IF need <= group.noted THEN group
  ELSE [first |-> IF fail = 1 THEN 0 ELSE need, second |-> IF fail \in {1, 2} THEN 0 ELSE need,
        noted |-> IF fail \in {1, 2} THEN group.noted ELSE need]

Scores(c) == c.heads * c.new * BlockKeys(c)
Outs(c) == c.heads * c.new * c.dim
Stats(c) == 4 * c.heads * c.new

\* Whether a call has what it needs behind every pointer.
Backed(w, c) ==
  /\ w.scores.first >= Scores(c) /\ w.scores.second >= Scores(c)
  /\ w.outs.first >= Outs(c) /\ w.outs.second >= Outs(c)
  /\ w.stats >= Stats(c)

\* Which allocations this call needs.
Needs(w, c) ==
  (IF Scores(c) > w.scores.noted THEN {1, 2} ELSE {}) \cup
  (IF Outs(c) > w.outs.noted THEN {3, 4} ELSE {}) \cup
  (IF Stats(c) > w.statElems THEN {5} ELSE {})

\* ensure clears the statistics' own size when it is refused, but not the one noted.
EnsureWorkspace(w, c, fail) ==
  [scores |-> Grown(w.scores, Scores(c), fail),
   outs |-> IF fail \in {1, 2} THEN w.outs ELSE Grown(w.outs, Outs(c), fail - 2),
   stats |-> IF fail \in 1 .. 4 \/ Stats(c) <= w.statElems THEN w.stats ELSE IF fail = 5 THEN 0 ELSE Stats(c),
   statElems |-> IF fail \in 1 .. 5 \/ Stats(c) <= w.statElems THEN w.statElems ELSE Stats(c)]
-----------------------------------------------------------------------------
(* Rotary position.  A thread turns a pair of elements, apart by half of    *)
(* what is rotated or, for the proportional kernel, by half of the head.    *)
(* Each element of q and k, in its place in memory, gets the set of what    *)
(* the threads write there: {} leaves it as it was.                         *)

Turn(first, base, pair, apart, pos) ==
  <<IF first THEN "cos-sin" ELSE "sin+cos", base + pair, base + pair + apart, pair, pos>>

\* Writes are pairs of a place and what is put there.
WrittenAt(writes, x) == {w[2] : w \in {v \in writes : v[1] = x}}
Stored(writes, size) == [x \in 0 .. size - 1 |-> WrittenAt(writes, x)]

\* rope_kernel and rope_proportional_kernel: a thread for each pair of each head.
RopeThread(c, heads, pairs, apart, idx) ==
  LET pair == idx % pairs
      s == (idx \div (pairs * heads)) % c.new
      base == s * heads * c.dim + ((idx \div pairs) % heads) * c.dim
  IN  {<<base + pair, Turn(TRUE, base, pair, apart, s + c.past)>>,
       <<base + pair + apart, Turn(FALSE, base, pair, apart, s + c.past)>>}

RopeKernel(c, heads, pairs, apart) ==
  Stored(UNION {RopeThread(c, heads, pairs, apart, idx) : idx \in 0 .. c.new * heads * pairs - 1},
          c.new * heads * c.dim)

Separate(c) ==
  [q |-> RopeKernel(c, c.heads, Rotary(c), IF c.proportional THEN c.dim \div 2 ELSE Rotary(c)),
   k |-> RopeKernel(c, c.kvHeads, Rotary(c), IF c.proportional THEN c.dim \div 2 ELSE Rotary(c))]

\* qk_norm_rope_kernel, one head: what is not rotated is written as it is.
FusedHead(c, base, s) ==
  UNION {IF i < Rotary(c)
         THEN {<<base + i, Turn(TRUE, base, i, Rotary(c), s + c.past)>>,
               <<base + i + Rotary(c), Turn(FALSE, base, i, Rotary(c), s + c.past)>>}
         ELSE {} : i \in 0 .. c.dim - 1}

\* Its blocks: the heads of q, those of k and, with the cache, those of v.  With
\* the cache the rows of k are written there; those beyond it are not.
FusedHeads(c) == c.heads + (IF c.cache THEN 2 ELSE 1) * c.kvHeads
BlockRow(c, blk) == (blk \div FusedHeads(c)) % c.new
BlockHead(c, blk) == blk % FusedHeads(c)

QueryBlock(c, blk) ==
  FusedHead(c, (BlockRow(c, blk) * c.heads + BlockHead(c, blk)) * c.dim, BlockRow(c, blk))
KeyBlockOf(c, blk) ==
  FusedHead(c, (BlockRow(c, blk) * c.kvHeads + BlockHead(c, blk) - c.heads) * c.dim, BlockRow(c, blk))

Fused(c) ==
  LET blocks == 0 .. c.new * FusedHeads(c) - 1
      kept(blk) == BlockRow(c, blk) + c.past < c.maxSeq
      queries == {blk \in blocks : BlockHead(c, blk) < c.heads}
      keys == {blk \in blocks : BlockHead(c, blk) \in c.heads .. c.heads + c.kvHeads - 1 /\ (c.cache => kept(blk))}
      stored == {blk \in blocks : c.cache /\ BlockHead(c, blk) >= c.heads /\ kept(blk)}
  IN  [q |-> Stored(UNION {QueryBlock(c, blk) : blk \in queries}, c.new * c.heads * c.dim),
       k |-> Stored(UNION {KeyBlockOf(c, blk) : blk \in keys}, c.new * c.kvHeads * c.dim),
       cached |-> {<<BlockRow(c, blk) + c.past, BlockHead(c, blk) - c.heads>> : blk \in stored}]
-----------------------------------------------------------------------------
(* The operations.                                                          *)

NoCall == [op |-> "none"]
At(stage_, base) == [at |-> stage_, base |-> base]

AttentionInit ==
  /\ call = NoCall /\ stage = At("idle", 0)
  /\ partials = Nothing /\ ws = NoWorkspace /\ merging = Nothing
  /\ output = Nothing

Ask(c) ==
  /\ stage.at = "idle"
  /\ call' = c /\ stage' = At("asked", 0)
  /\ UNCHANGED <<partials, ws, merging, output>>

Write(values) ==
  /\ output' = values /\ stage' = At("done", 0)
  /\ UNCHANGED <<call, partials, ws, merging>>

Asked(op) == stage.at = "asked" /\ call.op = op

\* ROPE on q and on k, or QK_NORM_ROPE.
Rotate ==
  /\ Asked("rope")
  /\ Write(IF call.fused THEN Fused(call) ELSE Separate(call))

\* ATTENTION.
Uncached == Asked("attention") /\ Write(Naive(call))

\* ATTENTION_CACHED: the kernel for one new row.
DecodePath(c) ==
  CASE "device" \notin c.opts -> "baked"
    [] {"device", "flash"} \subseteq c.opts ->
         IF {"grouped", "mma"} \subseteq c.opts /\ c.kvHeads = 1 /\ c.dim = 512 /\ c.window = 0 /\ Ring(c) >= c.maxSeq
         THEN "grouped" ELSE "flash"
    [] OTHER -> IF "split" \in c.opts THEN "split" ELSE "warps"

Decode ==
  /\ Asked("cached") /\ DecodePath(call) \in {"baked", "warps"}
  /\ Write(ByWarps(call, FALSE))

DecodeParts ==
  /\ Asked("cached") /\ DecodePath(call) \in {"split", "flash", "grouped"}
  /\ partials' = SplitParts(call, DecodePath(call))
  /\ stage' = At("parts", 0)
  /\ UNCHANGED <<call, ws, merging, output>>

MergeParts ==
  /\ stage.at = "parts"
  /\ Write([x \in Pairs(call) |-> Merge([i \in 1 .. Merged(call, DecodePath(call)) |->
                IF <<x[2], i - 1>> \in DOMAIN partials THEN partials[<<x[2], i - 1>>] ELSE Empty])])

\* ATTENTION_PREFILL_CACHED: the fused kernel, if it takes the shape.
PrefillFused ==
  /\ Asked("prefill") /\ "flash" \in call.opts /\ FlashTakes(call)
  /\ Write(IF call.dim = 128 THEN Flash128(call) ELSE FlashWide(call))

FusedRefused == "flash" \notin call.opts \/ ~FlashTakes(call) \/ MayFail

\* Then the GEMMs, for chunks that are not tiny or have an image block.
WantsGemm ==
  /\ Asked("prefill") /\ FusedRefused
  /\ HasBlock(call) \/ ("gemm" \in call.opts /\ call.new >= Shape.gemmFrom)

PrefillGemm ==
  /\ WantsGemm /\ BlockInChunk(call)
  /\ ws' = EnsureWorkspace(ws, call, 0)
  /\ stage' = At("gemm", 0)
  /\ UNCHANGED <<call, partials, merging, output>>

\* The launcher returns false: an image block cannot go on, the rest falls back.
Unavailable == IF HasBlock(call) THEN At("failed", 0) ELSE At("fallback", 0)

\* A block that is not of this chunk, before the workspace is looked at; or no
\* memory for it.
GemmRefused ==
  /\ WantsGemm
  /\ \/ ~BlockInChunk(call) /\ UNCHANGED ws
     \/ BlockInChunk(call) /\ MayFail /\ \E fail \in Needs(ws, call) : ws' = EnsureWorkspace(ws, call, fail)
  /\ stage' = Unavailable
  /\ UNCHANGED <<call, partials, merging, output>>

\* The sizes noted are those of before a refused growth, so that this is not
\* the memory the call has asked for, but what its pointers have behind them.
GemmBlock ==
  /\ stage.at = "gemm" /\ stage.base < Keys(call) /\ Backed(ws, call)
  /\ merging' = Accumulate(stage.base, KeyBlock(call, stage.base))
  /\ stage' = At("gemm", stage.base + BlockKeys(call))
  /\ UNCHANGED <<call, partials, ws, output>>

\* No handle, or a product that cuBLAS or the launch refuses: at any block, and
\* for a null matrix.
GemmFails ==
  /\ stage.at = "gemm" /\ (MayFail \/ ~Backed(ws, call))
  /\ stage' = Unavailable /\ merging' = Nothing
  /\ UNCHANGED <<call, partials, ws, output>>

\* A kernel writes through a null pointer: the context of the device is lost,
\* and with it every later operation of the process.
GemmFaults ==
  /\ stage.at = "gemm" /\ ~Backed(ws, call)
  /\ stage' = At("lost", 0) /\ merging' = Nothing
  /\ UNCHANGED <<call, partials, ws, output>>

GemmEnd ==
  /\ stage.at = "gemm" /\ stage.base >= Keys(call)
  /\ output' = merging /\ stage' = At("done", 0) /\ merging' = Nothing
  /\ UNCHANGED <<call, partials, ws>>

\* The reference kernels, which know no image block.
PrefillReference ==
  /\ \/ stage.at = "fallback"
     \/ Asked("prefill") /\ FusedRefused /\ ~WantsGemm
  /\ Write(ByWarps(call, "coalesced" \in call.opts))

Return ==
  /\ stage.at \in {"done", "failed"}
  /\ call' = NoCall /\ stage' = At("idle", 0) /\ output' = Nothing
  /\ UNCHANGED <<partials, ws, merging>>

Serve ==
  \/ Rotate \/ Uncached \/ Decode \/ DecodeParts \/ MergeParts
  \/ PrefillFused \/ PrefillGemm \/ GemmRefused \/ GemmBlock \/ GemmFails \/ GemmFaults \/ GemmEnd
  \/ PrefillReference \/ Return

AttentionNext == Serve \/ \E c \in Calls : Ask(c)

AttentionSpec == AttentionInit /\ [][AttentionNext]_kernels
-----------------------------------------------------------------------------
(* Whatever kernel ran, each query and head has added every row it sees,    *)
(* and no other, once, read from the slot that holds it, and all relative   *)
(* to the largest score among them: its softmax.                            *)
IsAttention(c, x, part) ==
  LET seen == Visible(c, c.past + x[1])
      largest == Max({c.score[k] : k \in seen})
  IN  /\ Len(part.rows) = Cardinality(seen)
      /\ Range(part.rows) = {Weighted(Row(k % Ring(c), c, x[2]), largest) : k \in seen}
      /\ \A k \in seen : Holds(c, k % Ring(c)) = k

OutputIsAttention ==
  stage.at = "done" /\ call.op # "rope" => \A x \in Pairs(call) : IsAttention(call, x, output[x])

(* Separate or fused, a rotation turns each pair of a head once, by the     *)
(* angle of its position, and the fused one puts every row the cache has    *)
(* room for in it, key and value.                                           *)
Turned(c, heads, x) ==
  LET i == x % c.dim
      base == x - i
      s == x \div (heads * c.dim)
      apart == IF c.proportional THEN c.dim \div 2 ELSE Rotary(c)
  IN  CASE i < Rotary(c) -> {Turn(TRUE, base, i, apart, c.past + s)}
        [] i \in apart .. apart + Rotary(c) - 1 -> {Turn(FALSE, base, i - apart, apart, c.past + s)}
        [] OTHER -> {}

IsRotation(c, out) ==
  /\ \A x \in DOMAIN out.q : out.q[x] = Turned(c, c.heads, x)
  /\ \A x \in DOMAIN out.k :
       c.past + x \div (c.kvHeads * c.dim) < c.maxSeq => out.k[x] = Turned(c, c.kvHeads, x)
  /\ c.fused /\ c.cache => out.cached = (c.past .. Smaller(End(c), c.maxSeq) - 1) \X (0 .. 2 * c.kvHeads - 1)

RotatesEachPairOnce == stage.at = "done" /\ call.op = "rope" => IsRotation(call, output)

(* Whatever kernel serves an attention, when the call completes each query  *)
(* has added each row it sees, and nothing else, once; and a rotation turns *)
(* each pair of each head once, by its own position.  A call completes      *)
(* unless it is refused, or loses the device (GemmHasWorkspace).            *)
KernelsComputeAttention == OutputIsAttention /\ RotatesEachPairOnce

(* The GEMM path says it is unavailable when its workspace is ("Returns     *)
(* false if cuBLAS or the process-wide workspace are unavailable; callers   *)
(* keep the reference kernel", kernels.hpp:570-571): it never starts        *)
(* without the memory this call needs behind each pointer.                  *)
GemmHasWorkspace == stage.at = "gemm" => Backed(ws, call)
=============================================================================
