------------------------------ MODULE Kernels ------------------------------
(***************************************************************************)
(* What the commands of a graph do to the memory of an engine               *)
(* (register_kernels.cpp over the tensor registry).                         *)
(*                                                                          *)
(* Arithmetic is symbolic: a value is the term <<operation, parameters,     *)
(* scalar, arguments>> that produced it, so two values are equal when they  *)
(* were computed the same way from the same weights, tokens and positions.  *)
(* A kernel that does the work of several commands produces the terms those *)
(* commands would.                                                          *)
(*                                                                          *)
(* The memory of an engine is a record:                                     *)
(*   mem    buffer -> column group -> rows.  Three groups share a q|k|v     *)
(*          buffer, two a gate|up buffer, one per layer the PLE buffers.    *)
(*   ptr    tensor -> the buffer and the groups its pointer covers          *)
(*   rows   the rows the scratch tensors say they have (their shape[1])     *)
(*   pos    the position in device memory, NoPos before it is allocated     *)
(*   ids    index tensor -> the tokens uploaded to it                       *)
(*   image  the rows (from 1) the image embeddings are scattered to         *)
(*   kv     layer -> slot -> the key and the value written there            *)
(*   failed an operation threw                                              *)
(***************************************************************************)
EXTENDS Integers, Sequences, SequencesExt

NoPos == -1

Term(op, w, k, args) == <<op, w, k, args>>
Stale == Term("stale", <<>>, "", <<>>)      \* never written by this forward
Mixed == Term("mixed", <<>>, "", <<>>)      \* rows of two tensors interleaved
Token(t) == Term("token", <<t>>, "", <<>>)
ImageRow(i) == Term("image", <<i>>, "", <<>>)

(* Column groups of a buffer. *)
Groups(reg, buf) ==
    CASE buf = "qkv" -> 3
      [] buf = "gate_up" -> 2
      [] buf \in {"ple", "ple_context"} /\ <<0, "ple.token_embedding.weight">> \in DOMAIN reg ->
            Len(reg[<<0, "ple.token_embedding.weight">>])
      [] OTHER -> 1

Buffers == {"hidden", "normed", "residual", "q", "k", "v", "attn_out", "attn_proj", "qkv",
            "gate", "up", "gate_act", "mlp_h", "mlp_padded", "mlp_out", "gate_up", "logits",
            "ple", "ple_context", "ple_gate", "ple_projected", "moe_router", "moe_logits",
            "moe_indices", "moe_weights", "moe_out"}

(* The chunks of a pasted product that a Gemma 4 decode reads in place. *)
Parts == [q_dec |-> <<"qkv", 1>>, k_dec |-> <<"qkv", 2>>, v_dec |-> <<"qkv", 3>>,
          gate_dec |-> <<"gate_up", 1>>, up_dec |-> <<"gate_up", 2>>]

(* After allocate_scratch every tensor points to the start of its own buffer. *)
OwnPointer(reg, b) == [buf |-> b, groups |-> [i \in 1..Groups(reg, b) |-> i]]
Scratch(reg) ==
    [t \in Buffers \cup DOMAIN Parts |->
        IF t \in Buffers THEN OwnPointer(reg, t)
        ELSE [buf |-> Parts[t][1], groups |-> <<Parts[t][2]>>]]
Blank(reg) == [b \in Buffers |-> [i \in 1..Groups(reg, b) |-> <<>>]]

-----------------------------------------------------------------------------
(* Rows of a tensor.  A tensor whose pointer lies inside a wider buffer     *)
(* steps by its own width: its first row is right, the others are pieces of *)
(* its neighbours.                                                          *)
Whole(e, t) == Len(e.ptr[t].groups) = Len(e.mem[e.ptr[t].buf])

Load(e, t, i) ==
    LET p == e.ptr[t]
    IN  [j \in DOMAIN p.groups |->
            IF i > 1 /\ ~Whole(e, t) THEN Mixed
            ELSE IF i > Len(e.mem[p.buf][p.groups[j]]) THEN Stale
            ELSE e.mem[p.buf][p.groups[j]][i]]

(* rows[i][j]: row i, column group j. *)
Store(e, t, rows) ==
    LET p == e.ptr[t]
        spoilt == Len(rows) > 1 /\ ~Whole(e, t)
        column(g) == IF spoilt THEN [i \in DOMAIN rows |-> Mixed]
                     ELSE LET j == CHOOSE j \in DOMAIN p.groups : p.groups[j] = g
                          IN  [i \in DOMAIN rows |-> rows[i][j]]
    IN  [e EXCEPT !.mem[p.buf] =
            [g \in DOMAIN @ |->
                IF spoilt \/ \E j \in DOMAIN p.groups : p.groups[j] = g THEN column(g) ELSE @[g]]]

(* set_active_scratch_shape leaves the logits at one row. *)
RowsOf(e, t) == IF t = "logits" THEN 1 ELSE e.rows

-----------------------------------------------------------------------------
(* A command: operation, output, input tensors, weight tensors and the      *)
(* parameters an operation reads (n: seq_len, off: row_offset or the        *)
(* position of rope, cache update and attention; dev: device_pos).          *)
Command(op, out, in, w) ==
    [op |-> op, out |-> out, in |-> in, w |-> w, k |-> "", n |-> 0, off |-> 0,
     dev |-> FALSE, layer |-> 0, window |-> 0, slots |-> 0, block |-> {}, more |-> <<>>]

(* The weights one column group meets: one matrix, or its own slice of a    *)
(* pasted bias.                                                             *)
WeightFor(reg, c, j) ==
    [a \in DOMAIN c.w |-> LET m == reg[c.w[a]] IN IF j <= Len(m) THEN m[j] ELSE m[1]]

(* Row by row over the active rows, one column group at a time; value gives *)
(* a row of the output from those of the inputs.                            *)
Rowwise(e, c, value(_, _)) ==
    Store(e, c.out,
          [i \in 1..RowsOf(e, c.out) |->
              [j \in DOMAIN e.ptr[c.in[1]].groups |->
                  value(j, [a \in DOMAIN c.in |->
                      LET row == Load(e, c.in[a], i) IN IF j <= Len(row) THEN row[j] ELSE row[1]])]])

(* ADD, ADD_BIAS, MUL, SCALE, SILU, GELU, SOFTCAP. *)
Elementwise(reg, e, c) == Rowwise(e, c, LAMBDA j, x : Term(c.op, WeightFor(reg, c, j), c.k, x))

(* SILU_MUL and GELU_MUL: the activation and the product in one kernel. *)
GatedProduct(e, c) ==
    LET act == IF c.op = "silu_mul" THEN "silu" ELSE "gelu"
    IN  Rowwise(e, c, LAMBDA j, x : Term("mul", <<>>, "", <<Term(act, <<>>, "", <<x[1]>>), x[2]>>))

(* RMSNORM, over whole rows or head by head, with or without a weight. *)
Rmsnorm(reg, e, c) == Rowwise(e, c, LAMBDA j, x : Term("rmsnorm", WeightFor(reg, c, j), c.k, x))

(* LAYERNORM with its bias. *)
Layernorm(reg, e, c) == Rowwise(e, c, LAMBDA j, x : Term("layernorm", WeightFor(reg, c, j), "", x))

(* EMBEDDING takes its rows from the shape of the index tensor. *)
Embedding(reg, e, c) ==
    Store(e, c.out,
          [i \in DOMAIN e.ids[c.in[1]] |->
              [j \in DOMAIN reg[c.w[1]] |->
                  Term("embedding", <<reg[c.w[1]][j]>>, "", <<Token(e.ids[c.in[1]][i])>>)]])

(* SCATTER_ROWS: the image embeddings replace the rows of their positions.  *)
ScatterRows(e, c) ==
    Store(e, c.out,
          [i \in 1..RowsOf(e, c.out) |->
              IF \E a \in DOMAIN e.image : e.image[a] = i
              THEN <<ImageRow(CHOOSE a \in DOMAIN e.image : e.image[a] = i)>>
              ELSE Load(e, c.out, i)])

(* MATMUL: seq_len rows from row_offset on. *)
Matmul(reg, e, c) ==
    LET rows == IF c.n > 0 THEN c.n ELSE RowsOf(e, c.in[1])
    IN  Store(e, c.out,
              [i \in 1..rows |->
                  [j \in DOMAIN reg[c.w[1]] |->
                      Term("matmul", <<reg[c.w[1]][j]>>, "", Load(e, c.in[1], c.off + i))]])

(* ADD_RMSNORM and RMSNORM_RESIDUAL: an addition and a norm in one kernel,  *)
(* with a second output.                                                    *)
AddRmsnorm(reg, e, c) ==
    LET sum(i) == Term("add", <<>>, "", <<Load(e, c.in[1], i)[1], Load(e, c.in[2], i)[1]>>)
        summed == Store(e, c.more[1], [i \in 1..e.rows |-> <<sum(i)>>])
    IN  Store(summed, c.out, [i \in 1..e.rows |-> <<Term("rmsnorm", WeightFor(reg, c, 1), "", <<sum(i)>>)>>])

RmsnormResidual(reg, e, c) ==
    LET w == WeightFor(reg, c, 1)
        normed(i) == Term("rmsnorm", <<w[1]>>, "", Load(e, c.in[1], i))
        sum(i) == Term("add", <<>>, "", <<Load(e, c.out, i)[1], normed(i)>>)
        out(i) == IF c.k = "scalar" THEN Term("scalar", <<w[2]>>, "", <<sum(i)>>) ELSE sum(i)
        first == Store(e, c.out, [i \in 1..e.rows |-> <<out(i)>>])
    IN  IF c.more = <<>> THEN first
        ELSE Store(first, c.more[1],
                   [i \in 1..e.rows |-> <<Term("rmsnorm", <<w[Len(w)]>>, "", <<out(i)>>)>>])

(* GELU_MUL_ROUNDED over the packed PLE buffer reads the layer's segment.   *)
GeluMulSegment(reg, e, c) ==
    Store(e, c.out, [i \in 1..e.rows |->
        <<Term("mul", <<>>, "", <<Term("gelu", <<>>, "", Load(e, c.in[1], i)),
                                  Load(e, c.in[2], i)[c.layer]>>)>>])

(* SPLIT_QKV and SPLIT_HALF: the outputs first get their own buffers back;  *)
(* with one row they are then pointed into the input, with more the rows    *)
(* are copied.  Views keep their pointer (they own no allocation).          *)
Restored_Kept(reg, e, ts) == e
Restored(reg, e, ts) == [e EXCEPT !.ptr = [t \in DOMAIN @ |->
                            IF t \in ts THEN OwnPointer(reg, t) ELSE @[t]]]

Split(reg, e, c) ==
    LET outs == <<c.out>> \o c.more
        own == Restored(reg, e, {outs[a] : a \in DOMAIN outs})
        rows == IF c.n > 0 THEN c.n ELSE RowsOf(e, c.in[1])
        at(a) == [buf |-> c.in[1], groups |-> <<a>>]
    IN  IF rows = 1
        THEN [own EXCEPT !.ptr = [t \in DOMAIN @ |->
                IF \E a \in DOMAIN outs : outs[a] = t
                THEN at(CHOOSE a \in DOMAIN outs : outs[a] = t) ELSE @[t]]]
        ELSE FoldLeft(LAMBDA acc, a :
                        Store(acc, outs[a], [i \in 1..rows |-> <<Load(own, c.in[1], i)[a]>>]),
                      own, [a \in DOMAIN outs |-> a])

-----------------------------------------------------------------------------
(* Position of the first row: from the device when the command says so and  *)
(* the engine has it, from the command otherwise.                           *)
PosAt_Baked(e, c) == c.off
PosAt(e, c) == IF c.dev /\ e.pos # NoPos THEN e.pos ELSE c.off

Rotated(c, p, x) == Term("rope", <<p>>, c.k, <<x>>)

Rope(e, c) ==
    Store(e, c.out, [i \in 1..c.n |-> <<Rotated(c, PosAt(e, c) + i - 1, Load(e, c.in[1], i)[1])>>])

(* KV_CACHE_UPDATE: row i goes to the slot of its position. *)
CacheUpdate(e, c) ==
    LET row(s) == {i \in 1..c.n : (PosAt(e, c) + i - 1) % c.slots = s}
        last(s) == CHOOSE i \in row(s) : \A j \in row(s) : j <= i
    IN  [e EXCEPT !.kv[c.layer] = [s \in DOMAIN @ |->
            IF row(s) = {} THEN @[s]
            ELSE <<Load(e, c.in[1], last(s))[1], Load(e, c.in[2], last(s))[1]>>]]

(* QK_NORM_ROPE: norm and rotation of q and k in one kernel, which in a     *)
(* decode may also write the cache.                                         *)
QkNormRope(reg, e, c) ==
    LET turned(t, w, i) ==
            <<Rotated(c, PosAt(e, c) + i - 1,
                      Term("rmsnorm", reg[w], "head", Load(e, t, i)))>>
        q == Store(e, c.in[1], [i \in 1..c.n |-> turned(c.in[1], c.w[1], i)])
        k == Store(q, c.in[2], [i \in 1..c.n |-> turned(c.in[2], c.w[2], i)])
    IN  IF Len(c.in) = 2 THEN k ELSE CacheUpdate(k, [c EXCEPT !.in = <<c.in[2], c.in[3]>>])

(* What a query at position p sees of the cached positions. *)
MaskAllows(c, p, s) == (s <= p \/ {p, s} \subseteq c.block) /\ (c.window = 0 \/ s > p - c.window)

Attended(c, q, keys) == Term("attention", <<>>, c.k, <<q>> \o keys)

Flatten(pairs) == FoldLeft(LAMBDA acc, x : acc \o x, <<>>, pairs)

(* ATTENTION_PREFILL_CACHED: n new queries over past and new positions.     *)
(* ATTENTION_CACHED: one query over the positions device_total_seq counts.  *)
(* Both read slot position % cache_slots.                                   *)
AttentionCached(e, c) ==
    LET total == PosAt(e, c) + c.n
        seen(p) == SelectSeq([s \in 1..total |-> s - 1], LAMBDA s : MaskAllows(c, p, s))
        out(i) == LET p == PosAt(e, c) + i - 1
                  IN  Attended(c, Load(e, c.in[1], i)[1],
                               Flatten([a \in DOMAIN seen(p) |-> e.kv[c.layer][seen(p)[a] % c.slots]]))
    IN  Store(e, c.out, [i \in 1..c.n |-> <<out(i)>>])

(* ATTENTION: without a cache, over the rows of this forward. *)
AttentionFull(e, c) ==
    LET seen(i) == SelectSeq([s \in 1..c.n |-> s], LAMBDA s : MaskAllows(c, i, s))
        out(i) == Attended(c, Load(e, c.in[1], i)[1],
                           Flatten([a \in DOMAIN seen(i) |->
                               <<Load(e, c.in[2], seen(i)[a])[1], Load(e, c.in[3], seen(i)[a])[1]>>]))
    IN  Store(e, c.out, [i \in 1..c.n |-> <<out(i)>>])

(* MOE_ROUTER_INPUT, MOE_LOGITS, MOE_ROUTE, which leaves the chosen experts *)
(* and their weights in two tensors, and MOE_EXPERTS, row by row.           *)
MoeRouterInput(reg, e, c) == Rowwise(e, c, LAMBDA j, x : Term("moe_router_input", WeightFor(reg, c, 1), "", x))

MoeLogits(reg, e, c) == Rowwise(e, c, LAMBDA j, x : Term("moe_logits", WeightFor(reg, c, 1), "", x))

MoeRoute(reg, e, c) ==
    LET out(what) == [i \in 1..e.rows |-> <<Term(what, WeightFor(reg, c, 1), "", Load(e, c.in[1], i))>>]
    IN  Store(Store(e, c.out, out("top_k")), c.more[1], out("top_k_weights"))

MoeExperts(reg, e, c) == Rowwise(e, c, LAMBDA j, x : Term("moe_experts", WeightFor(reg, c, 1), "", x))

(* MOE_EXPERTS_DECODE works on one token and refuses more. *)
MoeExpertsDecode(reg, e, c) == IF e.rows = 1 THEN MoeExperts(reg, e, c) ELSE [e EXCEPT !.failed = TRUE]

(* PAD_COLUMNS: the rows with zeros to the physical width. *)
PadColumns(e, c) == Rowwise(e, c, LAMBDA j, x : Term("pad_columns", <<>>, "", x))

-----------------------------------------------------------------------------
Rejected(reg, c) == \E a \in DOMAIN c.w : c.w[a] \notin DOMAIN reg

Effect(reg, e, c) ==
    CASE c.op = "embedding" -> Embedding(reg, e, c)
      [] c.op = "scatter_rows" -> ScatterRows(e, c)
      [] c.op = "matmul" -> Matmul(reg, e, c)
      [] c.op = "add_rmsnorm" -> AddRmsnorm(reg, e, c)
      [] c.op = "rmsnorm_residual" -> RmsnormResidual(reg, e, c)
      [] c.op = "gelu_mul" /\ c.layer > 0 -> GeluMulSegment(reg, e, c)
      [] c.op \in {"split_qkv", "split_half"} -> Split(reg, e, c)
      [] c.op = "rope" -> Rope(e, c)
      [] c.op = "qk_norm_rope" -> QkNormRope(reg, e, c)
      [] c.op = "kv_cache_update" -> CacheUpdate(e, c)
      [] c.op = "attention_cached" -> AttentionCached(e, c)
      [] c.op = "attention" -> AttentionFull(e, c)
      [] c.op = "moe_route" -> MoeRoute(reg, e, c)
      [] c.op = "moe_router_input" -> MoeRouterInput(reg, e, c)
      [] c.op = "moe_logits" -> MoeLogits(reg, e, c)
      [] c.op = "moe_experts" -> MoeExperts(reg, e, c)
      [] c.op = "moe_experts_decode" -> MoeExpertsDecode(reg, e, c)
      [] c.op = "pad_columns" -> PadColumns(e, c)
      [] c.op = "rmsnorm" -> Rmsnorm(reg, e, c)
      [] c.op = "layernorm" -> Layernorm(reg, e, c)
      [] c.op \in {"silu_mul", "gelu_mul"} -> GatedProduct(e, c)
      [] OTHER -> Elementwise(reg, e, c)

(* Engine::execute_command: a tensor that is not there is an exception, and *)
(* nothing after it runs.                                                   *)
Execute(reg, e, c) ==
    IF e.failed THEN e
    ELSE IF Rejected(reg, c) THEN [e EXCEPT !.failed = TRUE]
    ELSE Effect(reg, e, c)

Run(reg, e, commands) == FoldLeft(LAMBDA acc, c : Execute(reg, acc, c), e, commands)

=============================================================================
