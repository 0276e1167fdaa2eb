---------------------------- MODULE GraphBuilder ----------------------------
(***************************************************************************)
(* The command sequences the graph builder writes for a forward pass        *)
(* (graph_builder.cpp, gemma4_ple.cpp), for the generic architectures and   *)
(* for Gemma 4.                                                             *)
(*                                                                          *)
(* m is the model file, reg the registry of its tensors, a the detected     *)
(* architecture; n is the number of rows of the forward, p the position of  *)
(* the first one.  seq_len, row_offset, device_pos... are fields of the     *)
(* commands with the meaning of module Kernels.                             *)
(***************************************************************************)
EXTENDS ModelFile, Kernels

CONSTANTS SlidingWindow,  \* positions a sliding layer looks back over
          MaxLen          \* positions the KV cache may hold

When(condition, commands) == IF condition THEN commands ELSE <<>>

Norm(dst, src, w) == Command("rmsnorm", dst, <<src>>, <<w>>)
HeadNorm(t, w) == [Norm(t, t, w) EXCEPT !.k = "head"]
BareHeadNorm(t) == [Command("rmsnorm", t, <<t>>, <<>>) EXCEPT !.k = "head"]
Matrix(dst, src, w) == Command("matmul", dst, <<src>>, <<w>>)
MatrixOf(dst, src, w, n) == [Matrix(dst, src, w) EXCEPT !.n = n]
AddBias(t, w) == Command("add_bias", t, <<t>>, <<w>>)
Binary(op, dst, x, y) == Command(op, dst, <<x, y>>, <<>>)
Scaled(t, k) == [Command("scale", t, <<t>>, <<>>) EXCEPT !.k = k]
SplitInto(op, outs, src, n) ==
    [Command(op, outs[1], <<src>>, <<>>) EXCEPT !.more = Tail(outs), !.n = n]

-----------------------------------------------------------------------------
(* Generic architectures: one attention block and one MLP block per layer.  *)
RingSlots(m, kind) == IF kind = "sliding" /\ SlidingWindow + m.chunk < MaxLen THEN SlidingWindow + m.chunk ELSE MaxLen

(* The positional parameters of a command: the position travels in device   *)
(* memory when one row goes through a cache.                                *)
Positioned(c, n, p, cached) == [c EXCEPT !.n = n, !.off = p, !.dev = cached /\ n = 1]

QkvProjection(a, l, n) ==
    IF a.fusedQkv
    THEN <<MatrixOf("qkv", "normed", <<l, "attn.qkv_proj.weight">>, n)>>
         \o When(a.qkvBias, <<AddBias("qkv", <<l, "attn.qkv_proj.bias">>)>>)
         \o <<SplitInto("split_qkv", <<"q", "k", "v">>, "qkv", n)>>
    ELSE <<MatrixOf("q", "normed", <<l, "attn.q_proj.weight">>, n),
           MatrixOf("k", "normed", <<l, "attn.k_proj.weight">>, n),
           MatrixOf("v", "normed", <<l, "attn.v_proj.weight">>, n)>>
         \o When(a.qkvBias, <<AddBias("q", <<l, "attn.q_proj.bias">>),
                              AddBias("k", <<l, "attn.k_proj.bias">>),
                              AddBias("v", <<l, "attn.v_proj.bias">>)>>)

FusesCache(m, a) == m.fuseKv /\ a.qkNorm /\ a.rope # "none"

Rotation(m, a, l, n, p, cached) ==
    LET turn(t) == Positioned([Command("rope", t, <<t>>, <<>>) EXCEPT !.k = a.rope], n, p, cached)
        norms == <<<<l, "attn.q_norm.weight">>, <<l, "attn.k_norm.weight">>>>
        both == [Command("qk_norm_rope", "q", <<"q", "k">>, norms) EXCEPT !.k = a.rope]
        withCache == [both EXCEPT !.in = <<"q", "k", "v">>, !.layer = l, !.slots = MaxLen]
    IN  IF a.qkNorm /\ a.rope # "none"
        THEN <<Positioned(IF FusesCache(m, a) /\ cached /\ n = 1 THEN withCache ELSE both, n, p, cached)>>
        ELSE When(a.qkNorm, <<HeadNorm("q", norms[1]), HeadNorm("k", norms[2])>>)
             \o When(a.rope # "none", <<turn("q"), turn("k")>>)

WriteCache(k, v, layer, slots, n, p) ==
    Positioned([Command("kv_cache_update", "", <<k, v>>, <<>>) EXCEPT !.layer = layer, !.slots = slots],
               n, p, TRUE)

ReadCache(out, q, layer, slots, scale, window, n, p) ==
    Positioned([Command("attention_cached", out, <<q>>, <<>>) EXCEPT
                   !.layer = layer, !.slots = slots, !.k = scale, !.window = window], n, p, TRUE)

Attention(m, a, l, n, p, cached) ==
    IF ~cached
    THEN <<[Command("attention", "attn_out", <<"q", "k", "v">>, <<>>) EXCEPT !.k = "1/sqrt", !.n = n]>>
    ELSE When(n > 1 \/ ~FusesCache(m, a), <<WriteCache("k", "v", l, MaxLen, n, p)>>)
         \o <<ReadCache("attn_out", "q", l, MaxLen, "1/sqrt", 0, n, p)>>

NormFor(a, dst, src, w, bias) ==
    IF a.normBias THEN Command("layernorm", dst, <<src>>, <<w, bias>>) ELSE Norm(dst, src, w)

AttentionBlock(m, a, l, n, p, cached) ==
    <<NormFor(a, "normed", "hidden", <<l, "ln1.weight">>, <<l, "ln1.bias">>)>>
    \o QkvProjection(a, l, n)
    \o Rotation(m, a, l, n, p, cached)
    \o Attention(m, a, l, n, p, cached)
    \o <<MatrixOf("attn_proj", "attn_out", <<l, "attn.o_proj.weight">>, n)>>
    \o When(a.oBias, <<AddBias("attn_proj", <<l, "attn.o_proj.bias">>)>>)

(* add_gated_activation, with its unfused fallback. *)
Gated(a, dst, gate, up) ==
    IF a.act = "silu" THEN <<Binary("silu_mul", dst, gate, up)>>
    ELSE IF a.act = "gelu" THEN <<Binary("gelu_mul", dst, gate, up)>>
    ELSE <<Command("silu", dst, <<gate>>, <<>>), Binary("mul", dst, dst, up)>>

MlpBlock(a, l, n) ==
    <<IF a.normBias
      THEN NormFor(a, "normed", "residual", <<l, "ln2.weight">>, <<l, "ln2.bias">>)
      ELSE [Command("add_rmsnorm", "normed", <<"hidden", "attn_proj">>, <<<<l, "ln2.weight">>>>)
               EXCEPT !.more = <<"residual">>]>>
    \o (IF a.fusedGateUp
        THEN <<MatrixOf("gate_up", "normed", <<l, "mlp.gate_up.weight">>, n),
               SplitInto("split_half", <<"gate", "up">>, "gate_up", n)>>
             \o Gated(a, "mlp_h", "gate", "up")
             \o <<MatrixOf("mlp_out", "mlp_h", <<l, "mlp.down.weight">>, n)>>
        ELSE IF a.gate
        THEN <<MatrixOf("gate", "normed", <<l, "mlp.gate.weight">>, n),
               MatrixOf("up", "normed", <<l, "mlp.up.weight">>, n)>>
             \o Gated(a, "mlp_h", "gate", "up")
             \o <<MatrixOf("mlp_out", "mlp_h", <<l, "mlp.down.weight">>, n)>>
        ELSE <<MatrixOf("up", "normed", <<l, "mlp.fc1.weight">>, n),
               Command(IF a.act = "gelu" THEN "gelu" ELSE "silu", "gate_act", <<"up">>, <<>>),
               MatrixOf("mlp_out", "gate_act", <<l, "mlp.fc2.weight">>, n)>>)
    \o <<Binary("add", "hidden", "residual", "mlp_out")>>

(* The head reads one row: the last of the forward. *)
LanguageHead_OffByOne(a, n) ==
    <<Norm("normed", "hidden", <<0, "final_norm.weight">>),
      [MatrixOf("logits", "normed", <<0, a.lmHead>>, 1) EXCEPT !.off = IF n > 1 THEN n ELSE 0]>>
LanguageHead(a, n) ==
    <<Norm("normed", "hidden", <<0, "final_norm.weight">>),
      [MatrixOf("logits", "normed", <<0, a.lmHead>>, 1) EXCEPT !.off = IF n > 1 THEN n - 1 ELSE 0]>>

-----------------------------------------------------------------------------
(* Gemma 4 *)
Shared(m, l) == l > FirstSharedLayer(m)

(* The layer whose cache a layer reads: its own, or the last of its kind    *)
(* before the shared ones, whose tensors the registry lends under its name. *)
KvLayer(m, l) ==
    IF ~m.gemma \/ ~Shared(m, l) THEN l
    ELSE CHOOSE s \in 1..FirstSharedLayer(m) :
            /\ m.kind[s] = m.kind[l]
            /\ \A t \in s + 1..FirstSharedLayer(m) : m.kind[t] # m.kind[l]

WindowOf(m, l) == IF m.kind[l] = "global" THEN 0 ELSE SlidingWindow

(* append_gemma4_qkv: the names that hold q, k and v, and the commands. *)
QkvNames(m, reg, l, n) ==
    IF ~Shared(m, l) /\ <<l, "attn.qkv_proj.weight">> \in DOMAIN reg /\ n = 1
    THEN <<"q_dec", "k_dec", "v_dec">> ELSE <<"q", "k", "v">>

GemmaQkv(m, reg, l, n) ==
    IF ~Shared(m, l) /\ <<l, "attn.qkv_proj.weight">> \in DOMAIN reg
    THEN <<MatrixOf("qkv", "normed", <<l, "attn.qkv_proj.weight">>, n)>>
         \o When(n > 1, <<SplitInto("split_qkv", <<"q", "k", "v">>, "qkv", n)>>)
    ELSE <<MatrixOf("q", "normed", <<l, "attn.q_proj.weight">>, n)>>
         \o When(~Shared(m, l),
                 <<MatrixOf("k", "normed", <<l, "attn.k_proj.weight">>, n),
                   MatrixOf("v", "normed", QkvParts(m, l)[3], n)>>)

(* build_gemma4_layer_cached.  The image block, when there is one, is seen  *)
(* both ways by the sliding layers.                                         *)
GemmaAttention(m, reg, l, n, p, block) ==
    LET t == QkvNames(m, reg, l, n)
        turn(x) == Positioned([Command("rope", x, <<x>>, <<>>) EXCEPT !.k = m.kind[l]], n, p, TRUE)
        seen == IF WindowOf(m, l) > 0 /\ n > 1 THEN {p + b : b \in block} ELSE {}
        slots == RingSlots(m, m.kind[l])
    IN  <<Norm("normed", "hidden", <<l, "ln_attn_in.weight">>)>>
        \o GemmaQkv(m, reg, l, n)
        \o <<HeadNorm(t[1], <<l, "attn.q_norm.weight">>), turn(t[1])>>
        \o When(~Shared(m, l), <<HeadNorm(t[2], <<l, "attn.k_norm.weight">>), BareHeadNorm(t[3]), turn(t[2])>>)
        \o When(~Shared(m, l), <<WriteCache(t[2], t[3], l, slots, n, p)>>)
        \o <<[ReadCache("attn_out", t[1], KvLayer(m, l), slots, "1", WindowOf(m, l), n, p)
                 EXCEPT !.block = seen]>>
        \o <<MatrixOf("attn_proj", "attn_out", <<l, "attn.o_proj.weight">>, n),
             [Command("rmsnorm_residual", "hidden", <<"attn_proj">>,
                      <<<<l, "ln_attn_post.weight">>, <<l, "ln_mlp_in.weight">>>>) EXCEPT !.more = <<"normed">>]>>

(* append_gemma4_moe_branch: the router and the experts read the residual. *)
MoeBranch(l, n) ==
    <<Norm("mlp_out", "mlp_out", <<l, "ln_mlp_branch_post.weight">>),
      Command("moe_router_input", "moe_router", <<"hidden">>, <<<<l, "moe.router.input_scale">>>>),
      Command("moe_logits", "moe_logits", <<"moe_router">>, <<<<l, "moe.router.weight">>>>),
      [Command("moe_route", "moe_indices", <<"moe_logits">>, <<<<l, "moe.router.expert_scale">>>>)
          EXCEPT !.more = <<"moe_weights">>],
      Norm("normed", "hidden", <<l, "ln_moe_in.weight">>),
      Command(IF n = 1 THEN "moe_experts_decode" ELSE "moe_experts", "moe_out",
              <<"normed", "moe_indices", "moe_weights">>,
              <<<<l, "moe.experts.gate_up.weight">>, <<l, "moe.experts.down.weight">>>>),
      Norm("moe_out", "moe_out", <<l, "ln_moe_branch_post.weight">>),
      Binary("add", "mlp_out", "mlp_out", "moe_out")>>

(* append_gemma4_ple_layer_injection *)
PleInjection(l) ==
    <<Matrix("ple_gate", "hidden", <<l, "ple.input_gate.weight">>),
      [Binary("gelu_mul", "ple_gate", "ple_gate", "ple") EXCEPT !.layer = l],
      Matrix("ple_projected", "ple_gate", <<l, "ple.projection.weight">>),
      [Command("rmsnorm_residual", "hidden", <<"ple_projected">>,
               <<<<l, "ln_ple_post.weight">>, <<l, "layer_scalar">>>>) EXCEPT !.k = "scalar"]>>

(* append_gemma4_mlp_ple_tail *)
GemmaTail(m, reg, l, n) ==
    LET pasted == <<l, "mlp.gate_up.weight">> \in DOMAIN reg
        half == IF pasted /\ n = 1 THEN <<"gate_dec", "up_dec">> ELSE <<"gate", "up">>
        down == IF m.padded THEN "mlp_padded" ELSE "mlp_h"
        scalarHere == ~m.ple /\ m.scalar
    IN  (IF pasted
         THEN <<MatrixOf("gate_up", "normed", <<l, "mlp.gate_up.weight">>, n)>>
              \o When(n > 1, <<SplitInto("split_half", <<"gate", "up">>, "gate_up", n)>>)
         ELSE <<MatrixOf("gate", "normed", <<l, "mlp.gate.weight">>, n),
                MatrixOf("up", "normed", <<l, "mlp.up.weight">>, n)>>)
        \o <<Binary("gelu_mul", "mlp_h", half[1], half[2])>>
        \o When(m.padded, <<Command("pad_columns", "mlp_padded", <<"mlp_h">>, <<>>)>>)
        \o <<MatrixOf("mlp_out", down, <<l, "mlp.down.weight">>, n)>>
        \o When(m.moe, MoeBranch(l, n))
        \o <<IF scalarHere
             THEN [Command("rmsnorm_residual", "hidden", <<"mlp_out">>,
                           <<<<l, "ln_mlp_post.weight">>, <<l, "layer_scalar">>>>) EXCEPT !.k = "scalar"]
             ELSE Command("rmsnorm_residual", "hidden", <<"mlp_out">>, <<<<l, "ln_mlp_post.weight">>>>)>>
        \o When(m.ple, PleInjection(l))

(* build_gemma4_input and build_gemma4_multimodal_input, with               *)
(* append_gemma4_ple_preparation: the PLE buffer adds what the tokens say to *)
(* a projection of the embeddings, image rows included.                     *)
PlePreparation(ids) ==
    <<Command("embedding", "ple", <<ids>>, <<<<0, "ple.token_embedding.weight">>>>),
      Scaled("ple", "sqrt_ple"),
      Matrix("ple_context", "hidden", <<0, "ple.model_projection.weight">>),
      Scaled("ple_context", "1/sqrt_hidden"),
      [Norm("ple_context", "ple_context", <<0, "ple.projection_norm.weight">>) EXCEPT !.k = "head"],
      Binary("add", "ple", "ple_context", "ple"),
      Scaled("ple", "1/sqrt2")>>

Embed(ids) == Command("embedding", "hidden", <<ids>>, <<<<0, "token_embedding.weight">>>>)

Input(m, image) ==
    IF ~m.gemma THEN <<Embed("input_tokens")>>
    ELSE <<Embed(IF image THEN "embedding_tokens" ELSE "input_tokens"), Scaled("hidden", "sqrt_hidden")>>
         \o When(image, <<Command("scatter_rows", "hidden", <<"hidden">>, <<>>)>>)
         \o When(m.ple, PlePreparation(IF image THEN "ple_tokens" ELSE "input_tokens"))

-----------------------------------------------------------------------------
(* One layer, and the graph of a whole forward as the sequence of its parts: *)
(* input, layers, head.                                                      *)
Layer(m, reg, a, l, n, p, cached, block) ==
    IF m.gemma THEN GemmaAttention(m, reg, l, n, p, block) \o GemmaTail(m, reg, l, n)
    ELSE AttentionBlock(m, a, l, n, p, cached) \o MlpBlock(a, l, n)

HeadCommand(m, a, n) ==
    LanguageHead(a, n) \o When(m.gemma /\ m.softcap, <<Command("softcap", "logits", <<"logits">>, <<>>)>>)

Forward(m, reg, a, n, p, cached, image, block) ==
    <<Input(m, image)>>
    \o [l \in 1..m.layers |-> Layer(m, reg, a, l, n, p, cached, block)]
    \o <<HeadCommand(m, a, n)>>

(* build_forward_reuse: the graph of the first token with the positions of  *)
(* the commands it indexed moved to the current one.                        *)
Indexed == {"rope", "kv_cache_update", "attention_cached"}
Reused(graph, p) ==
    [part \in DOMAIN graph |->
        [i \in DOMAIN graph[part] |->
            IF graph[part][i].op \in Indexed THEN [graph[part][i] EXCEPT !.off = p] ELSE graph[part][i]]]

=============================================================================
