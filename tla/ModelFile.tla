----------------------------- MODULE ModelFile -----------------------------
(***************************************************************************)
(* The weights of a text model as the engine sees them: which tensors a     *)
(* file brings, how the loader and the graph builder paste several of them  *)
(* into one, and what the graph builder concludes from the tensors it finds *)
(* (graph_builder.cpp, hnf_loader.cpp).                                     *)
(*                                                                          *)
(* A tensor is named by <<layer, component>>, layer 0 for the tensors of    *)
(* the whole model.  The registry maps a name to the sequence of matrices   *)
(* whose rows the tensor holds: a tensor made by pasting holds several, and *)
(* a product with it leaves one group of columns for each.                  *)
(***************************************************************************)
EXTENDS Integers, Sequences, FiniteSets

(* A model file m is a record.  Of a generic model it says which variant of *)
(* each block the converter wrote (qkv, qkvBias, oBias, qkNorm, rope, mlp,  *)
(* act, norm, tied, quantized); of a Gemma 4, what its GM4X header declares *)
(* (kind and kEqV of every layer, kvShared, ple, scalar, moe, padded,       *)
(* softcap).                                                                *)

Own(l, names) == {<<l, n>> : n \in names}

Projections == {"attn.q_proj.weight", "attn.k_proj.weight", "attn.v_proj.weight"}
Biases == {"attn.q_proj.bias", "attn.k_proj.bias", "attn.v_proj.bias"}

LayerTensors(m, l) ==
    LET common == {"ln1.weight", "ln2.weight", "attn.o_proj.weight"}
                  \cup (IF m.oBias THEN {"attn.o_proj.bias"} ELSE {})
                  \cup (IF m.qkNorm THEN {"attn.q_norm.weight", "attn.k_norm.weight"} ELSE {})
                  \cup (IF m.norm = "layer" THEN {"ln1.bias", "ln2.bias"} ELSE {})
        qkv == IF m.qkv = "fused"
               THEN {"attn.qkv_proj.weight"}
                    \cup (IF m.qkvBias THEN {"attn.qkv_proj.bias"} ELSE {})
               ELSE Projections \cup (IF m.qkvBias THEN Biases ELSE {})
        mlp == CASE m.mlp = "gated" -> {"mlp.gate.weight", "mlp.up.weight", "mlp.down.weight"}
                 [] m.mlp = "gate_up" -> {"mlp.gate_up.weight", "mlp.down.weight"}
                 [] m.mlp = "simple" -> {"mlp.fc1.weight", "mlp.fc2.weight"}
    IN  Own(l, common \cup qkv \cup mlp)

FirstSharedLayer(m) == m.layers - m.kvShared

(* The tensors validate_gemma4_tensors asks for in a layer, those of a       *)
(* layer that borrows its KV included, and those the GM4X header adds.      *)
GemmaLayerTensors(m, l) ==
    LET names == {"ln_attn_in.weight", "ln_attn_post.weight", "ln_mlp_in.weight",
                  "ln_mlp_post.weight", "attn.q_proj.weight", "attn.q_norm.weight",
                  "attn.k_proj.weight", "attn.k_norm.weight", "attn.o_proj.weight",
                  "mlp.gate.weight", "mlp.up.weight", "mlp.down.weight"}
                 \cup (IF m.kEqV[l] THEN {} ELSE {"attn.v_proj.weight"})
                 \cup (IF m.ple THEN {"ple.input_gate.weight", "ple.projection.weight",
                                      "ln_ple_post.weight"} ELSE {})
                 \cup (IF m.scalar THEN {"layer_scalar"} ELSE {})
                 \cup (IF m.moe THEN {"ln_mlp_branch_post.weight", "ln_moe_in.weight",
                                      "ln_moe_branch_post.weight", "moe.router.input_scale",
                                      "moe.router.weight", "moe.router.expert_scale",
                                      "moe.experts.gate_up.weight", "moe.experts.down.weight"}
                       ELSE {})
    IN  Own(l, names)

Tensors(m) ==
    Own(0, {"token_embedding.weight", "final_norm.weight"})
    \cup (IF m.tied THEN {} ELSE Own(0, {"lm_head.weight"}))
    \cup (IF m.gemma
          THEN UNION {GemmaLayerTensors(m, l) : l \in 1..m.layers}
               \cup (IF m.ple THEN Own(0, {"ple.token_embedding.weight",
                                           "ple.model_projection.weight",
                                           "ple.projection_norm.weight"}) ELSE {})
          ELSE UNION {LayerTensors(m, l) : l \in 1..m.layers})

(* The matrices a tensor holds when it leaves the file: a converter may have *)
(* pasted q, k and v, or gate and up, and the two PLE tables hold the slice  *)
(* of every layer.                                                           *)
Slices(m, t) ==
    CASE t[2] = "attn.qkv_proj.weight" ->
            << <<t[1], "attn.q_proj.weight">>, <<t[1], "attn.k_proj.weight">>, <<t[1], "attn.v_proj.weight">> >>
      [] t[2] = "attn.qkv_proj.bias" ->
            << <<t[1], "attn.q_proj.bias">>, <<t[1], "attn.k_proj.bias">>, <<t[1], "attn.v_proj.bias">> >>
      [] t[2] = "mlp.gate_up.weight" ->
            << <<t[1], "mlp.gate.weight">>, <<t[1], "mlp.up.weight">> >>
      [] t[2] \in {"ple.token_embedding.weight", "ple.model_projection.weight"} ->
            [l \in 1..m.layers |-> <<l, t[2]>>]
      [] OTHER -> <<t>>

Registry(m) == [t \in Tensors(m) |-> Slices(m, t)]

-----------------------------------------------------------------------------
(* HnfLoader::concat_tensors: the parts become one tensor and leave the     *)
(* registry; when a part is missing or there is no memory for the copy,     *)
(* nothing changes.                                                         *)
Concatenation(reg, parts) ==
    LET upto[i \in 0..Len(parts)] ==
            IF i = 0 THEN <<>> ELSE upto[i - 1] \o reg[parts[i]]
    IN  upto[Len(parts)]

PartSet(parts) == {parts[i] : i \in DOMAIN parts}

Concat(reg, parts, dest, fits) ==
    IF ~fits \/ ~(PartSet(parts) \subseteq DOMAIN reg) THEN reg
    ELSE [t \in (DOMAIN reg \ PartSet(parts)) \cup {dest} |->
            IF t = dest THEN Concatenation(reg, parts) ELSE reg[t]]

QkvParts(m, l) ==
    << <<l, "attn.q_proj.weight">>, <<l, "attn.k_proj.weight">>,
       <<l, IF m.gemma /\ m.kEqV[l] THEN "attn.k_proj.weight" ELSE "attn.v_proj.weight">> >>

GateUpParts(l) == << <<l, "mlp.gate.weight">>, <<l, "mlp.up.weight">> >>

(* HnfLoader::fuse_qkv_weights and fuse_gemma4_weights: layer by layer,     *)
(* skipping in a Gemma 4 the layers that borrow their KV.  "nofit" holds    *)
(* the layers whose copy found no memory.                                   *)
FuseLayer(m, reg, l, nofit) ==
    LET qkv == IF m.gemma /\ l > FirstSharedLayer(m) THEN reg
               ELSE Concat(reg, QkvParts(m, l), <<l, "attn.qkv_proj.weight">>, l \notin nofit)
    IN  Concat(qkv, GateUpParts(l), <<l, "mlp.gate_up.weight">>, l \notin nofit)

LoaderFused(m, nofit) ==
    LET fused[l \in 0..m.layers] ==
            IF l = 0 THEN Registry(m) ELSE FuseLayer(m, fused[l - 1], l, nofit)
    IN  fused[m.layers]

-----------------------------------------------------------------------------
(* GraphBuilder::detect_architecture: the tensors decide, the configuration *)
(* adds what no tensor shows.                                               *)
DetectArchitecture(m, reg) ==
    LET has(l, n) == <<l, n>> \in DOMAIN reg
        fused == has(1, "attn.qkv_proj.weight")
        pre == IF has(1, "ln_attn_in.weight") THEN "ln_attn_in" ELSE "ln1"
        gateUp == ~has(1, "mlp.gate.weight") /\ has(1, "mlp.gate_up.weight")
        gate == has(1, "mlp.gate.weight") \/ gateUp
    IN  [layers |-> Cardinality({l \in 1..m.layers : \E t \in DOMAIN reg : t[1] = l}),
         fusedQkv |-> fused,
         qkvBias |-> IF fused THEN has(1, "attn.qkv_proj.bias") ELSE has(1, "attn.q_proj.bias"),
         oBias |-> has(1, "attn.o_proj.bias"),
         qkNorm |-> has(1, "attn.q_norm.weight"),
         normBias |-> has(1, "ln1.bias"),
         pre |-> pre,
         gate |-> gate,
         fusedGateUp |-> gateUp,
         lmHead |-> IF has(0, "lm_head.weight") THEN "lm_head.weight" ELSE "token_embedding.weight",
         act |-> IF m.gemma THEN "gelu" ELSE m.act,
         rope |-> IF m.gemma THEN "default" ELSE m.rope]

(* GraphBuilder::validate_weights: the tensors the graph of this            *)
(* architecture reads and the registry lacks.                               *)
MissingWeights(m, reg, arch) ==
    LET post == IF m.gemma THEN "ln_attn_post.weight" ELSE "ln2.weight"
        needs(l) ==
            {IF m.gemma THEN "ln_attn_in.weight" ELSE "ln1.weight", post, "attn.o_proj.weight"}
            \cup (IF arch.fusedQkv THEN {"attn.qkv_proj.weight"}
                  ELSE {"attn.q_proj.weight", "attn.k_proj.weight"}
                       \cup (IF m.gemma /\ m.kEqV[l] THEN {} ELSE {"attn.v_proj.weight"}))
            \cup (IF arch.fusedGateUp THEN {"mlp.gate_up.weight", "mlp.down.weight"}
                  ELSE IF arch.gate THEN {"mlp.gate.weight", "mlp.up.weight", "mlp.down.weight"}
                  ELSE {"mlp.fc1.weight", "mlp.fc2.weight"})
    IN  (Own(0, {"token_embedding.weight", "final_norm.weight", arch.lmHead})
         \cup UNION {Own(l, needs(l)) : l \in 1..arch.layers}) \ DOMAIN reg

(* GraphBuilder::fuse_weights, which test_chat and test_smoke call on an    *)
(* open model: it pastes floating-point weights and biases, keeps the       *)
(* separate tensors and updates the architecture.                           *)
Pasted(reg, layers, parts(_), dest) ==
    LET whole == {l \in layers : PartSet(parts(l)) \subseteq DOMAIN reg}
    IN  [t \in DOMAIN reg \cup {<<l, dest>> : l \in whole} |->
            IF t[2] = dest /\ t[1] \in whole THEN Concatenation(reg, parts(t[1])) ELSE reg[t]]

FuseWeights(m, reg, arch) ==
    LET layers == 1..arch.layers
        qkv == ~arch.fusedQkv /\ ~m.quantized
        weights == IF qkv THEN Pasted(reg, layers, LAMBDA l : QkvParts(m, l), "attn.qkv_proj.weight") ELSE reg
        biases == IF qkv /\ arch.qkvBias
                  THEN Pasted(weights, layers,
                              LAMBDA l : << <<l, "attn.q_proj.bias">>, <<l, "attn.k_proj.bias">>,
                                            <<l, "attn.v_proj.bias">> >>, "attn.qkv_proj.bias")
                  ELSE weights
        gateUp == ~arch.fusedGateUp /\ arch.gate /\ ~m.quantized
                  /\ \A l \in layers : PartSet(GateUpParts(l)) \subseteq DOMAIN reg
    IN  [reg |-> IF gateUp THEN Pasted(biases, layers, GateUpParts, "mlp.gate_up.weight") ELSE biases,
         arch |-> [arch EXCEPT !.fusedQkv = @ \/ qkv, !.fusedGateUp = @ \/ gateUp]]

=============================================================================
