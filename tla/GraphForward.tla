---------------------------- MODULE GraphForward ----------------------------
(***************************************************************************)
(* The forward passes of a session: prefills of several rows, decodes of    *)
(* one row that run eagerly, capture a CUDA graph or replay it, images, and *)
(* the model divided between two GPUs (inference_session.cpp forward_one    *)
(* and forward_batch, Engine::execute_graph_replay, gemma4_split.cpp).      *)
(*                                                                          *)
(* Every pass runs the commands of GraphBuilder on the memory of Kernels.   *)
(* What a layer leaves in "hidden" and in the cache is compared with what   *)
(* the architecture of the model file asks for.  A value that agrees takes  *)
(* a name, <<"h", layer, the tokens it depends on>>, so that terms do not   *)
(* grow with the number of layers; one that does not stays as it is and     *)
(* breaks the invariants.                                                   *)
(***************************************************************************)
EXTENDS GraphBuilder

CONSTANTS Models,     \* the model files, with how they were opened
          Words,      \* tokens of a prompt
          Sampled,    \* tokens a decode is given
          MaxRows,    \* bound: rows of a prefill of text
          Soft,       \* rows of an image
          Turns       \* bound: turns

VARIABLES model,        \* the file, its registry and its architecture
          engines,      \* one memory per GPU
          hist,         \* the tokens whose keys and values the cache holds
          written,      \* note_write_end: the farthest position ever written
          decodeAt,     \* position decode_cb was built for, NoPos when it has to be built
          graph,        \* pointers and row counts of the captured graphs, or NoGraph
          unavailable,  \* graph_unavailable
          turns,        \* turns started
          done          \* what the last pass left: hidden rows by layer, and for which tokens

forwardVars == <<model, engines, hist, written, decodeAt, graph, unavailable, turns, done>>

NoGraph == <<>>
m == model.m

-----------------------------------------------------------------------------
(* What the model file asks for.  h is a history of tokens; "i" is a row of *)
(* an image.  A row depends on the tokens before it and, inside an image    *)
(* that is seen both ways, on the whole image.                              *)
BlockOf(h, q) ==
    IF h[q + 1] # "i" THEN {q}
    ELSE {s \in 0..Len(h) - 1 : \A t \in s..q \cup q..s : h[t + 1] = "i"}

Reach(h, q) ==
    IF m.gemma /\ m.image = "block" THEN CHOOSE s \in BlockOf(h, q) : \A t \in BlockOf(h, q) : t <= s ELSE q

Name(what, l, h, q) ==
    Term(what, <<l, q>>, "", [i \in 1..Reach(h, q) + 1 |-> Token(h[i])])

KeyValue(l, h, q) == <<Name("k", l, h, q), Name("v", l, h, q)>>

Times(w, x) == Term("matmul", <<w>>, "", <<x>>)
NormWith(w, x) == Term("rmsnorm", <<w>>, "", <<x>>)
HeadNormWith(w, x) == Term("rmsnorm", w, "head", <<x>>)
Plus(x, y) == Term("add", <<>>, "", <<x, y>>)
Product(act, x, y) == Term("mul", <<>>, "", <<Term(act, <<>>, "", <<x>>), y>>)
TurnedTo(q, k, x) == IF k = "none" THEN x ELSE Term("rope", <<q>>, k, <<x>>)

(* The input row at q, and the slice of the PLE buffer layer l adds there.  *)
WordAt(h, q) == IF h[q + 1] = "i" THEN "pad" ELSE h[q + 1]
Lookup(w, t) == Term("embedding", <<w>>, "", <<Token(t)>>)
ScaledBy(k, x) == Term("scale", <<>>, k, <<x>>)

InputRow(h, q) ==
    IF h[q + 1] = "i"
    THEN ImageRow(q + 1 - (CHOOSE s \in BlockOf(h, q) : \A t \in BlockOf(h, q) : s <= t))
    ELSE LET x == Lookup(<<0, "token_embedding.weight">>, h[q + 1])
         IN  IF m.gemma THEN ScaledBy("sqrt_hidden", x) ELSE x

PleRow(l, h, q) ==
    LET projected == ScaledBy("1/sqrt_hidden", Times(<<l, "ple.model_projection.weight">>, InputRow(h, q)))
    IN  ScaledBy("1/sqrt2",
                 Plus(HeadNormWith(<<<<0, "ple.projection_norm.weight">>>>, projected),
                      ScaledBy("sqrt_ple", Lookup(<<l, "ple.token_embedding.weight">>, WordAt(h, q)))))

(* Projections of the normed row x of layer l at position q. *)
Projected(l, name, bias, x) ==
    LET y == Times(<<l, name>>, x)
    IN  IF ~m.gemma /\ m.qkvBias THEN Term("add_bias", <<<<l, bias>>>>, "", <<y>>) ELSE y

Tuned(l, q, norm, x) ==
    LET y == IF m.gemma \/ m.qkNorm THEN HeadNormWith(<<<<l, norm>>>>, x) ELSE x
    IN  TurnedTo(q, IF m.gemma THEN m.kind[l] ELSE m.rope, y)

PreNormed(l, x) == NormWith(<<l, IF m.gemma THEN "ln_attn_in.weight" ELSE "ln1.weight">>, x)

RefQuery(l, q, x) ==
    Tuned(l, q, "attn.q_norm.weight",
          Projected(l, "attn.q_proj.weight", "attn.q_proj.bias", PreNormed(l, x)))

RefKeyValue(l, q, x) ==
    LET n == PreNormed(l, x)
        k == Projected(l, "attn.k_proj.weight", "attn.k_proj.bias", n)
        v == IF m.gemma /\ m.kEqV[l] THEN k ELSE Projected(l, "attn.v_proj.weight", "attn.v_proj.bias", n)
    IN  <<Tuned(l, q, "attn.k_norm.weight", k), IF m.gemma THEN HeadNormWith(<<>>, v) ELSE v>>

(* Positions the row at q attends to in layer l. *)
VisibleTo(l, h, q) ==
    LET window == IF m.gemma THEN WindowOf(m, l) ELSE 0
        both == IF window > 0 /\ m.image = "block" THEN BlockOf(h, q) ELSE {q}
    IN  {s \in 0..Len(h) - 1 : (s <= q \/ s \in both) /\ (window = 0 \/ s > q - window)}

SeenKeys(l, h, q, keyValue(_)) ==
    LET seen == SelectSeq([s \in 1..Len(h) |-> s - 1], LAMBDA s : s \in VisibleTo(l, h, q))
    IN  Flatten([a \in DOMAIN seen |-> keyValue(seen[a])])

RefMlp(l, x, n) ==
    IF m.gemma \/ m.mlp # "simple"
    THEN LET y == Product(IF m.gemma THEN "gelu" ELSE m.act,
                          Times(<<l, "mlp.gate.weight">>, n), Times(<<l, "mlp.up.weight">>, n))
         IN  Times(<<l, "mlp.down.weight">>,
                   IF m.gemma /\ m.padded THEN Term("pad_columns", <<>>, "", <<y>>) ELSE y)
    ELSE Times(<<l, "mlp.fc2.weight">>, Term(m.act, <<>>, "", <<Times(<<l, "mlp.fc1.weight">>, n)>>))

RefExperts(l, x) ==
    LET routed == Term("moe_logits", <<<<l, "moe.router.weight">>>>, "",
                       <<Term("moe_router_input", <<<<l, "moe.router.input_scale">>>>, "", <<x>>)>>)
        chosen(what) == Term(what, <<<<l, "moe.router.expert_scale">>>>, "", <<routed>>)
    IN  NormWith(<<l, "ln_moe_branch_post.weight">>,
                 Term("moe_experts", <<<<l, "moe.experts.gate_up.weight">>, <<l, "moe.experts.down.weight">>>>,
                      "", <<NormWith(<<l, "ln_moe_in.weight">>, x), chosen("top_k"), chosen("top_k_weights")>>))

WithScalar(l, x) == Term("scalar", <<<<l, "layer_scalar">>>>, "", <<x>>)

RefGemmaTail(l, h, q, x) ==
    LET mlp == RefMlp(l, x, NormWith(<<l, "ln_mlp_in.weight">>, x))
        both == IF m.moe THEN Plus(NormWith(<<l, "ln_mlp_branch_post.weight">>, mlp), RefExperts(l, x)) ELSE mlp
        y == Plus(x, NormWith(<<l, "ln_mlp_post.weight">>, both))
        ple == Times(<<l, "ple.projection.weight">>,
                     Product("gelu", Times(<<l, "ple.input_gate.weight">>, y), PleRow(l, h, q)))
    IN  IF m.ple THEN WithScalar(l, Plus(y, NormWith(<<l, "ln_ple_post.weight">>, ple)))
        ELSE IF m.scalar THEN WithScalar(l, y) ELSE y

(* The row layer l leaves at position q when row x enters it. *)
RefRow(l, h, q, x, keyValue(_)) ==
    LET attended == Term("attention", <<>>, IF m.gemma THEN "1" ELSE "1/sqrt",
                         <<RefQuery(l, q, x)>> \o SeenKeys(l, h, q, keyValue))
        o == Times(<<l, "attn.o_proj.weight">>, attended)
    IN  IF m.gemma
        THEN RefGemmaTail(l, h, q, Plus(x, NormWith(<<l, "ln_attn_post.weight">>, o)))
        ELSE LET r == Plus(x, IF m.oBias THEN Term("add_bias", <<<<l, "attn.o_proj.bias">>>>, "", <<o>>) ELSE o)
                 n == IF m.norm = "layer"
                      THEN Term("layernorm", <<<<l, "ln2.weight">>, <<l, "ln2.bias">>>>, "", <<r>>)
                      ELSE NormWith(<<l, "ln2.weight">>, r)
             IN  Plus(r, RefMlp(l, r, n))

RefLogits(h) ==
    LET last == Name("h", m.layers, h, Len(h) - 1)
        y == Times(<<0, IF m.tied THEN "token_embedding.weight" ELSE "lm_head.weight">>,
                   NormWith(<<0, "final_norm.weight">>, last))
    IN  IF m.gemma /\ m.softcap THEN Term("softcap", <<>>, "", <<y>>) ELSE y

-----------------------------------------------------------------------------
(* One pass.  Part 1 is the input, part l + 1 layer l, the last the head;   *)
(* with the model divided after layer "split", the later layers run on the  *)
(* second GPU (Undivided: one GPU).                                         *)
Undivided == -1
LastPart == m.layers + 2
IsLayer(part) == part > 1 /\ part < LastPart
GpuOf(part) == IF model.split # Undivided /\ IsLayer(part) /\ part > model.split + 1 THEN 2 ELSE 1
Gpus == IF model.split = Undivided THEN {1} ELSE {1, 2}

(* gemma4_tensor_in_span: the tensors each GPU loaded. *)
RegistryOf(g) ==
    IF model.split = Undivided THEN model.reg
    ELSE LET own == {t \in DOMAIN model.reg : IF t[1] = 0 THEN g = 1 ELSE GpuOf(t[1] + 1) = g}
         IN  [t \in own |-> model.reg[t]]

NonCapturable(c) == c.op \in {"split_qkv", "split_half"} \/ (c.op = "embedding" /\ model.mapped)
HostSynchronized(parts) == \E part \in DOMAIN parts : \E i \in DOMAIN parts[part] : parts[part][i].op = "moe_experts"

(* Gemma4SplitForward::cross: the active rows of hidden, through host memory. *)
Crossed(from, to) ==
    [to EXCEPT !.mem["hidden"] = <<[i \in 1..from.rows |-> Load(from, "hidden", i)[1]]>>]

Arrived(es, part) ==
    IF part > 1 /\ GpuOf(part - 1) # GpuOf(part)
    THEN Crossed(es[GpuOf(part - 1)], es[GpuOf(part)]) ELSE es[GpuOf(part)]

(* A pass p: its tokens are the last p.n of the history p.h, and p.cached   *)
(* says whether it goes through the cache.                                  *)
FirstNew(p) == Len(p.h) - p.n

KeyValueIn(p, l, xs, q) ==
    IF p.cached THEN KeyValue(KvLayer(m, l), p.h, q) ELSE RefKeyValue(l, q, xs[q + 1])

(* Keys and values of the cache that agree with the model take their names, *)
(* and so do the rows a layer leaves; xs are the rows that entered it.      *)
WritesCache(c) == c.op = "kv_cache_update" \/ (c.op = "qk_norm_rope" /\ Len(c.in) = 3)

NamedSlot(held, here, l, p, xs) ==
    IF \E q \in here : (\A r \in here : r <= q) /\ held = RefKeyValue(l, q, xs[q - FirstNew(p) + 1])
    THEN KeyValue(l, p.h, Max(here)) ELSE held

NamedCache(c, e, l, p, xs) ==
    IF ~WritesCache(c) THEN e
    ELSE [e EXCEPT !.kv[l] = [s \in DOMAIN @ |->
             NamedSlot(@[s], {q \in FirstNew(p)..Len(p.h) - 1 : q % RingSlots(m, m.kind[l]) = s}, l, p, xs)]]

NamedRow(y, l, p, q, xs) ==
    IF y = RefRow(l, p.h, q, xs[q - FirstNew(p) + 1], LAMBDA s : KeyValueIn(p, l, xs, s))
    THEN Name("h", l, p.h, q) ELSE y

NamedHidden(e, l, p, xs) ==
    [e EXCEPT !.mem["hidden"] =
        <<[i \in 1..p.n |-> NamedRow(Load(e, "hidden", i)[1], l, p, FirstNew(p) + i - 1, xs)]>>]

RunLayer(reg, e, xs, commands, l, p) ==
    NamedHidden(FoldLeft(LAMBDA acc, c : NamedCache(c, Execute(reg, acc, c), l, p, xs), e, commands),
                l, p, xs)

AfterPart(acc, g, part, e) ==
    [es |-> [acc.es EXCEPT ![g] = e],
     hidden |-> IF IsLayer(part) THEN Append(acc.hidden, e.mem["hidden"][1]) ELSE acc.hidden]

OnGpu(g, e, part, commands, p) ==
    IF IsLayer(part)
    THEN RunLayer(RegistryOf(g), e, [i \in 1..p.n |-> Load(e, "hidden", i)[1]], commands, part - 1, p)
    ELSE Run(RegistryOf(g), e, commands)

RunPart(acc, part, commands, p) ==
    AfterPart(acc, GpuOf(part), part, OnGpu(GpuOf(part), Arrived(acc.es, part), part, commands, p))

Eager(es, parts, p) ==
    FoldLeft(LAMBDA acc, part : RunPart(acc, part, parts[part], p),
             [es |-> es, hidden |-> <<>>], [part \in DOMAIN parts |-> part])

(* Engine::execute_graph_replay: what cannot be captured runs first, on the *)
(* live pointers; then the captured commands, with the pointers and the row *)
(* counts they were captured with.                                          *)
Commands(parts, g, which(_)) ==
    FoldLeft(LAMBDA acc, part : IF GpuOf(part) = g THEN acc \o SelectSeq(parts[part], which) ELSE acc,
             <<>>, [part \in DOMAIN parts |-> part])

Prepared(es, parts) ==
    [g \in DOMAIN es |-> Run(RegistryOf(g), es[g], Commands(parts, g, NonCapturable))]

Baked(es) == [g \in DOMAIN es |-> [ptr |-> es[g].ptr, rows |-> es[g].rows]]

With(es, baked) == [g \in DOMAIN es |-> [es[g] EXCEPT !.ptr = baked[g].ptr, !.rows = baked[g].rows]]

PointersOf(run, baked) == [run EXCEPT !.es = With(@, baked)]

Graphed(es, parts, baked, p) ==
    PointersOf(Eager(With(es, baked),
                     [part \in DOMAIN parts |-> SelectSeq(parts[part], LAMBDA c : ~NonCapturable(c))], p),
               Baked(es))

-----------------------------------------------------------------------------
(* Between passes the scratch memory is forgotten: a pass that read a       *)
(* buffer before writing it would read Stale.                               *)
Engines == [g \in DOMAIN engines |-> [engines[g] EXCEPT !.mem = Blank(model.reg)]]
Kept(e) == [e EXCEPT !.mem = <<>>, !.ids = [t \in DOMAIN @ |-> <<>>], !.image = <<>>]

Finish(run, p) ==
    /\ engines' = [g \in DOMAIN run.es |-> Kept(run.es[g])]
    /\ done' = [hidden |-> run.hidden, logits |-> Load(run.es[1], "logits", 1), pass |-> p]

(* Uploads and set_active_scratch_shape, on every engine of the model. *)
Uploaded(e, name, tokens) == [e EXCEPT !.ids[name] = tokens]
Shaped(es, n) == [g \in DOMAIN es |-> [es[g] EXCEPT !.rows = n]]
DevicePosition(es, p) == [g \in DOMAIN es |-> [es[g] EXCEPT !.pos = p]]

Farthest(end) == IF end > written THEN end ELSE written
Graph(n, p, cached, image, block) == Forward(m, model.reg, model.arch, n, p, cached, image, block)

InvalidateGraphs ==
    /\ graph' = NoGraph
    /\ decodeAt' = NoPos

NothingDone == [hidden |-> <<>>, logits |-> <<>>, pass |-> [h |-> <<>>, n |-> 0, cached |-> TRUE]]

(* A ring still holds what the query after position p needs. *)
CanRewind(p) ==
    \A l \in 1..m.layers :
        LET slots == RingSlots(m, m.kind[l])
            oldest == IF written > slots THEN written - slots ELSE 0
            needed == IF p >= SlidingWindow THEN p - SlidingWindow + 1 ELSE 0
        IN  m.kind[l] = "sliding" => needed >= oldest

(* run_turn, before anything runs: the graphs of the last turn are dropped, *)
(* and the cache goes back to the prefix p that the new prompt shares with  *)
(* it; without a known prefix (images are not tracked) it goes on where it is *)
(* or starts anew.  Where a ring has lost what comes before p, all is cleared. *)
StartTurn(p) ==
    /\ turns < Turns
    /\ turns' = turns + 1
    /\ Contains(hist, "i") => p \in {0, Len(hist)}
    /\ InvalidateGraphs
    /\ unavailable' = FALSE
    /\ hist' = IF CanRewind(p) THEN SubSeq(hist, 1, p) ELSE <<>>
    /\ written' = IF CanRewind(p) THEN written ELSE 0
    /\ done' = NothingDone
    /\ UNCHANGED <<model, engines>>

(* forward_batch, a chunk of several rows. *)
Prefill(tokens) ==
    LET n == Len(tokens)
        pass == [h |-> hist \o tokens, n |-> n, cached |-> TRUE]
        es == [Engines EXCEPT ![1] = Uploaded(@, "input_tokens", tokens)]
        placed == IF model.split # Undivided THEN DevicePosition(es, Len(hist)) ELSE es
    IN  /\ n \in 2..m.chunk
        /\ Len(hist) + n <= MaxLen
        /\ InvalidateGraphs
        /\ Finish(Eager(Shaped(placed, n), Graph(n, Len(hist), TRUE, FALSE, {}), pass), pass)
        /\ hist' = pass.h
        /\ written' = Farthest(Len(pass.h))
        /\ UNCHANGED <<model, unavailable, turns>>

(* forward_one: the first decode builds the commands and runs them; later   *)
(* ones capture them, replay the graph, or run them when there is no graph. *)
OnePass(t) == [h |-> Append(hist, t), n |-> 1, cached |-> TRUE]
OneUploaded(t) == DevicePosition([Engines EXCEPT ![1] = Uploaded(@, "input_tokens", <<t>>)], Len(hist))

Advance(t) ==
    /\ hist' = Append(hist, t)
    /\ written' = Farthest(Len(hist) + 1)
    /\ UNCHANGED <<model, turns>>

DecodeBuilt(t) ==
    /\ Len(hist) < MaxLen /\ ~model.reuse
    /\ decodeAt = NoPos
    /\ decodeAt' = Len(hist)
    /\ Finish(Eager(Shaped(OneUploaded(t), 1), Graph(1, Len(hist), TRUE, FALSE, {}), OnePass(t)), OnePass(t))
    /\ Advance(t)
    /\ UNCHANGED <<graph, unavailable>>

DecodeEager(t) ==
    /\ Len(hist) < MaxLen /\ ~model.reuse
    /\ decodeAt # NoPos
    /\ ~model.graphs \/ unavailable
    /\ Finish(Eager(OneUploaded(t), Graph(1, decodeAt, TRUE, FALSE, {}), OnePass(t)), OnePass(t))
    /\ Advance(t)
    /\ UNCHANGED <<decodeAt, graph, unavailable>>

Graphable(t) == Len(hist) < MaxLen /\ ~model.reuse /\ decodeAt # NoPos /\ model.graphs /\ ~unavailable

DecodeCaptured(t) ==
    LET parts == Graph(1, decodeAt, TRUE, FALSE, {})
        es == Prepared(OneUploaded(t), parts)
    IN  /\ Graphable(t)
        /\ graph = NoGraph
        /\ ~HostSynchronized(parts)
        /\ graph' = Baked(es)
        /\ Finish(Graphed(es, parts, Baked(es), OnePass(t)), OnePass(t))
        /\ Advance(t)
        /\ UNCHANGED <<decodeAt, unavailable>>

(* The capture fails, or the graph must not be captured: the same commands  *)
(* run one by one, and this turn does not try again.                        *)
DecodeFallback(t) ==
    LET parts == Graph(1, decodeAt, TRUE, FALSE, {})
        es == IF HostSynchronized(parts) THEN OneUploaded(t) ELSE Prepared(OneUploaded(t), parts)
    IN  /\ Graphable(t)
        /\ graph = NoGraph
        /\ unavailable' = TRUE
        /\ Finish(Eager(es, parts, OnePass(t)), OnePass(t))
        /\ Advance(t)
        /\ UNCHANGED <<decodeAt, graph>>

DecodeReplayed(t) ==
    LET parts == Graph(1, decodeAt, TRUE, FALSE, {})
    IN  /\ Graphable(t)
        /\ graph # NoGraph
        /\ Finish(Graphed(Prepared(OneUploaded(t), parts), parts, graph, OnePass(t)), OnePass(t))
        /\ Advance(t)
        /\ UNCHANGED <<decodeAt, graph, unavailable>>

(* The test program's decode: no device position; the commands of the first *)
(* token are used again with their positions moved (build_forward_reuse).   *)
DecodeReused(t) ==
    LET es == [Engines EXCEPT ![1] = Uploaded(@, "input_tokens", <<t>>)]
        p == Len(hist)
    IN  /\ Len(hist) < MaxLen /\ model.reuse
        /\ decodeAt' = IF decodeAt = NoPos THEN p ELSE decodeAt
        /\ Finish(IF decodeAt = NoPos
                  THEN Eager(Shaped(es, 1), Graph(1, p, TRUE, FALSE, {}), OnePass(t))
                  ELSE Eager(es, Reused(Graph(1, decodeAt, TRUE, FALSE, {}), p), OnePass(t)),
                  OnePass(t))
        /\ Advance(t)
        /\ UNCHANGED <<graph, unavailable>>

(* build_forward without a cache, over a whole prompt (the test programs).  *)
ForwardUncached(tokens) ==
    LET n == Len(tokens)
        pass == [h |-> tokens, n |-> n, cached |-> FALSE]
        es == [Engines EXCEPT ![1] = Uploaded(@, "input_tokens", tokens)]
    IN  /\ ~m.gemma /\ model.reuse
        /\ hist = <<>>
        /\ Finish(Eager(Shaped(es, n), Graph(n, 0, FALSE, FALSE, {}), pass), pass)
        /\ UNCHANGED <<model, hist, written, decodeAt, graph, unavailable, turns>>

(* The adapters' prefill: make_gemma4_multimodal_token_plan replaces the    *)
(* placeholder by begin, the rows of the image and end; pad is embedded at  *)
(* the image rows and replaced there by the image.                          *)
Expanded(prompt) ==
    FoldLeft(LAMBDA acc, t : acc \o (IF t = "image" THEN <<"boi">> \o [i \in 1..Soft |-> "i"] \o <<"eoi">> ELSE <<t>>),
             <<>>, prompt)

ImageRows(plan) == SelectSeq([i \in DOMAIN plan |-> i], LAMBDA i : plan[i] = "i")
Identity(plan) == [i \in DOMAIN plan |-> IF plan[i] = "i" THEN "pad" ELSE plan[i]]

PrefillImage(prompt) ==
    LET plan == Expanded(prompt)
        n == Len(plan)
        rows == ImageRows(plan)
        block == IF m.image = "block" THEN {rows[i] - 1 : i \in DOMAIN rows} ELSE {}
        pass == [h |-> hist \o plan, n |-> n, cached |-> TRUE]
        loaded == [Uploaded(Uploaded(Engines[1], "embedding_tokens", Identity(plan)),
                            "ple_tokens", Identity(plan)) EXCEPT !.image = rows]
        es == [Engines EXCEPT ![1] = loaded]
        placed == IF model.split # Undivided THEN DevicePosition(es, Len(hist)) ELSE es
    IN  /\ m.gemma /\ m.image # "none"
        /\ n <= m.chunk /\ Len(hist) + n <= MaxLen
        /\ InvalidateGraphs
        /\ Finish(Eager(Shaped(placed, n), Graph(n, Len(hist), TRUE, TRUE, block), pass), pass)
        /\ hist' = pass.h
        /\ written' = Farthest(Len(pass.h))
        /\ UNCHANGED <<model, unavailable, turns>>

-----------------------------------------------------------------------------
Memory(file) ==
    [mem |-> <<>>, ptr |-> Scratch(file.reg), rows |-> 0, pos |-> NoPos,
     ids |-> [t \in {"input_tokens", "embedding_tokens", "ple_tokens"} |-> <<>>], image |-> <<>>,
     kv |-> [l \in 1..file.m.layers |-> [s \in 0..RingSlots(file.m, file.m.kind[l]) - 1 |-> <<Stale, Stale>>]],
     failed |-> FALSE]

ForwardInit ==
    /\ model \in Models
    /\ engines = [g \in 1..Cardinality(Gpus) |-> Memory(model)]
    /\ hist = <<>>
    /\ written = 0
    /\ decodeAt = NoPos
    /\ graph = NoGraph
    /\ unavailable = FALSE
    /\ turns = 1
    /\ done = NothingDone

Prompts == {<<"image">>} \cup {<<t, "image">> : t \in Words}

ForwardNext ==
    \/ \E p \in 0..Len(hist) : StartTurn(p)
    \/ \E tokens \in UNION {[1..n -> Words] : n \in 2..(IF m.chunk < MaxRows THEN m.chunk ELSE MaxRows)} : Prefill(tokens)
    \/ \E t \in Sampled : \/ DecodeBuilt(t)
                          \/ DecodeEager(t)
                          \/ DecodeCaptured(t)
                          \/ DecodeFallback(t)
                          \/ DecodeReplayed(t)
                          \/ DecodeReused(t)
    \/ \E tokens \in UNION {[1..n -> Words] : n \in 1..2} : ForwardUncached(tokens)
    \/ \E prompt \in Prompts : PrefillImage(prompt)

ForwardSpec == ForwardInit /\ [][ForwardNext]_forwardVars

-----------------------------------------------------------------------------
(* Every row that a layer leaves, in a prefill, an eager decode, a captured *)
(* or replayed graph, on either GPU, is what the model file's architecture  *)
(* computes from the row that entered it and from the tokens it may attend  *)
(* to (build_attention_block, build_mlp_block, build_gemma4_layer_cached).  *)
HiddenMatchesModel ==
    \A l \in DOMAIN done.hidden : \A i \in DOMAIN done.hidden[l] :
        done.pass.n > 0 =>
            done.hidden[l][i] = Name("h", l, done.pass.h, Len(done.pass.h) - done.pass.n + i - 1)

(* The logits a session samples from are those of the last token of its     *)
(* history: row_offset picks the last row of a prefill, a decode has one.   *)
LogitsFollowLastToken ==
    done.pass.n > 0 => done.logits = <<RefLogits(done.pass.h)>>

(* Whatever mix of prefills, decodes, graphs and rewinds led here, the      *)
(* cache of every layer holds, for each position the next query can see,    *)
(* the key and the value of the token the session remembers there.          *)
KvHoldsHistory ==
    \A l \in 1..m.layers \ {s \in 1..m.layers : m.gemma /\ Shared(m, s)} :
        \A q \in 0..Len(hist) - 1 :
            m.kind[l] = "global" \/ q > Len(hist) - SlidingWindow =>
                engines[GpuOf(l + 1)].kv[l][q % RingSlots(m, m.kind[l])] = KeyValue(l, hist, q)

=============================================================================
