--------------------------- MODULE MCGraphForward ---------------------------
(***************************************************************************)
(* The forward pass of a model, and the kernels it launches.                *)
(*                                                                          *)
(* Small model files: two layers of a generic architecture in the variants  *)
(* the converter writes, and two or three layers of a Gemma 4.  Operations  *)
(* of the kernels over rows of up to ten elements, in blocks of four        *)
(* threads, warps of two and vectors of two halves, so that grids leave     *)
(* tails, take several turns and reach every path.  The rows that layernorm *)
(* and softmax reduce are a power of two or no shorter than a block, as in  *)
(* every model the loader accepts.                                          *)
(*                                                                          *)
(* The rings of MCKvRing and the kernels that read them are followed first; *)
(* when the sequence of the rings is full a model is opened, and they rest. *)
(* The other kernels keep no state between operations: they are run from    *)
(* the initial state of one model.                                          *)
(***************************************************************************)
EXTENDS GraphForward, Products, MCKvRing

VARIABLES
    request, queue, memory,
    over        \* the conversation of the rings is

LlamaFile == [gemma |-> FALSE, layers |-> 2, kind |-> <<"global", "global">>, qkv |-> "separate",
              qkvBias |-> FALSE, oBias |-> FALSE, qkNorm |-> FALSE, rope |-> "default",
              mlp |-> "gated", act |-> "silu", norm |-> "rms", tied |-> FALSE,
              quantized |-> TRUE, fuseKv |-> FALSE, chunk |-> 2]
QwenFile == [LlamaFile EXCEPT !.qkNorm = TRUE, !.tied = TRUE]
BiasedFile == [LlamaFile EXCEPT !.qkvBias = TRUE, !.oBias = TRUE, !.mlp = "simple", !.act = "gelu"]
PhiFile == [LlamaFile EXCEPT !.qkv = "fused", !.mlp = "gate_up", !.rope = "none", !.qkvBias = TRUE]
LayerNormFile == [LlamaFile EXCEPT !.norm = "layer", !.mlp = "simple", !.act = "gelu"]

GemmaFile == [gemma |-> TRUE, layers |-> 2, kind |-> <<"sliding", "global">>, kEqV |-> <<FALSE, FALSE>>,
              kvShared |-> 0, ple |-> FALSE, scalar |-> TRUE, moe |-> FALSE, padded |-> FALSE,
              softcap |-> TRUE, tied |-> TRUE, image |-> "none", chunk |-> 2]
UnifiedFile == [GemmaFile EXCEPT !.kEqV = <<FALSE, TRUE>>]
E4File == [GemmaFile EXCEPT !.layers = 3, !.kind = <<"global", "sliding", "sliding">>,
                            !.kEqV = <<FALSE, FALSE, FALSE>>, !.kvShared = 1, !.ple = TRUE]
MoeFile == [GemmaFile EXCEPT !.moe = TRUE, !.padded = TRUE, !.softcap = FALSE]
ImageFile(image) == [GemmaFile EXCEPT !.image = image, !.chunk = 4]

Opened(file, reg) ==
    [m |-> file, reg |-> reg, arch |-> DetectArchitecture(file, reg), split |-> Undivided,
     graphs |-> TRUE, mapped |-> FALSE, reuse |-> FALSE]
Plain(file) == Opened(file, Registry(file))
FusedOnLoad(file, nofit) == Opened(file, LoaderFused(file, nofit))
Divided(file, boundary) == [Plain(file) EXCEPT !.split = boundary]

(* test_chat and test_smoke: fuse_weights on the open model, no graphs. *)
Tool(file) ==
    LET f == FuseWeights(file, Registry(file), DetectArchitecture(file, Registry(file)))
    IN  [Plain(file) EXCEPT !.reg = f.reg, !.arch = f.arch, !.graphs = FALSE, !.reuse = TRUE]

ModelFiles ==
    {Plain(QwenFile), Plain([QwenFile EXCEPT !.fuseKv = TRUE]), Plain(BiasedFile), Plain(PhiFile),
     FusedOnLoad(LlamaFile, {}), Tool([BiasedFile EXCEPT !.quantized = FALSE]),
     Tool([LlamaFile EXCEPT !.quantized = FALSE]),
     [Plain(LlamaFile) EXCEPT !.mapped = TRUE],
     Plain(E4File), [Plain(E4File) EXCEPT !.mapped = TRUE], FusedOnLoad(UnifiedFile, {}), FusedOnLoad(UnifiedFile, {1}),
     Plain(UnifiedFile), Plain(MoeFile),
     Divided(UnifiedFile, 1), Divided(ImageFile("block"), 1), Plain(ImageFile("whole")),
     Plain([E4File EXCEPT !.image = "whole", !.chunk = 4])}

NotANumber == -100
MCOperations ==
  {[k |-> "pairs", f |-> "add", in |-> <<"a", "b">>, out |-> o, n |-> n] : o \in {"a", "c"}, n \in 2 .. 11}
  \cup {[k |-> "copy", in |-> <<"a">>, out |-> "c", n |-> n] : n \in 1 .. 11}
  \cup {[k |-> "each", f |-> f, in |-> <<"a", "b">>, out |-> o, n |-> n, dim |-> 2, layers |-> 1, layer |-> 0] :
          f \in {"silu_mul", "mul_scalar", "add_bias"}, o \in {"a", "c"}, n \in {1, 4, 6, 10}}
  \cup {[k |-> "each", f |-> f, in |-> <<"a", "b">>, out |-> "c", n |-> n, dim |-> 2, layers |-> 3, layer |-> y] :
          f \in {"gelu_mul_rounded", "ple_slice"}, n \in {2, 6}, y \in 0 .. 2}
  \cup {[k |-> "scatter", in |-> <<"a">>, out |-> "c", rows |-> 2, dim |-> d, indices |-> i, outRows |-> 3] :
          d \in {1, 3}, i \in {<<2, 0>>, <<-1, 1>>, <<3, 2>>}}
  \cup {[k |-> "split", in |-> <<"a">>, outs |-> SubSeq(<<"p", "q", "r">>, 1, Len(z)), rows |-> n, sizes |-> z] :
          n \in 1 .. 2, z \in {<<2, 1, 1>>, <<1, 2, 2>>, <<3, 2>>, <<1, 1>>}}
  \cup {[k |-> "embedding", out |-> "c", indices |-> i, dim |-> d, vocab |-> 3] : d \in {1, 3, 5}, i \in {<<2, 0>>, <<-1, 1>>, <<3, 2>>}}
  \cup {[k |-> "rms", in |-> "a", out |-> o, weight |-> w, rows |-> 2, dim |-> d, aligned |-> g] :
          o \in {"a", "c"}, w \in {"w", "none"}, d \in 1 .. 10, g \in BOOLEAN}
  \cup {[k |-> "residual", scalar |-> s, w2 |-> w, normed |-> n, rows |-> 2, dim |-> d, aligned |-> g] :
          s \in {"scalar", "none"}, w \in {"w2", "none"}, n \in {"normed", "none"}, d \in {2, 3, 4, 5, 6, 8}, g \in BOOLEAN}
  \cup {[k |-> "row_tree", f |-> f, in |-> <<"a">>, out |-> "c", rows |-> 2, dim |-> d] : f \in {"softmax", "layernorm"}, d \in {2, 4, 5, 6}}
  \cup {[k |-> "fused_add", in |-> <<"a", "b">>, hidden |-> h, out |-> "c", weight |-> "w", rows |-> 2, dim |-> d] :
          h \in {"a", "h"}, d \in {2, 4, 5, 6}}
  \cup {[k |-> "route", scores |-> <<<<a, b, c>>, <<c, 1, a>>>>, K |-> n, out |-> "ids"] :
          a \in 0 .. 2, b \in 0 .. 2, c \in 0 .. 2, n \in 1 .. 3}
  \cup {[k |-> "route", scores |-> <<<<NotANumber, NotANumber, NotANumber>>>>, K |-> n, out |-> "ids"] : n \in 1 .. 3}
  \cup {[k |-> "dots", in |-> <<"a">>, out |-> "c", weights |-> "w", experts |-> <<1, 0>>, stride |-> s, n |-> n, dim |-> d] :
          s \in {0, 4}, n \in 1 .. 2, d \in {2, 4}}
  \cup {[k |-> "experts", scores |-> s, K |-> 2, dim |-> 2, inner |-> 1, padded |-> p] :
          s \in {<<<<0, 1, 2>>>>, <<<<1, 1, 1>>>>, <<<<0, 1, 2>>, <<2, 1, 0>>>>, <<<<1, 1, 1>>, <<0, 0, 2>>>>, <<<<0, 1, 2>>, <<0, 2, 1>>>>}, p \in {1, 2}}
  \cup {[k |-> "pad", in |-> <<"a">>, out |-> "c", rows |-> 2, dim |-> d, padded |-> 3] : d \in 1 .. 3}

L == INSTANCE Launches WITH Block <- 4, MaxBlocks <- 2, Warp <- 2, Vector <- 2, MaxThreads <- 2,
                            NaN <- NotANumber, Requests <- MCOperations

KernelsModel == Plain(QwenFile)
AtRest == turns = 1 /\ hist = <<>> /\ done = NothingDone /\ decodeAt = NoPos /\ model = KernelsModel

kernel == <<request, queue, memory>>

(* Every format with rows that end inside a lane, a superblock, a window or *)
(* a turn of four superblocks, batches on both sides of the threshold and   *)
(* more rows than a block has.                                              *)
OfShape(f, M, K, N) == [k |-> "product", f |-> f, M |-> M, K |-> K, N |-> N, aligned |-> TRUE]
MCProducts ==
    {OfShape(f, 1, K, n) : f \in {"hq31k", "hq41k", "hq42k"}, K \in {3, 4, 7, 8, 10, 16, 18, 20}, n \in {1, 5}}
    \cup {OfShape("hq43k_g32", 1, K, n) : K \in {4, 8, 10, 16, 18, 20}, n \in {1, 5}}
    \cup {OfShape(f, M, K, 3) : f \in {"hq44k", "hq8k", "hq42k", "hq41k", "hq51k", "hq43k_g32"}, K \in {4, 8, 12, 16, 20, 28}, M \in 1 .. 3}
    \cup {OfShape(f, 3, K, 2) : f \in {"hq42k", "hq41k"}, K \in 1 .. 9} \cup {OfShape("hq31k", 3, 8, 2)}
    \cup {[k |-> "experts", K |-> K, N |-> n, aligned |-> TRUE, stride |-> s, experts |-> <<2, 0>>] :
             K \in {8, 16}, n \in {3, 9}, s \in {0, 16}}
    \cup {[k |-> "decode", f |-> f] : f \in Formats}

MCShapes == {<<r.f, r.K, r.N>> : r \in {q \in MCProducts : q.k = "product"}}
MCDeviceNames == <<<<"4070">>, <<"3060">>>>

\* The tuner is followed with one product, over several processes and GPUs.
TunedProduct == OfShape("hq44k", 1, 8, 3)
Untuned == asked = NoRequest /\ sidecar = <<>> /\ process = Fresh(FALSE) /\ processes = 1
TunedOnly == asked.k # "none" => asked.r = TunedProduct

MCInit == ForwardInit /\ model = KernelsModel /\ L!Init /\ ProductsInit /\ PartsInit /\ over = FALSE

MemoryStep ==
    /\ ~over /\ MemoryNext
    /\ UNCHANGED <<forwardVars, kernel, products, over>>

OpenModel ==
    /\ ~over /\ ~InFlight /\ position = MaxSeq
    /\ over' = TRUE
    /\ Clear /\ ring' = [l \in Layers |-> [s \in 0 .. Slots(l) - 1 |-> Unwritten]] /\ forward' = Idle
    /\ model' \in Models /\ engines' = [g \in 1..Cardinality(Gpus') |-> Memory(model')]
    /\ UNCHANGED <<hist, written, decodeAt, graph, unavailable, turns, done, kernel, products, kernels, calls, sampler>>

ForwardStep ==
    /\ over /\ request = L!NoRequest /\ Untuned /\ PartsRest
    /\ ForwardNext
    /\ UNCHANGED <<kernel, products, parts, over>>

LaunchStep ==
    /\ over /\ AtRest /\ Untuned /\ PartsRest
    /\ L!Next
    /\ UNCHANGED <<forwardVars, products, parts, over>>

ProductStep ==
    /\ over /\ AtRest /\ request = L!NoRequest /\ PartsRest
    /\ \/ Untuned /\ \E r \in MCProducts : ServeProduct(1, r)
       \/ TunedOnly /\ \E d \in 1 .. 2 : ServeProduct(d, TunedProduct)
       \/ TunedOnly /\ \E nocache, removed \in BOOLEAN : Restart(nocache, removed)
    /\ UNCHANGED <<forwardVars, kernel, parts, over>>

SamplingStep ==
    /\ over /\ AtRest /\ request = L!NoRequest /\ Untuned
    /\ SamplerStep
    /\ UNCHANGED <<forwardVars, kernel, products, over>>

MCNext == MemoryStep \/ OpenModel \/ ForwardStep \/ LaunchStep \/ ProductStep \/ SamplingStep

MCSpec == MCInit /\ [][MCNext]_<<forwardVars, kernel, products, parts, over>>

(* The launches of an operation leave in memory what it is for, whatever    *)
(* order the threads of a launch run in.                                    *)
ComputesTheOperation == L!ComputesTheOperation /\ L!ThreadsDoNotCollide
=============================================================================
