------------------------------ MODULE MCKvRing ------------------------------
(***************************************************************************)
(* The rings of the KV, the kernels that read them, and the sampler that   *)
(* draws the next token.                                                   *)
(*                                                                         *)
(* The rings: one sliding and one global layer, with a sequence longer     *)
(* than the ring so that it wraps.  The kernels: two heads over contexts   *)
(* of up to seven rows, in warps of one or two keys and tiles of two or    *)
(* three, so that parts are uneven, empty or fully masked.  A process asks *)
(* for any attention, for another one in the workspace the first has left, *)
(* and ends.  The sampler: a vocabulary of six tokens, lists of up to four *)
(* in two warps of two lanes, contexts of up to three tokens, one of them  *)
(* outside of the vocabulary, and a call after another in the scratch the  *)
(* first one left.                                                         *)
(*                                                                         *)
(* The kernels take the rings as they are and leave them so, and the       *)
(* sampler takes any logits: each part is run with the others at rest.     *)
(***************************************************************************)
EXTENDS KvRing, Attention, Sampling, TLC

VARIABLE calls      \* how many the process has asked for

MCWindow == (0 :> 2) @@ (1 :> 0)
TokenSymmetry == Permutations(Tokens)

MCShape ==
  [warps |-> 3, splits |-> 2, minChunk |-> 2, tile |-> 3, tileWarps |-> 2, ilp |-> 1, vilp |-> 2, groups |-> 2,
   groupedTile |-> 2, queryTile |-> 2, keyTile |-> 2, rowTile |-> 5, wideTile |-> 2, wideLimit |-> 5,
   gemmFrom |-> 2, keyUnit |-> 2, keyAlign |-> 2, budget |-> 12]

Zigzag == [p \in -1 .. 6 |-> (p * 3) % 4]

Attending(op, past, new, layer, kvHeads, dim, opts) ==
  [op |-> op, past |-> past, new |-> new, window |-> layer[1], slots |-> layer[2], maxSeq |-> 7,
   heads |-> 2, kvHeads |-> kvHeads, dim |-> dim, from |-> 0, to |-> 0, opts |-> opts, score |-> Zigzag]

\* Window and slots of a layer: global, a ring, a window over a linear cache.
LayerKinds == {<<0, 0>>, <<2, 5>>, <<2, 0>>}
Decodes ==
  {Attending("cached", p, 1, l, k, 512, o) : p \in 0 .. 6, l \in LayerKinds, k \in {1, 2},
     o \in {{}, {"device"}, {"device", "split"}, {"device", "flash"}, {"device", "flash", "grouped", "mma"}}}
Prefills ==
  {Attending("prefill", p, n, l, 1, d, o) : p \in {0, 1, 4}, n \in 1 .. 3, l \in LayerKinds, d \in {64, 128, 256, 512},
     o \in {{"mma", "flash", "gemm"}, {"gemm"}, {"coalesced"}, {}}}
Images ==
  {[c EXCEPT !.from = 2, !.to = 4] : c \in {d \in Prefills : 4 <= d.past + d.new /\ d.window > 0}}
FirstRows == {Attending("attention", 0, n, l, k, 64, {}) : n \in 1 .. 3, l \in LayerKinds, k \in {1, 2}}
Rotations ==
  {[op |-> "rope", fused |-> f[1], cache |-> f[2], proportional |-> f[3], past |-> p, new |-> n,
    heads |-> 2, kvHeads |-> 1, dim |-> 6, rotary |-> r, maxSeq |-> 4] :
      p \in {0, 3}, n \in 1 .. 2, r \in {0, 2, 4},
      f \in {<<FALSE, FALSE, FALSE>>, <<FALSE, FALSE, TRUE>>, <<TRUE, FALSE, FALSE>>, <<TRUE, TRUE, FALSE>>}}
MCCalls == Decodes \cup Prefills \cup Images \cup FirstRows \cup Rotations

\* What may be asked for next: the calls that read the workspace, one of each kind.
MCSecond ==
  {c \in Decodes : c.kvHeads = 1 /\ c.past \in {0, 3} /\ c.opts # {}}
    \cup {c \in Prefills \cup Images : c.opts = {"gemm"} /\ c.past # 4 /\ c.dim = 64 /\ c.new > 1}

\* And after that: a small one by GEMMs, in what two others have left.
MCThird == {Attending("prefill", 0, 2, <<0, 0>>, 1, 64, {"gemm"})}

LogitsOf(a, b, c, d, e, f) == [i \in 0 .. 5 |-> <<a, b, c, d, e, f>>[i + 1]]
Flat == LogitsOf(0, 4, 3, 0, 2, 1)
Tied == LogitsOf(3, -2, 3, 3, -1, 0)
MCLogits == {Flat, Tied, LogitsOf(-6, -5, -4, -3, -2, -1)}
Config(inv, k, p, rep, freq, pres) == [inv |-> inv, topK |-> k, topP |-> p, rep |-> rep, freq |-> freq, pres |-> pres]
MCConfigs ==
  {Config(0, 0, 100, 1, 0, 0), Config(0, 0, 100, 2, 1, 0), Config(1, 0, 100, 1, 0, 0), Config(1, 0, 100, 2, 0, 1),
   Config(1, 1, 100, 1, 0, 0), Config(2, 3, 60, 1, 1, 0), Config(1, 3, 80, 3, 0, 0), Config(1, 3, 100, 1, 1, 1),
   Config(1, 4, 80, 2, 1, 1)}

parts == <<vars, kernels, calls, sampler>>

PartsInit == Init /\ AttentionInit /\ calls = 0 /\ SamplerInit

RingsRest == position = 0 /\ writtenUntil = 0 /\ ~InFlight /\ \A l \in Layers : ring[l][0] = Unwritten
KernelsRest == calls = 0 /\ stage.at = "idle"
SamplerRests == penalized = <<>> /\ scratch = 0 /\ sampled = NoSample
PartsRest == RingsRest /\ KernelsRest /\ SamplerRests

RingStep == KernelsRest /\ SamplerRests /\ Next /\ UNCHANGED <<kernels, calls, sampler>>

AskStep ==
  /\ RingsRest /\ SamplerRests
  /\ \E c \in (CASE calls = 0 -> MCCalls [] calls = 1 -> MCSecond [] calls = 2 -> MCThird [] OTHER -> {}) : Ask(c)
  /\ calls' = calls + 1
  /\ UNCHANGED <<vars, sampler>>

KernelStep == Serve /\ UNCHANGED <<vars, calls, sampler>>

\* The process ends, and its device memory with it; it has to once the device is lost.
EndProcess ==
  /\ stage.at = "lost" \/ (calls = 3 /\ stage.at = "idle")
  /\ call' = NoCall /\ stage' = At("idle", 0) /\ output' = Nothing
  /\ calls' = 0 /\ partials' = Nothing /\ ws' = NoWorkspace
  /\ UNCHANGED <<vars, merging, sampler>>

\* SamplerNext, of which two rows are drawn of one pair only.
Asking ==
  \/ \E t \in Fed : AddContext(t)
  \/ ClearContext
  \/ \E c \in Configs, r \in 0 .. Draws - 1 : (\E x \in Logits : Sample(x, c, r)) \/ SampleBatch(Flat, Tied, c, r, 0)
  \/ \E x \in Logits : SampleGreedy(x)

\* Of the calls of a row, one is followed further.
SamplerStep ==
  /\ RingsRest /\ KernelsRest
  /\ IF sampled = NoSample THEN Asking
     ELSE IF sampled.rows = <<Flat>> /\ sampled.draws = <<0>> THEN ClearContext \/ \E t \in {0, 2, 9} : AddContext(t)
     ELSE penalized' = <<>> /\ scratch' = 0 /\ sampled' = NoSample
  /\ UNCHANGED <<vars, kernels, calls>>

MemoryNext == RingStep \/ AskStep \/ KernelStep \/ EndProcess
PartsNext == MemoryNext \/ SamplerStep

PartsSpec == PartsInit /\ [][PartsNext]_parts

=============================================================================
