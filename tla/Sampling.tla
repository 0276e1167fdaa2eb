------------------------------ MODULE Sampling ------------------------------
(***************************************************************************)
(* The sampler: the penalties of the tokens a conversation has used, the    *)
(* greedy choice, and the draw from the K largest logits.                   *)
(*                                                                          *)
(* Logits are integers and the weight of exp(d / temperature) is a power of *)
(* two, exact, so that sums and comparisons are those of the code without   *)
(* their rounding; a draw is one of Draws equal parts of [0, 1), and top_p  *)
(* a percentage.  Temperatures are given as their inverse, 0 when the       *)
(* temperature is below the greedy threshold.                               *)
(***************************************************************************)
EXTENDS Ranges, SequencesExt, FiniteSetsExt

CONSTANTS
  Vocab,          \* vocab_size
  DefaultK,       \* the K of top_k 0
  MaxWarpK,       \* TK_MAX_K, and the length of probs
  PenaltyWindow,  \* penalty_window_
  Threads,        \* threads of the argmax block
  Warp, Warps,    \* lanes of a warp, warps of the top-K block
  Draws,          \* parts of [0, 1)
  Fed,            \* tokens the session feeds
  MaxContext,     \* bound on the context
  Logits,         \* rows of logits the forward may leave
  Configs         \* sampling configurations

VARIABLES
  penalized, \* context_
  scratch,   \* scratch_size_, in bytes
  sampled    \* the last call: rows, configuration, draws, results

sampler == <<penalized, scratch, sampled>>

Ids == 0 .. Vocab - 1
MinusMax == -1000000                       \* -FLT_MAX

\* exp(d / temperature), in parts of 2^12; nothing below.
Powers == <<1, 2, 4, 8, 16, 32, 64, 128, 256, 512, 1024, 2048, 4096>>
ExpOf(d) == IF d < -12 THEN 0 ELSE Powers[13 + d]
-----------------------------------------------------------------------------
(* Penalties.                                                               *)

Penalizes(c) == c.rep # 1 \/ c.freq # 0 \/ c.pres # 0

\* A logit whose token is n times in the window.
Penalty(logit, n, c) == (IF logit > 0 THEN logit \div c.rep ELSE logit * c.rep) - c.freq * n - c.pres

\* The last PenaltyWindow tokens.
WindowStart == Larger(0, Len(penalized) - PenaltyWindow)

\* A token inside the vocabulary is counted in its pair, or in a new one.
Count(pairs, t) ==
  IF t \notin Ids THEN pairs
  ELSE IF \E j \in DOMAIN pairs : pairs[j].id = t
    THEN [j \in DOMAIN pairs |-> IF pairs[j].id = t THEN [id |-> t, n |-> pairs[j].n + 1] ELSE pairs[j]]
    ELSE Append(pairs, [id |-> t, n |-> 1])

Counts ==
  LET pairs[i \in 0 .. Len(penalized) - WindowStart] ==
        IF i = 0 THEN <<>> ELSE Count(pairs[i - 1], penalized[WindowStart + i])
  IN  pairs[Len(penalized) - WindowStart]

\* A thread per pair; every thread reads the logits the launch was given.
Listed(pairs, t) == \E i \in DOMAIN pairs : pairs[i].id = t
CountOf(pairs, t) == pairs[CHOOSE i \in DOMAIN pairs : pairs[i].id = t].n

WindowPenalty(x, c) ==
  [t \in Ids |-> IF Listed(Counts, t) THEN Penalty(x[t], CountOf(Counts, t), c) ELSE x[t]]

\* The first version of the kernel: the counts of the whole vocabulary.
Uses(t) == {i \in WindowStart + 1 .. Len(penalized) : penalized[i] = t}

RepetitionPenalty(x, c) ==
  [t \in Ids |-> IF Uses(t) = {} THEN x[t] ELSE Penalty(x[t], Cardinality(Uses(t)), c)]
-----------------------------------------------------------------------------
(* The greedy choice.                                                       *)

Entry(x, i) == [v |-> x[i], i |-> i]

\* The best of a thread.
Better(best, e) == IF e.v > best.v THEN e ELSE best

Best(x, t) ==
  LET mine == Steps(t, Vocab, Threads)
      best[j \in 0 .. Len(mine)] == IF j = 0 THEN [v |-> MinusMax, i |-> 0] ELSE Better(best[j - 1], Entry(x, mine[j]))
  IN  best[Len(mine)]

\* Each half of the block is compared with the other, while there is one.
Halves == <<512, 256, 128, 64, 32, 16, 8, 4, 2, 1>>
Halved(s, half) ==
  [t \in DOMAIN s |-> IF half < Threads /\ t < half THEN Better(s[t], s[t + half]) ELSE s[t]]

Argmax(x) ==
  LET s[j \in 0 .. 10] == IF j = 0 THEN [t \in 0 .. Threads - 1 |-> Best(x, t)] ELSE Halved(s[j - 1], Halves[j])
  IN  s[10][0].i
-----------------------------------------------------------------------------
(* The K largest.                                                           *)

None == [v |-> MinusMax, i |-> -1]
NoneYet(k) == [j \in 1 .. k |-> None]

\* Insertion in a list in descending order, after its equals.
PlaceOf(list, e) == Max({0} \cup {j \in DOMAIN list : list[j].v >= e.v})

Offer(list, e) ==
  IF e.v <= Last(list).v THEN list
  ELSE LET p == PlaceOf(list, e) IN SubSeq(list, 1, p) \o <<e>> \o SubSeq(list, p + 1, Len(list) - 1)

\* One by one, those of the ballot.
OfferAll(list, entries, ballot) ==
  LET kept[l \in 0 .. Len(entries)] ==
        IF l = 0 THEN list ELSE IF l \in ballot THEN Offer(kept[l - 1], entries[l]) ELSE kept[l - 1]
  IN  kept[Len(entries)]

TopKSerial(x, k) == OfferAll(NoneYet(k), [i \in 1 .. Vocab |-> Entry(x, i - 1)], 1 .. Vocab)

\* The lanes of a warp vote by the last of its list.
LaneEntries(x, base) ==
  [l \in 1 .. Warp |-> IF base + l - 1 < Vocab THEN Entry(x, base + l - 1) ELSE [v |-> MinusMax, i |-> base + l - 1]]

WarpTurn(x, list, base) ==
  OfferAll(list, LaneEntries(x, base), {l \in 1 .. Warp : LaneEntries(x, base)[l].v > Last(list).v})

WarpList(x, k, w) ==
  LET bases == Steps(w * Warp, Vocab, Warps * Warp)
      list[n \in 0 .. Len(bases)] == IF n = 0 THEN NoneYet(k) ELSE WarpTurn(x, list[n - 1], bases[n])
  IN  list[Len(bases)]

\* Thread 0 merges the lists of the warps; what follows a refused entry, in order, is refused too.
TopKWarps(x, k) ==
  LET merged[w \in 0 .. Warps] == IF w = 0 THEN NoneYet(k) ELSE OfferAll(merged[w - 1], WarpList(x, k, w - 1), 1 .. k)
  IN  merged[Warps]

TopK(x, k) == IF k <= MaxWarpK THEN TopKWarps(x, k) ELSE TopKSerial(x, k)
-----------------------------------------------------------------------------
(* The draw.                                                                *)

Weights(list, c) == [j \in DOMAIN list |-> ExpOf((list[j].v - list[1].v) * c.inv)]

Cumulative(w) ==
  LET sum[j \in 0 .. Len(w)] == IF j = 0 THEN 0 ELSE sum[j - 1] + w[j]
  IN  sum

\* Mutant of SampleTopK: the survivors of top_p are not normalized again.
SampleTopK_NotNormalized(list, c, r) ==
  LET sum == Cumulative(Weights(list, c))
      k == Len(list)
      n == IF c.topP \in 1 .. 99 THEN Min({j \in 1 .. k : 100 * sum[j] >= c.topP * sum[k]}) ELSE k
      hit == {j \in 1 .. n : r * sum[k] < Draws * sum[j]}
  IN  list[IF hit = {} THEN n ELSE Min(hit)].i

\* sample_topk_gpu_kernel: softmax, the shortest prefix that reaches top_p,
\* and the first token whose cumulative weight passes the draw.
SampleTopK(list, c, r) ==
  LET sum == Cumulative(Weights(list, c))
      k == Len(list)
      n == IF c.topP \in 1 .. 99 THEN Min({j \in 1 .. k : 100 * sum[j] >= c.topP * sum[k]} \cup {k}) ELSE k
      hit == {j \in 1 .. n : r * sum[n] < Draws * sum[j]}
  IN  list[IF hit = {} THEN n ELSE Min(hit)].i
-----------------------------------------------------------------------------
(* A call.  The copy of the logits is behind the lists of top-K in scratch. *)

CopyK(c) == IF c.topK > 0 THEN c.topK ELSE DefaultK
DrawK(c) == IF c.topK <= 0 THEN DefaultK ELSE c.topK
ListBytes(k) == 12 * k + 4
EnsureScratch(size, k) == Larger(size, ListBytes(k) + 2 * Vocab)

\* What the sampler works on.  Another growth of scratch frees the copy.
Working(x, c, size) ==
  IF ~Penalizes(c) \/ penalized = <<>> THEN x
  ELSE IF c.inv # 0 /\ EnsureScratch(EnsureScratch(size, CopyK(c)), DrawK(c)) # EnsureScratch(size, CopyK(c))
    THEN [t \in Ids |-> MinusMax]
    ELSE WindowPenalty(x, c)

\* The lists and the token of a row.  The probabilities have room for
\* MaxWarpK tokens: beyond it what the kernel leaves is undefined.
Drawn(list, c, r) == IF Len(list) > MaxWarpK THEN Ids ELSE {SampleTopK(list, c, r)}

Outcomes(x, c, r, size) ==
  IF c.inv = 0 THEN {[list |-> <<>>, token |-> Argmax(Working(x, c, size))]}
  ELSE LET list == TopK(Working(x, c, size), DrawK(c)) IN {[list |-> list, token |-> t] : t \in Drawn(list, c, r)}

Scratched(c) ==
  LET copied == IF Penalizes(c) /\ penalized # <<>> THEN EnsureScratch(scratch, CopyK(c)) ELSE scratch
  IN  IF c.inv = 0 THEN copied ELSE EnsureScratch(copied, DrawK(c))

NoSample == [rows |-> <<>>, c |-> <<>>, draws |-> <<>>, results |-> <<>>]
SamplerInit == penalized = <<>> /\ scratch = 0 /\ sampled = NoSample

AddContext(t) ==
  /\ Len(penalized) < MaxContext
  /\ penalized' = Append(penalized, t) /\ sampled' = NoSample
  /\ UNCHANGED scratch

ClearContext == penalized' = <<>> /\ sampled' = NoSample /\ UNCHANGED scratch

\* sample.
Sample(x, c, r) ==
  /\ \E o \in Outcomes(x, c, r, scratch) :
       sampled' = [rows |-> <<x>>, c |-> c, draws |-> <<r>>, results |-> <<o>>]
  /\ scratch' = Scratched(c)
  /\ UNCHANGED penalized

\* sample_batch, of two rows: the second one finds the scratch the first has left.
SampleBatch(x, y, c, r, q) ==
  /\ \E o \in Outcomes(x, c, r, scratch), p \in Outcomes(y, c, q, Scratched(c)) :
       sampled' = [rows |-> <<x, y>>, c |-> c, draws |-> <<r, q>>, results |-> <<o, p>>]
  /\ scratch' = Scratched(c)
  /\ UNCHANGED penalized

\* sample_greedy: a repetition penalty of its own.
Greedy == [inv |-> 0, topK |-> 0, topP |-> 100, rep |-> 2, freq |-> 0, pres |-> 0]
SampleGreedy(x) == Sample(x, Greedy, 0)

SamplerNext ==
  \/ \E t \in Fed : AddContext(t)
  \/ ClearContext
  \/ \E x \in Logits, c \in Configs, r \in 0 .. Draws - 1 : Sample(x, c, r)
  \/ \E x, y \in Logits, c \in Configs, r \in 0 .. Draws - 1 : SampleBatch(x, y, c, r, 0)
  \/ \E x \in Logits : SampleGreedy(x)

SamplerSpec == SamplerInit /\ [][SamplerNext]_sampler
-----------------------------------------------------------------------------
(* The block of the argmax is a power of two, and every logit, penalized or *)
(* not, is above -FLT_MAX, far enough for exp to leave nothing between.     *)
Above(v) == v \in Int /\ MinusMax + 12 < v

ConfigAssumption(c) ==
  /\ c.inv \in Nat /\ c.topK \in Int /\ c.topP \in Int
  /\ c.rep \in Nat \ {0} /\ c.freq \in Int /\ c.pres \in Int
  /\ \A x \in Logits : \A t \in Ids : \A n \in 0 .. PenaltyWindow : Above(Penalty(x[t], n, c))

ASSUME SamplerAssumption ==
  /\ Vocab \in Nat \ {0} /\ DefaultK \in Nat \ {0} /\ MaxWarpK \in Nat /\ PenaltyWindow \in Nat
  /\ Threads \in {1, 2, 4, 8, 16, 32, 64, 128, 256, 512, 1024}
  /\ Warp \in Nat \ {0} /\ Warps \in Nat \ {0} /\ Draws \in Nat \ {0} /\ Fed \subseteq Int
  /\ \A x \in Logits : x \in [Ids -> Int] /\ \A t \in Ids : Above(x[t])
  /\ \A c \in Configs \cup {Greedy} : ConfigAssumption(c)
-----------------------------------------------------------------------------
(* The K largest of x: tokens, each once, from the largest to the smallest, *)
(* and no other one larger than the last.                                   *)
AreLargest(x, list, k) ==
  /\ \A j \in 1 .. k : list[j].i \in Ids /\ list[j].v = x[list[j].i]
  /\ \A j \in 1 .. k, i \in 1 .. k : i < j => list[i].v >= list[j].v /\ list[i].i # list[j].i
  /\ \A t \in Ids : x[t] <= list[k].v \/ \E j \in 1 .. k : list[j].i = t

(* What the draw falls on, when those kept are laid one after another: the  *)
(* whole list, or the shortest part of it that reaches top_p.               *)
FallsOn(list, k, c, r) ==
  LET upTo == Cumulative(Weights(SubSeq(list, 1, k), c))
      kept == IF c.topP \in 1 .. 99 THEN Min({j \in 1 .. k : 100 * upTo[j] >= c.topP * upTo[k]}) ELSE k
  IN  list[Min({j \in 1 .. kept : r * upTo[kept] < Draws * upTo[j]})].i

\* A draw is judged by the K of the configuration itself.  "0 = disabled"
\* (sampler.hpp:28) is not what the code does with it (DrawK): a draw with
\* top_k 0 is not judged.
IsAsked(row, c, r, result) ==
  LET x == IF Penalizes(c) THEN RepetitionPenalty(row, c) ELSE row
  IN  IF c.inv = 0 THEN result.token \in Ids /\ \A t \in Ids : x[t] <= x[result.token]
      ELSE c.topK > 0 => /\ AreLargest(x, result.list, Smaller(c.topK, Vocab))
                         /\ c.topK <= MaxWarpK => result.token = FallsOn(result.list, Smaller(c.topK, Vocab), c, r)

(* The token of every row is the one the configuration asks for: a largest  *)
(* logit, or the one that the draw falls on when the top_k largest, cut to  *)
(* the shortest prefix that reaches top_p, are laid one after another; the  *)
(* logits being those of the row with every token of the window penalized   *)
(* once, by its count.  Of a draw with a top_k over MaxWarpK only the list  *)
(* of the largest is judged; a draw with top_k 0 is not judged.             *)
SamplesWhatIsAsked ==
  \A b \in DOMAIN sampled.rows : IsAsked(sampled.rows[b], sampled.c, sampled.draws[b], sampled.results[b])
=============================================================================
