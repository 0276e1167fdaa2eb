------------------------------ MODULE Launches -------------------------------
(***************************************************************************)
(* The kernels around the products and the attention: elementwise,         *)
(* activations, embedding, normalization and the mixture of experts.       *)
(*                                                                         *)
(* An operation of the engine is one launch or several in stream order.  A *)
(* launch is a grid of threads that write concurrently; what each thread   *)
(* writes is a set of                                                      *)
(*   thread   who writes                                                   *)
(*   at       <<buffer, element>>                                          *)
(*   value    the term it computes: <<function, operands...>>              *)
(*   from     what it reads that no barrier separates from the writes      *)
(* so that the terms left in memory can be compared with the operation.    *)
(* A sum is the set of its terms and how many there are: its order, which  *)
(* only moves the last bit, is left out.                                   *)
(***************************************************************************)
EXTENDS Integers, Sequences, SequencesExt, FiniteSetsExt

CONSTANTS
  Block,      \* threads of a block
  MaxBlocks,  \* blocks of a grid
  Warp,       \* threads of a warp
  Vector,     \* halves of a vector load
  MaxThreads, \* vectors a block loads at once
  NaN,        \* a score that is not a number
  Requests    \* operations to ask for

VARIABLES
  request,    \* the operation in progress
  queue,      \* its launches, in stream order
  memory      \* the elements written

vars == <<request, queue, memory>>

CeilDiv(a, b) == (a + b - 1) \div b
Smaller(a, b) == IF a < b THEN a ELSE b
Larger(a, b) == IF a > b THEN a ELSE b
Up(a, b) == CeilDiv(a, b) * b
Steps(lo, hi, step) == [i \in 1 .. (IF hi > lo THEN CeilDiv(hi - lo, step) ELSE 0) |-> lo + (i - 1) * step]

Writes(thread, at, value, from) == [thread |-> thread, at |-> at, value |-> value, from |-> from]

\* An element of memory; what nobody has written is an input.
Load(m, buffer, i) == IF <<buffer, i>> \in DOMAIN m THEN m[<<buffer, i>>] ELSE <<"input", buffer, i>>

Total(terms) == <<"sum", Range(terms), Len(terms)>>
-----------------------------------------------------------------------------
(* Grids.                                                                   *)

\* A loop with the stride of the grid: what a thread takes of n elements.
GridStride(blocks, n) == {<<t, i>> \in (0 .. blocks * Block - 1) \X (0 .. n - 1) : (i - t) % (blocks * Block) = 0 /\ i >= t}

Blocks(n) == Smaller(CeilDiv(n, Block), MaxBlocks)

\* add, mul and scale: by pairs of halves, thread 0 takes the last odd one.
HalfPairs(m, l) ==
  LET operands(i) == [k \in DOMAIN l.in |-> <<l.in[k], i>>]
      blocks == Smaller(CeilDiv(l.n \div 2, Block), MaxBlocks)
  IN  {Writes(x[1], <<l.out, x[2]>>, <<l.f, [k \in DOMAIN l.in |-> Load(m, l.in[k], x[2])]>>, Range(operands(x[2]))) :
         x \in UNION {{<<y[1], 2 * y[2]>>, <<y[1], 2 * y[2] + 1>>} : y \in GridStride(blocks, l.n \div 2)}
               \cup {<<0, l.n - 1>> : odd \in {1} \cap {l.n % 2}}}

\* copy: by vectors, then the rest.
Copy(m, l) ==
  LET vectors == l.n \div Vector
      blocks == Larger(1, Smaller(CeilDiv(vectors, Block), MaxBlocks))
      whole == {<<y[1], y[2] * Vector + j>> : y \in GridStride(blocks, vectors), j \in 0 .. Vector - 1}
      rest == {<<y[1], vectors * Vector + y[2]>> : y \in GridStride(blocks, l.n - vectors * Vector)}
  IN  {Writes(x[1], <<l.out, x[2]>>, Load(m, l.in[1], x[2]), {<<l.in[1], x[2]>>}) : x \in whole \cup rest}

\* What an element is computed from: silu, gelu and softcap take one, their
\* products with up two; the per-layer embeddings take their layer's.
Operands(l, i) ==
  CASE l.f = "mul_scalar" -> << <<l.in[1], i>>, <<l.in[2], 0>> >>
    [] l.f = "add_bias" -> << <<l.in[1], i>>, <<l.in[2], i % l.dim>> >>
    [] l.f = "ple_slice" -> << <<l.in[1], ((i \div l.dim) * l.layers + l.layer) * l.dim + (i % l.dim)>> >>
    [] l.f = "gelu_mul_rounded" ->
         LET r == i \div l.dim IN << <<l.in[1], i>>, <<l.in[2], r * l.dim * l.layers + l.dim * l.layer + (i - r * l.dim)>> >>
    [] OTHER -> [k \in DOMAIN l.in |-> <<l.in[k], i>>]

\* A turn of the loop per element.
Elementwise(m, l) ==
  {Writes(x[1], <<l.out, x[2]>>, <<l.f, [k \in DOMAIN Operands(l, x[2]) |-> Load(m, Operands(l, x[2])[k][1], Operands(l, x[2])[k][2])]>>,
          Range(Operands(l, x[2]))) : x \in GridStride(Blocks(l.n), l.n)}

\* One thread per element, and those beyond the end return.
OnePer(n, Written(_)) == UNION {Written(t) : t \in {s \in 0 .. CeilDiv(n, Block) * Block - 1 : s < n}}

ScatterRows(m, l) ==
  OnePer(l.rows * l.dim, LAMBDA e :
    LET to == l.indices[e \div l.dim + 1]
    IN  IF to < 0 \/ to >= l.outRows THEN {}
        ELSE {Writes(e, <<l.out, to * l.dim + (e - (e \div l.dim) * l.dim)>>, Load(m, l.in[1], e), {<<l.in[1], e>>})})

\* split_2way and split_3way: the columns of each part to its own rows.
Split(m, l) ==
  LET fused == FoldLeft(+, 0, l.sizes)
      before(p) == FoldLeft(+, 0, SubSeq(l.sizes, 1, p - 1))
  IN  OnePer(l.rows * fused, LAMBDA e :
        LET row == e \div fused
            col == e % fused
            p == Min({q \in DOMAIN l.sizes : col < before(q) + l.sizes[q]} \cup {Len(l.sizes)})
        IN  {Writes(e, <<l.outs[p], row * l.sizes[p] + (col - before(p))>>, Load(m, l.in[1], e), {<<l.in[1], e>>})})

\* embedding_fp16: a block per token, zeros for an index out of the table.
Embedding(m, l) ==
  LET width == Smaller(Block, l.dim)
  IN  UNION {{Writes(<<token, t>>, <<l.out, (token - 1) * l.dim + d>>,
                IF l.indices[token] < 0 \/ l.indices[token] >= l.vocab THEN <<"zero">>
                ELSE Load(m, "table", l.indices[token] * l.dim + d), {}) :
                d \in Range(Steps(t, l.dim, width))} : token \in DOMAIN l.indices, t \in 0 .. width - 1}
-----------------------------------------------------------------------------
(* Reductions over a row.                                                   *)

\* The tree in shared memory: half of the threads add what the other half has.
Tree(parts) ==
  LET n == Len(parts)
      halved(p, s) == [i \in 1 .. n |-> IF i <= s THEN p[i] \o p[i + s] ELSE p[i]]
  IN  FoldLeft(LAMBDA p, s : IF s = 0 THEN p ELSE halved(p, s), parts,
               <<n \div 2, n \div 4, n \div 8, n \div 16>>)[1]

\* What each of threads adds of n elements.
Parts(threads, n) == [t \in 1 .. threads |-> Steps(t - 1, n, threads)]

\* Shuffles within each warp, and the sums of the warps through the first one.
WarpSums(parts) ==
  LET warps == CeilDiv(Len(parts), Warp)
      warp(w) == FlattenSeq([i \in 1 .. Warp |-> IF (w - 1) * Warp + i <= Len(parts) THEN parts[(w - 1) * Warp + i] ELSE <<>>])
  IN  IF warps > 1 THEN FlattenSeq([i \in 1 .. Warp |-> IF i <= warps THEN warp(i) ELSE <<>>]) ELSE warp(1)

\* The elements of a row that a sum has added, as terms.
Row(m, buffer, row, dim, elements) == [k \in DOMAIN elements |-> Load(m, buffer, row * dim + elements[k])]
Squares(terms) == [k \in DOMAIN terms |-> <<"square", terms[k]>>]

Normed(x, sum, w) == <<"normed", x, sum, w>>
Weight(m, w, i) == IF w = "none" THEN <<"one">> ELSE Load(m, w, i)

\* Mutant of TreeThreads: as many threads as elements, any number.
TreeThreads_Any(dim) == Smaller(Block, Larger(Warp, dim))

\* The scalar kernel halves its threads: it takes a power of two.
TreeThreads(dim) ==
  LET doubled(b) == IF b < dim /\ b < Block THEN 2 * b ELSE b
  IN  FoldLeft(LAMBDA b, i : doubled(b), Warp, <<1, 2, 3, 4>>)

RmsScalar(m, l) ==
  LET threads == TreeThreads(l.dim)
      sum(row) == Total(Squares(Row(m, l.in[1], row, l.dim, Tree(Parts(threads, l.dim)))))
  IN  {Writes(<<row, i % threads>>, <<l.out, row * l.dim + i>>,
              Normed(Load(m, l.in[1], row * l.dim + i), sum(row), Weight(m, l.weight, i)), {<<l.in[1], row * l.dim + i>>}) :
         row \in 0 .. l.rows - 1, i \in 0 .. l.dim - 1}

\* The elements of a vector.
Vectors(vs) == FlattenSeq([k \in DOMAIN vs |-> [j \in 1 .. Vector |-> vs[k] * Vector + j - 1]])

\* The vectorized kernel: each thread keeps 1, 2 or 4 vectors in registers.
RmsVector(m, l) ==
  LET vectors == l.dim \div Vector
      vpt == CeilDiv(vectors, MaxThreads)
      threads == Up(CeilDiv(vectors, vpt), Warp)
      kept == CASE vpt = 1 -> 1 [] vpt = 2 -> 2 [] OTHER -> 4
      mine(t) == SelectSeq([v \in 1 .. kept |-> t + (v - 1) * threads], LAMBDA i : i < vectors)
      sum(row) == Total(Squares(Row(m, l.in[1], row, l.dim, WarpSums([t \in 1 .. threads |-> Vectors(mine(t - 1))]))))
  IN  UNION {{Writes(<<row, t>>, <<l.out, row * l.dim + i>>,
                Normed(Load(m, l.in[1], row * l.dim + i), sum(row), Weight(m, l.weight, i)), {}) :
                i \in Range(Vectors(mine(t)))} : row \in 0 .. l.rows - 1, t \in 0 .. threads - 1}

\* The end of a block of Gemma 4 in one kernel, with a vector per thread.
RmsResidual(m, l) ==
  LET vectors == l.dim \div Vector
      threads == Up(vectors, Warp)
      mine(t) == IF t < vectors THEN Vectors(<<t>>) ELSE <<>>
      all == WarpSums([t \in 1 .. threads |-> mine(t - 1)])
      x(row, i) == Load(m, l.x, row * l.dim + i)
      sum1(row) == Total(Squares([k \in DOMAIN all |-> x(row, all[k])]))
      added(row, i) == <<"add", <<Load(m, l.hidden, row * l.dim + i), Normed(x(row, i), sum1(row), Weight(m, l.w1, i))>> >>
      hidden(row, i) == IF l.scalar = "none" THEN added(row, i) ELSE <<"mul_scalar", <<added(row, i), Load(m, l.scalar, 0)>> >>
      sum2(row) == Total(Squares([k \in DOMAIN all |-> hidden(row, all[k])]))
  IN  UNION {{Writes(<<row, t>>, <<l.hidden, row * l.dim + i>>, hidden(row, i), {}) : i \in Range(mine(t))}
             \cup {Writes(<<row, t>>, <<l.normed, row * l.dim + i>>, Normed(hidden(row, i), sum2(row), Weight(m, l.w2, i)), {}) :
                     i \in {j \in Range(mine(t)) : l.normed # "none"}} :
             row \in 0 .. l.rows - 1, t \in 0 .. threads - 1}

\* layernorm has a warp of threads at least.
RowThreads(l) == IF l.f = "layernorm" THEN Larger(Warp, Smaller(Block, l.dim)) ELSE Smaller(Block, l.dim)

\* softmax and layernorm: a tree over as many threads as the row, up to a block.
RowTree(m, l) ==
  LET threads == RowThreads(l)
      seen(row) == Row(m, l.in[1], row, l.dim, Tree(Parts(threads, l.dim)))
  IN  {Writes(<<row, i % threads>>, <<l.out, row * l.dim + i>>,
              <<l.f, Load(m, l.in[1], row * l.dim + i), Total(seen(row)), i>>, {<<l.in[1], row * l.dim + i>>}) :
         row \in 0 .. l.rows - 1, i \in 0 .. l.dim - 1}

\* fused_add_rmsnorm: the sum is the new residual, and it is read back.
FusedAdd(m, l) ==
  LET threads == Larger(Warp, Smaller(Block, l.dim))
      added(j) == <<"add", <<Load(m, l.in[1], j), Load(m, l.in[2], j)>> >>
      seen == Tree(Parts(threads, l.dim))
      sum(row) == Total(Squares([k \in DOMAIN seen |-> added(row * l.dim + seen[k])]))
  IN  UNION {{Writes(<<row, i % threads>>, <<l.hidden, row * l.dim + i>>, added(row * l.dim + i),
                     {<<l.in[1], row * l.dim + i>>, <<l.in[2], row * l.dim + i>>}),
              Writes(<<row, i % threads>>, <<l.out, row * l.dim + i>>,
                     Normed(added(row * l.dim + i), sum(row), Weight(m, l.weight, i)), {})} :
               row \in 0 .. l.rows - 1, i \in 0 .. l.dim - 1}
-----------------------------------------------------------------------------
(* The mixture of experts.                                                  *)

Above(a, b) == a # NaN /\ b # NaN /\ a > b

\* An expert takes its place among the best K if it beats the last of them.
Insert(best, e, value) ==
  LET before == Cardinality({k \in DOMAIN best : ~Above(value, best[k].value)})
  IN  IF ~Above(value, Last(best).value) THEN best
      ELSE SubSeq(best, 1, before) \o <<[value |-> value, id |-> e]>> \o SubSeq(best, before + 1, Len(best) - 1)

\* moe_route_kernel: a thread walks the experts of a token in order.
RouteIds(scores, K) ==
  LET best == FoldLeft(LAMBDA b, e : Insert(b, e - 1, scores[e]),
                       [k \in 1 .. K |-> [value |-> -1, id |-> k - 1]], [e \in DOMAIN scores |-> e])
  IN  [k \in 1 .. K |-> best[k].id]

Route(m, l) ==
  {Writes(token, <<l.out, (token - 1) * l.K + k - 1>>, <<"id", RouteIds(l.scores[token], l.K)[k]>>, {}) :
     token \in DOMAIN l.scores, k \in 1 .. l.K}

Product(x, w) == <<"product", x, w>>
Dot(X(_), weights, expert, n, elements) ==
  Total([c \in DOMAIN elements |-> Product(X(elements[c]), <<weights, expert, n, elements[c]>>)])

\* moe_logits_kernel and moe_indexed_gemv_fp16_kernel: a block per dot product,
\* with a power of two of threads.
BlockDots(m, l) ==
  {Writes(<<k, n>>, <<l.out, (k - 1) * l.n + n>>,
     Dot(LAMBDA c : Load(m, l.in[1], (k - 1) * l.stride + c), l.weights, l.experts[k], n, Tree(Parts(Block, l.dim))), {}) :
     k \in DOMAIN l.experts, n \in 0 .. l.n - 1}

\* The product of the rows of an expert, by cuBLAS or row by row.
ExpertMatmul(m, l) ==
  {Writes(<<row, n>>, <<l.out, row * l.n + n>>,
     Dot(LAMBDA c : Load(m, l.in[1], row * l.dim + c), l.weights, l.expert, n, Steps(0, l.dim, 1)), {}) :
     row \in 0 .. l.rows - 1, n \in 0 .. l.n - 1}

GatherRows(m, l) ==
  OnePer(Len(l.tokens) * l.dim, LAMBDA e :
    {Writes(e, <<l.out, e>>, Load(m, l.in[1], (l.tokens[e \div l.dim + 1] - 1) * l.dim + (e % l.dim)), {})})

\* The columns that pad the rows of down are zero.
GateUpMul(m, l) ==
  OnePer(l.rows * l.padded, LAMBDA e :
    LET row == e \div l.padded
        column == e % l.padded
    IN  {Writes(e, <<l.out, e>>,
           IF column >= l.dim THEN <<"zero">>
           ELSE <<"gelu_mul", <<Load(m, l.in[1], row * 2 * l.dim + column), Load(m, l.in[1], row * 2 * l.dim + l.dim + column)>> >>, {})})

Scaled(x, token, expert) == <<"scaled", x, <<"weight", token, expert>> >>
Sum(m, at) == IF at \in DOMAIN m THEN m[at] ELSE <<"added", {}>>

ScatterAdd(m, l) ==
  OnePer(Len(l.tokens) * l.dim, LAMBDA e :
    LET token == l.tokens[e \div l.dim + 1]
        at == <<l.out, (token - 1) * l.dim + (e % l.dim)>>
    IN  {Writes(e, at, <<"added", Sum(m, at)[2] \cup {Scaled(Load(m, l.in[1], e), token, l.expert)}>>, {at})})

Narrow(m, l) == OnePer(l.n, LAMBDA e : {Writes(e, <<l.out, e>>, <<"half", Sum(m, <<l.in[1], e>>)>>, {})})

WeightedSum(m, l) ==
  OnePer(l.dim, LAMBDA e :
    {Writes(e, <<l.out, e>>,
       <<"half", <<"added", {Scaled(Load(m, l.in[1], (k - 1) * l.dim + e), 1, l.experts[k]) : k \in DOMAIN l.experts}>> >>, {})})

Pad(m, l) ==
  OnePer(l.rows * l.padded, LAMBDA e :
    {Writes(e, <<l.out, e>>, IF e % l.padded < l.dim THEN Load(m, l.in[1], (e \div l.padded) * l.dim + (e % l.padded)) ELSE <<"zero">>, {})})
-----------------------------------------------------------------------------
(* The operations of the engine.                                            *)

WritesOf(m, l) ==
  CASE l.k = "pairs" -> HalfPairs(m, l)
    [] l.k = "each" -> Elementwise(m, l)
    [] l.k = "copy" -> Copy(m, l)
    [] l.k = "scatter" -> ScatterRows(m, l)
    [] l.k = "split" -> Split(m, l)
    [] l.k = "embedding" -> Embedding(m, l)
    [] l.k = "rms_scalar" -> RmsScalar(m, l)
    [] l.k = "rms_vector" -> RmsVector(m, l)
    [] l.k = "rms_residual" -> RmsResidual(m, l)
    [] l.k = "row_tree" -> RowTree(m, l)
    [] l.k = "fused_add" -> FusedAdd(m, l)
    [] l.k = "route" -> Route(m, l)
    [] l.k = "dots" -> BlockDots(m, l)
    [] l.k = "matmul" -> ExpertMatmul(m, l)
    [] l.k = "gather" -> GatherRows(m, l)
    [] l.k = "gate_up_mul" -> GateUpMul(m, l)
    [] l.k = "scatter_add" -> ScatterAdd(m, l)
    [] l.k = "narrow" -> Narrow(m, l)
    [] l.k = "weighted_sum" -> WeightedSum(m, l)
    [] l.k = "pad" -> Pad(m, l)

Rms(in, weight, out, r) ==
  [k |-> IF r.dim % Vector = 0 /\ r.dim \div Vector <= 4 * MaxThreads /\ r.aligned THEN "rms_vector" ELSE "rms_scalar",
   in |-> <<in>>, weight |-> weight, out |-> out, rows |-> r.rows, dim |-> r.dim]

\* Fused where a vector per thread is enough, else the operations it replaces.
Residual(r) ==
  LET n == r.rows * r.dim IN
  IF r.dim % Vector = 0 /\ r.dim \div Vector <= MaxThreads /\ r.aligned
  THEN <<[k |-> "rms_residual", x |-> "x", w1 |-> "w1", hidden |-> "hidden", scalar |-> r.scalar, w2 |-> r.w2,
          normed |-> r.normed, rows |-> r.rows, dim |-> r.dim]>>
  ELSE <<Rms("x", "w1", "x", r), [k |-> "pairs", f |-> "add", in |-> <<"hidden", "x">>, out |-> "hidden", n |-> n]>>
       \o (IF r.scalar = "none" THEN <<>>
           ELSE <<[k |-> "each", f |-> "mul_scalar", in |-> <<"hidden", r.scalar>>, out |-> "hidden", n |-> n]>>)
       \o (IF r.normed = "none" THEN <<>> ELSE <<Rms("hidden", r.w2, r.normed, r)>>)

\* run_moe_experts_reference: the host groups the tokens by expert.
RoutedTo(r, e) == SelectSeq([t \in DOMAIN r.scores |-> t], LAMBDA t : e \in Range(RouteIds(r.scores[t], r.K)))

Expert(r, e) ==
  LET rows == Len(RoutedTo(r, e)) IN
  <<[k |-> "gather", in |-> <<"moe_in">>, out |-> "gathered", tokens |-> RoutedTo(r, e), dim |-> r.dim],
    [k |-> "matmul", in |-> <<"gathered">>, out |-> "gate_up", weights |-> "gate_up_w", expert |-> e,
     rows |-> rows, dim |-> r.dim, n |-> 2 * r.inner],
    [k |-> "gate_up_mul", in |-> <<"gate_up">>, out |-> "inner", rows |-> rows, dim |-> r.inner, padded |-> r.padded],
    [k |-> "matmul", in |-> <<"inner">>, out |-> "rows", weights |-> "down_w", expert |-> e,
     rows |-> rows, dim |-> r.padded, n |-> r.dim],
    [k |-> "scatter_add", in |-> <<"rows">>, out |-> "sums", tokens |-> RoutedTo(r, e), expert |-> e, dim |-> r.dim]>>

Experts(r) ==
  FlattenSeq([e \in 1 .. Len(r.scores[1]) |-> IF RoutedTo(r, e - 1) = <<>> THEN <<>> ELSE Expert(r, e - 1)])
    \o <<[k |-> "narrow", in |-> <<"sums">>, out |-> "moe_out", n |-> Len(r.scores) * r.dim]>>

\* launch_moe_experts_decode: the experts are read from the device.
ExpertsDecode(r) ==
  LET experts == RouteIds(r.scores[1], r.K) IN
  <<[k |-> "dots", in |-> <<"moe_in">>, out |-> "gate_up", weights |-> "gate_up_w", experts |-> experts, stride |-> 0,
     n |-> 2 * r.inner, dim |-> r.dim],
    [k |-> "gate_up_mul", in |-> <<"gate_up">>, out |-> "inner", rows |-> r.K, dim |-> r.inner, padded |-> r.padded],
    [k |-> "dots", in |-> <<"inner">>, out |-> "rows", weights |-> "down_w", experts |-> experts, stride |-> r.padded,
     n |-> r.dim, dim |-> r.padded],
    [k |-> "weighted_sum", in |-> <<"rows">>, out |-> "moe_out", experts |-> experts, dim |-> r.dim]>>

LaunchesOf(r) ==
  CASE r.k = "rms" -> <<Rms(r.in, r.weight, r.out, r)>>
    [] r.k = "residual" -> Residual(r)
    [] r.k = "experts" -> IF Len(r.scores) = 1 THEN ExpertsDecode(r) ELSE Experts(r)
    [] OTHER -> <<r>>

NoRequest == [k |-> "none"]

Init == request = NoRequest /\ queue = <<>> /\ memory = [at \in {} |-> <<>>]

Ask(r) ==
  /\ request = NoRequest
  /\ request' = r /\ queue' = LaunchesOf(r)
  /\ UNCHANGED memory

\* A launch: all of its threads, which do not depend on each other.
Launch ==
  /\ queue # <<>>
  /\ LET written == WritesOf(memory, Head(queue))
         values == [at \in {w.at : w \in written} |-> (CHOOSE w \in written : w.at = at).value]
     IN  memory' = [at \in DOMAIN memory \cup DOMAIN values |-> IF at \in DOMAIN values THEN values[at] ELSE memory[at]]
  /\ queue' = Tail(queue)
  /\ UNCHANGED request

Finish ==
  /\ request # NoRequest /\ queue = <<>>
  /\ request' = NoRequest /\ memory' = [at \in {} |-> <<>>]
  /\ UNCHANGED queue

Next == (\E r \in Requests : Ask(r)) \/ Launch \/ Finish

Spec == Init /\ [][Next]_vars
-----------------------------------------------------------------------------
(* What each operation is for, element by element.                          *)

RowSum(F(_), dim) == Total([i \in 1 .. dim |-> <<"square", F(i - 1)>>])
In(b, i) == <<"input", b, i>>
WeightIn(w, i) == IF w = "none" THEN <<"one">> ELSE In(w, i)

\* The scores of a token, the best first and the lower of two equal ones first.
Best(scores, K) ==
  LET better(a, b) == Above(scores[a], scores[b]) \/ (~Above(scores[b], scores[a]) /\ a < b)
      sorted == SetToSortSeq(DOMAIN scores, better)
  IN  [k \in 1 .. K |-> sorted[k] - 1]

ExpertRow(r, t, e, column) ==
  LET gate(n) == Dot(LAMBDA c : In("moe_in", (t - 1) * r.dim + c), "gate_up_w", e, n, Steps(0, r.dim, 1))
      inner(c) == IF c >= r.inner THEN <<"zero">> ELSE <<"gelu_mul", <<gate(c), gate(r.inner + c)>> >>
  IN  Dot(inner, "down_w", e, column, Steps(0, r.padded, 1))

Defined(r) ==
  CASE r.k \in {"pairs", "copy"} ->
         [at \in {r.out} \X (0 .. r.n - 1) |->
            IF r.k = "copy" THEN In(r.in[1], at[2]) ELSE <<r.f, [k \in DOMAIN r.in |-> In(r.in[k], at[2])]>>]
    [] r.k = "each" ->
         [at \in {r.out} \X (0 .. r.n - 1) |-> LET i == at[2] IN <<r.f,
            CASE r.f = "mul_scalar" -> <<In(r.in[1], i), In(r.in[2], 0)>>
              [] r.f = "add_bias" -> <<In(r.in[1], i), In(r.in[2], i % r.dim)>>
              [] r.f = "ple_slice" -> <<In(r.in[1], (i \div r.dim) * r.dim * r.layers + r.layer * r.dim + (i % r.dim))>>
              [] r.f = "gelu_mul_rounded" ->
                   <<In(r.in[1], i), In(r.in[2], (i \div r.dim) * r.dim * r.layers + r.layer * r.dim + (i % r.dim))>>
              [] OTHER -> [k \in DOMAIN r.in |-> In(r.in[k], i)]>>]
    [] r.k = "scatter" ->
         [at \in {<<r.out, r.indices[row] * r.dim + c>> : row \in {n \in DOMAIN r.indices : r.indices[n] \in 0 .. r.outRows - 1},
                                                       c \in 0 .. r.dim - 1} |->
            In(r.in[1], ((CHOOSE row \in DOMAIN r.indices : r.indices[row] = at[2] \div r.dim) - 1) * r.dim + (at[2] % r.dim))]
    [] r.k = "split" ->
         LET fused == FoldLeft(+, 0, r.sizes)
             part(b) == CHOOSE p \in DOMAIN r.outs : r.outs[p] = b
         IN  [at \in UNION {{r.outs[p]} \X (0 .. r.rows * r.sizes[p] - 1) : p \in DOMAIN r.outs} |->
                LET p == part(at[1]) IN
                  In(r.in[1], (at[2] \div r.sizes[p]) * fused + FoldLeft(+, 0, SubSeq(r.sizes, 1, p - 1)) + (at[2] % r.sizes[p]))]
    [] r.k = "embedding" ->
         [at \in {r.out} \X (0 .. Len(r.indices) * r.dim - 1) |->
            LET index == r.indices[at[2] \div r.dim + 1]
            IN  IF index \in 0 .. r.vocab - 1 THEN In("table", index * r.dim + (at[2] % r.dim)) ELSE <<"zero">>]
    [] r.k = "rms" ->
         [at \in {r.out} \X (0 .. r.rows * r.dim - 1) |->
            LET row == at[2] \div r.dim
            IN  Normed(In(r.in, at[2]), RowSum(LAMBDA i : In(r.in, row * r.dim + i), r.dim), WeightIn(r.weight, at[2] % r.dim))]
    [] r.k = "residual" ->
         LET x(row, i) == Normed(In("x", row * r.dim + i), RowSum(LAMBDA j : In("x", row * r.dim + j), r.dim), In("w1", i))
             added(row, i) == <<"add", <<In("hidden", row * r.dim + i), x(row, i)>> >>
             hidden(row, i) == IF r.scalar = "none" THEN added(row, i) ELSE <<"mul_scalar", <<added(row, i), In(r.scalar, 0)>> >>
         IN  [at \in ({"hidden", r.normed} \ {"none"}) \X (0 .. r.rows * r.dim - 1) |->
                LET row == at[2] \div r.dim
                    i == at[2] % r.dim
                IN  IF at[1] = "hidden" THEN hidden(row, i)
                    ELSE Normed(hidden(row, i), RowSum(LAMBDA j : hidden(row, j), r.dim), WeightIn(r.w2, i))]
    [] r.k = "row_tree" ->
         [at \in {r.out} \X (0 .. r.rows * r.dim - 1) |->
            LET row == at[2] \div r.dim
            IN  <<r.f, In(r.in[1], at[2]), Total([i \in 1 .. r.dim |-> In(r.in[1], row * r.dim + i - 1)]), at[2] % r.dim>>]
    [] r.k = "fused_add" ->
         LET added(row, i) == <<"add", <<In(r.in[1], row * r.dim + i), In(r.in[2], row * r.dim + i)>> >>
         IN  [at \in {r.hidden, r.out} \X (0 .. r.rows * r.dim - 1) |->
                LET row == at[2] \div r.dim
                    i == at[2] % r.dim
                IN  IF at[1] = r.hidden THEN added(row, i)
                    ELSE Normed(added(row, i), RowSum(LAMBDA j : added(row, j), r.dim), In(r.weight, i))]
    [] r.k = "route" ->
         [at \in {r.out} \X (0 .. Len(r.scores) * r.K - 1) |-> <<"id", Best(r.scores[at[2] \div r.K + 1], r.K)[(at[2] % r.K) + 1]>>]
    [] r.k = "dots" ->
         [at \in {r.out} \X (0 .. Len(r.experts) * r.n - 1) |->
            LET k == at[2] \div r.n
            IN  Dot(LAMBDA c : In(r.in[1], k * r.stride + c), r.weights, r.experts[k + 1], at[2] % r.n, Steps(0, r.dim, 1))]
    [] r.k = "experts" ->
         [at \in {"moe_out"} \X (0 .. Len(r.scores) * r.dim - 1) |->
            LET t == (at[2] \div r.dim) + 1
            IN  <<"half", <<"added", {Scaled(ExpertRow(r, t, e, at[2] % r.dim), t, e) : e \in Range(Best(r.scores[t], r.K))}>> >>]
    [] r.k = "pad" ->
         [at \in {r.out} \X (0 .. r.rows * r.padded - 1) |->
            LET c == at[2] % r.padded
            IN  IF c < r.dim THEN In(r.in[1], (at[2] \div r.padded) * r.dim + c) ELSE <<"zero">>]

(* Whatever kernel was chosen and however its grid cut the elements, the    *)
(* launches leave the operation in memory: every element of its output,     *)
(* once and from the right operands, sums with every term, and nothing past *)
(* the end.  A fused kernel leaves what the sequence it replaces leaves,    *)
(* and a token gets from the experts the same in a batch as when decoding.  *)
ComputesTheOperation ==
  request # NoRequest /\ queue = <<>> =>
    LET defined == Defined(request) IN
    /\ \A at \in DOMAIN defined : at \in DOMAIN memory /\ memory[at] = defined[at]
    /\ \A at \in DOMAIN memory : at[1] \in {d[1] : d \in DOMAIN defined} => at \in DOMAIN defined

(* No two threads of a launch write the same element, and none reads what   *)
(* another one writes, also when the operation works in place.              *)
ThreadsDoNotCollide ==
  queue # <<>> =>
    \A v, w \in WritesOf(memory, Head(queue)) :
      v.thread # w.thread => v.at # w.at /\ v.at \notin w.from
=============================================================================
