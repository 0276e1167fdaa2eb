--------------------------- MODULE AttentionProofs ----------------------------
(***************************************************************************)
(* What is proved of the attention kernels, for any shapes and any calls,  *)
(* and of the rings they read.                                             *)
(*                                                                         *)
(* A kernel is right when its parts, tiles and blocks divide the keys that *)
(* a query sees: the proof says, for each kernel, which keys each of its   *)
(* parts has, and that no key is in two of them or in none.  The online    *)
(* softmax then adds each row once, relative to the largest score.         *)
(***************************************************************************)
EXTENDS KvRing, Attention, FiniteSetTheorems, WellFoundedInduction, TLAPS

-----------------------------------------------------------------------------
(* Induction over an initial part of the naturals, and division.            *)

\* The order of the naturals has no endless descent.
LEMMA NatWF == IsWellFoundedOn({ss \in Nat \X Nat : ss[1] < ss[2]}, Nat)
  BY NatLessThanWellFounded DEF OpToRel

\* A set of naturals that is not empty has a least element.
LEMMA Least ==
  ASSUME NEW T \in SUBSET Nat, T # {}
  PROVE  \E x \in T : \A y \in T : x <= y
  <1> DEFINE R == {ss \in Nat \X Nat : ss[1] < ss[2]}
  <1>1. \E x \in T : \A y \in T : ~(<<y, x>> \in R)
    <2> HIDE DEF R
    <2> QED BY NatWF, WFMin DEF R
  <1>2. PICK x \in T : \A y \in T : ~(<<y, x>> \in R)
    BY <1>1
  <1>3. ASSUME NEW y \in T PROVE x <= y
    <2>1. x \in Nat /\ y \in Nat
      OBVIOUS
    <2>2. ~(<<y, x>> \in R)
      BY <1>2
    <2>3. ~(y < x)
      BY <2>1, <2>2
    <2> QED BY <2>1, <2>3
  <1> QED BY <1>3

\* What holds of 0, and of the next number whenever it holds of one, holds of all up to n.
LEMMA UpTo ==
  ASSUME NEW n \in Nat, NEW Good, 0 \in Good,
         \A m \in 0 .. n : m < n /\ m \in Good => m + 1 \in Good
  PROVE  \A m \in 0 .. n : m \in Good
  <1> DEFINE T == {m \in 0 .. n : m \notin Good}
  <1>1. SUFFICES ASSUME T # {} PROVE FALSE
    OBVIOUS
  <1>2. T \in SUBSET Nat
    OBVIOUS
  <1>3. PICK m \in T : \A k \in T : m <= k
    <2> HIDE DEF T
    <2> QED BY <1>1, <1>2, Least
  <1>4. m # 0 /\ m \in 0 .. n
    OBVIOUS
  <1>5. m - 1 \in 0 .. n /\ m - 1 \in Good
    BY <1>3, <1>4
  <1> QED BY <1>4, <1>5

\* Quotient and remainder.
LEMMA DivMod ==
  ASSUME NEW a \in Int, NEW s \in Positive
  PROVE  /\ a = s * (a \div s) + (a % s)
         /\ a % s \in 0 .. s - 1
         /\ a \div s \in Int
         /\ a \in Nat => a \div s \in Nat
  BY DEF Positive

\* Multiples keep the order.
LEMMA TimesOrder ==
  ASSUME NEW s \in Nat, NEW a \in Int, NEW b \in Int, a <= b
  PROVE  s * a <= s * b /\ s * a \in Int /\ s * b \in Int
  <1>1. s * (b - a) >= 0 /\ s * (b - a) = s * b - s * a
    OBVIOUS
  <1> QED BY <1>1

\* There is one quotient.
LEMMA Quotient ==
  ASSUME NEW s \in Positive, NEW q \in Int, NEW r \in 0 .. s - 1
  PROVE  (s * q + r) \div s = q /\ (s * q + r) % s = r
  <1> DEFINE a == s * q + r
             d == a \div s
  <1>0. s \in Nat /\ s * q \in Int
    BY DEF Positive
  <1>1. a \in Int /\ a = s * d + (a % s) /\ a % s \in 0 .. s - 1 /\ d \in Int
    <2>1. a \in Int
      BY <1>0
    <2> HIDE DEF a
    <2> QED BY <2>1, DivMod
  <1> DEFINE m == a % s
  <1> HIDE DEF d, m
  <1>1a. a = s * d + m /\ m \in 0 .. s - 1
    BY <1>1 DEF d, m
  <1>2. CASE d < q
    <2>1. s * (d + 1) <= s * q /\ s * (d + 1) = s * d + s /\ s * d \in Int
      BY <1>0, <1>1, <1>2, TimesOrder
    <2> QED BY <1>0, <1>1a, <2>1
  <1>3. CASE d > q
    <2>1. s * (q + 1) <= s * d /\ s * (q + 1) = s * q + s /\ s * d \in Int
      BY <1>0, <1>1, <1>3, TimesOrder
    <2> QED BY <1>0, <1>1a, <2>1
  <1>4. CASE d = q
    <2>1. m = r
      BY <1>0, <1>1a, <1>4
    <2> QED BY <2>1, <1>4 DEF d, m
  <1> QED BY <1>1, <1>2, <1>3, <1>4

\* Two numbers in the same slot are a turn of the ring apart.
LEMMA SameSlot ==
  ASSUME NEW s \in Positive, NEW a \in Int, NEW b \in Int, a < b, a % s = b % s
  PROVE  a + s <= b
  <1>1. /\ a = s * (a \div s) + (a % s) /\ a \div s \in Int /\ a % s \in Int
        /\ b = s * (b \div s) + (b % s) /\ b \div s \in Int /\ s \in Nat
    BY DivMod DEF Positive
  <1> DEFINE x == a \div s
             y == b \div s
  <1> HIDE DEF x, y
  <1>2. CASE y <= x
    <2>1. s * y <= s * x /\ s * y \in Int /\ s * x \in Int
      BY <1>1, <1>2, TimesOrder DEF x, y
    <2> QED BY <1>1, <2>1 DEF x, y
  <1>3. CASE x < y
    <2>1. s * (x + 1) <= s * y /\ s * (x + 1) = s * x + s /\ s * x \in Int /\ s * y \in Int
      BY <1>1, <1>3, TimesOrder DEF x, y
    <2> QED BY <1>1, <2>1 DEF x, y
  <1> QED BY <1>1, <1>2, <1>3 DEF x, y
-----------------------------------------------------------------------------
(* The largest of a set, and folds over a sequence.                         *)

\* An element no other is above is the largest.
LEMMA MaxIs ==
  ASSUME NEW S \in SUBSET Int, NEW x \in S, \A y \in S : y <= x
  PROVE  Max(S) = x
  <1>1. Max(S) \in S /\ \A y \in S : Max(S) >= y
    BY DEF Max
  <1>2. Max(S) \in Int /\ x \in Int /\ Max(S) <= x /\ Max(S) >= x
    BY <1>1
  <1> QED BY <1>2

\* A set of numbers up to n that is not empty has a largest.
LEMMA MaxUpTo ==
  ASSUME NEW n \in Int, NEW S \in SUBSET Int, S # {}, \A y \in S : y <= n
  PROVE  Max(S) \in S /\ \A y \in S : y <= Max(S)
  <1> DEFINE T == {n - y : y \in S}
  <1>1. T \in SUBSET Nat
    OBVIOUS
  <1>1a. T # {}
    <2>1. PICK y \in S : TRUE
      OBVIOUS
    <2>2. n - y \in T
      BY <2>1
    <2> QED BY <2>2
  <1>2. PICK t \in T : \A u \in T : t <= u
    <2> HIDE DEF T
    <2> QED BY <1>1, <1>1a, Least
  <1>3. n - t \in S /\ \A y \in S : y <= n - t
    BY <1>2
  <1> QED BY <1>3, MaxIs

\* What g is for a subset of 1 .. n: st, from the smallest element to the largest.
Folds(g, st, b, n) ==
  \A s \in SUBSET (1 .. n) : g[s] = IF s = {} THEN b ELSE st[<<g[s \ {Max(s)}], Max(s)>>]

\* A fold over the subsets of 1 .. n, from the smallest element to the largest, exists.
LEMMA FoldExists ==
  ASSUME NEW n \in Nat, NEW D, NEW b \in D, NEW st \in [D \X (1 .. n) -> D]
  PROVE  \E g \in [SUBSET (1 .. n) -> D] : Folds(g, st, b, n)
  <1> DEFINE Is(m, g) ==
               /\ g \in [SUBSET (1 .. m) -> D]
               /\ \A s \in SUBSET (1 .. m) :
                    g[s] = IF s = {} THEN b ELSE st[<<g[s \ {Max(s)}], Max(s)>>]
             Good == {m \in 0 .. n : \E g : Is(m, g)}
  <1>1. 0 \in Good
    <2> DEFINE g == [s \in SUBSET (1 .. 0) |-> b]
    <2>1. \A s \in SUBSET (1 .. 0) : s = {}
      OBVIOUS
    <2>2. Is(0, g)
      BY <2>1
    <2> HIDE DEF Is
    <2> QED BY <2>2
  <1>2. ASSUME NEW m \in 0 .. n, m < n, m \in Good
        PROVE  m + 1 \in Good
    <2>1. PICK g : Is(m, g)
      BY <1>2
    <2> DEFINE h == [s \in SUBSET (1 .. m + 1) |->
                       IF m + 1 \in s THEN st[<<g[s \ {m + 1}], m + 1>>] ELSE g[s]]
    <2>2. ASSUME NEW s \in SUBSET (1 .. m + 1), m + 1 \in s
          PROVE  /\ h[s] \in D /\ Max(s) = m + 1
                 /\ h[s] = st[<<h[s \ {m + 1}], m + 1>>]
      <3>1. Max(s) = m + 1
        BY <2>2, MaxIs
      <3>2. s \ {m + 1} \in SUBSET (1 .. m) /\ s \ {m + 1} \in SUBSET (1 .. m + 1)
        OBVIOUS
      <3>3. g[s \ {m + 1}] \in D /\ h[s \ {m + 1}] = g[s \ {m + 1}]
        BY <2>1, <3>2
      <3>4. h[s] = st[<<g[s \ {m + 1}], m + 1>>]
        BY <2>2
      <3>5. m + 1 \in 1 .. n
        BY <1>2
      <3>6. st[<<g[s \ {m + 1}], m + 1>>] \in D
        BY <3>3, <3>5
      <3> HIDE DEF h
      <3> QED BY <3>1, <3>3, <3>4, <3>6
    <2>3. ASSUME NEW s \in SUBSET (1 .. m + 1), m + 1 \notin s
          PROVE  /\ h[s] \in D
                 /\ h[s] = IF s = {} THEN b ELSE st[<<h[s \ {Max(s)}], Max(s)>>]
      <3>1. s \in SUBSET (1 .. m)
        BY <2>3
      <3>2. h[s] = g[s] /\ g[s] \in D
        BY <2>1, <2>3, <3>1
      <3>3. s \ {Max(s)} \in SUBSET (1 .. m) /\ m + 1 \notin s \ {Max(s)} /\ s \ {Max(s)} \in SUBSET (1 .. m + 1)
        BY <3>1, <2>3
      <3>4. h[s \ {Max(s)}] = g[s \ {Max(s)}]
        BY <3>3
      <3>5. g[s] = IF s = {} THEN b ELSE st[<<g[s \ {Max(s)}], Max(s)>>]
        BY <2>1, <3>1
      <3> HIDE DEF h
      <3> QED BY <3>2, <3>4, <3>5
    <2>4. Is(m + 1, h)
      <3>1. h \in [SUBSET (1 .. m + 1) -> D]
        <4>1. \A s \in SUBSET (1 .. m + 1) : h[s] \in D
          BY <2>2, <2>3
        <4>2. h = [s \in SUBSET (1 .. m + 1) |-> h[s]]
          OBVIOUS
        <4> HIDE DEF h
        <4> QED BY <4>1, <4>2
      <3>2. ASSUME NEW s \in SUBSET (1 .. m + 1)
            PROVE  h[s] = IF s = {} THEN b ELSE st[<<h[s \ {Max(s)}], Max(s)>>]
        <4> HIDE DEF h
        <4>1. CASE m + 1 \in s
          BY <4>1, <2>2
        <4>2. CASE m + 1 \notin s
          BY <4>2, <2>3
        <4> QED BY <4>1, <4>2
      <3> HIDE DEF h
      <3> QED BY <3>1, <3>2
    <2>5. m + 1 \in 0 .. n
      BY <1>2
    <2> HIDE DEF Is
    <2> QED BY <2>4, <2>5
  <1>3. n \in Good
    <2> HIDE DEF Good
    <2>1. \A m \in 0 .. n : m \in Good
      BY <1>1, <1>2, UpTo
    <2> QED BY <2>1
  <1> QED BY <1>3 DEF Folds

-----------------------------------------------------------------------------
(* Parts, and what a kernel adds to one, tile after tile.                   *)

Rows3 == Int \X Int \X Int
Parts == [max : Int, rows : Seq([row : Rows3, ref : Int])]

\* The rows of a tile that have a score.
Reads(c) == {reads \in Seq(Rows3) : \A i \in 1 .. Len(reads) : Score(c, reads[i][1]) \in Int}

\* Finitely many integers have a largest.
LEMMA MaxOfImage ==
  ASSUME NEW n \in Nat, n > 0, NEW f \in [1 .. n -> Int]
  PROVE  /\ Max(Range(f)) \in Range(f) /\ Max(Range(f)) \in Int
         /\ \A y \in Range(f) : y <= Max(Range(f))
  <1> DEFINE Good == {m \in 0 .. n : m > 0 => \E i \in 1 .. m : \A j \in 1 .. m : f[j] <= f[i]}
  <1>1. 0 \in Good
    OBVIOUS
  <1>2. ASSUME NEW m \in 0 .. n, m < n, m \in Good
        PROVE  m + 1 \in Good
    <2>0. m + 1 \in 1 .. n /\ f[m + 1] \in Int /\ \A j \in 1 .. m + 1 : f[j] \in Int /\ (j = m + 1 \/ j \in 1 .. m)
      BY <1>2
    <2>1. CASE m = 0
      <3>1. \A j \in 1 .. m + 1 : f[j] <= f[m + 1]
        BY <2>0, <2>1
      <3> QED BY <2>0, <3>1
    <2>2. CASE m > 0
      <3>1. PICK i \in 1 .. m : \A j \in 1 .. m : f[j] <= f[i]
        BY <1>2, <2>2
      <3>2. i \in 1 .. m + 1 /\ f[i] \in Int
        BY <1>2
      <3>3. CASE f[m + 1] <= f[i]
        <4>1. \A j \in 1 .. m + 1 : f[j] <= f[i]
          BY <2>0, <3>1, <3>3
        <4> QED BY <2>0, <3>2, <4>1
      <3>4. CASE f[i] < f[m + 1]
        <4>1. \A j \in 1 .. m + 1 : f[j] <= f[m + 1]
          BY <2>0, <3>1, <3>2, <3>4
        <4> QED BY <2>0, <4>1
      <3> QED BY <2>0, <3>2, <3>3, <3>4
    <2> QED BY <1>2, <2>1, <2>2
  <1>3. n \in Good
    <2> HIDE DEF Good
    <2>1. \A m \in 0 .. n : m \in Good
      BY <1>1, <1>2, UpTo
    <2> QED BY <2>1
  <1>4. PICK i \in 1 .. n : \A j \in 1 .. n : f[j] <= f[i]
    BY <1>3
  <1>5. Range(f) \in SUBSET Int /\ f[i] \in Range(f) /\ \A y \in Range(f) : y <= f[i]
    BY <1>4 DEF Range
  <1>6. Max(Range(f)) = f[i]
    BY <1>5, MaxIs
  <1> QED BY <1>5, <1>6

TileScores(c, p, reads) == {p.max} \cup {Score(c, reads[i][1]) : i \in DOMAIN reads}

\* The scores of a tile and the maximum before it have a largest.
LEMMA TileMax ==
  ASSUME NEW c, NEW p \in Parts, NEW reads \in Reads(c)
  PROVE  /\ Max(TileScores(c, p, reads)) \in TileScores(c, p, reads)
         /\ Max(TileScores(c, p, reads)) \in Int
         /\ \A y \in TileScores(c, p, reads) : y <= Max(TileScores(c, p, reads))
  <1> DEFINE n == Len(reads) + 1
             f == [i \in 1 .. n |-> IF i = n THEN p.max ELSE Score(c, reads[i][1])]
  <1>1. /\ n \in Nat /\ n > 0 /\ DOMAIN reads = 1 .. n - 1 /\ p.max \in Int
        /\ \A i \in 1 .. n - 1 : Score(c, reads[i][1]) \in Int
    BY DEF Reads, Parts
  <1> HIDE DEF n
  <1>2. f \in [1 .. n -> Int]
    BY <1>1
  <1>3. Range(f) = TileScores(c, p, reads)
    <2>1. ASSUME NEW x \in Range(f) PROVE x \in TileScores(c, p, reads)
      BY <1>1, <2>1 DEF Range, TileScores
    <2>2. p.max \in Range(f)
      <3>1. n \in 1 .. n /\ f[n] = p.max
        BY <1>1
      <3> QED BY <3>1 DEF Range
    <2>3. ASSUME NEW i \in 1 .. n - 1 PROVE Score(c, reads[i][1]) \in Range(f)
      <3>1. i \in 1 .. n /\ f[i] = Score(c, reads[i][1])
        BY <1>1
      <3> QED BY <3>1 DEF Range
    <2> QED BY <1>1, <2>1, <2>2, <2>3 DEF TileScores
  <1> HIDE DEF f
  <1> QED BY <1>1, <1>2, <1>3, MaxOfImage

\* A part with a tile added is a part.
LEMMA AbsorbType ==
  ASSUME NEW c, NEW p \in Parts, NEW reads \in Reads(c)
  PROVE  Absorb(c, p, reads) \in Parts
  <1> DEFINE m == Max({p.max} \cup {Score(c, reads[i][1]) : i \in DOMAIN reads})
             old == Rescaled(p, m)
             new == [i \in DOMAIN reads |-> Weighted(reads[i], m)]
             One == [row : Rows3, ref : Int]
  <1>1. m \in Int
    BY TileMax DEF TileScores
  <1> HIDE DEF m
  <1>2. /\ p.max \in Int /\ Len(p.rows) \in Nat /\ DOMAIN p.rows = 1 .. Len(p.rows)
        /\ \A i \in 1 .. Len(p.rows) : p.rows[i].row \in Rows3 /\ p.rows[i].ref \in Int
    <2>1. p.max \in Int /\ p.rows \in Seq(One)
      BY DEF Parts
    <2>2. /\ Len(p.rows) \in Nat /\ DOMAIN p.rows = 1 .. Len(p.rows)
          /\ \A i \in 1 .. Len(p.rows) : p.rows[i] \in One
      <3> HIDE DEF One
      <3> QED BY <2>1
    <2> QED BY <2>1, <2>2
  <1>3. old \in Seq(One)
    <2>1. \A i \in 1 .. Len(p.rows) : Weighted(p.rows[i].row, p.rows[i].ref + m - p.max) \in One
      BY <1>1, <1>2 DEF Weighted
    <2> QED BY <1>2, <2>1 DEF Rescaled
  <1>4. new \in Seq(One)
    <2>1. reads \in Seq(Rows3) /\ DOMAIN reads = 1 .. Len(reads) /\ Len(reads) \in Nat
      BY DEF Reads
    <2>2. \A i \in 1 .. Len(reads) : Weighted(reads[i], m) \in One
      BY <1>1, <2>1 DEF Weighted
    <2>3. new = [i \in 1 .. Len(reads) |-> Weighted(reads[i], m)]
      BY <2>1
    <2> HIDE DEF One, new
    <2> QED BY <2>1, <2>2, <2>3
  <1>5. Absorb(c, p, reads) = [max |-> m, rows |-> old \o new]
    BY DEF Absorb, m
  <1>6. old \o new \in Seq(One)
    <2> HIDE DEF old, new, One
    <2> QED BY <1>3, <1>4
  <1> HIDE DEF old, new
  <1> QED BY <1>1, <1>5, <1>6 DEF Parts

\* The part there is before any tile.
LEMMA EmptyType == Empty \in Parts /\ Empty.max = Low /\ Empty.rows = <<>>
  BY DEF Empty, Parts, Low

\* The part after each tile.
LEMMA OnlineSteps ==
  ASSUME NEW c, NEW tiles \in Seq(Reads(c))
  PROVE  \E f \in [0 .. Len(tiles) -> Parts] :
            /\ f[0] = Empty
            /\ \A j \in 1 .. Len(tiles) : f[j] = Absorb(c, f[j - 1], tiles[j])
            /\ Online(c, tiles) = f[Len(tiles)]
  <1> DEFINE n == Len(tiles)
             st == [x \in Parts \X (1 .. n) |-> Absorb(c, x[1], tiles[x[2]])]
             Value(g, s) == IF s = {} THEN Empty ELSE Absorb(c, g[s \ {Max(s)}], tiles[Max(s)])
             Fold(g) == g = [s \in SUBSET (1 .. n) |-> Value(g, s)]
  <1>1. n \in Nat /\ DOMAIN tiles = 1 .. n /\ \A i \in 1 .. n : tiles[i] \in Reads(c)
    OBVIOUS
  <1>2. Online(c, tiles) = (CHOOSE g : Fold(g))[1 .. n]
    <2>1. Online(c, tiles) = (CHOOSE g : g = [s \in SUBSET (DOMAIN tiles) |-> Value(g, s)])[DOMAIN tiles]
      BY DEF Online, FoldLeft, MapThenFoldSet
    <2> QED BY <2>1, <1>1
  <1>3. st \in [Parts \X (1 .. n) -> Parts]
    <2>1. \A p \in Parts, i \in 1 .. n : Absorb(c, p, tiles[i]) \in Parts
      BY <1>1, AbsorbType
    <2> QED BY <2>1
  <1>4. \A p \in Parts, i \in 1 .. n : st[<<p, i>>] = Absorb(c, p, tiles[i])
    OBVIOUS
  <1> HIDE DEF n, st
  <1>5. PICK g \in [SUBSET (1 .. n) -> Parts] : Folds(g, st, Empty, n)
    <2>1. n \in Nat /\ Empty \in Parts
      BY <1>1, EmptyType
    <2> QED BY <2>1, <1>3, FoldExists
  <1>6. \A s \in SUBSET (1 .. n) : g[s] = Value(g, s)
    <2> SUFFICES ASSUME NEW s \in SUBSET (1 .. n), s # {} PROVE g[s] = Value(g, s)
      BY <1>5 DEF Folds
    <2>1. Max(s) \in s
      <3>1. s \in SUBSET Int /\ n \in Int /\ \A y \in s : y <= n
        BY <1>1
      <3> QED BY <3>1, MaxUpTo
    <2>2. Max(s) \in 1 .. n /\ s \ {Max(s)} \in SUBSET (1 .. n)
      BY <2>1
    <2>3. g[s \ {Max(s)}] \in Parts
      BY <1>5, <2>2
    <2> QED BY <1>4, <1>5, <2>2, <2>3 DEF Folds
  <1>7. Fold(g)
    <2>1. g = [s \in SUBSET (1 .. n) |-> g[s]]
      BY <1>5
    <2> HIDE DEF Value
    <2> QED BY <1>6, <2>1
  <1> DEFINE it == CHOOSE h : Fold(h)
  <1>8. Fold(it)
    <2> HIDE DEF Fold
    <2> QED BY <1>7
  <1> HIDE DEF it
  <1>9. \A s \in SUBSET (1 .. n) : it[s] = Value(it, s)
    <2>1. it = [s \in SUBSET (1 .. n) |-> Value(it, s)]
      BY <1>8
    <2> HIDE DEF Value
    <2> QED BY <2>1
  <1>10. /\ it[1 .. 0] = Empty
         /\ \A j \in 1 .. n : it[1 .. j] = Absorb(c, it[1 .. (j - 1)], tiles[j])
    <2>1. 1 .. 0 = {}
      OBVIOUS
    <2>2. ASSUME NEW j \in 1 .. n PROVE it[1 .. j] = Absorb(c, it[1 .. (j - 1)], tiles[j])
      <3>1. 1 .. j \in SUBSET (1 .. n) /\ j \in 1 .. j /\ (1 .. j) \ {j} = 1 .. (j - 1)
        <4>1. j \in Int /\ 1 <= j /\ j <= n /\ n \in Int
          BY <1>1
        <4> QED BY <4>1
      <3>2. Max(1 .. j) = j
        <4>1. 1 .. j \in SUBSET Int /\ j \in 1 .. j /\ \A y \in 1 .. j : y <= j
          OBVIOUS
        <4> QED BY <4>1, MaxIs
      <3> QED BY <1>9, <3>1, <3>2
    <2> QED BY <2>1, <2>2, <1>9
  <1> DEFINE f == [j \in 0 .. n |-> it[1 .. j]]
             Good == {j \in 0 .. n : f[j] \in Parts}
  <1>11. f[0] = Empty /\ \A j \in 1 .. n : f[j] = Absorb(c, f[j - 1], tiles[j])
    <2>1. f[0] = it[1 .. 0]
      BY <1>1
    <2>2. \A j \in 1 .. n : f[j] = it[1 .. j] /\ f[j - 1] = it[1 .. (j - 1)]
      BY <1>1
    <2> QED BY <2>1, <2>2, <1>10
  <1> HIDE DEF f
  <1>12. \A j \in 0 .. n : f[j] \in Parts
    <2>1. 0 \in Good
      BY <1>1, <1>11, EmptyType
    <2>2. ASSUME NEW j \in 0 .. n, j < n, j \in Good PROVE j + 1 \in Good
      <3>1. j + 1 \in 1 .. n /\ j + 1 \in 0 .. n /\ (j + 1) - 1 = j
        BY <1>1, <2>2
      <3>2. f[j + 1] = Absorb(c, f[j], tiles[j + 1]) /\ tiles[j + 1] \in Reads(c) /\ f[j] \in Parts
        BY <1>1, <1>11, <2>2, <3>1
      <3> QED BY <3>1, <3>2, AbsorbType
    <2> HIDE DEF Good
    <2>3. \A j \in 0 .. n : j \in Good
      BY <1>1, <2>1, <2>2, UpTo
    <2> QED BY <2>3 DEF Good
  <1>13. f \in [0 .. n -> Parts]
    BY <1>12 DEF f
  <1>14. Online(c, tiles) = f[n]
    BY <1>1, <1>2 DEF f, it
  <1> QED BY <1>11, <1>13, <1>14 DEF n
-----------------------------------------------------------------------------
(* Which keys a part has.                                                   *)

\* The positions whose rows are still in their slots.
Live(c) == {k \in 0 .. End(c) - 1 : k + Ring(c) >= End(c)}

\* What the sizes of a call are.
LEMMA CallSizes ==
  ASSUME NEW c, Attends(c)
  PROVE  /\ End(c) \in Positive /\ Ring(c) \in Positive /\ End(c) = c.past + c.new
         /\ c.past \in Nat /\ c.new \in Positive /\ c.window \in Nat
         /\ c.heads \in Positive /\ c.kvHeads \in Positive /\ c.kvHeads <= c.heads
         /\ \A k \in 0 .. End(c) - 1 : c.score[k] \in Int /\ c.score[k] >= Low
  BY DEF Attends, End, Ring, Positive

\* The heads that share a KV head are at least one.
LEMMA GroupType ==
  ASSUME NEW c, Attends(c)
  PROVE  c.heads \div c.kvHeads \in Positive
  <1>1. /\ c.heads \in Nat /\ c.kvHeads \in Positive /\ c.kvHeads <= c.heads /\ c.heads > 0
    BY CallSizes DEF Positive
  <1> DEFINE a == c.heads
             s == c.kvHeads
             d == a \div s
             r == a % s
  <1>2. a = s * d + r /\ r \in 0 .. s - 1 /\ d \in Nat /\ s \in Nat
    <2>1. a \in Int /\ s \in Positive /\ a \in Nat
      BY <1>1
    <2> HIDE DEF a, s
    <2> QED BY <2>1, DivMod DEF Positive
  <1>3. s <= a
    BY <1>1
  <1> HIDE DEF a, s, d, r
  <1>4. CASE d = 0
    <2>1. s * d = 0
      BY <1>2, <1>4
    <2> QED BY <1>2, <1>3, <2>1
  <1> QED BY <1>2, <1>4 DEF d, a, s, Positive

\* The KV head of a head.
LEMMA KvHeadType ==
  ASSUME NEW c, Attends(c), NEW h \in Int
  PROVE  KvHead(c, h) \in Int
  <1> DEFINE g == c.heads \div c.kvHeads
  <1>1. g \in Positive
    BY GroupType
  <1> HIDE DEF g
  <1>2. h \div g \in Int
    BY <1>1, DivMod
  <1> QED BY <1>2 DEF KvHead, g

\* A slot holds the last position written to it.
LEMMA HoldsLive ==
  ASSUME NEW c, Attends(c), NEW k \in Live(c)
  PROVE  /\ k % Ring(c) \in 0 .. Ring(c) - 1
         /\ Holds(c, k % Ring(c)) = k
         /\ Score(c, k % Ring(c)) = c.score[k]
         /\ c.score[k] \in Int /\ c.score[k] >= Low
  <1> DEFINE r == Ring(c)
             e == End(c)
             P == {p \in 0 .. e - 1 : p % r = k % r}
  <1>1. r \in Positive /\ e \in Positive /\ e \in Nat /\ r \in Nat /\ k \in Int /\ k \in 0 .. e - 1 /\ k + r >= e
    BY CallSizes DEF Live, Positive
  <1>2. k % r \in 0 .. r - 1
    <2> HIDE DEF r
    <2> QED BY <1>1, DivMod
  <1>3. ASSUME NEW p \in P PROVE p <= k
    <2>1. p \in Int /\ p < e /\ p % r = k % r
      BY <1>1
    <2> HIDE DEF r, e
    <2>2. CASE k < p
      <3>1. k + r <= p
        BY <1>1, <2>1, <2>2, SameSlot
      <3> QED BY <1>1, <2>1, <3>1
    <2> QED BY <1>1, <2>1, <2>2
  <1>4. k \in P /\ P \in SUBSET Int
    BY <1>1
  <1>5. Max(P \cup {-1}) = k
    <2>1. P \cup {-1} \in SUBSET Int /\ k \in P \cup {-1} /\ \A y \in P \cup {-1} : y <= k
      BY <1>1, <1>3, <1>4
    <2> HIDE DEF P
    <2> QED BY <2>1, MaxIs
  <1>6. Holds(c, k % r) = k
    BY <1>5 DEF Holds
  <1>7. c.score[k] \in Int /\ c.score[k] >= Low
    BY <1>1, CallSizes
  <1> QED BY <1>2, <1>6, <1>7 DEF Score

RowSet(c, h, V) == {Row(k % Ring(c), c, h) : k \in V}
WeightedRows(c, h, V, m) == {Weighted(Row(k % Ring(c), c, h), m) : k \in V}

\* The rows of a tile are those of the keys of W, each once.
ReadsOf(c, h, reads, W) ==
  /\ reads \in Seq(Rows3) /\ W \in SUBSET Live(c)
  /\ Len(reads) = Cardinality(W)
  /\ Range(reads) = RowSet(c, h, W)

\* The largest score of the keys of V.
Biggest(c, V, m) ==
  /\ m \in Int /\ m >= Low
  /\ \A k \in V : c.score[k] <= m
  /\ m = Low \/ \E k \in V : c.score[k] = m

\* A part has the rows of the keys of V, each once, relative to their largest score.
PartOf(c, h, p, V) ==
  /\ p \in Parts /\ V \in SUBSET Live(c)
  /\ Len(p.rows) = Cardinality(V)
  /\ Range(p.rows) = WeightedRows(c, h, V, p.max)
  /\ Biggest(c, V, p.max)

\* There are finitely many keys.
LEMMA LiveFinite ==
  ASSUME NEW c, Attends(c), NEW V \in SUBSET Live(c)
  PROVE  IsFiniteSet(V) /\ Cardinality(V) \in Nat
  <1>1. IsFiniteSet(0 .. End(c) - 1)
    BY CallSizes, FS_Interval DEF Positive
  <1>2. V \in SUBSET (0 .. End(c) - 1)
    BY DEF Live
  <1> QED BY <1>1, <1>2, FS_Subset, FS_CardinalityType

\* The elements of a sequence, by index.
LEMMA InRange ==
  ASSUME NEW S, NEW s \in Seq(S)
  PROVE  Range(s) = {s[i] : i \in 1 .. Len(s)} /\ Range(s) \in SUBSET S /\ DOMAIN s = 1 .. Len(s) /\ Len(s) \in Nat
  BY DEF Range

\* Tiles of live rows have scores.
LEMMA ReadsHaveScores ==
  ASSUME NEW c, Attends(c), NEW h, NEW reads, NEW W, ReadsOf(c, h, reads, W)
  PROVE  /\ reads \in Reads(c)
         /\ {Score(c, reads[i][1]) : i \in DOMAIN reads} = {c.score[k] : k \in W}
  <1>1. reads \in Seq(Rows3) /\ Range(reads) = RowSet(c, h, W) /\ W \in SUBSET Live(c)
    BY DEF ReadsOf
  <1>2. DOMAIN reads = 1 .. Len(reads) /\ Range(reads) = {reads[i] : i \in 1 .. Len(reads)}
    BY <1>1, InRange
  <1>3. ASSUME NEW i \in 1 .. Len(reads)
        PROVE  \E k \in W : Score(c, reads[i][1]) = c.score[k] /\ c.score[k] \in Int
    <2>1. PICK k \in W : reads[i] = Row(k % Ring(c), c, h)
      BY <1>1, <1>2 DEF RowSet, WeightedRows
    <2>2. reads[i][1] = k % Ring(c)
      BY <2>1 DEF Row
    <2>3. k \in Live(c)
      BY <1>1
    <2> QED BY <2>2, <2>3, HoldsLive
  <1>4. ASSUME NEW k \in W
        PROVE  \E i \in 1 .. Len(reads) : Score(c, reads[i][1]) = c.score[k]
    <2>1. PICK i \in 1 .. Len(reads) : reads[i] = Row(k % Ring(c), c, h)
      BY <1>1, <1>2 DEF RowSet, WeightedRows
    <2>2. reads[i][1] = k % Ring(c)
      BY <2>1 DEF Row
    <2>3. k \in Live(c)
      BY <1>1
    <2> QED BY <2>2, <2>3, HoldsLive
  <1>5. reads \in Reads(c)
    BY <1>1, <1>3 DEF Reads
  <1>6. {Score(c, reads[i][1]) : i \in DOMAIN reads} = {c.score[k] : k \in W}
    <2>1. \A x \in {Score(c, reads[i][1]) : i \in DOMAIN reads} : x \in {c.score[k] : k \in W}
      BY <1>2, <1>3
    <2>2. \A x \in {c.score[k] : k \in W} : x \in {Score(c, reads[i][1]) : i \in DOMAIN reads}
      BY <1>2, <1>4
    <2> QED BY <2>1, <2>2
  <1> QED BY <1>5, <1>6

\* What two sets of keys that share none have together.
LEMMA KeysTogether ==
  ASSUME NEW c, Attends(c), NEW V \in SUBSET Live(c), NEW W \in SUBSET Live(c), V \cap W = {}
  PROVE  V \cup W \in SUBSET Live(c) /\ Cardinality(V \cup W) = Cardinality(V) + Cardinality(W)
  <1>1. IsFiniteSet(V) /\ IsFiniteSet(W) /\ Cardinality(V) \in Nat /\ Cardinality(W) \in Nat
    BY LiveFinite
  <1>2. Cardinality(V \cup W) = Cardinality(V) + Cardinality(W) - Cardinality({})
    BY <1>1, FS_Union
  <1> QED BY <1>1, <1>2, FS_EmptySet

\* What is in a sequence and another appended to it.
LEMMA RangeOfConcat ==
  ASSUME NEW S, NEW s \in Seq(S), NEW t \in Seq(S)
  PROVE  s \o t \in Seq(S) /\ Len(s \o t) = Len(s) + Len(t) /\ Range(s \o t) = Range(s) \cup Range(t)
  <1>1. /\ s \o t \in Seq(S) /\ Len(s \o t) = Len(s) + Len(t) /\ Len(s) \in Nat /\ Len(t) \in Nat
        /\ \A i \in 1 .. Len(s) + Len(t) : (s \o t)[i] = IF i <= Len(s) THEN s[i] ELSE t[i - Len(s)]
    OBVIOUS
  <1>2. /\ Range(s) = {s[i] : i \in 1 .. Len(s)} /\ Range(t) = {t[i] : i \in 1 .. Len(t)}
        /\ Range(s \o t) = {(s \o t)[i] : i \in 1 .. Len(s) + Len(t)}
    BY <1>1, InRange
  <1>3. ASSUME NEW x \in Range(s \o t) PROVE x \in Range(s) \cup Range(t)
    <2>1. PICK i \in 1 .. Len(s) + Len(t) : x = (s \o t)[i]
      BY <1>2
    <2>2. CASE i <= Len(s)
      <3>1. i \in 1 .. Len(s) /\ x = s[i]
        BY <1>1, <2>1, <2>2
      <3> QED BY <1>2, <3>1
    <2>3. CASE ~(i <= Len(s))
      <3>1. i - Len(s) \in 1 .. Len(t) /\ x = t[i - Len(s)]
        BY <1>1, <2>1, <2>3
      <3> QED BY <1>2, <3>1
    <2> QED BY <2>2, <2>3
  <1>4. ASSUME NEW x \in Range(s) PROVE x \in Range(s \o t)
    <2>1. PICK i \in 1 .. Len(s) : x = s[i]
      BY <1>2
    <2>2. i \in 1 .. Len(s) + Len(t) /\ (s \o t)[i] = x
      BY <1>1, <2>1
    <2> QED BY <1>2, <2>2
  <1>5. ASSUME NEW x \in Range(t) PROVE x \in Range(s \o t)
    <2>1. PICK i \in 1 .. Len(t) : x = t[i]
      BY <1>2
    <2>2. i + Len(s) \in 1 .. Len(s) + Len(t) /\ ~(i + Len(s) <= Len(s)) /\ (i + Len(s)) - Len(s) = i
      BY <1>1
    <2>3. (s \o t)[i + Len(s)] = x
      BY <1>1, <2>1, <2>2
    <2> QED BY <1>2, <2>2, <2>3
  <1> QED BY <1>1, <1>3, <1>4, <1>5

\* A part brought to another maximum has the same rows.
LEMMA RescaledKeys ==
  ASSUME NEW c, Attends(c), NEW h, NEW p, NEW V, PartOf(c, h, p, V), NEW m \in Int
  PROVE  /\ Rescaled(p, m) \in Seq([row : Rows3, ref : Int])
         /\ Len(Rescaled(p, m)) = Cardinality(V)
         /\ Range(Rescaled(p, m)) = WeightedRows(c, h, V, m)
  <1> DEFINE One == [row : Rows3, ref : Int]
             s == p.rows
             t == Rescaled(p, m)
  <1>1. /\ p.max \in Int /\ s \in Seq(One) /\ Len(s) = Cardinality(V)
        /\ Range(s) = WeightedRows(c, h, V, p.max)
    BY DEF PartOf, Parts
  <1>2. DOMAIN s = 1 .. Len(s) /\ Len(s) \in Nat /\ Range(s) = {s[i] : i \in 1 .. Len(s)} /\ Range(s) \in SUBSET One
    <2> HIDE DEF One, s
    <2> QED BY <1>1, InRange
  <1>3. t = [i \in 1 .. Len(s) |-> Weighted(s[i].row, s[i].ref + m - p.max)]
    BY <1>2 DEF Rescaled
  <1>4. ASSUME NEW i \in 1 .. Len(s)
        PROVE  t[i] \in One /\ \E k \in V : s[i] = Weighted(Row(k % Ring(c), c, h), p.max)
                                       /\ t[i] = Weighted(Row(k % Ring(c), c, h), m)
    <2>1. s[i] \in Range(s) /\ s[i] \in One
      BY <1>2
    <2>2. PICK k \in V : s[i] = Weighted(Row(k % Ring(c), c, h), p.max)
      BY <1>1, <2>1 DEF RowSet, WeightedRows
    <2>3. s[i].row = Row(k % Ring(c), c, h) /\ s[i].ref = p.max /\ s[i].row \in Rows3
      BY <2>1, <2>2 DEF Weighted
    <2>4. t[i] = Weighted(s[i].row, s[i].ref + m - p.max)
      BY <1>3
    <2>5. s[i].ref + m - p.max = m
      BY <1>1, <2>3
    <2>6. Weighted(s[i].row, m) \in One
      BY <2>3 DEF Weighted
    <2> QED BY <2>2, <2>3, <2>4, <2>5, <2>6
  <1> HIDE DEF s, One
  <1>5. t \in Seq(One) /\ Len(t) = Len(s)
    BY <1>2, <1>3, <1>4
  <1>6. Range(t) = {t[i] : i \in 1 .. Len(s)}
    BY <1>5, InRange
  <1>7. ASSUME NEW k \in V PROVE Weighted(Row(k % Ring(c), c, h), m) \in Range(t)
    <2>1. Weighted(Row(k % Ring(c), c, h), p.max) \in Range(s)
      BY <1>1 DEF RowSet, WeightedRows
    <2>2. PICK i \in 1 .. Len(s) : s[i] = Weighted(Row(k % Ring(c), c, h), p.max)
      BY <1>2, <2>1
    <2>3. s[i].row = Row(k % Ring(c), c, h) /\ s[i].ref = p.max
      BY <2>2 DEF Weighted
    <2>4. t[i] = Weighted(s[i].row, s[i].ref + m - p.max) /\ s[i].ref + m - p.max = m
      BY <1>1, <1>3, <2>3
    <2> QED BY <1>6, <2>3, <2>4
  <1> HIDE DEF t
  <1>8. Range(t) = WeightedRows(c, h, V, m)
    <2>1. \A x \in Range(t) : \E k \in V : x = Weighted(Row(k % Ring(c), c, h), m)
      BY <1>4, <1>6
    <2> QED BY <1>7, <2>1 DEF RowSet, WeightedRows
  <1> QED BY <1>1, <1>5, <1>8 DEF t, s, One

\* A tile of other keys is added to a part.
LEMMA AbsorbAdds ==
  ASSUME NEW c, Attends(c), NEW h, NEW p, NEW V, PartOf(c, h, p, V),
         NEW reads, NEW W, ReadsOf(c, h, reads, W), V \cap W = {}
  PROVE  PartOf(c, h, Absorb(c, p, reads), V \cup W)
  <1> DEFINE all == TileScores(c, p, reads)
             m == Max(all)
             old == Rescaled(p, m)
             new == [i \in DOMAIN reads |-> Weighted(reads[i], m)]
             One == [row : Rows3, ref : Int]
             q == Absorb(c, p, reads)
  <1>1. /\ p \in Parts /\ V \in SUBSET Live(c) /\ W \in SUBSET Live(c) /\ Biggest(c, V, p.max)
        /\ reads \in Seq(Rows3) /\ Len(reads) = Cardinality(W) /\ Range(reads) = RowSet(c, h, W)
    BY DEF PartOf, ReadsOf
  <1>2. reads \in Reads(c) /\ {Score(c, reads[i][1]) : i \in DOMAIN reads} = {c.score[k] : k \in W}
    BY ReadsHaveScores
  <1>3. m \in all /\ m \in Int /\ \A y \in all : y <= m
    BY <1>1, <1>2, TileMax
  <1>4. all = {p.max} \cup {c.score[k] : k \in W}
    BY <1>2 DEF TileScores
  <1>5. q = [max |-> m, rows |-> old \o new]
    BY DEF Absorb, TileScores
  <1> HIDE DEF all, m
  <1>6. Biggest(c, V \cup W, m)
    <2>1. /\ p.max \in Int /\ p.max >= Low /\ p.max <= m /\ m \in Int /\ Low \in Int
          /\ \A k \in V : c.score[k] <= p.max
          /\ p.max = Low \/ \E k \in V : c.score[k] = p.max
      BY <1>1, <1>3, <1>4 DEF Biggest, Low
    <2>2. \A k \in V \cup W : c.score[k] \in Int
      BY <1>1, HoldsLive
    <2>3. \A k \in V \cup W : c.score[k] <= m
      BY <1>3, <1>4, <2>1, <2>2
    <2>4. m = p.max \/ \E k \in W : m = c.score[k]
      BY <1>3, <1>4
    <2>5. m = Low \/ \E k \in V \cup W : c.score[k] = m
      BY <2>1, <2>4
    <2> QED BY <2>1, <2>3, <2>5 DEF Biggest
  <1>7. old \in Seq(One) /\ Len(old) = Cardinality(V) /\ Range(old) = WeightedRows(c, h, V, m)
    <2>1. PartOf(c, h, p, V) /\ m \in Int
      BY <1>3
    <2> QED BY <2>1, RescaledKeys
  <1>8. new \in Seq(One) /\ Len(new) = Cardinality(W) /\ Range(new) = WeightedRows(c, h, W, m)
    <2>1. /\ DOMAIN reads = 1 .. Len(reads) /\ Len(reads) \in Nat /\ Range(reads) = {reads[i] : i \in 1 .. Len(reads)}
          /\ \A i \in 1 .. Len(reads) : reads[i] \in Rows3
      <3>1. reads \in Seq(Rows3)
        BY <1>1
      <3> QED BY <3>1, InRange
    <2>2. new = [i \in 1 .. Len(reads) |-> Weighted(reads[i], m)]
      BY <2>1
    <2>3. \A i \in 1 .. Len(reads) : Weighted(reads[i], m) \in One
      BY <1>3, <2>1 DEF Weighted
    <2> HIDE DEF One
    <2>4. new \in Seq(One) /\ Len(new) = Len(reads)
      BY <2>1, <2>2, <2>3
    <2> HIDE DEF new
    <2>5. Range(new) = {new[i] : i \in 1 .. Len(reads)}
      BY <2>4, InRange
    <2>6. ASSUME NEW x \in Range(new) PROVE \E k \in W : x = Weighted(Row(k % Ring(c), c, h), m)
      <3>1. PICK i \in 1 .. Len(reads) : x = Weighted(reads[i], m)
        BY <2>2, <2>5
      <3>2. reads[i] \in Range(reads)
        BY <2>1
      <3> QED BY <1>1, <3>1, <3>2 DEF RowSet, WeightedRows
    <2>7. ASSUME NEW k \in W PROVE Weighted(Row(k % Ring(c), c, h), m) \in Range(new)
      <3>1. PICK i \in 1 .. Len(reads) : Row(k % Ring(c), c, h) = reads[i]
        BY <1>1, <2>1 DEF RowSet, WeightedRows
      <3> QED BY <2>2, <2>5, <3>1
    <2>8. Range(new) = WeightedRows(c, h, W, m)
      BY <2>6, <2>7 DEF RowSet, WeightedRows
    <2> QED BY <1>1, <2>4, <2>8
  <1> HIDE DEF old, new, One
  <1>9. /\ old \o new \in Seq(One) /\ Len(old \o new) = Len(old) + Len(new)
        /\ Range(old \o new) = Range(old) \cup Range(new)
    BY <1>7, <1>8, RangeOfConcat
  <1>10. V \cup W \in SUBSET Live(c) /\ Cardinality(V \cup W) = Cardinality(V) + Cardinality(W)
    BY <1>1, KeysTogether
  <1> HIDE DEF q
  <1>11. q.max = m /\ q.rows = old \o new /\ q \in Parts
    BY <1>3, <1>5, <1>9 DEF Parts, One
  <1>12. Range(q.rows) = WeightedRows(c, h, V \cup W, m)
    BY <1>7, <1>8, <1>9, <1>11 DEF RowSet, WeightedRows
  <1>13. Len(q.rows) = Cardinality(V \cup W)
    BY <1>7, <1>8, <1>9, <1>10, <1>11
  <1> QED BY <1>6, <1>10, <1>11, <1>12, <1>13 DEF PartOf, q

\* What the sets of a family have up to one of them.
Upto(Vs, j) == UNION {Vs[i] : i \in 1 .. j}

\* No key is in two of them.
Apart(c, Vs, n) ==
  /\ Vs \in [1 .. n -> SUBSET Live(c)]
  /\ \A i \in 1 .. n, j \in 1 .. n : i # j => Vs[i] \cap Vs[j] = {}

\* One more of them.
LEMMA UptoNext ==
  ASSUME NEW c, NEW n \in Nat, NEW Vs, Apart(c, Vs, n), NEW j \in 0 .. n, j < n
  PROVE  /\ Upto(Vs, j) \in SUBSET Live(c) /\ Vs[j + 1] \in SUBSET Live(c)
         /\ Upto(Vs, j + 1) = Upto(Vs, j) \cup Vs[j + 1]
         /\ Upto(Vs, j) \cap Vs[j + 1] = {}
  <1>1. 1 .. j + 1 = (1 .. j) \cup {j + 1} /\ j + 1 \in 1 .. n /\ \A i \in 1 .. j : i \in 1 .. n /\ i # j + 1
    OBVIOUS
  <1>2. \A i \in 1 .. j : Vs[i] \in SUBSET Live(c) /\ Vs[i] \cap Vs[j + 1] = {}
    BY <1>1 DEF Apart
  <1>3. Vs[j + 1] \in SUBSET Live(c)
    BY <1>1 DEF Apart
  <1>4. Upto(Vs, j + 1) = Upto(Vs, j) \cup Vs[j + 1]
    BY <1>1 DEF Upto
  <1> QED BY <1>2, <1>3, <1>4 DEF Upto

\* Nothing has been added to an empty part.
LEMMA EmptyHasNothing ==
  ASSUME NEW c, NEW h
  PROVE  PartOf(c, h, Empty, {})
  <1>1. Range(<<>>) = {} /\ Len(<<>>) = 0
    BY DEF Range
  <1>2. Biggest(c, {}, Low)
    BY DEF Biggest, Low
  <1> QED BY <1>1, <1>2, EmptyType, FS_EmptySet DEF PartOf, WeightedRows

\* Tile after tile, a part gets the keys of all of them.
LEMMA OnlineAdds ==
  ASSUME NEW c, Attends(c), NEW h, NEW n \in Nat, NEW Vs, Apart(c, Vs, n),
         NEW tiles, tiles = [i \in 1 .. n |-> tiles[i]],
         \A i \in 1 .. n : ReadsOf(c, h, tiles[i], Vs[i])
  PROVE  PartOf(c, h, Online(c, tiles), Upto(Vs, n))
  <1>1. \A i \in 1 .. n : tiles[i] \in Reads(c)
    BY ReadsHaveScores
  <1>2. tiles \in Seq(Reads(c)) /\ Len(tiles) = n
    BY <1>1
  <1>3. PICK f \in [0 .. n -> Parts] :
            /\ f[0] = Empty
            /\ \A j \in 1 .. n : f[j] = Absorb(c, f[j - 1], tiles[j])
            /\ Online(c, tiles) = f[n]
    BY <1>2, OnlineSteps
  <1> DEFINE Good == {j \in 0 .. n : PartOf(c, h, f[j], Upto(Vs, j))}
  <1>4. 0 \in Good
    <2>1. Upto(Vs, 0) = {}
      BY DEF Upto
    <2>2. PartOf(c, h, Empty, {})
      BY EmptyHasNothing
    <2>3. f[0] = Empty
      BY <1>3
    <2>4. PartOf(c, h, f[0], Upto(Vs, 0))
      BY <2>1, <2>2, <2>3, Zenon
    <2>5. 0 \in 0 .. n
      OBVIOUS
    <2> QED BY <2>4, <2>5
  <1>5. ASSUME NEW j \in 0 .. n, j < n, j \in Good
        PROVE  j + 1 \in Good
    <2>1. j + 1 \in 1 .. n /\ (j + 1) - 1 = j /\ j + 1 \in 0 .. n
      BY <1>5
    <2>2. f[j + 1] = Absorb(c, f[j], tiles[j + 1]) /\ ReadsOf(c, h, tiles[j + 1], Vs[j + 1])
      BY <1>3, <2>1
    <2>3. PartOf(c, h, f[j], Upto(Vs, j))
      BY <1>5
    <2>4. Upto(Vs, j + 1) = Upto(Vs, j) \cup Vs[j + 1] /\ Upto(Vs, j) \cap Vs[j + 1] = {}
      BY <1>5, UptoNext
    <2>5. PartOf(c, h, Absorb(c, f[j], tiles[j + 1]), Upto(Vs, j) \cup Vs[j + 1])
      BY <2>2, <2>3, <2>4, AbsorbAdds
    <2> QED BY <2>1, <2>2, <2>4, <2>5
  <1>6. n \in Good
    <2> HIDE DEF Good
    <2>1. \A j \in 0 .. n : j \in Good
      BY <1>4, <1>5, UpTo
    <2> QED BY <2>1
  <1> QED BY <1>3, <1>6

Stepwise(f, st, b, n) == f[0] = b /\ \A j \in 1 .. n : f[j] = st[<<f[j - 1], j>>]

\* A function by steps, from b, one for each number up to n.
LEMMA StepsExist ==
  ASSUME NEW n \in Nat, NEW D, NEW b \in D, NEW st \in [D \X (1 .. n) -> D]
  PROVE  \E f \in [0 .. n -> D] : Stepwise(f, st, b, n)
  <1>1. PICK g \in [SUBSET (1 .. n) -> D] : Folds(g, st, b, n)
    BY FoldExists
  <1> DEFINE f == [j \in 0 .. n |-> g[1 .. j]]
  <1>2. \A j \in 0 .. n : 1 .. j \in SUBSET (1 .. n)
    OBVIOUS
  <1>3. f \in [0 .. n -> D]
    BY <1>1, <1>2
  <1>4. f[0] = b
    <2>1. 1 .. 0 = {} /\ {} \in SUBSET (1 .. n)
      OBVIOUS
    <2>2. g[{}] = b
      BY <1>1, <2>1 DEF Folds
    <2> QED BY <2>1, <2>2
  <1>5. ASSUME NEW j \in 1 .. n PROVE f[j] = st[<<f[j - 1], j>>]
    <2>1. j \in Int /\ 1 <= j /\ j <= n /\ j \in 0 .. n /\ j - 1 \in 0 .. n
      OBVIOUS
    <2>2. 1 .. j \in SUBSET (1 .. n) /\ j \in 1 .. j /\ (1 .. j) \ {j} = 1 .. (j - 1)
      BY <2>1
    <2>3. Max(1 .. j) = j
      <3>1. 1 .. j \in SUBSET Int /\ \A y \in 1 .. j : y <= j
        BY <2>1
      <3> QED BY <2>2, <3>1, MaxIs
    <2>4. g[1 .. j] = st[<<g[1 .. (j - 1)], j>>]
      BY <1>1, <2>2, <2>3 DEF Folds
    <2> QED BY <2>1, <2>4
  <1> QED BY <1>3, <1>4, <1>5 DEF Stepwise

\* f[j] is the first j sequences, one after another.
Together(f, seqs, n) ==
  /\ f[0] = <<>>
  /\ \A j \in 1 .. n : f[j] = f[j - 1] \o seqs[j]
  /\ FlattenSeq(seqs) = f[n]

\* A sequence of sequences is put together one after another.
LEMMA FlattenSteps ==
  ASSUME NEW S, NEW n \in Nat, n > 0, NEW seqs \in [1 .. n -> Seq(S)]
  PROVE  \E f \in [0 .. n -> Seq(S)] : Together(f, seqs, n)
  <1> DEFINE st == [x \in Seq(S) \X (1 .. n) |-> x[1] \o seqs[x[2]]]
             Is(g) == g = [i \in 1 .. n |-> IF i = 1 THEN seqs[i] ELSE g[i - 1] \o seqs[i]]
  <1>1. Len(seqs) = n /\ seqs \in Seq(Seq(S))
    OBVIOUS
  <1>2. FlattenSeq(seqs) = (CHOOSE g : Is(g))[n]
    BY <1>1 DEF FlattenSeq
  <1>3. st \in [Seq(S) \X (1 .. n) -> Seq(S)] /\ <<>> \in Seq(S)
    <2>1. \A s \in Seq(S), j \in 1 .. n : s \o seqs[j] \in Seq(S)
      OBVIOUS
    <2> QED BY <2>1
  <1>4. \A s \in Seq(S), j \in 1 .. n : st[<<s, j>>] = s \o seqs[j]
    OBVIOUS
  <1> HIDE DEF st
  <1>5. PICK f \in [0 .. n -> Seq(S)] : Stepwise(f, st, <<>>, n)
    BY <1>3, StepsExist
  <1>6. \A j \in 1 .. n : f[j] = f[j - 1] \o seqs[j]
    <2> TAKE j \in 1 .. n
    <2>1. f[j - 1] \in Seq(S)
      BY <1>5
    <2> QED BY <1>4, <1>5, <2>1 DEF Stepwise
  <1>6a. f[0] = <<>> /\ f[1] = seqs[1]
    <2>1. f[0] = <<>> /\ 1 \in 1 .. n /\ 1 - 1 = 0
      BY <1>5 DEF Stepwise
    <2>2. f[1] = f[1 - 1] \o seqs[1] /\ seqs[1] \in Seq(S)
      BY <1>6, <2>1
    <2>3. f[1] = <<>> \o seqs[1]
      BY <2>1, <2>2
    <2> QED BY <2>1, <2>2, <2>3
  <1> DEFINE h == [i \in 1 .. n |-> f[i]]
  <1>7. Is(h)
    <2> DEFINE v(i) == IF i = 1 THEN seqs[i] ELSE h[i - 1] \o seqs[i]
    <2>1. ASSUME NEW i \in 1 .. n PROVE f[i] = v(i)
      <3>1. CASE i = 1
        BY <1>6a, <3>1
      <3>2. CASE i # 1
        <4>1. i - 1 \in 1 .. n
          BY <3>2
        <4>2. h[i - 1] = f[i - 1]
          BY <4>1
        <4> HIDE DEF h
        <4> QED BY <1>6, <3>2, <4>2
      <3> QED BY <3>1, <3>2
    <2>2. h = [i \in 1 .. n |-> v(i)]
      <3> HIDE DEF v
      <3> QED BY <2>1
    <2> HIDE DEF h
    <2> QED BY <2>2
  <1> DEFINE it == CHOOSE g : Is(g)
  <1>8. Is(it)
    <2> HIDE DEF Is, h
    <2> QED BY <1>7
  <1> HIDE DEF it, h
  <1>9. \A i \in 1 .. n : it[i] = IF i = 1 THEN seqs[i] ELSE it[i - 1] \o seqs[i]
    <2> DEFINE v(i) == IF i = 1 THEN seqs[i] ELSE it[i - 1] \o seqs[i]
    <2>1. it = [i \in 1 .. n |-> v(i)]
      BY <1>8
    <2> HIDE DEF v
    <2>2. \A i \in 1 .. n : it[i] = v(i)
      BY <2>1
    <2> QED BY <2>2 DEF v
  <1> DEFINE Good == {i \in 0 .. n : i > 0 => it[i] = f[i]}
  <1>10. 0 \in Good
    OBVIOUS
  <1>11. ASSUME NEW j \in 0 .. n, j < n, j \in Good PROVE j + 1 \in Good
    <2>1. j + 1 \in 1 .. n /\ (j + 1) - 1 = j /\ j + 1 \in 0 .. n
      BY <1>11
    <2>2. CASE j = 0
      <3>1. it[1] = seqs[1]
        BY <1>9, <2>1, <2>2
      <3> QED BY <1>6a, <2>1, <2>2, <3>1
    <2>3. CASE j > 0
      <3>1. it[j] = f[j]
        BY <1>11, <2>3
      <3>2. f[j + 1] = f[(j + 1) - 1] \o seqs[j + 1]
        BY <1>6, <2>1
      <3>3. it[j + 1] = it[(j + 1) - 1] \o seqs[j + 1]
        <4>1. j + 1 # 1
          BY <2>3
        <4> QED BY <1>9, <2>1, <4>1
      <3>4. it[j + 1] = f[j + 1]
        BY <2>1, <3>1, <3>2, <3>3
      <3> QED BY <2>1, <3>4
    <2> QED BY <2>2, <2>3
  <1>12. n \in Good
    <2> HIDE DEF Good
    <2>1. \A m \in 0 .. n : m \in Good
      BY <1>10, <1>11, UpTo
    <2> QED BY <2>1
  <1>13. FlattenSeq(seqs) = f[n]
    BY <1>2, <1>12 DEF it
  <1> QED BY <1>6, <1>6a, <1>13 DEF Together

\* Parts of different keys merged are the part of all of them.
LEMMA MergeAdds ==
  ASSUME NEW c, Attends(c), NEW h, NEW n \in Nat, n > 0, NEW Vs, Apart(c, Vs, n),
         NEW ps, ps = [i \in 1 .. n |-> ps[i]],
         \A i \in 1 .. n : PartOf(c, h, ps[i], Vs[i])
  PROVE  PartOf(c, h, Merge(ps), Upto(Vs, n))
  <1> DEFINE top == [i \in 1 .. n |-> ps[i].max]
             m == Max(Range(top))
             One == [row : Rows3, ref : Int]
             seqs == [i \in 1 .. n |-> Rescaled(ps[i], m)]
             q == Merge(ps)
  <1>1. DOMAIN ps = 1 .. n /\ \A i \in 1 .. n : ps[i] \in Parts /\ ps[i].max \in Int /\ Biggest(c, Vs[i], ps[i].max)
    BY DEF PartOf, Parts
  <1>2. top \in [1 .. n -> Int]
    BY <1>1
  <1>3. Range(top) = {ps[i].max : i \in DOMAIN ps}
    BY <1>1 DEF Range
  <1>4. m \in Range(top) /\ m \in Int /\ \A y \in Range(top) : y <= m
    <2> HIDE DEF top
    <2> QED BY <1>2, MaxOfImage
  <1>5. (\E i \in 1 .. n : m = ps[i].max) /\ \A i \in 1 .. n : ps[i].max <= m
    BY <1>1, <1>3, <1>4
  <1>6. q = [max |-> m, rows |-> FlattenSeq(seqs)]
    <2> HIDE DEF top
    <2> QED BY <1>1, <1>3 DEF Merge
  <1> HIDE DEF m, top, q
  <1>7. \A i \in 1 .. n : /\ seqs[i] \in Seq(One) /\ Len(seqs[i]) = Cardinality(Vs[i])
                          /\ Range(seqs[i]) = WeightedRows(c, h, Vs[i], m)
    <2> TAKE i \in 1 .. n
    <2>1. PartOf(c, h, ps[i], Vs[i]) /\ m \in Int
      BY <1>4
    <2>2. seqs[i] = Rescaled(ps[i], m)
      OBVIOUS
    <2>3. /\ Rescaled(ps[i], m) \in Seq(One) /\ Len(Rescaled(ps[i], m)) = Cardinality(Vs[i])
          /\ Range(Rescaled(ps[i], m)) = WeightedRows(c, h, Vs[i], m)
      <3> DEFINE p == ps[i]
                 V == Vs[i]
      <3>1. PartOf(c, h, p, V)
        BY <2>1
      <3> HIDE DEF p, V
      <3>2. /\ Rescaled(p, m) \in Seq(One) /\ Len(Rescaled(p, m)) = Cardinality(V)
            /\ Range(Rescaled(p, m)) = WeightedRows(c, h, V, m)
        BY <2>1, <3>1, RescaledKeys
      <3> QED BY <3>2 DEF p, V
    <2> HIDE DEF seqs, One
    <2> QED BY <2>2, <2>3
  <1>8. seqs \in [1 .. n -> Seq(One)]
    <2>1. seqs = [i \in 1 .. n |-> seqs[i]]
      OBVIOUS
    <2> HIDE DEF seqs, One
    <2> QED BY <1>7, <2>1
  <1> HIDE DEF seqs, One
  <1>9a. PICK f \in [0 .. n -> Seq(One)] : Together(f, seqs, n)
    BY <1>8, FlattenSteps
  <1>9. /\ f \in [0 .. n -> Seq(One)] /\ f[0] = <<>>
        /\ \A j \in 1 .. n : f[j] = f[j - 1] \o seqs[j]
        /\ FlattenSeq(seqs) = f[n]
    BY <1>9a DEF Together
  <1> DEFINE Has(j) == Len(f[j]) = Cardinality(Upto(Vs, j)) /\ Range(f[j]) = WeightedRows(c, h, Upto(Vs, j), m)
             Good == {j \in 0 .. n : Has(j)}
  <1>10. 0 \in Good
    <2>1. Upto(Vs, 0) = {}
      BY DEF Upto
    <2>2. f[0] = <<>>
      BY <1>9
    <2>3. Range(f[0]) = {} /\ Len(f[0]) = 0
      BY <2>2 DEF Range
    <2>4. WeightedRows(c, h, {}, m) = {} /\ Cardinality({}) = 0
      BY FS_EmptySet DEF WeightedRows
    <2>5. Has(0)
      BY <2>1, <2>3, <2>4
    <2>6. 0 \in 0 .. n
      OBVIOUS
    <2> QED BY <2>5, <2>6
  <1>11. ASSUME NEW j \in 0 .. n, j < n, j \in Good
         PROVE  j + 1 \in Good
    <2>1. j + 1 \in 1 .. n /\ (j + 1) - 1 = j /\ j + 1 \in 0 .. n /\ f[j] \in Seq(One)
      BY <1>9, <1>11
    <2>2. f[j + 1] = f[j] \o seqs[j + 1]
      <3>1. f[j + 1] = f[(j + 1) - 1] \o seqs[j + 1]
        BY <1>9, <2>1
      <3> QED BY <2>1, <3>1
    <2>3. seqs[j + 1] \in Seq(One) /\ Len(seqs[j + 1]) = Cardinality(Vs[j + 1])
          /\ Range(seqs[j + 1]) = WeightedRows(c, h, Vs[j + 1], m)
      BY <1>7, <2>1
    <2>4. /\ Len(f[j + 1]) = Len(f[j]) + Len(seqs[j + 1])
          /\ Range(f[j + 1]) = Range(f[j]) \cup Range(seqs[j + 1])
      BY <2>1, <2>2, <2>3, RangeOfConcat
    <2>5. /\ Upto(Vs, j + 1) = Upto(Vs, j) \cup Vs[j + 1] /\ Upto(Vs, j) \cap Vs[j + 1] = {}
          /\ Upto(Vs, j) \in SUBSET Live(c) /\ Vs[j + 1] \in SUBSET Live(c)
      BY <1>11, UptoNext
    <2>6. Cardinality(Upto(Vs, j + 1)) = Cardinality(Upto(Vs, j)) + Cardinality(Vs[j + 1])
      BY <2>5, KeysTogether
    <2>7. WeightedRows(c, h, Upto(Vs, j + 1), m)
            = WeightedRows(c, h, Upto(Vs, j), m) \cup WeightedRows(c, h, Vs[j + 1], m)
      BY <2>5 DEF WeightedRows
    <2>8. Has(j)
      BY <1>11
    <2>9. Has(j + 1)
      BY <2>3, <2>4, <2>6, <2>7, <2>8
    <2> QED BY <2>1, <2>9
  <1>12. Has(n)
    <2>1. n \in Good
      <3> HIDE DEF Good
      <3>1. \A j \in 0 .. n : j \in Good
        BY <1>10, <1>11, UpTo
      <3> QED BY <3>1
    <2> QED BY <2>1
  <1>13. q.max = m /\ q.rows = f[n] /\ q \in Parts
    <2>1. f[n] \in Seq(One)
      BY <1>9
    <2> QED BY <1>4, <1>6, <1>9, <2>1 DEF Parts, One
  <1>14. Upto(Vs, n) \in SUBSET Live(c)
    BY DEF Upto, Apart
  <1>15. Biggest(c, Upto(Vs, n), m)
    <2>1. m \in Int /\ Low \in Int
      BY <1>4 DEF Low
    <2>2. PICK i \in 1 .. n : m = ps[i].max
      BY <1>5
    <2>3. m >= Low /\ (m = Low \/ \E k \in Vs[i] : c.score[k] = m)
      BY <1>1, <2>2 DEF Biggest
    <2>4. ASSUME NEW k \in Upto(Vs, n) PROVE c.score[k] <= m
      <3>1. PICK j \in 1 .. n : k \in Vs[j]
        BY DEF Upto
      <3>2. c.score[k] \in Int
        BY <1>14, HoldsLive
      <3>3. c.score[k] <= ps[j].max /\ ps[j].max \in Int /\ ps[j].max <= m
        BY <1>1, <1>5, <3>1 DEF Biggest
      <3> QED BY <2>1, <3>2, <3>3
    <2>5. m = Low \/ \E k \in Upto(Vs, n) : c.score[k] = m
      BY <2>3 DEF Upto
    <2> QED BY <2>1, <2>3, <2>4, <2>5 DEF Biggest
  <1> QED BY <1>12, <1>13, <1>14, <1>15 DEF PartOf, q

\* The part of the keys a query sees is its attention.
LEMMA PartIsAttention ==
  ASSUME NEW c, Attends(c), NEW x \in Pairs(c), NEW p, PartOf(c, x[2], p, Visible(c, c.past + x[1]))
  PROVE  IsAttention(c, x, p)
  <1> DEFINE V == Visible(c, c.past + x[1])
             scores == {c.score[k] : k \in V}
             h == x[2]
             q == c.past + x[1]
  <1>1. /\ V \in SUBSET Live(c) /\ Len(p.rows) = Cardinality(V)
        /\ Range(p.rows) = WeightedRows(c, h, V, p.max) /\ Biggest(c, V, p.max)
    BY DEF PartOf
  <1>2. x[1] \in 0 .. c.new - 1 /\ c.past \in Nat /\ c.new \in Positive /\ c.window \in Nat /\ End(c) = c.past + c.new
    BY CallSizes DEF Pairs
  <1>3. q \in V
    <2>1. q \in 0 .. End(c) - 1 /\ (c.window = 0 \/ q + c.window > q) /\ q <= q
      BY <1>2 DEF Positive
    <2> HIDE DEF q
    <2>2. q \in Visible(c, q)
      BY <2>1 DEF Visible, Sees
    <2> QED BY <2>2 DEF q
  <1> HIDE DEF V
  <1>4. \A k \in V : c.score[k] \in Int /\ c.score[k] >= Low /\ Holds(c, k % Ring(c)) = k
    BY <1>1, HoldsLive
  <1>5. Max(scores) = p.max
    <2>1. scores \in SUBSET Int /\ \A y \in scores : y <= p.max
      BY <1>1, <1>4 DEF Biggest
    <2>2. p.max \in scores
      <3>1. CASE p.max = Low
        <4>1. c.score[q] <= p.max /\ c.score[q] >= Low /\ c.score[q] \in Int /\ p.max \in Int
          BY <1>1, <1>3, <1>4 DEF Biggest
        <4>2. c.score[q] = p.max
          BY <3>1, <4>1 DEF Low
        <4> QED BY <1>3, <4>2
      <3>2. CASE p.max # Low
        BY <1>1, <3>2 DEF Biggest
      <3> QED BY <3>1, <3>2
    <2> HIDE DEF scores
    <2> QED BY <2>1, <2>2, MaxIs
  <1>6. Range(p.rows) = {Weighted(Row(k % Ring(c), c, x[2]), Max(scores)) : k \in V}
    BY <1>1, <1>5 DEF WeightedRows
  <1> QED BY <1>1, <1>4, <1>6 DEF IsAttention, V
-----------------------------------------------------------------------------
(* Lists of keys: each of a set once.                                       *)

Lists(s, T) ==
  /\ s \in Seq(Int) /\ Range(s) = T
  /\ \A i \in 1 .. Len(s), j \in 1 .. Len(s) : i # j => s[i] # s[j]

\* A list of a set is as long as the set is large.
LEMMA ListLength ==
  ASSUME NEW s, NEW T, Lists(s, T)
  PROVE  IsFiniteSet(T) /\ Cardinality(T) = Len(s)
  <1> DEFINE n == Len(s)
  <1>1. /\ s \in Seq(Int) /\ n \in Nat /\ DOMAIN s = 1 .. n /\ T = {s[i] : i \in 1 .. n}
        /\ s \in [1 .. n -> T] /\ \A i \in 1 .. n, j \in 1 .. n : i # j => s[i] # s[j]
    BY InRange DEF Lists
  <1> HIDE DEF n
  <1>2. s \in Bijection(1 .. n, T)
    BY <1>1 DEF Bijection, Injection, Surjection, IsInjective
  <1>3. IsFiniteSet(1 .. n) /\ Cardinality(1 .. n) = n
    <2>1. 1 \in Int /\ n \in Int
      BY <1>1
    <2>2. IsFiniteSet(1 .. n) /\ Cardinality(1 .. n) = IF 1 > n THEN 0 ELSE n - 1 + 1
      BY <2>1, FS_Interval
    <2> QED BY <1>1, <2>2
  <1>4. ExistsBijection(1 .. n, T)
    BY <1>2 DEF ExistsBijection
  <1> QED BY <1>3, <1>4, FS_Bijection DEF n

\* The rows of listed keys.
LEMMA ListedRows ==
  ASSUME NEW c, Attends(c), NEW h \in Int, NEW s, NEW W \in SUBSET Live(c), Lists(s, W),
         NEW reads, reads = [i \in 1 .. Len(s) |-> reads[i]],
         \A i \in 1 .. Len(s) : reads[i] = Row(s[i] % Ring(c), c, h)
  PROVE  ReadsOf(c, h, reads, W)
  <1>1. s \in Seq(Int) /\ Len(s) \in Nat /\ W = {s[i] : i \in 1 .. Len(s)} /\ DOMAIN s = 1 .. Len(s)
    BY InRange DEF Lists
  <1>2. \A i \in 1 .. Len(s) : reads[i] \in Rows3
    <2> TAKE i \in 1 .. Len(s)
    <2>1. s[i] % Ring(c) \in Int
      <3>1. s[i] \in Int /\ Ring(c) \in Positive
        BY <1>1, CallSizes
      <3> DEFINE a == s[i]
                 b == Ring(c)
      <3> HIDE DEF a, b
      <3>2. a % b \in Int
        <4>1. a \in Int /\ b \in Positive
          BY <3>1 DEF a, b
        <4> QED BY <4>1, DivMod
      <3> QED BY <3>2 DEF a, b
    <2>2. KvHead(c, h) \in Int
      BY KvHeadType
    <2> DEFINE a == s[i] % Ring(c)
               k == KvHead(c, h)
    <2>3. reads[i] = <<a, a, k>>
      BY DEF Row
    <2>4. a \in Int /\ k \in Int
      BY <2>1, <2>2
    <2> HIDE DEF a, k
    <2>5. <<a, a, k>> \in Rows3
      BY <2>4 DEF Rows3
    <2> QED BY <2>3, <2>5, Zenon
  <1>3. reads \in Seq(Rows3) /\ Len(reads) = Len(s)
    BY <1>1, <1>2
  <1>4. Len(reads) = Cardinality(W)
    BY <1>3, ListLength
  <1>5. Range(reads) = {reads[i] : i \in 1 .. Len(s)}
    BY <1>3, InRange
  <1>6. Range(reads) = RowSet(c, h, W)
    <2>1. ASSUME NEW x \in Range(reads) PROVE x \in RowSet(c, h, W)
      BY <1>1, <1>5 DEF RowSet
    <2>2. ASSUME NEW x \in RowSet(c, h, W) PROVE x \in Range(reads)
      <3>1. PICK i \in 1 .. Len(s) : x = Row(s[i] % Ring(c), c, h)
        BY <1>1 DEF RowSet
      <3> QED BY <1>5, <3>1
    <2> QED BY <2>1, <2>2
  <1> QED BY <1>3, <1>4, <1>6 DEF ReadsOf

\* How many times b goes into a, rounded up.
LEMMA Ceiling ==
  ASSUME NEW a \in Nat, NEW b \in Positive
  PROVE  /\ CeilDiv(a, b) \in Nat
         /\ a <= b * CeilDiv(a, b)
         /\ b * CeilDiv(a, b) < a + b
         /\ a > 0 => CeilDiv(a, b) > 0
  <1> DEFINE n == a + b - 1
             q == n \div b
             r == n % b
  <1>1. n \in Int /\ n \in Nat /\ b \in Nat /\ b > 0
    BY DEF Positive
  <1>2. n = b * q + r /\ r \in 0 .. b - 1 /\ q \in Nat
    <2> HIDE DEF n
    <2> QED BY <1>1, DivMod
  <1>3. CeilDiv(a, b) = q
    BY DEF CeilDiv
  <1> HIDE DEF q, r
  <1>4. b * q \in Nat
    BY <1>1, <1>2
  <1>5. a <= b * q /\ b * q < a + b
    BY <1>1, <1>2, <1>4
  <1>6. ASSUME a > 0 PROVE q > 0
    <2>1. CASE q = 0
      <3>1. b * q = 0
        BY <1>1, <2>1
      <3> QED BY <1>5, <1>6, <3>1
    <2> QED BY <1>2, <2>1
  <1> QED BY <1>2, <1>3, <1>5, <1>6

\* The steps from lo divide what is below hi.
LEMMA StepsDivide ==
  ASSUME NEW lo \in Int, NEW hi \in Int, NEW step \in Positive
  PROVE  LET s == Steps(lo, hi, step) IN
         /\ s \in Seq(Int) /\ DOMAIN s = 1 .. Len(s) /\ Len(s) \in Nat /\ s = [i \in 1 .. Len(s) |-> s[i]]
         /\ \A i \in 1 .. Len(s) : s[i] \in Int /\ s[i] = lo + (i - 1) * step /\ lo <= s[i] /\ s[i] < hi
         /\ \A i \in 1 .. Len(s), j \in 1 .. Len(s) : i < j => s[i] + step <= s[j]
         /\ \A k \in lo .. hi - 1 : \E i \in 1 .. Len(s) : s[i] <= k /\ k < s[i] + step
  <1> DEFINE n == IF hi > lo THEN CeilDiv(hi - lo, step) ELSE 0
             s == Steps(lo, hi, step)
  <1>0. step \in Nat /\ step > 0 /\ step \in Int
    BY DEF Positive
  <1>1. n \in Nat /\ (hi <= lo => n = 0) /\ (hi > lo => hi - lo <= step * n /\ step * n < hi - lo + step)
    <2>1. CASE hi > lo
      <3>1. hi - lo \in Nat
        BY <2>1
      <3> QED BY <2>1, <3>1, Ceiling
    <2> QED BY <2>1
  <1>2. s = [i \in 1 .. n |-> lo + (i - 1) * step]
    BY DEF Steps
  <1> HIDE DEF n, s
  <1>3. \A i \in 1 .. n : (i - 1) * step \in Int /\ (i - 1) * step >= 0 /\ s[i] = lo + (i - 1) * step
    <2> TAKE i \in 1 .. n
    <2>1. i - 1 \in Nat
      OBVIOUS
    <2> QED BY <1>0, <1>1, <1>2, <2>1
  <1>4. s \in Seq(Int) /\ Len(s) = n /\ DOMAIN s = 1 .. n
    <2>1. \A i \in 1 .. n : s[i] \in Int
      BY <1>3
    <2>2. s = [i \in 1 .. n |-> s[i]]
      BY <1>2
    <2> QED BY <1>1, <2>1, <2>2
  <1>5. \A i \in 1 .. n : s[i] \in Int /\ lo <= s[i] /\ s[i] < hi
    <2> TAKE i \in 1 .. n
    <2>1. hi > lo /\ n > 0 /\ i - 1 <= n - 1 /\ i - 1 \in Int /\ n - 1 \in Int
      BY <1>1
    <2>2. step * (i - 1) <= step * (n - 1)
      BY <1>0, <2>1, TimesOrder
    <2>3. step * (n - 1) = step * n - step /\ step * (i - 1) = (i - 1) * step /\ step * n \in Int
      BY <1>0, <1>1, <2>1
    <2> QED BY <1>0, <1>1, <1>3, <2>1, <2>2, <2>3
  <1>6. \A i \in 1 .. n, j \in 1 .. n : i < j => s[i] + step <= s[j]
    <2> TAKE i \in 1 .. n, j \in 1 .. n
    <2> SUFFICES ASSUME i < j PROVE s[i] + step <= s[j]
      OBVIOUS
    <2>1. i <= j - 1 /\ i \in Int /\ j - 1 \in Int
      OBVIOUS
    <2>2. step * i <= step * (j - 1)
      BY <1>0, <2>1, TimesOrder
    <2>3. (i - 1) * step = step * i - step /\ (j - 1) * step = step * (j - 1) /\ step * i \in Int
      BY <1>0, <2>1
    <2> QED BY <1>0, <1>3, <2>2, <2>3
  <1>7. \A k \in lo .. hi - 1 : \E i \in 1 .. n : s[i] <= k /\ k < s[i] + step
    <2> TAKE k \in lo .. hi - 1
    <2> DEFINE d == k - lo
               q == d \div step
               r == d % step
    <2>1. d \in Nat /\ d < hi - lo /\ hi > lo /\ d \in Int
      OBVIOUS
    <2>2. d = step * q + r /\ r \in 0 .. step - 1 /\ q \in Nat
      <3> HIDE DEF d
      <3> QED BY <2>1, DivMod
    <2> HIDE DEF q, r
    <2>3. step * q \in Int
      BY <1>0, <2>2
    <2>4. q < n
      <3>1. CASE n <= q
        <4>1. step * n <= step * q
          BY <1>0, <1>1, <2>2, <3>1, TimesOrder
        <4> QED BY <1>0, <1>1, <2>1, <2>2, <2>3, <4>1
      <3> QED BY <1>1, <2>2, <3>1
    <2>5. q + 1 \in 1 .. n /\ s[q + 1] = lo + step * q
      <3>1. q + 1 \in 1 .. n /\ (q + 1) - 1 = q /\ q * step = step * q
        BY <1>0, <1>1, <2>2, <2>4
      <3>2. s[q + 1] = lo + ((q + 1) - 1) * step
        BY <1>3, <3>1
      <3> QED BY <3>1, <3>2
    <2>6. s[q + 1] <= k /\ k < s[q + 1] + step
      BY <1>0, <2>1, <2>2, <2>3, <2>5
    <2> QED BY <2>5, <2>6
  <1>8. s = [i \in 1 .. n |-> s[i]] /\ n \in Nat
    BY <1>1, <1>2
  <1> HIDE DEF n
  <1> QED BY <1>3, <1>4, <1>5, <1>6, <1>7, <1>8 DEF s

\* The start of each tile, as far from the one before as a tile is long.
Stepped(s, lo, hi, step) ==
  /\ s \in Seq(Int) /\ DOMAIN s = 1 .. Len(s) /\ Len(s) \in Nat /\ s = [i \in 1 .. Len(s) |-> s[i]]
  /\ \A i \in 1 .. Len(s) : s[i] \in Int /\ s[i] = lo + (i - 1) * step /\ lo <= s[i] /\ s[i] < hi
  /\ \A i \in 1 .. Len(s), j \in 1 .. Len(s) : i < j => s[i] + step <= s[j]
  /\ \A k \in lo .. hi - 1 : \E i \in 1 .. Len(s) : s[i] <= k /\ k < s[i] + step

\* The steps are those.
LEMMA StepsStep ==
  ASSUME NEW lo \in Int, NEW hi \in Int, NEW step \in Positive
  PROVE  Stepped(Steps(lo, hi, step), lo, hi, step)
  BY StepsDivide DEF Stepped

\* One by one, they list them.
LEMMA StepsList ==
  ASSUME NEW lo \in Int, NEW hi \in Int
  PROVE  Lists(Steps(lo, hi, 1), lo .. hi - 1)
  <1> DEFINE s == Steps(lo, hi, 1)
  <1>1. 1 \in Positive
    BY DEF Positive
  <1>2. /\ s \in Seq(Int)
        /\ \A i \in 1 .. Len(s) : s[i] \in Int /\ lo <= s[i] /\ s[i] < hi
        /\ \A i \in 1 .. Len(s), j \in 1 .. Len(s) : i < j => s[i] + 1 <= s[j]
        /\ \A k \in lo .. hi - 1 : \E i \in 1 .. Len(s) : s[i] <= k /\ k < s[i] + 1
    BY <1>1, StepsDivide
  <1> HIDE DEF s
  <1>3. Range(s) = {s[i] : i \in 1 .. Len(s)}
    BY <1>2, InRange
  <1>4. \A k \in lo .. hi - 1 : k \in Range(s)
    <2> TAKE k \in lo .. hi - 1
    <2>1. PICK i \in 1 .. Len(s) : s[i] <= k /\ k < s[i] + 1
      BY <1>2
    <2>2. s[i] \in Int
      BY <1>2
    <2>3. s[i] = k
      BY <2>1, <2>2
    <2> QED BY <1>3, <2>3
  <1>5. \A k \in Range(s) : k \in lo .. hi - 1
    BY <1>2, <1>3
  <1>6. \A i \in 1 .. Len(s), j \in 1 .. Len(s) : i # j => s[i] # s[j]
    <2> TAKE i \in 1 .. Len(s), j \in 1 .. Len(s)
    <2>1. s[i] \in Int /\ s[j] \in Int /\ i \in Int /\ j \in Int
      BY <1>2
    <2>2. CASE i < j
      BY <1>2, <2>1, <2>2
    <2>3. CASE j < i
      BY <1>2, <2>1, <2>3
    <2> QED BY <2>1, <2>2, <2>3
  <1>7. Range(s) = lo .. hi - 1
    BY <1>4, <1>5
  <1> QED BY <1>2, <1>6, <1>7 DEF Lists, s

\* The keys a mask lets through, kept one after another.
LEMMA WhereSteps ==
  ASSUME NEW range \in Seq(Int), NEW seen
  PROVE  \E f \in [0 .. Len(range) -> Seq(Int)] :
            /\ f[0] = <<>>
            /\ \A j \in 1 .. Len(range) :
                  f[j] = IF range[j] \in seen THEN Append(f[j - 1], range[j]) ELSE f[j - 1]
            /\ Where(range, seen) = f[Len(range)]
  <1> DEFINE n == Len(range)
             One(kept, k) == IF k \in seen THEN Append(kept, k) ELSE kept
             st == [x \in Seq(Int) \X (1 .. n) |-> One(x[1], range[x[2]])]
             Value(g, s) == IF s = {} THEN <<>> ELSE One(g[s \ {Max(s)}], range[Max(s)])
             Fold(g) == g = [s \in SUBSET (1 .. n) |-> Value(g, s)]
  <1>1. n \in Nat /\ DOMAIN range = 1 .. n /\ \A i \in 1 .. n : range[i] \in Int
    OBVIOUS
  <1>2. Where(range, seen) = (CHOOSE g : Fold(g))[1 .. n]
    <2>1. Where(range, seen) = (CHOOSE g : g = [s \in SUBSET (DOMAIN range) |-> Value(g, s)])[DOMAIN range]
      BY DEF Where, FoldLeft, MapThenFoldSet
    <2> QED BY <2>1, <1>1
  <1>3. st \in [Seq(Int) \X (1 .. n) -> Seq(Int)] /\ <<>> \in Seq(Int)
    <2>1. \A p \in Seq(Int), i \in 1 .. n : One(p, range[i]) \in Seq(Int)
      BY <1>1
    <2> HIDE DEF One
    <2> QED BY <2>1
  <1>4. \A p \in Seq(Int), i \in 1 .. n : st[<<p, i>>] = One(p, range[i])
    <2> HIDE DEF One
    <2> QED OBVIOUS
  <1> HIDE DEF n, st, One
  <1>5. PICK g \in [SUBSET (1 .. n) -> Seq(Int)] : Folds(g, st, <<>>, n)
    BY <1>1, <1>3, FoldExists
  <1>6. \A s \in SUBSET (1 .. n) : g[s] = Value(g, s)
    <2> SUFFICES ASSUME NEW s \in SUBSET (1 .. n), s # {} PROVE g[s] = Value(g, s)
      BY <1>5 DEF Folds
    <2>1. Max(s) \in s
      <3>1. s \in SUBSET Int /\ n \in Int /\ \A y \in s : y <= n
        BY <1>1
      <3> QED BY <3>1, MaxUpTo
    <2>2. Max(s) \in 1 .. n /\ s \ {Max(s)} \in SUBSET (1 .. n)
      BY <2>1
    <2>3. g[s \ {Max(s)}] \in Seq(Int)
      BY <1>5, <2>2
    <2> QED BY <1>4, <1>5, <2>2, <2>3 DEF Folds
  <1>7. Fold(g)
    <2>1. g = [s \in SUBSET (1 .. n) |-> g[s]]
      BY <1>5
    <2> HIDE DEF Value
    <2> QED BY <1>6, <2>1
  <1> DEFINE it == CHOOSE h : Fold(h)
  <1>8. Fold(it)
    <2> HIDE DEF Fold
    <2> QED BY <1>7
  <1> HIDE DEF it
  <1>9. \A s \in SUBSET (1 .. n) : it[s] = Value(it, s)
    <2>1. it = [s \in SUBSET (1 .. n) |-> Value(it, s)]
      BY <1>8
    <2> HIDE DEF Value
    <2> QED BY <2>1
  <1>10. /\ it[1 .. 0] = <<>>
         /\ \A j \in 1 .. n : it[1 .. j] = One(it[1 .. (j - 1)], range[j])
    <2>1. 1 .. 0 = {}
      OBVIOUS
    <2>2. ASSUME NEW j \in 1 .. n PROVE it[1 .. j] = One(it[1 .. (j - 1)], range[j])
      <3>1. 1 .. j \in SUBSET (1 .. n) /\ j \in 1 .. j /\ (1 .. j) \ {j} = 1 .. (j - 1)
        <4>1. j \in Int /\ 1 <= j /\ j <= n /\ n \in Int
          BY <1>1
        <4> QED BY <4>1
      <3>2. Max(1 .. j) = j
        <4>1. 1 .. j \in SUBSET Int /\ j \in 1 .. j /\ \A y \in 1 .. j : y <= j
          OBVIOUS
        <4> QED BY <4>1, MaxIs
      <3> QED BY <1>9, <3>1, <3>2
    <2> QED BY <2>1, <2>2, <1>9
  <1> DEFINE f == [j \in 0 .. n |-> it[1 .. j]]
             Good == {j \in 0 .. n : f[j] \in Seq(Int)}
  <1>11. f[0] = <<>> /\ \A j \in 1 .. n : f[j] = One(f[j - 1], range[j])
    <2>1. f[0] = it[1 .. 0]
      BY <1>1
    <2>2. \A j \in 1 .. n : f[j] = it[1 .. j] /\ f[j - 1] = it[1 .. (j - 1)]
      BY <1>1
    <2> QED BY <2>1, <2>2, <1>10
  <1> HIDE DEF f
  <1>12. \A j \in 0 .. n : f[j] \in Seq(Int)
    <2>1. 0 \in Good
      <3>1. f[0] \in Seq(Int)
        BY <1>3, <1>11
      <3> QED BY <1>1, <3>1
    <2>2. ASSUME NEW j \in 0 .. n, j < n, j \in Good PROVE j + 1 \in Good
      <3>1. j + 1 \in 1 .. n /\ j + 1 \in 0 .. n /\ (j + 1) - 1 = j
        BY <1>1, <2>2
      <3>2. f[j + 1] = One(f[j], range[j + 1]) /\ range[j + 1] \in Int /\ f[j] \in Seq(Int)
        BY <1>1, <1>11, <2>2, <3>1
      <3>3. One(f[j], range[j + 1]) \in Seq(Int)
        BY <3>2 DEF One
      <3> QED BY <3>1, <3>2, <3>3
    <2> HIDE DEF Good
    <2>3. \A j \in 0 .. n : j \in Good
      BY <1>1, <2>1, <2>2, UpTo
    <2> QED BY <2>3 DEF Good
  <1>13. f \in [0 .. n -> Seq(Int)]
    BY <1>12 DEF f
  <1>14. Where(range, seen) = f[n]
    BY <1>1, <1>2 DEF f, it
  <1> QED BY <1>11, <1>13, <1>14 DEF n, One

\* What is in a sequence with one more element.
LEMMA RangeOfAppend ==
  ASSUME NEW S, NEW s \in Seq(S), NEW x \in S
  PROVE  /\ Append(s, x) \in Seq(S) /\ Len(Append(s, x)) = Len(s) + 1 /\ Len(s) \in Nat
         /\ Range(Append(s, x)) = Range(s) \cup {x}
         /\ \A i \in 1 .. Len(s) + 1 : Append(s, x)[i] = IF i <= Len(s) THEN s[i] ELSE x
  <1> DEFINE t == Append(s, x)
             n == Len(s)
  <1>1. t \in Seq(S) /\ Len(t) = n + 1 /\ n \in Nat /\ \A i \in 1 .. n + 1 : t[i] = IF i <= n THEN s[i] ELSE x
    OBVIOUS
  <1> HIDE DEF t, n
  <1>2. Range(s) = {s[i] : i \in 1 .. n} /\ Range(t) = {t[i] : i \in 1 .. n + 1}
    <2>1. Range(s) = {s[i] : i \in 1 .. Len(s)}
      BY InRange
    <2>2. Range(t) = {t[i] : i \in 1 .. Len(t)}
      BY <1>1, InRange
    <2> QED BY <1>1, <2>1, <2>2 DEF n
  <1>3. ASSUME NEW y \in Range(t) PROVE y \in Range(s) \cup {x}
    <2>1. PICK i \in 1 .. n + 1 : y = t[i]
      BY <1>2
    <2>2. CASE i <= n
      <3>1. i \in 1 .. n /\ y = s[i]
        BY <1>1, <2>1, <2>2
      <3> QED BY <1>2, <3>1
    <2>3. CASE ~(i <= n)
      BY <1>1, <2>1, <2>3
    <2> QED BY <2>2, <2>3
  <1>4. ASSUME NEW y \in Range(s) PROVE y \in Range(t)
    <2>1. PICK i \in 1 .. n : y = s[i]
      BY <1>2
    <2>2. i \in 1 .. n + 1 /\ t[i] = y
      BY <1>1, <2>1
    <2> QED BY <1>2, <2>2
  <1>5. x \in Range(t)
    <2>1. n + 1 \in 1 .. n + 1 /\ t[n + 1] = x
      BY <1>1
    <2> QED BY <1>2, <2>1
  <1>6. Range(t) = Range(s) \cup {x}
    BY <1>3, <1>4, <1>5
  <1> QED BY <1>1, <1>6 DEF t, n

\* A list with an element it did not have.
LEMMA ListAppend ==
  ASSUME NEW s, NEW T, Lists(s, T), NEW x \in Int, x \notin T
  PROVE  Lists(Append(s, x), T \cup {x})
  <1> DEFINE t == Append(s, x)
             n == Len(s)
  <1>1. s \in Seq(Int) /\ Range(s) = T /\ \A i \in 1 .. n, j \in 1 .. n : i # j => s[i] # s[j]
    BY DEF Lists
  <1>2. /\ t \in Seq(Int) /\ Len(t) = n + 1 /\ n \in Nat /\ Range(t) = T \cup {x}
        /\ \A i \in 1 .. n + 1 : t[i] = IF i <= n THEN s[i] ELSE x
    BY <1>1, RangeOfAppend
  <1>3. \A i \in 1 .. n : s[i] \in T
    <2>1. Range(s) = {s[i] : i \in 1 .. n}
      BY <1>1, InRange
    <2> QED BY <1>1, <2>1
  <1> HIDE DEF t, n
  <1>4. \A i \in 1 .. n + 1, j \in 1 .. n + 1 : i # j => t[i] # t[j]
    <2> SUFFICES ASSUME NEW i \in 1 .. n + 1, NEW j \in 1 .. n + 1, i # j PROVE t[i] # t[j]
      OBVIOUS
    <2>1. CASE i <= n /\ j <= n
      <3>1. i \in 1 .. n /\ j \in 1 .. n /\ t[i] = s[i] /\ t[j] = s[j]
        BY <1>2, <2>1
      <3> QED BY <1>1, <3>1
    <2>2. CASE i <= n /\ ~(j <= n)
      <3>1. i \in 1 .. n /\ t[i] = s[i] /\ t[j] = x
        BY <1>2, <2>2
      <3> QED BY <1>3, <3>1
    <2>3. CASE ~(i <= n) /\ j <= n
      <3>1. j \in 1 .. n /\ t[j] = s[j] /\ t[i] = x
        BY <1>2, <2>3
      <3> QED BY <1>3, <3>1
    <2>4. CASE ~(i <= n) /\ ~(j <= n)
      BY <1>2, <2>4
    <2> QED BY <2>1, <2>2, <2>3, <2>4
  <1> QED BY <1>2, <1>4 DEF Lists, t

\* The mask keeps the keys it lets through, each once.
LEMMA WhereList ==
  ASSUME NEW range, NEW T, Lists(range, T), NEW seen
  PROVE  Lists(Where(range, seen), T \cap seen)
  <1> DEFINE n == Len(range)
             Kept(j) == {range[i] : i \in 1 .. j} \cap seen
  <1>1. /\ range \in Seq(Int) /\ n \in Nat /\ T = {range[i] : i \in 1 .. n}
        /\ \A i \in 1 .. n : range[i] \in Int
        /\ \A i \in 1 .. n, j \in 1 .. n : i # j => range[i] # range[j]
    BY InRange DEF Lists
  <1>2. PICK f \in [0 .. n -> Seq(Int)] :
            /\ f[0] = <<>>
            /\ \A j \in 1 .. n : f[j] = IF range[j] \in seen THEN Append(f[j - 1], range[j]) ELSE f[j - 1]
            /\ Where(range, seen) = f[n]
    BY <1>1, WhereSteps
  <1> DEFINE Good == {j \in 0 .. n : Lists(f[j], Kept(j))}
  <1>3. 0 \in Good
    <2>1. Kept(0) = {}
      OBVIOUS
    <2>2. Lists(<<>>, {})
      BY DEF Lists, Range
    <2>3. f[0] = <<>> /\ 0 \in 0 .. n
      BY <1>1, <1>2
    <2> HIDE DEF Kept
    <2>4. Lists(f[0], Kept(0))
      BY <2>1, <2>2, <2>3, Zenon
    <2> QED BY <2>3, <2>4
  <1>4. ASSUME NEW j \in 0 .. n, j < n, j \in Good
        PROVE  j + 1 \in Good
    <2> DEFINE x == range[j + 1]
    <2>1. j + 1 \in 1 .. n /\ (j + 1) - 1 = j /\ j + 1 \in 0 .. n /\ x \in Int
      BY <1>1, <1>4
    <2>2. f[j + 1] = IF x \in seen THEN Append(f[j], x) ELSE f[j]
      <3>1. f[j + 1] = IF range[j + 1] \in seen THEN Append(f[(j + 1) - 1], range[j + 1]) ELSE f[(j + 1) - 1]
        BY <1>2, <2>1
      <3> QED BY <2>1, <3>1
    <2>3. Lists(f[j], Kept(j))
      BY <1>4
    <2>4. x \notin Kept(j)
      <3>1. \A i \in 1 .. j : i \in 1 .. n /\ i # j + 1
        BY <2>1
      <3> QED BY <1>1, <2>1, <3>1
    <2>5. {range[i] : i \in 1 .. j + 1} = {range[i] : i \in 1 .. j} \cup {x}
      <3>1. 1 .. j + 1 = (1 .. j) \cup {j + 1}
        BY <2>1
      <3> QED BY <3>1
    <2>6. Kept(j + 1) = IF x \in seen THEN Kept(j) \cup {x} ELSE Kept(j)
      BY <2>5
    <2> HIDE DEF x, Kept
    <2>7. CASE x \in seen
      <3>1. Lists(Append(f[j], x), Kept(j) \cup {x})
        BY <2>1, <2>3, <2>4, ListAppend
      <3>2. Lists(f[j + 1], Kept(j + 1))
        BY <2>2, <2>6, <2>7, <3>1
      <3> QED BY <2>1, <3>2
    <2>8. CASE x \notin seen
      <3>1. Lists(f[j + 1], Kept(j + 1))
        BY <2>2, <2>3, <2>6, <2>8
      <3> QED BY <2>1, <3>1
    <2> QED BY <2>7, <2>8
  <1>5. n \in Good
    <2> HIDE DEF Good
    <2>1. \A m \in 0 .. n : m \in Good
      BY <1>1, <1>3, <1>4, UpTo
    <2> QED BY <1>1, <2>1
  <1>6. Kept(n) = T \cap seen
    BY <1>1
  <1> HIDE DEF Kept
  <1> QED BY <1>2, <1>5, <1>6

\* The slot after the last one walked, or the first.
NextSlot(walked, p, slots) ==
  IF walked = <<>> THEN p % slots ELSE IF Last(walked) + 1 = slots THEN 0 ELSE Last(walked) + 1

\* It is a number.
LEMMA NextSlotType ==
  ASSUME NEW walked \in Seq(Int), NEW p \in Int, NEW slots \in Positive
  PROVE  NextSlot(walked, p, slots) \in Int
  <1>1. p % slots \in Int
    BY DivMod
  <1>2. CASE walked # <<>>
    <2>1. Len(walked) \in 1 .. Len(walked)
      BY <1>2
    <2>2. Last(walked) \in Int
      BY <2>1 DEF Last
    <2> QED BY <1>2, <2>2 DEF NextSlot
  <1> QED BY <1>1, <1>2 DEF NextSlot

\* The slots counted along, one after another.
LEMMA WalkSteps ==
  ASSUME NEW range \in Seq(Int), NEW slots \in Positive
  PROVE  \E f \in [0 .. Len(range) -> Seq(Int)] :
            /\ f[0] = <<>>
            /\ \A j \in 1 .. Len(range) :
                  f[j] = Append(f[j - 1], NextSlot(f[j - 1], range[j], slots))
            /\ Walk(range, slots) = f[Len(range)]
  <1> DEFINE n == Len(range)
             One(walked, p) == Append(walked, NextSlot(walked, p, slots))
             st == [x \in Seq(Int) \X (1 .. n) |-> One(x[1], range[x[2]])]
             Value(g, s) == IF s = {} THEN <<>> ELSE One(g[s \ {Max(s)}], range[Max(s)])
             Fold(g) == g = [s \in SUBSET (1 .. n) |-> Value(g, s)]
  <1>1. n \in Nat /\ DOMAIN range = 1 .. n /\ \A i \in 1 .. n : range[i] \in Int
    OBVIOUS
  <1>2. Walk(range, slots) = (CHOOSE g : Fold(g))[1 .. n]
    <2>1. Walk(range, slots) = (CHOOSE g : g = [s \in SUBSET (DOMAIN range) |-> Value(g, s)])[DOMAIN range]
      BY DEF Walk, NextSlot, FoldLeft, MapThenFoldSet
    <2> QED BY <2>1, <1>1
  <1>3. st \in [Seq(Int) \X (1 .. n) -> Seq(Int)] /\ <<>> \in Seq(Int)
    <2>1. \A p \in Seq(Int), i \in 1 .. n : One(p, range[i]) \in Seq(Int)
      <3> TAKE p \in Seq(Int), i \in 1 .. n
      <3>1. NextSlot(p, range[i], slots) \in Int
        BY <1>1, NextSlotType
      <3> QED BY <3>1
    <2> HIDE DEF One
    <2> QED BY <2>1
  <1>4. \A p \in Seq(Int), i \in 1 .. n : st[<<p, i>>] = One(p, range[i])
    <2> HIDE DEF One
    <2> QED OBVIOUS
  <1> HIDE DEF n, st, One
  <1>5. PICK g \in [SUBSET (1 .. n) -> Seq(Int)] : Folds(g, st, <<>>, n)
    BY <1>1, <1>3, FoldExists
  <1>6. \A s \in SUBSET (1 .. n) : g[s] = Value(g, s)
    <2> SUFFICES ASSUME NEW s \in SUBSET (1 .. n), s # {} PROVE g[s] = Value(g, s)
      BY <1>5 DEF Folds
    <2>1. Max(s) \in s
      <3>1. s \in SUBSET Int /\ n \in Int /\ \A y \in s : y <= n
        BY <1>1
      <3> QED BY <3>1, MaxUpTo
    <2>2. Max(s) \in 1 .. n /\ s \ {Max(s)} \in SUBSET (1 .. n)
      BY <2>1
    <2>3. g[s \ {Max(s)}] \in Seq(Int)
      BY <1>5, <2>2
    <2> QED BY <1>4, <1>5, <2>2, <2>3 DEF Folds
  <1>7. Fold(g)
    <2>1. g = [s \in SUBSET (1 .. n) |-> g[s]]
      BY <1>5
    <2> HIDE DEF Value
    <2> QED BY <1>6, <2>1
  <1> DEFINE it == CHOOSE h : Fold(h)
  <1>8. Fold(it)
    <2> HIDE DEF Fold
    <2> QED BY <1>7
  <1> HIDE DEF it
  <1>9. \A s \in SUBSET (1 .. n) : it[s] = Value(it, s)
    <2>1. it = [s \in SUBSET (1 .. n) |-> Value(it, s)]
      BY <1>8
    <2> HIDE DEF Value
    <2> QED BY <2>1
  <1>10. /\ it[1 .. 0] = <<>>
         /\ \A j \in 1 .. n : it[1 .. j] = One(it[1 .. (j - 1)], range[j])
    <2>1. 1 .. 0 = {}
      OBVIOUS
    <2>2. ASSUME NEW j \in 1 .. n PROVE it[1 .. j] = One(it[1 .. (j - 1)], range[j])
      <3>1. 1 .. j \in SUBSET (1 .. n) /\ j \in 1 .. j /\ (1 .. j) \ {j} = 1 .. (j - 1)
        <4>1. j \in Int /\ 1 <= j /\ j <= n /\ n \in Int
          BY <1>1
        <4> QED BY <4>1
      <3>2. Max(1 .. j) = j
        <4>1. 1 .. j \in SUBSET Int /\ j \in 1 .. j /\ \A y \in 1 .. j : y <= j
          OBVIOUS
        <4> QED BY <4>1, MaxIs
      <3> QED BY <1>9, <3>1, <3>2
    <2> QED BY <2>1, <2>2, <1>9
  <1> DEFINE f == [j \in 0 .. n |-> it[1 .. j]]
             Good == {j \in 0 .. n : f[j] \in Seq(Int)}
  <1>11. f[0] = <<>> /\ \A j \in 1 .. n : f[j] = One(f[j - 1], range[j])
    <2>1. f[0] = it[1 .. 0]
      BY <1>1
    <2>2. \A j \in 1 .. n : f[j] = it[1 .. j] /\ f[j - 1] = it[1 .. (j - 1)]
      BY <1>1
    <2> QED BY <2>1, <2>2, <1>10
  <1> HIDE DEF f
  <1>12. \A j \in 0 .. n : f[j] \in Seq(Int)
    <2>1. 0 \in Good
      <3>1. f[0] \in Seq(Int)
        BY <1>3, <1>11
      <3> QED BY <1>1, <3>1
    <2>2. ASSUME NEW j \in 0 .. n, j < n, j \in Good PROVE j + 1 \in Good
      <3>1. j + 1 \in 1 .. n /\ j + 1 \in 0 .. n /\ (j + 1) - 1 = j
        BY <1>1, <2>2
      <3>2. f[j + 1] = One(f[j], range[j + 1]) /\ range[j + 1] \in Int /\ f[j] \in Seq(Int)
        BY <1>1, <1>11, <2>2, <3>1
      <3>3. One(f[j], range[j + 1]) \in Seq(Int)
        <4>1. NextSlot(f[j], range[j + 1], slots) \in Int
          BY <3>2, NextSlotType
        <4> QED BY <3>2, <4>1 DEF One
      <3> QED BY <3>1, <3>2, <3>3
    <2> HIDE DEF Good
    <2>3. \A j \in 0 .. n : j \in Good
      BY <1>1, <2>1, <2>2, UpTo
    <2> QED BY <2>3 DEF Good
  <1>13. f \in [0 .. n -> Seq(Int)]
    BY <1>12 DEF f
  <1>14. Walk(range, slots) = f[n]
    BY <1>1, <1>2 DEF f, it
  <1> QED BY <1>11, <1>13, <1>14 DEF n, One

\* The slot of the next position is the next slot.
LEMMA NextModulo ==
  ASSUME NEW s \in Positive, NEW p \in Int
  PROVE  (p + 1) % s = IF (p % s) + 1 = s THEN 0 ELSE (p % s) + 1
  <1> DEFINE q == p \div s
             r == p % s
  <1>1. p = s * q + r /\ r \in 0 .. s - 1 /\ q \in Int /\ s \in Nat /\ s > 0
    BY DivMod DEF Positive
  <1> HIDE DEF q, r
  <1>2. s * q \in Int
    BY <1>1
  <1>3. CASE r + 1 = s
    <2>1. p + 1 = s * (q + 1) + 0 /\ q + 1 \in Int /\ 0 \in 0 .. s - 1
      BY <1>1, <1>2, <1>3
    <2> DEFINE t == q + 1
    <2>2. p + 1 = s * t + 0 /\ t \in Int
      BY <2>1
    <2> HIDE DEF t
    <2>3. (s * t + 0) % s = 0
      BY <2>1, <2>2, Quotient
    <2> QED BY <1>3, <2>2, <2>3 DEF r
  <1>4. CASE r + 1 # s
    <2> DEFINE u == r + 1
    <2>1. p + 1 = s * q + u /\ u \in 0 .. s - 1
      BY <1>1, <1>2, <1>4
    <2> HIDE DEF u
    <2>2. (s * q + u) % s = u
      BY <1>1, <2>1, Quotient
    <2> QED BY <1>4, <2>1, <2>2 DEF r, u
  <1> QED BY <1>3, <1>4

\* Counting the slots along is taking each position's own.
LEMMA WalkIsSlotted ==
  ASSUME NEW range \in Seq(Int), NEW slots \in Positive,
         \A i \in 1 .. Len(range) : i > 1 => range[i] = range[i - 1] + 1
  PROVE  Walk(range, slots) = Slotted(range, slots)
  <1> DEFINE n == Len(range)
             SlotsTo(j) == [i \in 1 .. j |-> range[i] % slots]
  <1>1. n \in Nat /\ DOMAIN range = 1 .. n /\ \A i \in 1 .. n : range[i] \in Int
    OBVIOUS
  <1>2. PICK f \in [0 .. n -> Seq(Int)] :
            /\ f[0] = <<>>
            /\ \A j \in 1 .. n : f[j] = Append(f[j - 1], NextSlot(f[j - 1], range[j], slots))
            /\ Walk(range, slots) = f[n]
    BY WalkSteps
  <1> DEFINE Good == {j \in 0 .. n : f[j] = SlotsTo(j)}
  <1>3. 0 \in Good
    <2>1. SlotsTo(0) = <<>>
      OBVIOUS
    <2> HIDE DEF SlotsTo
    <2> QED BY <1>1, <1>2, <2>1
  <1>4. ASSUME NEW j \in 0 .. n, j < n, j \in Good
        PROVE  j + 1 \in Good
    <2> DEFINE x == range[j + 1] % slots
    <2>1. /\ j \in Nat /\ j + 1 \in 1 .. n /\ (j + 1) - 1 = j /\ j + 1 \in 0 .. n /\ range[j + 1] \in Int
          /\ f[j] = SlotsTo(j) /\ f[j] \in Seq(Int)
      <3>1. /\ j \in Nat /\ j + 1 \in 1 .. n /\ (j + 1) - 1 = j /\ j + 1 \in 0 .. n
        BY <1>1, <1>4
      <3>2. f[j] = SlotsTo(j)
        BY <1>4
      <3>3. f[j] \in Seq(Int) /\ range[j + 1] \in Int
        BY <1>1, <1>2, <3>1
      <3> HIDE DEF SlotsTo
      <3> QED BY <3>1, <3>2, <3>3
    <2>2. f[j + 1] = Append(f[j], NextSlot(f[j], range[j + 1], slots))
      <3>1. f[j + 1] = Append(f[(j + 1) - 1], NextSlot(f[(j + 1) - 1], range[j + 1], slots))
        BY <1>2, <2>1
      <3> QED BY <2>1, <3>1
    <2>3. Len(f[j]) = j
      BY <2>1
    <2>4. NextSlot(f[j], range[j + 1], slots) = x
      <3>1. CASE j = 0
        <4>1. f[j] = <<>>
          BY <1>2, <3>1
        <4> QED BY <4>1 DEF NextSlot
      <3>2. CASE j > 0
        <4>1. j \in 1 .. n /\ j \in 1 .. j /\ range[j] \in Int /\ range[j + 1] = range[j] + 1 /\ f[j] # <<>>
          <5>1. j \in 1 .. n /\ j \in 1 .. j /\ j + 1 > 1
            BY <2>1, <3>2
          <5>2. range[j + 1] = range[(j + 1) - 1] + 1
            BY <2>1, <5>1
          <5>3. range[j] \in Int
            BY <1>1, <5>1
          <5>4. f[j] # <<>>
            <6>1. Len(f[j]) = j /\ j # 0 /\ Len(<<>>) = 0
              BY <2>3, <3>2
            <6> HIDE DEF SlotsTo, x
            <6> QED BY <6>1
          <5> HIDE DEF SlotsTo, x
          <5> QED BY <2>1, <5>1, <5>2, <5>3, <5>4
        <4>2. Last(f[j]) = range[j] % slots
          <5>1. f[j][j] = range[j] % slots
            BY <2>1, <4>1
          <5> QED BY <2>3, <5>1 DEF Last
        <4>3. (range[j] + 1) % slots = IF (range[j] % slots) + 1 = slots THEN 0 ELSE (range[j] % slots) + 1
          BY <4>1, NextModulo
        <4> QED BY <4>1, <4>2, <4>3 DEF NextSlot
      <3> QED BY <2>1, <3>1, <3>2
    <2>5. x \in Int
      BY <2>1, DivMod
    <2>6. Append(SlotsTo(j), x) = SlotsTo(j + 1)
      <3>1. \A i \in 1 .. j : range[i] % slots \in Int
        <4> TAKE i \in 1 .. j
        <4>1. range[i] \in Int
          BY <1>1, <2>1
        <4> QED BY <4>1, DivMod
      <3>2. SlotsTo(j) \in Seq(Int) /\ Len(SlotsTo(j)) = j
        BY <2>1
      <3>3. \A i \in 1 .. j + 1 : Append(SlotsTo(j), x)[i] = IF i <= j THEN SlotsTo(j)[i] ELSE x
        BY <2>1, <3>2
      <3>4. \A i \in 1 .. j + 1 : Append(SlotsTo(j), x)[i] = range[i] % slots
        <4> TAKE i \in 1 .. j + 1
        <4>1. CASE i <= j
          <5>1. i \in 1 .. j
            BY <2>1, <4>1
          <5> QED BY <3>3, <4>1, <5>1
        <4>2. CASE ~(i <= j)
          <5>1. i = j + 1
            BY <2>1, <4>2
          <5> QED BY <3>3, <4>2, <5>1
        <4> QED BY <4>1, <4>2
      <3>5. Len(Append(SlotsTo(j), x)) = j + 1 /\ Append(SlotsTo(j), x) \in Seq(Int)
        BY <2>5, <3>2
      <3>6. Append(SlotsTo(j), x) = [i \in 1 .. j + 1 |-> Append(SlotsTo(j), x)[i]]
        BY <3>5
      <3> QED BY <3>4, <3>6
    <2> HIDE DEF SlotsTo, x
    <2> QED BY <2>1, <2>2, <2>4, <2>6
  <1>5. n \in Good
    <2> HIDE DEF Good
    <2>1. \A m \in 0 .. n : m \in Good
      BY <1>1, <1>3, <1>4, UpTo
    <2> QED BY <1>1, <2>1
  <1>6. Slotted(range, slots) = SlotsTo(n)
    BY <1>1 DEF Slotted
  <1> QED BY <1>2, <1>5, <1>6
-----------------------------------------------------------------------------
(* Dividing the keys of a query.                                            *)

\* The keys of V in the i-th piece of size step from lo.
Piece(V, lo, step, i) == {k \in V : lo + (i - 1) * step <= k /\ k < lo + (i - 1) * step + step}

Pieces(V, lo, step, n) == [i \in 1 .. n |-> Piece(V, lo, step, i)]

\* Enough pieces have all the keys, each in one of them.
LEMMA PiecesApart ==
  ASSUME NEW c, NEW V \in SUBSET Live(c), NEW lo \in Int, NEW step \in Positive, NEW n \in Nat,
         \A k \in V : lo <= k /\ k < lo + n * step
  PROVE  Apart(c, Pieces(V, lo, step, n), n) /\ Upto(Pieces(V, lo, step, n), n) = V
  <1> DEFINE Vs == [i \in 1 .. n |-> Piece(V, lo, step, i)]
  <1>0. step \in Nat /\ step > 0 /\ \A k \in V : k \in Int
    BY DEF Positive, Live
  <1>1. \A i \in 1 .. n : Vs[i] \in SUBSET Live(c)
    BY DEF Piece
  <1>2. ASSUME NEW i \in 1 .. n, NEW j \in 1 .. n, i < j, NEW k \in V
        PROVE  ~(k \in Vs[i] /\ k \in Vs[j])
    <2>1. step * i <= step * (j - 1) /\ step * i \in Int /\ step * (j - 1) \in Int
      <3>1. i \in Int /\ j - 1 \in Int /\ i <= j - 1
        BY <1>2
      <3> QED BY <1>0, <3>1, TimesOrder
    <2>2. (i - 1) * step + step = step * i /\ (j - 1) * step = step * (j - 1)
      BY <1>0
    <2>3. k \in Vs[i] => k < lo + (i - 1) * step + step
      BY DEF Piece
    <2>4. k \in Vs[j] => lo + (j - 1) * step <= k
      BY DEF Piece
    <2>5. k \in Int /\ (i - 1) * step \in Int /\ (j - 1) * step \in Int
      BY <1>0
    <2> DEFINE a == (i - 1) * step
               b == (j - 1) * step
    <2>6. a + step <= b /\ a \in Int /\ b \in Int
      BY <1>0, <2>1, <2>2, <2>5
    <2> HIDE DEF Vs, a, b
    <2>7. ~(k < lo + a + step /\ lo + b <= k)
      BY <1>0, <2>5, <2>6
    <2> QED BY <2>3, <2>4, <2>7 DEF a, b
  <1>3. \A i \in 1 .. n, j \in 1 .. n : i # j => Vs[i] \cap Vs[j] = {}
    <2> SUFFICES ASSUME NEW i \in 1 .. n, NEW j \in 1 .. n, i # j, NEW k \in V, k \in Vs[i], k \in Vs[j]
                 PROVE  FALSE
      BY DEF Piece
    <2> HIDE DEF Vs
    <2>1. i < j \/ j < i
      OBVIOUS
    <2> QED BY <1>2, <2>1
  <1>4. ASSUME NEW k \in V PROVE \E i \in 1 .. n : k \in Vs[i]
    <2> DEFINE d == k - lo
               q == d \div step
               r == d % step
    <2>1. k \in Int /\ d \in Nat /\ d < n * step /\ d \in Int /\ n * step \in Int
      BY <1>0
    <2>2. d = step * q + r /\ r \in 0 .. step - 1 /\ q \in Nat
      <3> HIDE DEF d
      <3> QED BY <2>1, DivMod
    <2>3. k = lo + d
      BY <2>1
    <2> HIDE DEF d, q, r
    <2>4. step * q \in Int /\ q \in Nat
      BY <1>0, <2>2
    <2>5. q < n
      <3>1. CASE n <= q
        <4>1. step * n <= step * q /\ step * n = n * step
          BY <1>0, <2>2, <3>1, TimesOrder
        <4> QED BY <1>0, <2>1, <2>2, <2>4, <4>1
      <3> QED BY <2>4, <3>1
    <2>6. q + 1 \in 1 .. n /\ ((q + 1) - 1) * step = step * q
      BY <1>0, <2>4, <2>5
    <2>7. k \in Piece(V, lo, step, q + 1)
      BY <1>0, <2>1, <2>2, <2>3, <2>4, <2>6 DEF Piece
    <2> QED BY <2>6, <2>7
  <1>5. Upto(Vs, n) = V
    <2>1. \A k \in Upto(Vs, n) : k \in V
      BY DEF Upto, Piece
    <2>2. \A k \in V : k \in Upto(Vs, n)
      BY <1>4 DEF Upto
    <2> QED BY <2>1, <2>2
  <1>6. Vs = [i \in 1 .. n |-> Vs[i]]
    OBVIOUS
  <1> HIDE DEF Vs
  <1>7. Vs \in [1 .. n -> SUBSET Live(c)]
    BY <1>1, <1>6
  <1> QED BY <1>3, <1>5, <1>7 DEF Apart, Pieces, Vs

\* So do the steps from lo to hi.
LEMMA TilesApart ==
  ASSUME NEW c, NEW V \in SUBSET Live(c), NEW lo \in Int, NEW hi \in Int, NEW step \in Positive,
         \A k \in V : lo <= k /\ k < hi
  PROVE  LET n == Len(Steps(lo, hi, step))
         IN  n \in Nat /\ Apart(c, Pieces(V, lo, step, n), n) /\ Upto(Pieces(V, lo, step, n), n) = V
  <1> DEFINE s == Steps(lo, hi, step)
             n == Len(s)
  <1>1. /\ n \in Nat
        /\ \A i \in 1 .. n : s[i] \in Int /\ s[i] = lo + (i - 1) * step
        /\ \A k \in lo .. hi - 1 : \E i \in 1 .. n : s[i] <= k /\ k < s[i] + step
    BY StepsDivide
  <1> HIDE DEF s, n
  <1>2. \A k \in V : lo <= k /\ k < lo + n * step
    <2> TAKE k \in V
    <2>1. k \in Int /\ k \in lo .. hi - 1
      BY DEF Live
    <2>2. PICK i \in 1 .. n : s[i] <= k /\ k < s[i] + step
      BY <1>1, <2>1
    <2>3. s[i] = lo + (i - 1) * step /\ step \in Nat /\ i \in Int /\ i <= n /\ n \in Int
      BY <1>1, <2>2 DEF Positive
    <2>4. step * i <= step * n /\ step * i \in Int /\ step * n \in Int
      BY <2>3, TimesOrder
    <2>5. (i - 1) * step + step = step * i /\ n * step = step * n
      BY <2>3
    <2>6. s[i] \in Int
      BY <1>1
    <2> QED BY <2>1, <2>2, <2>3, <2>4, <2>5, <2>6
  <1> QED BY <1>1, <1>2, PiecesApart DEF n, s

\* What a query can see is still in its slot.
LEMMA VisibleLive ==
  ASSUME NEW c, Attends(c), NEW q \in c.past .. End(c) - 1
  PROVE  Visible(c, q) \in SUBSET Live(c) /\ q \in Int
  <1>1. /\ c.past \in Nat /\ c.new \in Nat /\ c.window \in Nat /\ Ring(c) \in Nat /\ End(c) = c.past + c.new
        /\ c.window = 0 => End(c) <= Ring(c)
        /\ End(c) <= Ring(c) \/ c.window + c.new <= Ring(c)
    BY CallSizes DEF Attends, Positive
  <1>2. ASSUME NEW k \in Visible(c, q) PROVE k \in Live(c)
    <2>1. k \in 0 .. End(c) - 1 /\ (c.window = 0 \/ k + c.window > q)
      BY DEF Visible, Sees
    <2>2. k + Ring(c) >= End(c)
      BY <1>1, <2>1
    <2> QED BY <2>1, <2>2 DEF Live
  <1> QED BY <1>1, <1>2

\* Without an image block, a query sees a range, up to itself.
LEMMA VisibleRange ==
  ASSUME NEW c, Attends(c), ~HasBlock(c), NEW q \in c.past .. End(c) - 1
  PROVE  /\ Visible(c, q) = First(c.window, q + 1) .. q
         /\ First(c.window, q + 1) \in Nat /\ First(c.window, q + 1) <= q
         /\ Visible(c, q) = {k \in 0 .. q : ~(c.window > 0 /\ k + c.window <= q)}
  <1>1. c.past \in Nat /\ c.window \in Nat /\ End(c) \in Nat /\ q \in Nat /\ q < End(c)
    BY CallSizes DEF Positive
  <1>2. \A k \in Int : ~(InBlock(c, q) /\ InBlock(c, k))
    <2>1. c.from \in Nat /\ c.to \in Nat
      BY DEF Attends
    <2> QED BY <1>1, <2>1 DEF HasBlock, InBlock
  <1>3. First(c.window, q + 1) = (IF c.window > 0 THEN IF 0 > q + 1 - c.window THEN 0 ELSE q + 1 - c.window ELSE 0)
    BY <1>1 DEF First, Larger
  <1>4. \A k : k \in Visible(c, q) <=> k \in First(c.window, q + 1) .. q
    BY <1>1, <1>2, <1>3 DEF Visible, Sees
  <1>5. \A k : k \in Visible(c, q) <=> k \in {m \in 0 .. q : ~(c.window > 0 /\ m + c.window <= q)}
    BY <1>1, <1>2 DEF Visible, Sees
  <1>6. First(c.window, q + 1) \in Nat /\ First(c.window, q + 1) <= q
    BY <1>1, <1>3
  <1> QED BY <1>4, <1>5, <1>6
-----------------------------------------------------------------------------
(* One query by warps.                                                      *)

\* One row.
LEMMA OneRead ==
  ASSUME NEW c, Attends(c), NEW h \in Int, NEW k \in Live(c), NEW slot, slot = k % Ring(c)
  PROVE  ReadsOf(c, h, <<Row(slot, c, h)>>, {k})
  <1> DEFINE s == <<k>>
             reads == <<Row(slot, c, h)>>
  <1>1. k \in Int /\ {k} \in SUBSET Live(c)
    BY DEF Live
  <1>2. Lists(s, {k}) /\ Len(s) = 1
    BY <1>1 DEF Lists, Range
  <1>3. reads = [i \in 1 .. Len(s) |-> reads[i]] /\ \A i \in 1 .. Len(s) : reads[i] = Row(s[i] % Ring(c), c, h)
    BY <1>2
  <1> HIDE DEF s, reads
  <1>4. ReadsOf(c, h, reads, {k})
    BY <1>1, <1>2, <1>3, ListedRows
  <1> QED BY <1>4 DEF reads

\* A warp adds the keys it is given, one after another.
LEMMA WarpHas ==
  ASSUME NEW c, Attends(c), NEW h \in Int, NEW s, NEW W \in SUBSET Live(c), Lists(s, W),
         NEW slots, slots = [i \in 1 .. Len(s) |-> slots[i]],
         \A i \in 1 .. Len(s) : slots[i] = s[i] % Ring(c)
  PROVE  PartOf(c, h, WarpPart(c, h, slots), W)
  <1> DEFINE n == Len(s)
             tiles == [i \in 1 .. n |-> <<Row(slots[i], c, h)>>]
             Vs == [i \in 1 .. n |-> {s[i]}]
  <1>1. /\ n \in Nat /\ W = {s[i] : i \in 1 .. n} /\ \A i \in 1 .. n : s[i] \in Live(c)
        /\ \A i \in 1 .. n, j \in 1 .. n : i # j => s[i] # s[j]
    BY InRange DEF Lists
  <1>2. DOMAIN slots = 1 .. n
    OBVIOUS
  <1>3. WarpPart(c, h, slots) = Online(c, tiles)
    BY <1>2 DEF WarpPart
  <1>4. Apart(c, Vs, n)
    <2>1. Vs \in [1 .. n -> SUBSET Live(c)]
      BY <1>1
    <2>2. \A i \in 1 .. n, j \in 1 .. n : i # j => Vs[i] \cap Vs[j] = {}
      BY <1>1
    <2> HIDE DEF Vs
    <2> QED BY <2>1, <2>2 DEF Apart
  <1>5. Upto(Vs, n) = W
    BY <1>1 DEF Upto
  <1>6. \A i \in 1 .. n : ReadsOf(c, h, tiles[i], Vs[i])
    <2> TAKE i \in 1 .. n
    <2> DEFINE k == s[i]
               slot == slots[i]
    <2>1. k \in Live(c) /\ slot = k % Ring(c)
      BY <1>1
    <2>2. tiles[i] = <<Row(slot, c, h)>> /\ Vs[i] = {k}
      OBVIOUS
    <2> HIDE DEF k, slot, tiles, Vs
    <2>3. ReadsOf(c, h, <<Row(slot, c, h)>>, {k})
      BY <2>1, OneRead
    <2> QED BY <2>2, <2>3
  <1>7. tiles = [i \in 1 .. n |-> tiles[i]]
    OBVIOUS
  <1> HIDE DEF tiles, Vs, n
  <1>8. PartOf(c, h, Online(c, tiles), Upto(Vs, n))
    BY <1>1, <1>4, <1>6, <1>7, OnlineAdds
  <1> QED BY <1>3, <1>5, <1>8

\* The keys that the warps of a query over total rows have, each its own.
WarpKeys(c, total) ==
  Pieces(First(c.window, total) .. total - 1, First(c.window, total),
         CeilDiv(total - First(c.window, total), Shape.warps), Shape.warps)

\* The shape has positive sizes.
LEMMA ShapeSizes ==
  /\ Shape.warps \in Positive /\ Shape.splits \in Positive /\ Shape.minChunk \in Positive
  /\ Shape.tile \in Positive /\ Shape.tileWarps \in Positive /\ Shape.ilp \in Positive
  /\ Shape.vilp \in Positive /\ Shape.groups \in Positive /\ Shape.groupedTile \in Positive
  /\ Shape.queryTile \in Positive /\ Shape.keyTile \in Positive /\ Shape.rowTile \in Positive
  /\ Shape.wideTile \in Positive /\ Shape.wideLimit \in Positive /\ Shape.gemmFrom \in Positive
  /\ Shape.keyUnit \in Positive /\ Shape.keyAlign \in Positive /\ Shape.budget \in Positive
  BY KernelsAssumption

\* The warps share out the keys of the query.
LEMMA WarpsShare ==
  ASSUME NEW c, Attends(c), ~HasBlock(c), NEW q \in c.past .. End(c) - 1
  PROVE  Apart(c, WarpKeys(c, q + 1), Shape.warps) /\ Upto(WarpKeys(c, q + 1), Shape.warps) = Visible(c, q)
  <1> DEFINE first == First(c.window, q + 1)
             n == Shape.warps
             V == first .. q
             chunk == CeilDiv((q + 1) - first, n)
             Vs == Pieces(V, first, chunk, n)
  <1>1. V = Visible(c, q) /\ V \in SUBSET Live(c) /\ first \in Nat /\ first <= q /\ q \in Int
    BY VisibleRange, VisibleLive
  <1>2. n \in Positive /\ n \in Nat
    BY ShapeSizes DEF Positive
  <1>3. chunk \in Nat /\ (q + 1) - first <= n * chunk /\ chunk > 0
    <2> DEFINE a == (q + 1) - first
    <2>1. a \in Nat /\ a > 0
      BY <1>1
    <2> HIDE DEF a, n
    <2>2. CeilDiv(a, n) \in Nat /\ a <= n * CeilDiv(a, n) /\ CeilDiv(a, n) > 0
      BY <1>2, <2>1, Ceiling
    <2> QED BY <2>2 DEF a
  <1> HIDE DEF chunk, n
  <1>4. chunk \in Positive /\ \A k \in V : first <= k /\ k < first + n * chunk
    <2>1. n * chunk \in Int
      BY <1>2, <1>3
    <2> QED BY <1>1, <1>3, <2>1 DEF Positive
  <1>5. Vs = WarpKeys(c, q + 1)
    <2>1. (q + 1) - 1 = q
      BY <1>1
    <2> QED BY <2>1 DEF WarpKeys, n, chunk
  <1> HIDE DEF V, first
  <1>6. Apart(c, Vs, n) /\ Upto(Vs, n) = V
    <2>1. V \in SUBSET Live(c) /\ first \in Int
      BY <1>1
    <2> QED BY <1>2, <1>4, <2>1, PiecesApart
  <1> QED BY <1>1, <1>5, <1>6 DEF n

\* Each warp has its own.
LEMMA WarpPartsHave ==
  ASSUME NEW c, Attends(c), ~HasBlock(c), NEW q \in c.past .. End(c) - 1, NEW h \in Int,
         NEW counted \in BOOLEAN, NEW w \in 1 .. Shape.warps
  PROVE  PartOf(c, h, WarpParts(c, h, q + 1, counted)[w], WarpKeys(c, q + 1)[w])
  <1> DEFINE first == First(c.window, q + 1)
             total == q + 1
             chunk == CeilDiv(total - first, Shape.warps)
             start == first + (w - 1) * chunk
             to == Smaller(start + chunk, total)
             s == Steps(start, to, 1)
             slots == Slotted(s, Ring(c))
             W == WarpKeys(c, total)[w]
  <1>1. first .. q = Visible(c, q) /\ first .. q \in SUBSET Live(c) /\ first \in Nat /\ first <= q /\ q \in Int
        /\ Ring(c) \in Positive
    BY VisibleRange, VisibleLive, CallSizes
  <1>2. chunk \in Nat
    <2> DEFINE a == total - first
    <2>1. a \in Nat /\ Shape.warps \in Positive
      BY <1>1, ShapeSizes
    <2> HIDE DEF a
    <2>2. CeilDiv(a, Shape.warps) \in Nat
      BY <2>1, Ceiling
    <2> QED BY <2>2 DEF a
  <1> HIDE DEF first, chunk
  <1>3. (w - 1) * chunk \in Nat
    <2>1. w - 1 \in Nat
      BY ShapeSizes DEF Positive
    <2> QED BY <1>2, <2>1
  <1>4. start \in Int /\ to \in Int /\ start >= first
    BY <1>1, <1>2, <1>3 DEF Smaller
  <1>5. start .. to - 1 = W
    <2> DEFINE d == (w - 1) * chunk
    <2>1. W = {k \in first .. q : first + d <= k /\ k < first + d + chunk}
      <3>1. total - 1 = q
        BY <1>1
      <3> QED BY <3>1 DEF WarpKeys, Pieces, Piece, first, chunk
    <2>2. d \in Nat /\ start = first + d
      BY <1>3
    <2> HIDE DEF d, start, W
    <2> QED BY <1>1, <1>2, <1>4, <2>1, <2>2 DEF Smaller
  <1>6. Lists(s, W)
    <2> HIDE DEF start, to, W
    <2>1. Lists(s, start .. to - 1)
      BY <1>4, StepsList
    <2> QED BY <1>5, <2>1
  <1>7. W \in SUBSET Live(c)
    <2>1. total - 1 = q
      BY <1>1
    <2> QED BY <1>1, <2>1 DEF WarpKeys, Pieces, Piece, first
  <1>8. s \in Seq(Int) /\ DOMAIN s = 1 .. Len(s) /\ \A i \in 1 .. Len(s) : i > 1 => s[i] = s[i - 1] + 1
    <2> HIDE DEF start, to
    <2> DEFINE one == 1
    <2>1. one \in Positive
      BY DEF Positive
    <2>2. s \in Seq(Int) /\ DOMAIN s = 1 .. Len(s) /\ \A i \in 1 .. Len(s) : s[i] = start + (i - 1) * one
      <3> HIDE DEF one
      <3>1. LET t == Steps(start, to, one)
            IN  t \in Seq(Int) /\ DOMAIN t = 1 .. Len(t) /\ \A i \in 1 .. Len(t) : t[i] = start + (i - 1) * one
        BY <1>4, <2>1, StepsDivide
      <3> QED BY <3>1 DEF one
    <2> HIDE DEF s
    <2>3. ASSUME NEW i \in 1 .. Len(s), i > 1 PROVE s[i] = s[i - 1] + 1
      <3>1. i - 1 \in 1 .. Len(s) /\ i \in Int
        BY <2>3
      <3>2. s[i] = start + (i - 1) * 1 /\ s[i - 1] = start + ((i - 1) - 1) * 1
        BY <2>2, <3>1
      <3> QED BY <1>4, <3>1, <3>2
    <2> QED BY <2>2, <2>3
  <1>9. WarpParts(c, h, total, counted)[w] = WarpPart(c, h, slots)
    <2>1. WarpRange(First(c.window, total), total, w - 1) = s
      BY DEF WarpRange, first, chunk
    <2>2. WarpParts(c, h, total, counted)[w] = WarpPart(c, h, IF counted THEN Walk(s, Ring(c)) ELSE Slotted(s, Ring(c)))
      <3> HIDE DEF s
      <3> QED BY <2>1 DEF WarpParts
    <2>3. Walk(s, Ring(c)) = Slotted(s, Ring(c))
      <3> HIDE DEF s
      <3> QED BY <1>1, <1>8, WalkIsSlotted
    <2> HIDE DEF s
    <2> QED BY <2>2, <2>3
  <1>10. slots = [i \in 1 .. Len(s) |-> slots[i]] /\ \A i \in 1 .. Len(s) : slots[i] = s[i] % Ring(c)
    <2> HIDE DEF s
    <2> QED BY <1>8 DEF Slotted
  <1> HIDE DEF s, slots, W
  <1>11. PartOf(c, h, WarpPart(c, h, slots), W)
    BY <1>6, <1>7, <1>10, WarpHas
  <1> QED BY <1>9, <1>11 DEF W

\* The query of a pair, and its head.
LEMMA PairQuery ==
  ASSUME NEW c, Attends(c), NEW x \in Pairs(c)
  PROVE  /\ x[1] \in 0 .. c.new - 1 /\ x[2] \in 0 .. c.heads - 1 /\ x[2] \in Int
         /\ c.past + x[1] \in c.past .. End(c) - 1
  BY CallSizes DEF Pairs, Positive

(* The kernels that give a query to warps compute its attention, whether    *)
(* they count the slots along or take each position's.                      *)
LEMMA ByWarpsRight ==
  ASSUME NEW c, Attends(c), ~HasBlock(c), NEW counted \in BOOLEAN, NEW x \in Pairs(c)
  PROVE  IsAttention(c, x, ByWarps(c, counted)[x])
  <1> DEFINE q == c.past + x[1]
             h == x[2]
             n == Shape.warps
             Vs == WarpKeys(c, q + 1)
             ps == WarpParts(c, h, q + 1, counted)
  <1>1. q \in c.past .. End(c) - 1 /\ h \in Int /\ n \in Nat /\ n > 0
    BY PairQuery, ShapeSizes DEF Positive
  <1>2. ByWarps(c, counted)[x] = Merge(ps)
    BY DEF ByWarps
  <1>3. ps = [i \in 1 .. n |-> ps[i]]
    BY DEF WarpParts
  <1> HIDE DEF q, h
  <1>4. Apart(c, Vs, n) /\ Upto(Vs, n) = Visible(c, q)
    BY <1>1, WarpsShare
  <1>5. \A i \in 1 .. n : PartOf(c, h, ps[i], Vs[i])
    BY <1>1, WarpPartsHave
  <1> HIDE DEF Vs, ps, n
  <1>6. PartOf(c, h, Merge(ps), Visible(c, q))
    <2>1. PartOf(c, h, Merge(ps), Upto(Vs, n))
      BY <1>1, <1>3, <1>4, <1>5, MergeAdds
    <2> QED BY <1>4, <2>1
  <1> QED BY <1>2, <1>6, PartIsAttention DEF q, h

(* Three passes over all the keys compute it too.                           *)
LEMMA NaiveRight ==
  ASSUME NEW c, Attends(c), c.op = "attention", NEW x \in Pairs(c)
  PROVE  IsAttention(c, x, Naive(c)[x])
  <1> DEFINE seen == {k \in 0 .. c.new - 1 : ~(k > x[1] \/ (c.window > 0 /\ k + c.window <= x[1]))}
             range == Steps(0, c.new, 1)
             slots == Where(range, seen)
             V == Visible(c, c.past + x[1])
  <1>1. /\ c.past = 0 /\ c.new \in Nat /\ End(c) = c.new /\ c.new <= Ring(c) /\ ~HasBlock(c) /\ c.window \in Nat
        /\ Ring(c) \in Positive
    BY CallSizes DEF Attends, Positive
  <1>2. x[1] \in 0 .. c.new - 1 /\ x[2] \in Int /\ x[1] \in c.past .. End(c) - 1 /\ c.past + x[1] = x[1]
    BY <1>1, PairQuery
  <1>3. V = {k \in 0 .. x[1] : ~(c.window > 0 /\ k + c.window <= x[1])} /\ V \in SUBSET Live(c)
    <2> DEFINE q == c.past + x[1]
    <2>1. q \in c.past .. End(c) - 1 /\ q = x[1]
      BY <1>2, PairQuery
    <2> HIDE DEF q
    <2>2. Visible(c, q) = {k \in 0 .. q : ~(c.window > 0 /\ k + c.window <= q)} /\ Visible(c, q) \in SUBSET Live(c)
      BY <1>1, <2>1, VisibleRange, VisibleLive
    <2> QED BY <2>1, <2>2 DEF q
  <1>4. Lists(range, 0 .. c.new - 1)
    BY <1>1, StepsList
  <1>5. (0 .. c.new - 1) \cap seen = V
    BY <1>1, <1>2, <1>3
  <1> HIDE DEF range, seen, V
  <1>6. Lists(slots, V)
    <2>1. Lists(slots, (0 .. c.new - 1) \cap seen)
      BY <1>4, WhereList
    <2> QED BY <1>5, <2>1
  <1> HIDE DEF slots
  <1>7. /\ slots = [i \in 1 .. Len(slots) |-> slots[i]]
        /\ \A i \in 1 .. Len(slots) : slots[i] = slots[i] % Ring(c)
    <2>1. slots \in Seq(Int) /\ DOMAIN slots = 1 .. Len(slots) /\ V = {slots[i] : i \in 1 .. Len(slots)}
      BY <1>6, InRange DEF Lists
    <2>2. ASSUME NEW i \in 1 .. Len(slots) PROVE slots[i] = slots[i] % Ring(c)
      <3> DEFINE k == slots[i]
                 r == Ring(c)
      <3>1. k \in Nat /\ k < r /\ r \in Positive
        <4>1. k \in V
          BY <2>1
        <4>2. k \in 0 .. x[1]
          BY <1>3, <4>1
        <4>3. x[1] \in Nat /\ x[1] < c.new /\ c.new <= r /\ c.new \in Nat /\ r \in Positive /\ r \in Nat
          BY <1>1, <1>2 DEF Positive
        <4> HIDE DEF k, r
        <4> QED BY <4>2, <4>3
      <3> HIDE DEF k, r
      <3>2. (r * 0 + k) % r = k
        BY <3>1, Quotient DEF Positive
      <3>3. r * 0 + k = k
        BY <3>1 DEF Positive
      <3> QED BY <3>2, <3>3 DEF k, r
    <2> QED BY <2>1, <2>2
  <1>8. PartOf(c, x[2], WarpPart(c, x[2], slots), V)
    BY <1>2, <1>3, <1>6, <1>7, WarpHas
  <1>9. Naive(c)[x] = WarpPart(c, x[2], slots)
    BY DEF Naive, slots, range, seen
  <1> QED BY <1>8, <1>9, PartIsAttention DEF V
-----------------------------------------------------------------------------
(* Decode, split along the sequence.                                        *)

\* The keys that the splits of a path have, each its own.
SplitKeys(c, path) ==
  IF path = "split" THEN WarpKeys(c, End(c))
  ELSE Pieces(First(c.window, End(c)) .. End(c) - 1, First(c.window, End(c)),
              SplitChunk(c, c.window), ActiveSplits(c, c.window))

\* The grouped kernel is taken for layers without a window.
LEMMA GroupedIsGlobal ==
  ASSUME NEW c, DecodePath(c) = "grouped"
  PROVE  c.window = 0
  BY DEF DecodePath

\* The query of a decode is the last position, and it sees what is left of the window.
LEMMA DecodeQuery ==
  ASSUME NEW c, Attends(c), c.op = "cached"
  PROVE  /\ ~HasBlock(c) /\ c.new = 1 /\ End(c) = c.past + 1 /\ c.past \in c.past .. End(c) - 1
         /\ c.past \in Nat /\ End(c) \in Nat /\ End(c) - 1 = c.past
         /\ First(c.window, End(c)) .. End(c) - 1 = Visible(c, c.past)
         /\ Visible(c, c.past) \in SUBSET Live(c)
         /\ First(c.window, End(c)) \in Nat /\ First(c.window, End(c)) < End(c)
  <1>1. ~HasBlock(c) /\ c.new = 1 /\ c.past \in Nat /\ End(c) = c.past + 1
    BY DEF Attends, End
  <1>2. c.past \in c.past .. End(c) - 1
    BY <1>1
  <1>3. /\ Visible(c, c.past) = First(c.window, End(c)) .. c.past
        /\ First(c.window, End(c)) \in Nat /\ First(c.window, End(c)) <= c.past
    BY <1>1, <1>2, VisibleRange
  <1> QED BY <1>1, <1>2, <1>3, VisibleLive

\* The splits that have keys share them all out.
LEMMA ActiveShare ==
  ASSUME NEW c, Attends(c), c.op = "cached"
  PROVE  /\ SplitChunk(c, c.window) \in Positive
         /\ ActiveSplits(c, c.window) \in Positive
         /\ Apart(c, SplitKeys(c, "flash"), ActiveSplits(c, c.window))
         /\ Upto(SplitKeys(c, "flash"), ActiveSplits(c, c.window)) = Visible(c, c.past)
  <1> DEFINE first == First(c.window, End(c))
             V == first .. End(c) - 1
             a == End(c) - first
             chunk == SplitChunk(c, c.window)
             n == ActiveSplits(c, c.window)
  <1>1. first \in Nat /\ a \in Nat /\ a > 0 /\ End(c) \in Nat /\ V = Visible(c, c.past) /\ V \in SUBSET Live(c)
    BY DecodeQuery
  <1>2. chunk \in Positive
    <2>1. Shape.minChunk \in Positive /\ Shape.splits \in Positive
      BY ShapeSizes
    <2>2. CeilDiv(a, Shape.splits) \in Nat
      <3> HIDE DEF a
      <3> QED BY <1>1, <2>1, Ceiling
    <2> QED BY <2>1, <2>2 DEF SplitChunk, Larger, Positive
  <1>3. n = CeilDiv(a, chunk)
    BY DEF ActiveSplits
  <1> HIDE DEF a, chunk, n
  <1>4. n \in Nat /\ a <= chunk * n /\ n > 0
    BY <1>1, <1>2, <1>3, Ceiling
  <1>5. \A k \in V : first <= k /\ k < first + n * chunk
    <2>1. n * chunk = chunk * n /\ n * chunk \in Int
      BY <1>2, <1>4 DEF Positive
    <2> QED BY <1>1, <1>4, <2>1 DEF a
  <1> DEFINE Vs == Pieces(V, first, chunk, n)
  <1>6. Vs = SplitKeys(c, "flash")
    BY DEF SplitKeys, chunk, n
  <1> HIDE DEF V, first
  <1>7. Apart(c, Vs, n) /\ Upto(Vs, n) = V
    <2>1. first \in Int
      BY <1>1
    <2> QED BY <1>1, <1>2, <1>4, <1>5, <2>1, PiecesApart
  <1> QED BY <1>1, <1>2, <1>4, <1>6, <1>7 DEF n, chunk, Positive

\* Two lists of sets that share nothing, one after the other.
LEMMA ListConcat ==
  ASSUME NEW s, NEW S, Lists(s, S), NEW t, NEW T, Lists(t, T), S \cap T = {}
  PROVE  Lists(s \o t, S \cup T)
  <1> DEFINE u == s \o t
             m == Len(s)
             n == Len(t)
  <1>1. /\ s \in Seq(Int) /\ Range(s) = S /\ \A i \in 1 .. m, j \in 1 .. m : i # j => s[i] # s[j]
        /\ t \in Seq(Int) /\ Range(t) = T /\ \A i \in 1 .. n, j \in 1 .. n : i # j => t[i] # t[j]
    BY DEF Lists
  <1>2. u \in Seq(Int) /\ Len(u) = m + n /\ Range(u) = S \cup T
    BY <1>1, RangeOfConcat
  <1>3. m \in Nat /\ n \in Nat /\ (\A i \in 1 .. m : s[i] \in S) /\ (\A i \in 1 .. n : t[i] \in T)
    <2>1. Range(s) = {s[i] : i \in 1 .. m} /\ Range(t) = {t[i] : i \in 1 .. n} /\ m \in Nat /\ n \in Nat
      BY <1>1, InRange
    <2> QED BY <1>1, <2>1
  <1>4. \A i \in 1 .. m + n : u[i] = IF i <= m THEN s[i] ELSE t[i - m]
    BY <1>1
  <1> HIDE DEF u, m, n
  <1>5. \A i \in 1 .. m + n, j \in 1 .. m + n : i # j => u[i] # u[j]
    <2> SUFFICES ASSUME NEW i \in 1 .. m + n, NEW j \in 1 .. m + n, i # j PROVE u[i] # u[j]
      OBVIOUS
    <2>0. i \in Int /\ j \in Int
      OBVIOUS
    <2>1. CASE i <= m /\ j <= m
      <3>1. i \in 1 .. m /\ j \in 1 .. m /\ u[i] = s[i] /\ u[j] = s[j]
        BY <1>4, <2>1
      <3> QED BY <1>1, <3>1 DEF m
    <2>2. CASE i <= m /\ ~(j <= m)
      <3>1. i \in 1 .. m /\ j - m \in 1 .. n /\ u[i] = s[i] /\ u[j] = t[j - m]
        BY <1>3, <1>4, <2>2
      <3> QED BY <1>3, <3>1
    <2>3. CASE ~(i <= m) /\ j <= m
      <3>1. j \in 1 .. m /\ i - m \in 1 .. n /\ u[j] = s[j] /\ u[i] = t[i - m]
        BY <1>3, <1>4, <2>3
      <3> QED BY <1>3, <3>1
    <2>4. CASE ~(i <= m) /\ ~(j <= m)
      <3>1. i - m \in 1 .. n /\ j - m \in 1 .. n /\ i - m # j - m /\ u[i] = t[i - m] /\ u[j] = t[j - m]
        BY <1>3, <1>4, <2>0, <2>4
      <3> QED BY <1>1, <3>1 DEF n
    <2> QED BY <2>1, <2>2, <2>3, <2>4
  <1> QED BY <1>2, <1>5 DEF Lists, u

\* Lists of sets that share nothing, put together.
LEMMA FlattenLists ==
  ASSUME NEW n \in Nat, n > 0, NEW seqs, seqs = [i \in 1 .. n |-> seqs[i]], NEW Ts,
         \A i \in 1 .. n : Lists(seqs[i], Ts[i]),
         \A i \in 1 .. n, j \in 1 .. n : i # j => Ts[i] \cap Ts[j] = {}
  PROVE  Lists(FlattenSeq(seqs), Upto(Ts, n))
  <1>1. \A i \in 1 .. n : seqs[i] \in Seq(Int)
    BY DEF Lists
  <1> DEFINE S == Int
  <1>2. seqs \in [1 .. n -> Seq(S)]
    BY <1>1
  <1> HIDE DEF S
  <1>3a. PICK f \in [0 .. n -> Seq(S)] : Together(f, seqs, n)
    BY <1>2, FlattenSteps
  <1>3. /\ f \in [0 .. n -> Seq(S)] /\ f[0] = <<>>
        /\ \A j \in 1 .. n : f[j] = f[j - 1] \o seqs[j]
        /\ FlattenSeq(seqs) = f[n]
    BY <1>3a DEF Together
  <1> DEFINE Good == {j \in 0 .. n : Lists(f[j], Upto(Ts, j))}
  <1>4. 0 \in Good
    <2>1. Upto(Ts, 0) = {}
      BY DEF Upto
    <2>2. Lists(<<>>, {})
      BY DEF Lists, Range
    <2>3. f[0] = <<>> /\ 0 \in 0 .. n
      BY <1>3
    <2>4. Lists(f[0], Upto(Ts, 0))
      BY <2>1, <2>2, <2>3, Zenon
    <2> QED BY <2>3, <2>4
  <1>5. ASSUME NEW j \in 0 .. n, j < n, j \in Good
        PROVE  j + 1 \in Good
    <2>1. j + 1 \in 1 .. n /\ (j + 1) - 1 = j /\ j + 1 \in 0 .. n /\ \A i \in 1 .. j : i \in 1 .. n /\ i # j + 1
      BY <1>5
    <2>2. f[j + 1] = f[j] \o seqs[j + 1]
      <3>1. f[j + 1] = f[(j + 1) - 1] \o seqs[j + 1]
        BY <1>3, <2>1
      <3> QED BY <2>1, <3>1
    <2>3. Lists(f[j], Upto(Ts, j)) /\ Lists(seqs[j + 1], Ts[j + 1])
      BY <1>5, <2>1
    <2>4. Upto(Ts, j) \cap Ts[j + 1] = {}
      BY <2>1 DEF Upto
    <2>5. Upto(Ts, j + 1) = Upto(Ts, j) \cup Ts[j + 1]
      <3>1. 1 .. j + 1 = (1 .. j) \cup {j + 1}
        BY <2>1
      <3> QED BY <3>1 DEF Upto
    <2>6. Lists(f[j] \o seqs[j + 1], Upto(Ts, j) \cup Ts[j + 1])
      BY <2>3, <2>4, ListConcat
    <2>7. Lists(f[j + 1], Upto(Ts, j + 1))
      BY <2>2, <2>5, <2>6
    <2> QED BY <2>1, <2>7
  <1>6. n \in Good
    <2> HIDE DEF Good
    <2>1. \A m \in 0 .. n : m \in Good
      BY <1>4, <1>5, UpTo
    <2> QED BY <2>1
  <1> QED BY <1>3, <1>6

\* The values loaded ahead are all in the tile.
LEMMA UnrolledFits ==
  ASSUME NEW n \in Nat, NEW g \in Nat
  PROVE  /\ Unrolled(n, g) \in Nat
         /\ \A i \in 1 .. Unrolled(n, g) : g + (i - 1) * Shape.groups < n
  <1> DEFINE v == Shape.vilp
             G == Shape.groups
             S == {r \in 0 .. n : g + (r * v + v - 1) * G < n}
  <1>1. v \in Nat /\ v > 0 /\ G \in Nat /\ G > 0
    BY ShapeSizes DEF Positive
  <1>2. Unrolled(n, g) = Cardinality(S) * v
    BY DEF Unrolled
  <1> HIDE DEF v, G
  <1>3. CASE S = {}
    <2>1. Cardinality(S) = 0
      <3> HIDE DEF S
      <3> QED BY <1>3, FS_EmptySet
    <2>2. Unrolled(n, g) = 0
      BY <1>1, <1>2, <2>1
    <2> QED BY <2>2
  <1>4. CASE S # {}
    <2> DEFINE m == Max(S)
    <2>1. m \in S /\ \A y \in S : y <= m
      <3>1. S \in SUBSET Int /\ n \in Int /\ \A y \in S : y <= n
        OBVIOUS
      <3> HIDE DEF S
      <3> QED BY <1>4, <3>1, MaxUpTo
    <2> HIDE DEF m
    <2>2. m \in 0 .. n /\ g + (m * v + v - 1) * G < n
      BY <2>1
    <2>3. \A a \in Nat, b \in Nat : a <= b => a * G <= b * G /\ a * v <= b * v /\ a * G \in Nat /\ a * v \in Nat /\ b * G \in Nat
                                                /\ b * v \in Nat
      <3> TAKE a \in Nat, b \in Nat
      <3>1. a <= b => G * a <= G * b /\ v * a <= v * b
        BY <1>1, TimesOrder
      <3>2. a * G = G * a /\ b * G = G * b /\ a * v = v * a /\ b * v = v * b /\ a * G \in Nat /\ a * v \in Nat /\ b * G \in Nat /\ b * v \in Nat
        BY <1>1
      <3> QED BY <3>1, <3>2
    <2>4. ASSUME NEW r \in 0 .. m PROVE r \in S
      <3>1. r * v <= m * v /\ r * v \in Nat /\ m * v \in Nat
        BY <2>2, <2>3
      <3> DEFINE a == r * v + v - 1
                 b == m * v + v - 1
      <3>2. a \in Nat /\ b \in Nat /\ a <= b
        BY <1>1, <3>1
      <3>3. a * G <= b * G /\ a * G \in Nat /\ b * G \in Nat
        <4> HIDE DEF a, b
        <4> QED BY <2>3, <3>2
      <3> QED BY <2>2, <3>3
    <2>5. S = 0 .. m
      BY <2>1, <2>2, <2>4
    <2>6. Cardinality(S) = m + 1
      <3>1. 0 \in Int /\ m \in Int /\ ~(0 > m)
        BY <2>2
      <3>2. Cardinality(0 .. m) = IF 0 > m THEN 0 ELSE m - 0 + 1
        BY <3>1, FS_Interval
      <3>3. Cardinality(0 .. m) = m + 1
        BY <3>1, <3>2
      <3> HIDE DEF S
      <3> QED BY <2>5, <3>3
    <2>7. Unrolled(n, g) = m * v + v /\ m * v \in Nat
      <3>1. (m + 1) * v = m * v + v /\ m * v \in Nat
        BY <1>1, <2>2
      <3> HIDE DEF S
      <3> QED BY <1>2, <2>6, <3>1
    <2>8. ASSUME NEW i \in 1 .. m * v + v PROVE g + (i - 1) * G < n
      <3> DEFINE a == i - 1
                 b == m * v + v - 1
      <3>1. a \in Nat /\ b \in Nat /\ a <= b
        BY <1>1, <2>7
      <3>2. a * G <= b * G /\ a * G \in Nat /\ b * G \in Nat
        <4> HIDE DEF a, b
        <4> QED BY <2>3, <3>1
      <3> QED BY <2>2, <3>2
    <2> QED BY <1>1, <2>7, <2>8 DEF G
  <1> QED BY <1>3, <1>4

\* A group of threads takes every so many values of the tile.
LEMMA TakenList ==
  ASSUME NEW n \in Nat, NEW g \in 0 .. Shape.groups - 1
  PROVE  Lists(Taken(n, g), {k \in 0 .. n - 1 : k % Shape.groups = g})
  <1> DEFINE G == Shape.groups
             U == Unrolled(n, g)
             s == [i \in 1 .. U |-> g + (i - 1) * G]
             S == {s[i] : i \in 1 .. U}
             lo == g + U * G
             t == Steps(lo, n, G)
             T == {t[i] : i \in 1 .. Len(t)}
             All == {k \in 0 .. n - 1 : k % G = g}
  <1>1. G \in Positive /\ G \in Nat /\ G > 0 /\ g \in Nat /\ g \in Int /\ g \in 0 .. G - 1
    BY ShapeSizes DEF Positive
  <1>2. U \in Nat /\ \A i \in 1 .. U : g + (i - 1) * G < n
    BY <1>1, UnrolledFits
  <1>3. Taken(n, g) = s \o t
    BY DEF Taken
  <1> HIDE DEF G, U
  <1>4. \A i \in Nat : G * i \in Nat /\ i * G = G * i /\ (G * i + g) % G = g
    <2> TAKE i \in Nat
    <2>1. (G * i + g) % G = g
      BY <1>1, Quotient
    <2> QED BY <1>1, <2>1
  <1>5. lo \in Nat /\ lo = G * U + g
    BY <1>1, <1>2, <1>4
  <1>6. \A i \in 1 .. U : i - 1 \in Nat /\ s[i] = G * (i - 1) + g /\ s[i] < lo /\ s[i] \in All /\ s[i] \in Int
    <2> TAKE i \in 1 .. U
    <2>1. i - 1 \in Nat /\ i - 1 + 1 <= U /\ i \in Int
      BY <1>2
    <2> DEFINE a == i - 1
    <2>2. s[i] = g + a * G /\ s[i] < n
      BY <1>2
    <2> HIDE DEF a, s
    <2>3. a * G = G * a /\ G * a \in Nat /\ (G * a + g) % G = g /\ a \in Int /\ a + 1 <= U
      BY <1>4, <2>1 DEF a
    <2>4. G * (a + 1) <= G * U /\ G * (a + 1) = G * a + G
      BY <1>1, <1>2, <2>3, TimesOrder
    <2>5. s[i] = G * a + g
      BY <1>1, <2>2, <2>3
    <2>6. s[i] \in 0 .. n - 1 /\ s[i] % G = g
      <3>1. s[i] \in Nat
        BY <1>1, <2>3, <2>5
      <3> QED BY <2>2, <2>3, <2>5, <3>1
    <2>7. s[i] < lo
      <3>1. G * U \in Int
        BY <1>1, <1>2
      <3> QED BY <1>1, <1>5, <2>3, <2>4, <2>5, <3>1
    <2> QED BY <2>1, <2>5, <2>6, <2>7 DEF a
  <1>7. Lists(s, S)
    <2>1. s \in Seq(Int) /\ Len(s) = U /\ Range(s) = S
      <3>1. s \in [1 .. U -> Int]
        <4>1. \A i \in 1 .. U : g + (i - 1) * G \in Int
          BY <1>1, <1>2
        <4> QED BY <4>1
      <3>2. Len(s) = U /\ DOMAIN s = 1 .. U
        BY <1>2
      <3> HIDE DEF s
      <3> QED BY <1>2, <3>1, <3>2 DEF Range
    <2>2. ASSUME NEW i \in 1 .. U, NEW j \in 1 .. U, i < j PROVE s[i] # s[j]
      <3> DEFINE a == i - 1
                 b == j - 1
      <3>1. s[i] = G * a + g /\ s[j] = G * b + g /\ a \in Nat /\ b \in Nat /\ a + 1 <= b
        BY <1>6, <2>2
      <3> HIDE DEF a, b, s
      <3>2. G * (a + 1) <= G * b /\ G * (a + 1) = G * a + G /\ G * a \in Int /\ G * b \in Int
        BY <1>1, <3>1, TimesOrder
      <3> QED BY <1>1, <3>1, <3>2
    <2> HIDE DEF s, S
    <2>3. \A i \in 1 .. U, j \in 1 .. U : i # j => s[i] # s[j]
      <3> SUFFICES ASSUME NEW i \in 1 .. U, NEW j \in 1 .. U, i # j PROVE s[i] # s[j]
        OBVIOUS
      <3>1. i < j \/ j < i
        BY <1>2
      <3> QED BY <2>2, <3>1
    <2> QED BY <2>1, <2>3 DEF Lists
  <1>8. /\ t \in Seq(Int) /\ DOMAIN t = 1 .. Len(t) /\ Len(t) \in Nat
        /\ \A i \in 1 .. Len(t) : t[i] \in Int /\ t[i] = lo + (i - 1) * G /\ lo <= t[i] /\ t[i] < n
        /\ \A i \in 1 .. Len(t), j \in 1 .. Len(t) : i < j => t[i] + G <= t[j]
        /\ \A k \in lo .. n - 1 : \E i \in 1 .. Len(t) : t[i] <= k /\ k < t[i] + G
    <2> HIDE DEF lo
    <2>1. Stepped(t, lo, n, G)
      BY <1>1, <1>5, StepsStep
    <2> HIDE DEF t
    <2> QED BY <2>1 DEF Stepped
  <1> HIDE DEF t
  <1>9. \A i \in 1 .. Len(t) : t[i] \in All /\ t[i] \in Int /\ t[i] >= lo
    <2> TAKE i \in 1 .. Len(t)
    <2> DEFINE a == i - 1
               b == U + a
    <2>1. t[i] = lo + a * G /\ t[i] \in Int /\ t[i] >= lo /\ t[i] < n /\ a \in Nat /\ b \in Nat
      BY <1>2, <1>8
    <2> HIDE DEF a
    <2>2. a * G = G * a /\ G * a \in Nat /\ G * U \in Nat /\ G * b = G * U + G * a
      BY <1>1, <1>2, <2>1
    <2> HIDE DEF b, lo
    <2>3. t[i] = G * b + g
      <3> DEFINE p == G * a
                 u == G * U
                 w == G * b
      <3>1. t[i] = lo + p /\ lo = u + g /\ w = u + p /\ p \in Nat /\ u \in Nat
        BY <1>5, <2>1, <2>2
      <3> HIDE DEF p, u, w
      <3>2. t[i] = w + g
        BY <1>1, <3>1
      <3> QED BY <3>2 DEF w
    <2>4. (G * b + g) % G = g
      BY <1>4, <2>1
    <2>5. t[i] \in 0 .. n - 1
      BY <1>5, <2>1
    <2> QED BY <2>1, <2>3, <2>4, <2>5
  <1>10. Lists(t, T)
    <2>1. Range(t) = T
      BY <1>8 DEF Range
    <2>2. \A i \in 1 .. Len(t), j \in 1 .. Len(t) : i # j => t[i] # t[j]
      <3> SUFFICES ASSUME NEW i \in 1 .. Len(t), NEW j \in 1 .. Len(t), i # j PROVE t[i] # t[j]
        OBVIOUS
      <3>1. i < j \/ j < i
        BY <1>8
      <3>2. t[i] \in Int /\ t[j] \in Int
        BY <1>8
      <3>3. CASE i < j
        <4>1. t[i] + G <= t[j]
          BY <1>8, <3>3
        <4> QED BY <1>1, <3>2, <4>1
      <3>4. CASE j < i
        <4>1. t[j] + G <= t[i]
          BY <1>8, <3>4
        <4> QED BY <1>1, <3>2, <4>1
      <3> QED BY <3>1, <3>3, <3>4
    <2> QED BY <1>8, <2>1, <2>2 DEF Lists
  <1>11. S \cap T = {}
    <2> HIDE DEF s, lo, All
    <2>1. \A i \in 1 .. U, j \in 1 .. Len(t) : s[i] # t[j]
      BY <1>5, <1>6, <1>9
    <2> QED BY <2>1
  <1>12. S \cup T = All
    <2>1. S \subseteq All /\ T \subseteq All
      <3> HIDE DEF s, All
      <3> QED BY <1>6, <1>9
    <2>2. ASSUME NEW k \in All PROVE k \in S \cup T
      <3> DEFINE d == k \div G
      <3>1. k \in Nat /\ k < n /\ k = G * d + g /\ d \in Nat
        <4>1. k \in Nat /\ k < n /\ k \in Int /\ k % G = g
          OBVIOUS
        <4>2. k = G * (k \div G) + (k % G) /\ k \div G \in Nat
          BY <1>1, <4>1, DivMod
        <4> QED BY <4>1, <4>2
      <3> HIDE DEF d
      <3>2. CASE d < U
        <4>1. d + 1 \in 1 .. U /\ (d + 1) - 1 = d
          BY <1>2, <3>1, <3>2
        <4>2. s[d + 1] = G * d + g
          <5> HIDE DEF s
          <5> QED BY <1>6, <4>1
        <4> HIDE DEF s
        <4> QED BY <3>1, <4>1, <4>2
      <3>3. CASE ~(d < U)
        <4>1. G * U <= G * d /\ G * U \in Int /\ G * d \in Int
          BY <1>1, <1>2, <3>1, <3>3, TimesOrder
        <4>2. k \in lo .. n - 1
          <5> HIDE DEF lo
          <5> QED BY <1>1, <1>5, <3>1, <4>1
        <4> HIDE DEF All, s, lo
        <4>3. PICK i \in 1 .. Len(t) : t[i] <= k /\ k < t[i] + G
          BY <1>8, <4>2
        <4>4. t[i] % G = g /\ k % G = g /\ t[i] \in Int
          BY <1>9 DEF All
        <4>5. t[i] = k
          <5> DEFINE a == t[i]
          <5>1. a \in Int /\ k \in Int /\ a % G = k % G /\ a <= k /\ k < a + G
            BY <3>1, <4>3, <4>4
          <5> HIDE DEF a
          <5>2. a < k => a + G <= k
            BY <1>1, <5>1, SameSlot
          <5> QED BY <1>1, <5>1, <5>2 DEF a
        <4> QED BY <4>5
      <3> QED BY <3>2, <3>3
    <2> HIDE DEF S, T, All
    <2> QED BY <2>1, <2>2
  <1>13. Lists(s \o t, S \cup T)
    <2> HIDE DEF s, S, T
    <2> QED BY <1>7, <1>10, <1>11, ListConcat
  <1> HIDE DEF s, S, T
  <1> QED BY <1>3, <1>12, <1>13 DEF G

\* The groups take all the values of the tile.
LEMMA AllTaken ==
  ASSUME NEW n \in Nat
  PROVE  Lists(FlattenSeq([g \in 1 .. Shape.groups |-> Taken(n, g - 1)]), 0 .. n - 1)
  <1> DEFINE G == Shape.groups
             seqs == [g \in 1 .. G |-> Taken(n, g - 1)]
             Of(g) == {k \in 0 .. n - 1 : k % G = g - 1}
             Ts == [g \in 1 .. G |-> Of(g)]
  <1>1. G \in Positive /\ G \in Nat /\ G > 0
    BY ShapeSizes DEF Positive
  <1>2. \A g \in 1 .. G : Lists(seqs[g], Ts[g])
    <2> TAKE g \in 1 .. G
    <2>1. g - 1 \in 0 .. Shape.groups - 1
      BY <1>1
    <2>2. Lists(Taken(n, g - 1), {k \in 0 .. n - 1 : k % Shape.groups = g - 1})
      BY <2>1, TakenList
    <2> QED BY <2>2
  <1>3. \A i \in 1 .. G, j \in 1 .. G : i # j => Ts[i] \cap Ts[j] = {}
    <2> SUFFICES ASSUME NEW i \in 1 .. G, NEW j \in 1 .. G, i # j, NEW k \in Ts[i] \cap Ts[j] PROVE FALSE
      OBVIOUS
    <2>1. k % G = i - 1 /\ k % G = j - 1
      OBVIOUS
    <2>2. i \in Int /\ j \in Int /\ i # j
      OBVIOUS
    <2> DEFINE d == k % G
    <2> HIDE DEF d
    <2> QED BY <2>1, <2>2 DEF d
  <1>4. Upto(Ts, G) = 0 .. n - 1
    <2>1. Upto(Ts, G) \subseteq 0 .. n - 1
      BY DEF Upto
    <2>2. ASSUME NEW k \in 0 .. n - 1 PROVE k \in Upto(Ts, G)
      <3> DEFINE d == k % G
      <3>1. d \in 0 .. G - 1
        <4>1. k \in Int
          OBVIOUS
        <4> HIDE DEF G
        <4> QED BY <1>1, <4>1, DivMod
      <3> HIDE DEF d, G
      <3>2. d + 1 \in 1 .. G /\ (d + 1) - 1 = d
        BY <1>1, <3>1
      <3>3. k \in Ts[d + 1]
        BY <3>2 DEF d
      <3> HIDE DEF Ts
      <3> QED BY <3>2, <3>3 DEF Upto
    <2> QED BY <2>1, <2>2
  <1>5. seqs = [i \in 1 .. G |-> seqs[i]]
    OBVIOUS
  <1> HIDE DEF seqs, Ts, G
  <1>6. Lists(FlattenSeq(seqs), Upto(Ts, G))
    BY <1>1, <1>2, <1>3, <1>5, FlattenLists
  <1>7. Lists(FlattenSeq(seqs), 0 .. n - 1)
    BY <1>4, <1>6
  <1> QED BY <1>7 DEF seqs, G

\* The warps score all the keys of the tile.
LEMMA AllScored ==
  ASSUME NEW n \in Nat, NEW k \in 0 .. n - 1
  PROVE  k \in Scored(n)
  <1> DEFINE I == Shape.ilp
             T == Shape.tileWarps
             q == k \div I
             j == k % I
             w == q % T
             r == q \div T
             step == T * I
             base == w * I + r * step
             s == Steps(w * I, n, step)
  <1>1. I \in Positive /\ T \in Positive /\ I \in Nat /\ T \in Nat /\ I > 0 /\ T > 0 /\ k \in Nat /\ k \in Int /\ k < n
    BY ShapeSizes DEF Positive
  <1>2. k = I * q + j /\ j \in 0 .. I - 1 /\ q \in Nat
    <2> HIDE DEF I
    <2> QED BY <1>1, DivMod
  <1> HIDE DEF q, j, I, T
  <1>3. q = T * r + w /\ w \in 0 .. T - 1 /\ r \in Nat
    <2>1. q \in Int
      BY <1>2
    <2> QED BY <1>1, <1>2, <2>1, DivMod
  <1> HIDE DEF r, w
  <1>4. step \in Positive /\ step \in Nat /\ step > 0
    BY <1>1 DEF Positive
  <1>5. w * I \in Nat /\ r * step \in Nat /\ base \in Nat /\ base + j = k /\ base <= k
    <2>1. w * I \in Nat /\ r * step \in Nat
      <3> HIDE DEF step
      <3> QED BY <1>1, <1>3, <1>4
    <2>2. I * q = w * I + r * (T * I)
      <3>1. I * q = I * (T * r) + I * w
        BY <1>1, <1>2, <1>3
      <3>2. I * (T * r) = r * (T * I) /\ I * w = w * I
        BY <1>1, <1>3
      <3>3. I * (T * r) \in Nat /\ I * w \in Nat
        BY <1>1, <1>3
      <3> QED BY <3>1, <3>2, <3>3
    <2> DEFINE u == w * I
               v == r * step
    <2>3. I * q = u + v /\ u \in Nat /\ v \in Nat
      BY <2>1, <2>2
    <2> HIDE DEF u, v
    <2>4. u + v \in Nat /\ (u + v) + j = k /\ u + v <= k
      BY <1>1, <1>2, <2>3
    <2> QED BY <2>1, <2>4 DEF u, v
  <1>6. base \in Range(s)
    <2> DEFINE lo == w * I
    <2>1. Stepped(s, lo, n, step)
      <3> HIDE DEF lo, step
      <3>1. lo \in Int
        BY <1>5 DEF lo
      <3> QED BY <1>4, <3>1, StepsStep DEF lo
    <2>2. base \in lo .. n - 1
      <3> HIDE DEF base
      <3>1. base \in Nat /\ base < n
        BY <1>1, <1>5
      <3>2. lo \in Nat /\ lo <= base
        BY <1>5 DEF base
      <3> QED BY <3>1, <3>2
    <2> HIDE DEF s, lo, base
    <2>3. PICK i \in 1 .. Len(s) : s[i] <= base /\ base < s[i] + step
      BY <2>1, <2>2 DEF Stepped
    <2>4. s[i] \in Int /\ s[i] = lo + (i - 1) * step /\ i \in DOMAIN s /\ Len(s) \in Nat
      BY <2>1 DEF Stepped
    <2> DEFINE a == i - 1
    <2>5. a \in Nat /\ s[i] = lo + a * step
      BY <2>4
    <2> HIDE DEF a, step
    <2>6. base = lo + step * r /\ s[i] = lo + step * a /\ step * r \in Nat /\ step * a \in Nat /\ lo \in Nat
      <3>1. a * step = step * a /\ r * step = step * r /\ step * a \in Nat /\ step * r \in Nat
        BY <1>3, <1>4, <2>5
      <3>2. base = lo + r * step /\ lo \in Nat
        BY <1>5 DEF base, lo
      <3> QED BY <2>5, <3>1, <3>2
    <2>7. CASE a < r
      <3>1. step * (a + 1) <= step * r /\ step * (a + 1) = step * a + step
        BY <1>3, <1>4, <2>5, <2>7, TimesOrder
      <3> QED BY <1>4, <2>3, <2>6, <3>1
    <2>8. CASE r < a
      <3>1. step * (r + 1) <= step * a /\ step * (r + 1) = step * r + step
        BY <1>3, <1>4, <2>5, <2>8, TimesOrder
      <3> QED BY <1>4, <2>3, <2>6, <3>1
    <2>9. CASE a = r
      BY <2>4, <2>6, <2>9 DEF Range
    <2> QED BY <1>3, <2>5, <2>7, <2>8, <2>9
  <1>7. s = Steps(w * Shape.ilp, n, Shape.tileWarps * Shape.ilp) /\ w \in 0 .. Shape.tileWarps - 1 /\ j \in 0 .. Shape.ilp - 1
    BY <1>2, <1>3 DEF I, T
  <1> HIDE DEF base, s
  <1> DEFINE Bases == UNION {Range(Steps(u * Shape.ilp, n, Shape.tileWarps * Shape.ilp)) : u \in 0 .. Shape.tileWarps - 1}
  <1>8. base \in Bases
    BY <1>6, <1>7
  <1>9. Scored(n) = {b + d : b \in Bases, d \in 0 .. Shape.ilp - 1} \cap 0 .. n - 1
    BY DEF Scored
  <1> HIDE DEF Bases
  <1>10. base + j \in {b + d : b \in Bases, d \in 0 .. Shape.ilp - 1}
    BY <1>7, <1>8
  <1>11. k \in {b + d : b \in Bases, d \in 0 .. Shape.ilp - 1}
    BY <1>5, <1>10
  <1> QED BY <1>9, <1>11

\* The keys of V in a tile.
TileOf(V, from, step) == {k \in V : from <= k /\ k < from + step}

\* Tile after tile, the keys of V.
LEMMA Tiled ==
  ASSUME NEW c, Attends(c), NEW h, NEW V \in SUBSET Live(c), NEW lo \in Int, NEW hi \in Int, NEW step \in Positive,
         \A k \in V : lo <= k /\ k < hi,
         NEW s, s = Steps(lo, hi, step),
         NEW reads, reads = [i \in 1 .. Len(s) |-> reads[i]],
         \A i \in 1 .. Len(s) : ReadsOf(c, h, reads[i], TileOf(V, s[i], step))
  PROVE  PartOf(c, h, Online(c, reads), V)
  <1> DEFINE n == Len(s)
             Vs == Pieces(V, lo, step, n)
  <1>1. Stepped(s, lo, hi, step)
    BY StepsStep
  <1>2. n \in Nat /\ Apart(c, Vs, n) /\ Upto(Vs, n) = V
    <2>1. LET m == Len(Steps(lo, hi, step))
          IN  m \in Nat /\ Apart(c, Pieces(V, lo, step, m), m) /\ Upto(Pieces(V, lo, step, m), m) = V
      BY TilesApart
    <2> QED BY <2>1
  <1>3. \A i \in 1 .. n : ReadsOf(c, h, reads[i], Vs[i])
    <2> TAKE i \in 1 .. n
    <2>1. s[i] = lo + (i - 1) * step
      BY <1>1 DEF Stepped
    <2>2. Vs[i] = TileOf(V, s[i], step)
      BY <2>1 DEF Pieces, Piece, TileOf
    <2> HIDE DEF Vs
    <2> QED BY <2>2
  <1> HIDE DEF n, Vs
  <1>4. reads = [i \in 1 .. n |-> reads[i]]
    BY DEF n
  <1>5. PartOf(c, h, Online(c, reads), Upto(Vs, n))
    BY <1>2, <1>3, <1>4, OnlineAdds
  <1> QED BY <1>2, <1>5

\* The keys from lo to hi, tile after tile.
LEMMA TiledRange ==
  ASSUME NEW c, Attends(c), NEW h, NEW lo \in Int, NEW hi \in Int, NEW step \in Positive, NEW W \in SUBSET Live(c),
         W = lo .. hi - 1, NEW s, s = Steps(lo, hi, step),
         NEW reads, reads = [i \in 1 .. Len(s) |-> reads[i]],
         \A i \in 1 .. Len(s) : ReadsOf(c, h, reads[i], s[i] .. Smaller(s[i] + step, hi) - 1)
  PROVE  PartOf(c, h, Online(c, reads), W)
  <1>1. Stepped(s, lo, hi, step)
    BY StepsStep
  <1>2. \A i \in 1 .. Len(s) : ReadsOf(c, h, reads[i], TileOf(W, s[i], step))
    <2> TAKE i \in 1 .. Len(s)
    <2>1. s[i] \in Int /\ lo <= s[i] /\ s[i] < hi /\ step \in Nat
      BY <1>1 DEF Stepped, Positive
    <2> DEFINE a == s[i]
    <2>2. TileOf(W, a, step) = a .. Smaller(a + step, hi) - 1
      <3> HIDE DEF a
      <3>1. a \in Int /\ lo <= a /\ a < hi /\ step \in Nat
        BY <2>1 DEF a
      <3> QED BY <3>1 DEF Smaller, TileOf
    <2> QED BY <2>2
  <1>3. \A k \in W : lo <= k /\ k < hi
    OBVIOUS
  <1> QED BY <1>2, <1>3, Tiled

\* The reads of a tile of the decode kernel: each of its keys once, and its score.
LEMMA DecodeReads ==
  ASSUME NEW c, Attends(c), NEW h \in Int, NEW tile \in Int, NEW n \in Nat, NEW W \in SUBSET Live(c),
         W = tile .. tile + n - 1
  PROVE  ReadsOf(c, h, DecodeTile(c, h, tile, n), W)
  <1> DEFINE taken == FlattenSeq([g \in 1 .. Shape.groups |-> Taken(n, g - 1)])
             scored == Scored(n)
             m == Len(taken)
             s == [i \in 1 .. m |-> tile + taken[i]]
             r == Ring(c)
             reads == DecodeTile(c, h, tile, n)
  <1>1. Lists(taken, 0 .. n - 1)
    BY AllTaken
  <1>2. reads = [i \in DOMAIN taken |->
                   <<IF taken[i] \in scored THEN (tile + taken[i]) % r ELSE -1, (tile + taken[i]) % r, KvHead(c, h)>>]
    BY DEF DecodeTile
  <1> HIDE DEF taken, scored, r, reads
  <1>3. /\ m \in Nat /\ DOMAIN taken = 1 .. m
        /\ \A i \in 1 .. m : taken[i] \in 0 .. n - 1
        /\ \A k \in 0 .. n - 1 : \E i \in 1 .. m : taken[i] = k
        /\ \A i \in 1 .. m, j \in 1 .. m : i # j => taken[i] # taken[j]
    <2>1. taken \in Seq(Int) /\ Range(taken) = 0 .. n - 1
      BY <1>1 DEF Lists
    <2>2. Range(taken) = {taken[i] : i \in 1 .. m} /\ DOMAIN taken = 1 .. m /\ m \in Nat
      BY <2>1, InRange
    <2>3. \A i \in 1 .. m, j \in 1 .. m : i # j => taken[i] # taken[j]
      BY <1>1 DEF Lists
    <2> HIDE DEF m
    <2> QED BY <2>1, <2>2, <2>3
  <1> HIDE DEF m
  <1>4. Lists(s, W) /\ Len(s) = m
    <2>1. \A i \in 1 .. m : taken[i] \in Int /\ s[i] = tile + taken[i] /\ s[i] \in W /\ s[i] \in Int
      BY <1>3
    <2>2. s \in Seq(Int) /\ Len(s) = m /\ DOMAIN s = 1 .. m
      BY <1>3, <2>1
    <2>3. ASSUME NEW k \in W PROVE k \in Range(s)
      <3>1. k - tile \in 0 .. n - 1 /\ k \in Int
        OBVIOUS
      <3>2. PICK i \in 1 .. m : taken[i] = k - tile
        BY <1>3, <3>1
      <3>3. s[i] = k
        BY <3>1, <3>2
      <3> HIDE DEF s
      <3> QED BY <2>2, <3>3 DEF Range
    <2>4. Range(s) = W
      <3> HIDE DEF s
      <3> QED BY <2>1, <2>2, <2>3 DEF Range
    <2>5. ASSUME NEW i \in 1 .. m, NEW j \in 1 .. m, i # j PROVE s[i] # s[j]
      <3>1. taken[i] # taken[j] /\ taken[i] \in Int /\ taken[j] \in Int
        BY <1>3, <2>1, <2>5
      <3> QED BY <2>1, <3>1
    <2> HIDE DEF s
    <2> QED BY <2>2, <2>4, <2>5 DEF Lists
  <1>5. reads = [i \in 1 .. Len(s) |-> reads[i]]
    BY <1>2, <1>3, <1>4
  <1>6. ASSUME NEW i \in 1 .. Len(s) PROVE reads[i] = Row(s[i] % r, c, h)
    <2>1. i \in 1 .. m /\ s[i] = tile + taken[i]
      BY <1>4
    <2>2. taken[i] \in scored
      BY <1>3, <2>1, AllScored DEF scored
    <2>3. reads[i] = <<(tile + taken[i]) % r, (tile + taken[i]) % r, KvHead(c, h)>>
      BY <1>2, <1>3, <2>1, <2>2
    <2> QED BY <2>1, <2>3 DEF Row
  <1> HIDE DEF s
  <1>7. \A i \in 1 .. Len(s) : reads[i] = Row(s[i] % Ring(c), c, h)
    BY <1>6 DEF r
  <1>8. ReadsOf(c, h, reads, W)
    BY <1>4, <1>5, <1>7, ListedRows
  <1> QED BY <1>8 DEF reads

\* The keys of a split.
SplitPiece(c, split) ==
  Piece(First(c.window, End(c)) .. End(c) - 1, First(c.window, End(c)), SplitChunk(c, c.window), split + 1)

\* A split of the decode is a range of live keys.
LEMMA SplitRange ==
  ASSUME NEW c, Attends(c), c.op = "cached", NEW split \in Nat
  PROVE  /\ SplitStart(c, c.window, split) \in Int /\ SplitEnd(c, c.window, split) \in Int
         /\ SplitStart(c, c.window, split) .. SplitEnd(c, c.window, split) - 1 = SplitPiece(c, split)
         /\ SplitPiece(c, split) \in SUBSET Live(c)
  <1> DEFINE first == First(c.window, End(c))
             chunk == SplitChunk(c, c.window)
             e == End(c)
             d == split * chunk
             W == Piece(first .. e - 1, first, chunk, split + 1)
  <1>1. first \in Nat /\ e \in Nat /\ first .. e - 1 \in SUBSET Live(c) /\ chunk \in Positive /\ chunk \in Nat
    BY DecodeQuery, ActiveShare DEF Positive
  <1>2. SplitStart(c, c.window, split) = first + d
    BY DEF SplitStart
  <1>3. SplitEnd(c, c.window, split) = Smaller(first + d + chunk, e)
    BY <1>2 DEF SplitEnd
  <1>4. W = {k \in first .. e - 1 : first + d <= k /\ k < first + d + chunk}
    <2>1. (split + 1) - 1 = split
      OBVIOUS
    <2> QED BY <2>1 DEF Piece
  <1> HIDE DEF first, chunk, e
  <1>5. d \in Nat
    BY <1>1
  <1> HIDE DEF d, W
  <1>6. first + d .. Smaller(first + d + chunk, e) - 1 = W
    BY <1>1, <1>4, <1>5 DEF Smaller
  <1>7. W \in SUBSET Live(c) /\ first + d \in Int /\ Smaller(first + d + chunk, e) \in Int
    BY <1>1, <1>4, <1>5 DEF Smaller
  <1> QED BY <1>2, <1>3, <1>6, <1>7 DEF W, e, first, chunk, SplitPiece

\* A split of the flash decode adds its keys.
LEMMA DecodePartHas ==
  ASSUME NEW c, Attends(c), c.op = "cached", NEW split \in Nat, NEW h \in Int
  PROVE  PartOf(c, h, DecodePart(c, h, split), SplitPiece(c, split))
  <1> DEFINE from == SplitStart(c, c.window, split)
             to == SplitEnd(c, c.window, split)
             W == SplitPiece(c, split)
             g == Shape.tile
             s == Steps(from, to, g)
             reads == [i \in DOMAIN s |-> DecodeTile(c, h, s[i], Smaller(g, to - s[i]))]
  <1>1. from \in Int /\ to \in Int /\ W = from .. to - 1 /\ W \in SUBSET Live(c)
    BY SplitRange
  <1>2. DecodePart(c, h, split) = Online(c, reads)
    BY DEF DecodePart
  <1>3. g \in Positive /\ g \in Nat /\ g > 0
    BY ShapeSizes DEF Positive
  <1> HIDE DEF from, to, g, W
  <1>4. Stepped(s, from, to, g)
    BY <1>1, <1>3, StepsStep
  <1>5. DOMAIN s = 1 .. Len(s)
    <2> HIDE DEF s
    <2> QED BY <1>4 DEF Stepped
  <1>6. ASSUME NEW i \in 1 .. Len(s) PROVE ReadsOf(c, h, reads[i], s[i] .. Smaller(s[i] + g, to) - 1)
    <2> DEFINE a == s[i]
               n == Smaller(g, to - a)
               T == a .. Smaller(a + g, to) - 1
    <2> HIDE DEF s
    <2>1. a \in Int /\ from <= a /\ a < to
      BY <1>4 DEF Stepped
    <2>2. reads[i] = DecodeTile(c, h, a, n)
      BY <1>5
    <2> HIDE DEF a, reads
    <2>3. n \in Nat /\ T = a .. a + n - 1
      BY <1>1, <1>3, <2>1 DEF Smaller
    <2>4. T \in SUBSET Live(c)
      <3>1. T \subseteq W
        BY <1>1, <1>3, <2>1 DEF Smaller
      <3> QED BY <1>1, <3>1
    <2> HIDE DEF n, T
    <2>5. ReadsOf(c, h, DecodeTile(c, h, a, n), T)
      BY <2>1, <2>3, <2>4, DecodeReads
    <2> QED BY <2>2, <2>5 DEF a, T
  <1>7. reads = [i \in 1 .. Len(s) |-> reads[i]]
    BY <1>5
  <1> HIDE DEF s, reads
  <1>8. PartOf(c, h, Online(c, reads), W)
    BY <1>1, <1>3, <1>6, <1>7, TiledRange DEF s
  <1> QED BY <1>2, <1>8 DEF W

\* A split of the grouped decode adds its keys: its cache is linear.
LEMMA GroupedPartHas ==
  ASSUME NEW c, Attends(c), c.op = "cached", c.window = 0, NEW split \in Nat, NEW h \in Int
  PROVE  PartOf(c, h, GroupedPart(c, h, split), SplitPiece(c, split))
  <1> DEFINE from == SplitStart(c, c.window, split)
             to == SplitEnd(c, c.window, split)
             W == SplitPiece(c, split)
             g == Shape.groupedTile
             s == Steps(from, to, g)
             tile(i) == Steps(s[i], Smaller(s[i] + g, to), 1)
             reads == [i \in DOMAIN s |-> RowsAt(tile(i), c, h)]
  <1>1. from \in Int /\ to \in Int /\ W = from .. to - 1 /\ W \in SUBSET Live(c)
    BY SplitRange
  <1>2. GroupedPart(c, h, split) = Online(c, reads)
    BY DEF GroupedPart
  <1>3. g \in Positive /\ g \in Nat /\ g > 0
    BY ShapeSizes DEF Positive
  <1>4. Live(c) \in SUBSET (0 .. Ring(c) - 1) /\ Ring(c) \in Positive
    <2>1. End(c) <= Ring(c) /\ End(c) \in Nat /\ Ring(c) \in Positive /\ Ring(c) \in Nat
      BY CallSizes DEF Attends, Positive
    <2> QED BY <2>1 DEF Live
  <1> HIDE DEF from, to, g, W
  <1>5. Stepped(s, from, to, g)
    BY <1>1, <1>3, StepsStep
  <1>6. DOMAIN s = 1 .. Len(s)
    <2> HIDE DEF s
    <2> QED BY <1>5 DEF Stepped
  <1>7. ASSUME NEW i \in 1 .. Len(s) PROVE ReadsOf(c, h, reads[i], s[i] .. Smaller(s[i] + g, to) - 1)
    <2> DEFINE a == s[i]
               b == Smaller(a + g, to)
               t == Steps(a, b, 1)
               T == a .. b - 1
    <2> HIDE DEF s
    <2>1. a \in Int /\ from <= a /\ a < to
      BY <1>5 DEF Stepped
    <2>2. reads[i] = RowsAt(t, c, h)
      BY <1>6
    <2> HIDE DEF a, reads
    <2>3. b \in Int /\ T \subseteq W
      BY <1>1, <1>3, <2>1 DEF Smaller
    <2> HIDE DEF b
    <2>4. Lists(t, T)
      BY <2>1, <2>3, StepsList
    <2>5. T \in SUBSET Live(c)
      BY <1>1, <2>3
    <2> HIDE DEF t, T
    <2>6. t \in Seq(Int) /\ DOMAIN t = 1 .. Len(t) /\ \A j \in 1 .. Len(t) : t[j] \in T
      <3>1. t \in Seq(Int) /\ Range(t) = T
        BY <2>4 DEF Lists
      <3> QED BY <3>1, InRange
    <2> DEFINE r == RowsAt(t, c, h)
    <2>7. r = [j \in 1 .. Len(t) |-> r[j]]
      BY <2>6 DEF RowsAt
    <2>8. ASSUME NEW j \in 1 .. Len(t) PROVE r[j] = Row(t[j] % Ring(c), c, h)
      <3> DEFINE k == t[j]
                 R == Ring(c)
      <3>1. k \in 0 .. R - 1 /\ R \in Positive
        BY <1>4, <2>5, <2>6
      <3>2. r[j] = Row(k, c, h)
        BY <2>6 DEF RowsAt
      <3> HIDE DEF k, R, r
      <3>3. k % R = k
        <4>1. (R * 0 + k) % R = k
          BY <3>1, Quotient
        <4>2. R * 0 + k = k
          BY <3>1 DEF Positive
        <4> QED BY <4>1, <4>2
      <3> QED BY <3>2, <3>3 DEF k, R
    <2> HIDE DEF r
    <2>9. ReadsOf(c, h, r, T)
      BY <2>4, <2>5, <2>7, <2>8, ListedRows
    <2> QED BY <2>2, <2>9 DEF r, T, b, a
  <1>8. reads = [i \in 1 .. Len(s) |-> reads[i]]
    BY <1>6
  <1> HIDE DEF s, reads
  <1>9. PartOf(c, h, Online(c, reads), W)
    BY <1>1, <1>3, <1>7, <1>8, TiledRange DEF s
  <1> QED BY <1>2, <1>9 DEF W

\* The paths of a decode that split it.
Paths == {"split", "flash", "grouped"}

\* Whatever the path, its splits share out what the query sees.
LEMMA SplitsShare ==
  ASSUME NEW c, Attends(c), c.op = "cached", DecodePath(c) \in Paths
  PROVE  /\ Splits(c, DecodePath(c)) \in Positive
         /\ Apart(c, SplitKeys(c, DecodePath(c)), Splits(c, DecodePath(c)))
         /\ Upto(SplitKeys(c, DecodePath(c)), Splits(c, DecodePath(c))) = Visible(c, c.past)
  <1> DEFINE path == DecodePath(c)
  <1>1. CASE path = "split"
    <2>1. Splits(c, path) = Shape.warps /\ SplitKeys(c, path) = WarpKeys(c, End(c)) /\ Shape.warps \in Positive
      BY <1>1, ShapeSizes DEF Splits, SplitKeys
    <2>2. End(c) = c.past + 1 /\ ~HasBlock(c) /\ c.past \in c.past .. End(c) - 1
      BY DecodeQuery
    <2>3. Apart(c, WarpKeys(c, c.past + 1), Shape.warps) /\ Upto(WarpKeys(c, c.past + 1), Shape.warps) = Visible(c, c.past)
      BY <2>2, WarpsShare
    <2> QED BY <2>1, <2>2, <2>3
  <1>2. CASE path # "split"
    <2>1. SplitKeys(c, path) = SplitKeys(c, "flash")
      BY <1>2 DEF SplitKeys
    <2>2. Splits(c, path) = ActiveSplits(c, c.window)
      <3>1. CASE path = "grouped"
        <4>1. c.window = 0
          BY <3>1, GroupedIsGlobal
        <4> QED BY <3>1, <4>1 DEF Splits
      <3>2. CASE path # "grouped"
        BY <1>2, <3>2 DEF Splits
      <3> QED BY <3>1, <3>2
    <2> HIDE DEF path
    <2>3. /\ ActiveSplits(c, c.window) \in Positive
          /\ Apart(c, SplitKeys(c, "flash"), ActiveSplits(c, c.window))
          /\ Upto(SplitKeys(c, "flash"), ActiveSplits(c, c.window)) = Visible(c, c.past)
      BY ActiveShare
    <2> QED BY <2>1, <2>2, <2>3 DEF path
  <1> QED BY <1>1, <1>2

\* Each split adds its keys.
LEMMA SplitPartHas ==
  ASSUME NEW c, Attends(c), c.op = "cached", DecodePath(c) \in Paths, NEW h \in Int,
         NEW i \in 1 .. Splits(c, DecodePath(c))
  PROVE  PartOf(c, h, SplitPart(c, DecodePath(c), h, i - 1), SplitKeys(c, DecodePath(c))[i])
  <1> DEFINE path == DecodePath(c)
  <1>1. Splits(c, path) \in Nat /\ i - 1 \in Nat /\ (i - 1) + 1 = i
    BY SplitsShare DEF Positive
  <1>2. CASE path = "split"
    <2>1. End(c) = c.past + 1 /\ ~HasBlock(c) /\ c.past \in c.past .. End(c) - 1
      BY DecodeQuery
    <2>2. i \in 1 .. Shape.warps
      BY <1>2 DEF Splits
    <2>3. PartOf(c, h, WarpParts(c, h, c.past + 1, TRUE)[i], WarpKeys(c, c.past + 1)[i])
      BY <2>1, <2>2, WarpPartsHave
    <2>4. SplitPart(c, path, h, i - 1) = WarpParts(c, h, End(c), TRUE)[i]
      BY <1>1, <1>2 DEF SplitPart
    <2>5. SplitKeys(c, path) = WarpKeys(c, End(c))
      BY <1>2 DEF SplitKeys
    <2> QED BY <2>1, <2>3, <2>4, <2>5
  <1>3. CASE path # "split"
    <2>1. Splits(c, path) = ActiveSplits(c, c.window) /\ (path = "grouped" => c.window = 0)
      <3>1. path = "grouped" => c.window = 0
        BY GroupedIsGlobal
      <3> HIDE DEF path
      <3>2. Splits(c, path) = ActiveSplits(c, IF path = "grouped" THEN 0 ELSE c.window)
        BY <1>3 DEF Splits
      <3> QED BY <3>1, <3>2
    <2>2. SplitKeys(c, path)[i] = SplitPiece(c, i - 1)
      <3> HIDE DEF path
      <3> DEFINE first == First(c.window, End(c))
                 V == first .. End(c) - 1
                 chunk == SplitChunk(c, c.window)
                 n == ActiveSplits(c, c.window)
      <3>1. SplitKeys(c, path) = Pieces(V, first, chunk, n)
        BY <1>3 DEF SplitKeys
      <3>2. SplitPiece(c, i - 1) = Piece(V, first, chunk, i)
        BY <1>1 DEF SplitPiece
      <3>3. i \in 1 .. n
        BY <2>1 DEF path
      <3> HIDE DEF V, first, chunk, n
      <3> QED BY <3>1, <3>2, <3>3 DEF Pieces
    <2>3. CASE path = "grouped"
      <3>1. SplitPart(c, path, h, i - 1) = GroupedPart(c, h, i - 1)
        BY <2>3 DEF SplitPart
      <3> HIDE DEF path
      <3>2. PartOf(c, h, GroupedPart(c, h, i - 1), SplitPiece(c, i - 1))
        BY <1>1, <2>1, <2>3, GroupedPartHas
      <3> QED BY <2>2, <3>1, <3>2 DEF path
    <2>4. CASE path # "grouped"
      <3>1. SplitPart(c, path, h, i - 1) = DecodePart(c, h, i - 1)
        BY <1>3, <2>4 DEF SplitPart
      <3> HIDE DEF path
      <3>2. PartOf(c, h, DecodePart(c, h, i - 1), SplitPiece(c, i - 1))
        BY <1>1, DecodePartHas
      <3> QED BY <2>2, <3>1, <3>2 DEF path
    <2> QED BY <2>3, <2>4
  <1> QED BY <1>2, <1>3

(* The merge kernel reads the splits that have keys, and what it merges is  *)
(* the attention of the query.                                              *)
LEMMA DecodeRight ==
  ASSUME NEW c, Attends(c), c.op = "cached", DecodePath(c) \in Paths, NEW x \in Pairs(c),
         NEW ps, ps = [i \in 1 .. Merged(c, DecodePath(c)) |-> ps[i]],
         \A i \in 1 .. Merged(c, DecodePath(c)) : PartOf(c, x[2], ps[i], SplitKeys(c, DecodePath(c))[i])
  PROVE  IsAttention(c, x, Merge(ps))
  <1> DEFINE path == DecodePath(c)
             n == Splits(c, path)
             Vs == SplitKeys(c, path)
             h == x[2]
  <1>1. Merged(c, path) = n
    BY DEF Merged
  <1>2. n \in Nat /\ n > 0 /\ Apart(c, Vs, n) /\ Upto(Vs, n) = Visible(c, c.past)
    BY SplitsShare DEF Positive
  <1>3. ps = [i \in 1 .. n |-> ps[i]] /\ \A i \in 1 .. n : PartOf(c, h, ps[i], Vs[i])
    BY <1>1
  <1>4. c.past + x[1] = c.past
    <2>1. x[1] \in 0 .. 1 - 1 /\ c.past \in Nat
      BY PairQuery, DecodeQuery
    <2> QED BY <2>1
  <1> HIDE DEF n, Vs, h, path
  <1>5. PartOf(c, h, Merge(ps), Upto(Vs, n))
    BY <1>2, <1>3, MergeAdds
  <1>6. PartOf(c, x[2], Merge(ps), Visible(c, c.past + x[1]))
    BY <1>2, <1>4, <1>5 DEF h
  <1> QED BY <1>6, PartIsAttention
-----------------------------------------------------------------------------
(* Prefill, fused.                                                          *)

\* Rows read from the slots of their positions.
LEMMA SlottedRows ==
  ASSUME NEW c, Attends(c), NEW h \in Int, NEW s, NEW W \in SUBSET Live(c), Lists(s, W)
  PROVE  ReadsOf(c, h, RowsAt(Slotted(s, Ring(c)), c, h), W)
  <1> DEFINE reads == RowsAt(Slotted(s, Ring(c)), c, h)
  <1>1. DOMAIN s = 1 .. Len(s)
    BY InRange DEF Lists
  <1>2. reads = [i \in 1 .. Len(s) |-> reads[i]] /\ \A i \in 1 .. Len(s) : reads[i] = Row(s[i] % Ring(c), c, h)
    BY <1>1 DEF RowsAt, Slotted
  <1> HIDE DEF reads
  <1>3. ReadsOf(c, h, reads, W)
    BY <1>2, ListedRows
  <1> QED BY <1>3 DEF reads

\* In a cache that has room for the sequence, a position is its slot.
LEMMA LinearRows ==
  ASSUME NEW c, Attends(c), End(c) <= Ring(c), NEW h \in Int, NEW s, NEW W \in SUBSET Live(c), Lists(s, W)
  PROVE  ReadsOf(c, h, RowsAt(s, c, h), W)
  <1>1. s \in Seq(Int) /\ DOMAIN s = 1 .. Len(s) /\ \A i \in 1 .. Len(s) : s[i] \in W
    BY InRange DEF Lists
  <1>2. \A i \in 1 .. Len(s) : s[i] % Ring(c) = s[i]
    <2> TAKE i \in 1 .. Len(s)
    <2> DEFINE k == s[i]
               r == Ring(c)
    <2>1. k \in 0 .. End(c) - 1 /\ End(c) \in Nat /\ r \in Nat /\ r \in Positive
      BY <1>1, CallSizes DEF Live, Positive
    <2>2. k \in 0 .. r - 1 /\ k \in Nat
      <3> HIDE DEF k
      <3> QED BY <2>1
    <2> HIDE DEF k, r
    <2>3. (r * 0 + k) % r = k
      BY <2>1, <2>2, Quotient
    <2>4. r * 0 + k = k
      BY <2>1, <2>2
    <2> QED BY <2>3, <2>4 DEF k, r
  <1>3. Slotted(s, Ring(c)) = s
    <2>1. s = [i \in 1 .. Len(s) |-> s[i]]
      BY <1>1
    <2> QED BY <1>1, <1>2, <2>1 DEF Slotted
  <1>4. ReadsOf(c, h, RowsAt(Slotted(s, Ring(c)), c, h), W)
    BY SlottedRows
  <1> QED BY <1>3, <1>4

(* The blocks of head_dim 128 mask only the tiles that reach past their     *)
(* first query, and that is enough.                                         *)
LEMMA Flash128Right ==
  ASSUME NEW c, Attends(c), c.window = 0, End(c) <= Ring(c), ~HasBlock(c), NEW x \in Pairs(c)
  PROVE  IsAttention(c, x, Flash128(c)[x])
  <1> DEFINE Q == Shape.queryTile
             T == Shape.keyTile
             q0 == (x[1] \div Q) * Q
             kvEnd == c.past + Smaller(q0 + Q, c.new)
             seen(k0) == {k \in 0 .. kvEnd - 1 : ~(k0 + T - 1 > c.past + q0 /\ k > c.past + x[1])}
             s == Steps(0, kvEnd, T)
             kept(i) == Where(Steps(s[i], s[i] + T, 1), seen(s[i]))
             reads == [i \in DOMAIN s |-> RowsAt(kept(i), c, x[2])]
             q == c.past + x[1]
             V == Visible(c, q)
             h == x[2]
  <1>1. Flash128(c)[x] = Online(c, reads)
    BY DEF Flash128
  <1>2. Q \in Positive /\ Q \in Nat /\ Q > 0 /\ T \in Positive /\ T \in Nat /\ T > 0
    BY ShapeSizes DEF Positive
  <1>3. x[1] \in Nat /\ x[1] < c.new /\ c.new \in Nat /\ c.past \in Nat /\ h \in Int /\ q \in c.past .. End(c) - 1
    BY PairQuery, CallSizes DEF Positive
  <1>4. q0 \in Nat /\ q0 <= x[1] /\ x[1] < q0 + Q
    <2> DEFINE a == x[1]
    <2> HIDE DEF Q, a
    <2>0. a \in Nat /\ a \in Int
      BY <1>3 DEF a
    <2>1. a = Q * (a \div Q) + (a % Q) /\ a % Q \in 0 .. Q - 1 /\ a \div Q \in Nat
      BY <1>2, <2>0, DivMod
    <2>2. (a \div Q) * Q = Q * (a \div Q) /\ Q * (a \div Q) \in Nat
      <3> DEFINE d == a \div Q
      <3>1. d \in Nat
        BY <2>1
      <3> HIDE DEF d
      <3>2. d * Q = Q * d /\ Q * d \in Nat
        BY <1>2, <3>1
      <3> QED BY <3>2 DEF d
    <2> DEFINE m == Q * (a \div Q)
               r == a % Q
    <2>3. a = m + r /\ m \in Nat /\ r \in Nat /\ r < Q
      BY <1>2, <2>1, <2>2
    <2> HIDE DEF m, r
    <2>4. m <= a /\ a < m + Q
      BY <1>2, <2>3
    <2>5. q0 = m
      BY <2>2 DEF a, m
    <2> HIDE DEF q0
    <2> QED BY <2>3, <2>4, <2>5 DEF a
  <1> HIDE DEF q0, Q, T
  <1>5. kvEnd \in Nat /\ q < kvEnd
    BY <1>2, <1>3, <1>4 DEF Smaller
  <1>6. V = 0 .. q /\ V \in SUBSET Live(c) /\ q \in Nat
    <2> HIDE DEF q
    <2>1. Visible(c, q) = First(c.window, q + 1) .. q /\ Visible(c, q) \in SUBSET Live(c)
      BY <1>3, VisibleRange, VisibleLive
    <2>2. q \in Nat
      BY <1>3
    <2> QED BY <2>1, <2>2 DEF First
  <1> HIDE DEF kvEnd, V, h
  <1>7. Stepped(s, 0, kvEnd, T)
    BY <1>2, <1>5, StepsStep
  <1> HIDE DEF s
  <1>8. DOMAIN s = 1 .. Len(s)
    BY <1>7 DEF Stepped
  <1>9. ASSUME NEW i \in 1 .. Len(s) PROVE ReadsOf(c, h, reads[i], TileOf(V, s[i], T))
    <2> DEFINE a == s[i]
               t == Steps(a, a + T, 1)
               W == TileOf(V, a, T)
    <2>1. a \in Int /\ 0 <= a /\ a < kvEnd
      BY <1>7 DEF Stepped
    <2>2. reads[i] = RowsAt(Where(t, seen(a)), c, h)
      BY <1>8 DEF h
    <2> HIDE DEF reads, a
    <2>3. Lists(t, a .. (a + T) - 1)
      <3>1. a + T \in Int
        BY <1>2, <2>1
      <3> QED BY <2>1, <3>1, StepsList
    <2>4. (a .. (a + T) - 1) \cap seen(a) = W
      <3> DEFINE b == c.past + q0
                 S == seen(a)
      <3>1. \A k : k \in S <=> k \in 0 .. kvEnd - 1 /\ ~(a + T - 1 > b /\ k > q)
        OBVIOUS
      <3>2. b <= q /\ b \in Nat
        <4> DEFINE p == c.past
                   d == x[1]
        <4>1. p \in Nat /\ d \in Nat /\ q0 \in Nat /\ q0 <= d
          BY <1>3, <1>4
        <4> HIDE DEF p, d
        <4>2. p + q0 <= p + d /\ p + q0 \in Nat
          BY <4>1
        <4> QED BY <4>2 DEF p, d
      <3> HIDE DEF S, b, q
      <3>3. \A k : k \in W <=> k \in 0 .. q /\ a <= k /\ k < a + T
        BY <1>6 DEF TileOf
      <3> HIDE DEF W
      <3>4. ASSUME NEW k \in a .. (a + T) - 1, k \in S PROVE k \in W
        <4>1. k \in 0 .. kvEnd - 1 /\ ~(a + T - 1 > b /\ k > q) /\ k \in Int /\ k < a + T /\ a <= k
          BY <1>2, <2>1, <3>1, <3>4
        <4>2. k <= q
          BY <1>2, <1>6, <2>1, <3>2, <4>1
        <4> QED BY <1>5, <1>6, <3>3, <4>1, <4>2
      <3>5. ASSUME NEW k \in W PROVE k \in a .. (a + T) - 1 /\ k \in S
        <4>1. k \in 0 .. q /\ a <= k /\ k < a + T
          BY <3>3
        <4> QED BY <1>2, <1>5, <1>6, <2>1, <3>1, <4>1
      <3>6. (a .. (a + T) - 1) \cap S = W
        BY <3>4, <3>5
      <3> QED BY <3>6 DEF S
    <2> DEFINE S == seen(a)
    <2> HIDE DEF t, W, S
    <2>5. Lists(Where(t, S), W)
      <3>1. Lists(Where(t, S), (a .. (a + T) - 1) \cap S)
        BY <2>3, WhereList
      <3> QED BY <2>4, <3>1 DEF S
    <2>6. W \in SUBSET Live(c)
      BY <1>6 DEF W, TileOf
    <2>7. ReadsOf(c, h, RowsAt(Where(t, S), c, h), W)
      BY <1>3, <2>5, <2>6, LinearRows
    <2> QED BY <2>2, <2>7 DEF S, W, a
  <1>10. reads = [i \in 1 .. Len(s) |-> reads[i]]
    BY <1>8
  <1> HIDE DEF reads, q
  <1>11. \A k \in V : 0 <= k /\ k < kvEnd
    BY <1>5, <1>6
  <1>12. PartOf(c, h, Online(c, reads), V)
    BY <1>2, <1>5, <1>6, <1>9, <1>10, <1>11, Tiled DEF s
  <1> QED BY <1>1, <1>12, PartIsAttention DEF V, h, q

\* Quotients keep the order.
LEMMA DivOrder ==
  ASSUME NEW s \in Positive, NEW a \in Int, NEW b \in Int, a <= b
  PROVE  a \div s \in Int /\ b \div s \in Int /\ a \div s <= b \div s
  <1> DEFINE d == a \div s
             e == b \div s
             r == a % s
             t == b % s
  <1>1. a = s * d + r /\ r \in 0 .. s - 1 /\ d \in Int
    BY DivMod
  <1>2. b = s * e + t /\ t \in 0 .. s - 1 /\ e \in Int
    BY DivMod
  <1>3. s \in Nat
    BY DEF Positive
  <1> HIDE DEF d, e, r, t
  <1>4. ASSUME e < d PROVE FALSE
    <2>1. e + 1 \in Int /\ e + 1 <= d
      BY <1>1, <1>2, <1>4
    <2>2. s * (e + 1) <= s * d /\ s * (e + 1) = s * e + s /\ s * e \in Int /\ s * d \in Int
      BY <1>1, <1>2, <1>3, <2>1, TimesOrder
    <2> QED BY <1>1, <1>2, <1>3, <2>2
  <1>5. d <= e
    BY <1>1, <1>2, <1>4
  <1> QED BY <1>1, <1>2, <1>5 DEF d, e

\* The queries of a tile of rows are around that of each of its rows.
LEMMA RowQueries ==
  ASSUME NEW g \in Positive, NEW R \in Positive, NEW n \in Nat, NEW i \in 0 .. n - 1, NEW h \in Int,
         NEW row0, row0 = ((i * g + (h % g)) \div R) * R
  PROVE  /\ row0 \div g \in Nat /\ row0 \div g <= i
         /\ Smaller(n * g - 1, row0 + R - 1) \div g \in Int /\ i <= Smaller(n * g - 1, row0 + R - 1) \div g
  <1> DEFINE r == h % g
             e == i * g + r
             m == Smaller(n * g - 1, row0 + R - 1)
             d == e \div R
  <1>1. g \in Nat /\ g > 0 /\ R \in Nat /\ R > 0 /\ i \in Nat /\ i + 1 <= n
    BY DEF Positive
  <1>2. r \in 0 .. g - 1
    BY DivMod
  <1> HIDE DEF r
  <1>3. i * g = g * i /\ g * i \in Nat /\ e = g * i + r /\ e \in Nat /\ e \in Int
    BY <1>1, <1>2
  <1>4. e \div g = i
    <2>1. (g * i + r) \div g = i
      BY <1>1, <1>2, Quotient
    <2> QED BY <1>3, <2>1
  <1>5. row0 = R * d /\ R * d \in Nat /\ row0 <= e /\ e <= row0 + R - 1
    <2> HIDE DEF e
    <2>1. e = R * d + (e % R) /\ e % R \in 0 .. R - 1 /\ d \in Nat
      BY <1>3, DivMod
    <2> HIDE DEF d
    <2>2. d * R = R * d /\ R * d \in Nat
      BY <1>1, <2>1
    <2> DEFINE u == R * d
               v == e % R
    <2>3. e = u + v /\ v \in 0 .. R - 1 /\ u \in Nat
      BY <2>1, <2>2
    <2> HIDE DEF u, v
    <2>4. u <= e /\ e <= u + R - 1
      BY <1>1, <2>3
    <2>5. row0 = u
      BY <2>2 DEF u, d, e, r
    <2> QED BY <2>3, <2>4, <2>5 DEF u
  <1> HIDE DEF d, e
  <1>6. row0 \in Nat /\ row0 \in Int
    BY <1>5
  <1>7. row0 \div g \in Nat /\ row0 \div g <= i
    <2>1. row0 \div g <= e \div g
      BY <1>3, <1>5, <1>6, DivOrder
    <2>2. row0 \div g \in Nat
      BY <1>6, DivMod
    <2> QED BY <1>4, <2>1, <2>2
  <1>8. m \in Int /\ e <= m
    <2>1. g * (i + 1) <= g * n /\ g * (i + 1) = g * i + g /\ g * n = n * g /\ g * n \in Int
      BY <1>1, TimesOrder
    <2> DEFINE u == n * g
               w == g * i
    <2>2. u \in Int /\ w + g <= u /\ e = w + r /\ w \in Nat
      BY <1>3, <2>1
    <2> HIDE DEF u, w
    <2>3. e <= u - 1 /\ u - 1 \in Int
      BY <1>1, <1>2, <2>2
    <2>4. m = Smaller(u - 1, row0 + R - 1)
      BY DEF u
    <2> HIDE DEF m
    <2> QED BY <1>1, <1>5, <1>6, <2>3, <2>4 DEF Smaller
  <1> HIDE DEF m
  <1>9. m \div g \in Int /\ e \div g <= m \div g
    BY <1>3, <1>8, DivOrder
  <1> QED BY <1>4, <1>7, <1>9 DEF m

\* The tiles of a block go from before what any of its queries sees to after it.
LEMMA WideSpan ==
  ASSUME NEW c, Attends(c), NEW q \in c.past .. End(c) - 1, NEW qFirst \in Int, NEW qLast \in Int,
         qFirst <= q, q <= qLast, NEW k \in Visible(c, q)
  PROVE  /\ WideFrom(c, qFirst, qLast) <= k /\ k <= WideTo(c, qFirst, qLast)
  <1>1. /\ k \in 0 .. End(c) - 1 /\ k + Ring(c) >= End(c) /\ q \in Int
        /\ k <= q \/ (InBlock(c, q) /\ InBlock(c, k))
        /\ c.window = 0 \/ k + c.window > q
    BY VisibleLive DEF Visible, Sees, Live
  <1>2. End(c) \in Nat /\ Ring(c) \in Nat /\ c.window \in Nat /\ c.from \in Nat /\ c.to \in Nat /\ k \in Nat
    BY <1>1, CallSizes DEF Attends, Positive
  <1>3. WideFrom(c, qFirst, qLast) <= k
    BY <1>1, <1>2 DEF WideFrom, Larger
  <1>4. k <= WideTo(c, qFirst, qLast)
    <2>1. CASE k <= q
      BY <1>1, <1>2, <2>1 DEF WideTo, Larger, Smaller
    <2>2. CASE InBlock(c, q) /\ InBlock(c, k)
      <3>1. HasBlock(c) /\ qLast >= c.from /\ qFirst < c.to /\ k <= c.to - 1
        BY <1>1, <1>2, <2>2 DEF InBlock, HasBlock
      <3> QED BY <1>1, <1>2, <3>1 DEF WideTo, Larger, Smaller
    <2> QED BY <1>1, <2>1, <2>2
  <1> QED BY <1>3, <1>4

(* The blocks of head_dim 256 and 512 bound their tiles by the window of    *)
(* their first query and by the last one or the image, and mask the rest.   *)
LEMMA FlashWideRight ==
  ASSUME NEW c, Attends(c), NEW x \in Pairs(c)
  PROVE  IsAttention(c, x, FlashWide(c)[x])
  <1> DEFINE g == c.heads \div c.kvHeads
             R == Shape.rowTile
             T == Shape.wideTile
             row0 == ((x[1] * g + (x[2] % g)) \div R) * R
             qFirst == c.past + row0 \div g
             qLast == c.past + Smaller(c.new * g - 1, row0 + R - 1) \div g
             hi == WideTo(c, qFirst, qLast)
             lo == WideFrom(c, qFirst, qLast)
             q == c.past + x[1]
             seen == {p \in 0 .. hi : Sees(c, q, p)}
             s == Steps(lo, hi + 1, T)
             kept(i) == Where(Steps(s[i], s[i] + T, 1), seen)
             reads == [i \in DOMAIN s |-> RowsAt(Slotted(kept(i), Ring(c)), c, x[2])]
             V == Visible(c, q)
             h == x[2]
  <1>1. FlashWide(c)[x] = Online(c, reads)
    BY DEF FlashWide
  <1>2. g \in Positive /\ R \in Positive /\ T \in Positive /\ T \in Nat /\ T > 0
    BY ShapeSizes, GroupType DEF Positive
  <1>3. x[1] \in Nat /\ x[1] \in 0 .. c.new - 1 /\ c.new \in Nat /\ c.past \in Nat /\ h \in Int /\ q \in c.past .. End(c) - 1
        /\ q \in Int /\ V \in SUBSET Live(c)
    BY PairQuery, CallSizes, VisibleLive DEF Positive
  <1>4. qFirst \in Int /\ qLast \in Int /\ qFirst <= q /\ q <= qLast
    <2> DEFINE i == x[1]
               n == c.new
               u == row0 \div g
               w == Smaller(n * g - 1, row0 + R - 1) \div g
    <2> HIDE DEF g, R
    <2>1. i \in 0 .. n - 1 /\ n \in Nat /\ h \in Int
      BY <1>3
    <2> HIDE DEF i, n, h
    <2>2. row0 = ((i * g + (h % g)) \div R) * R
      BY DEF i, h
    <2> HIDE DEF row0
    <2>3. u \in Nat /\ u <= i /\ w \in Int /\ i <= w
      BY <1>2, <2>1, <2>2, RowQueries
    <2> HIDE DEF u, w
    <2>4. c.past + u <= c.past + i /\ c.past + i <= c.past + w /\ c.past + u \in Int /\ c.past + w \in Int
      BY <1>3, <2>1, <2>3
    <2> QED BY <2>4 DEF u, w, i, n
  <1> HIDE DEF g, R, T, qFirst, qLast
  <1>5. hi \in Int /\ hi <= End(c) - 1 /\ lo \in Int
    <2>1. End(c) \in Nat /\ Ring(c) \in Nat /\ c.window \in Nat /\ c.to \in Nat
      BY CallSizes DEF Attends, Positive
    <2>2. hi \in Int /\ hi <= End(c) - 1
      BY <1>4, <2>1 DEF WideTo, Larger, Smaller
    <2>3. lo \in Int
      BY <1>4, <2>1 DEF WideFrom, Larger
    <2> QED BY <2>2, <2>3
  <1>6. \A k \in V : lo <= k /\ k <= hi
    <2> HIDE DEF q, lo, hi
    <2>1. q \in c.past .. End(c) - 1
      BY <1>3
    <2> QED BY <1>4, <2>1, WideSpan DEF lo, hi
  <1> HIDE DEF lo, hi
  <1>7. \A k : k \in seen <=> k \in 0 .. hi /\ Sees(c, q, k)
    OBVIOUS
  <1>8. \A k : k \in V <=> k \in 0 .. End(c) - 1 /\ Sees(c, q, k)
    BY DEF Visible
  <1> HIDE DEF q, V, h, seen
  <1>9. \A k \in Int : k \in seen <=> k \in V
    <2> TAKE k \in Int
    <2>1. End(c) \in Nat
      BY CallSizes DEF Positive
    <2>2. k \in V => lo <= k /\ k <= hi
      BY <1>6
    <2> QED BY <1>5, <1>7, <1>8, <2>1, <2>2
  <1>10. \A k \in V : k \in Int /\ lo <= k /\ k < hi + 1
    <2> TAKE k \in V
    <2>1. k \in Int
      BY <1>8
    <2> QED BY <1>5, <1>6, <2>1
  <1>11. Stepped(s, lo, hi + 1, T)
    <2>1. hi + 1 \in Int
      BY <1>5
    <2> QED BY <1>2, <1>5, <2>1, StepsStep
  <1> HIDE DEF s
  <1>12. DOMAIN s = 1 .. Len(s)
    BY <1>11 DEF Stepped
  <1>13. ASSUME NEW i \in 1 .. Len(s) PROVE ReadsOf(c, h, reads[i], TileOf(V, s[i], T))
    <2> DEFINE a == s[i]
               t == Steps(a, a + T, 1)
               W == TileOf(V, a, T)
    <2>1. a \in Int
      BY <1>11 DEF Stepped
    <2>2. reads[i] = RowsAt(Slotted(Where(t, seen), Ring(c)), c, h)
      BY <1>12 DEF h
    <2> HIDE DEF reads, a
    <2>3. Lists(t, a .. (a + T) - 1)
      <3>1. a + T \in Int
        BY <1>2, <2>1
      <3> QED BY <2>1, <3>1, StepsList
    <2>4. (a .. (a + T) - 1) \cap seen = W
      <3>1. ASSUME NEW k \in a .. (a + T) - 1, k \in seen PROVE k \in W
        <4>1. k \in Int /\ a <= k /\ k < a + T
          BY <1>2, <2>1
        <4> QED BY <1>9, <3>1, <4>1 DEF TileOf
      <3>2. ASSUME NEW k \in W PROVE k \in a .. (a + T) - 1 /\ k \in seen
        <4>1. k \in V /\ k \in Int /\ a <= k /\ k < a + T
          BY <1>10 DEF TileOf
        <4> QED BY <1>2, <1>9, <2>1, <4>1
      <3> HIDE DEF W
      <3> QED BY <3>1, <3>2
    <2> HIDE DEF t, W
    <2>5. Lists(Where(t, seen), W)
      <3>1. Lists(Where(t, seen), (a .. (a + T) - 1) \cap seen)
        BY <2>3, WhereList
      <3> QED BY <2>4, <3>1
    <2>6. W \in SUBSET Live(c) /\ h \in Int
      BY <1>3 DEF W, TileOf
    <2>7. ReadsOf(c, h, RowsAt(Slotted(Where(t, seen), Ring(c)), c, h), W)
      BY <2>5, <2>6, SlottedRows
    <2> QED BY <2>2, <2>7 DEF W, a
  <1>14. reads = [i \in 1 .. Len(s) |-> reads[i]]
    BY <1>12
  <1> HIDE DEF reads
  <1>15. \A k \in V : lo <= k /\ k < hi + 1
    BY <1>10
  <1>16. PartOf(c, h, Online(c, reads), V)
    <2>1. hi + 1 \in Int
      BY <1>5
    <2> QED BY <1>2, <1>3, <1>5, <1>13, <1>14, <1>15, <2>1, Tiled DEF s
  <1> QED BY <1>1, <1>16, PartIsAttention DEF V, h, q
-----------------------------------------------------------------------------
(* Prefill by GEMMs, a block of slots at a time.                            *)

\* The visible keys in the slots of a block, and those of the slots before it.
InSlots(c, q, base) == {k \in Visible(c, q) : base <= k % Ring(c) /\ k % Ring(c) < base + BlockKeys(c)}
Before(c, q, base) == {k \in Visible(c, q) : k % Ring(c) < base}

\* A block has slots.
LEMMA BlockSizes ==
  ASSUME NEW c, Attends(c)
  PROVE  /\ Keys(c) \in Positive /\ Keys(c) <= Ring(c) /\ Keys(c) <= End(c)
         /\ Keys(c) = End(c) \/ Keys(c) = Ring(c)
         /\ BlockKeys(c) \in Positive
  <1>1. End(c) \in Nat /\ End(c) > 0 /\ Ring(c) \in Nat /\ Ring(c) > 0
    BY CallSizes DEF Positive
  <1>2. /\ Keys(c) \in Positive /\ Keys(c) <= Ring(c) /\ Keys(c) <= End(c)
        /\ Keys(c) = End(c) \/ Keys(c) = Ring(c)
    BY <1>1 DEF Keys, Smaller, Positive
  <1> DEFINE unit == Shape.keyUnit
             align == Shape.keyAlign
             fit == ((Shape.budget \div (c.heads * c.new)) \div unit) * unit
             up == Up(Keys(c), align)
  <1>3. unit \in Nat /\ unit > 0 /\ unit \in Positive /\ align \in Positive /\ align \in Nat /\ align > 0
    BY ShapeSizes DEF Positive
  <1>4. fit \in Int
    <2> DEFINE a == c.heads * c.new
               b == Shape.budget \div a
               d == b \div unit
    <2>1. a \in Positive
      BY CallSizes DEF Positive
    <2> HIDE DEF a, unit
    <2>2. b \in Int
      <3> DEFINE m == Shape.budget
      <3>1. m \in Int
        BY ShapeSizes DEF Positive
      <3> HIDE DEF m
      <3>2. m \div a \in Int
        BY <2>1, <3>1, DivMod
      <3> QED BY <3>2 DEF m
    <2> HIDE DEF b
    <2>3. d \in Int
      BY <1>3, <2>2, DivMod
    <2> HIDE DEF d
    <2>4. d * unit \in Int
      BY <1>3, <2>3
    <2> QED BY <2>4 DEF d, b, a
  <1>5. up \in Nat /\ up > 0
    <2> DEFINE k == Keys(c)
               d == CeilDiv(k, align)
    <2>1. k \in Nat /\ k > 0
      BY <1>2 DEF Positive
    <2> HIDE DEF k, align
    <2>2. d \in Nat /\ d > 0
      BY <1>3, <2>1, Ceiling
    <2> HIDE DEF d
    <2>3. d * align \in Nat /\ d * align > 0
      BY <1>3, <2>2
    <2> QED BY <2>3 DEF Up, d, k
  <1>6. BlockKeys(c) = Smaller(Larger(unit, fit), up)
    BY DEF BlockKeys
  <1> HIDE DEF unit, fit, up
  <1>7. BlockKeys(c) \in Positive
    BY <1>3, <1>4, <1>5, <1>6 DEF Smaller, Larger, Positive
  <1> QED BY <1>2, <1>7

\* The last position written to a slot is live, and is that of no other slot.
LEMMA KeyPosLive ==
  ASSUME NEW c, Attends(c), NEW s \in 0 .. Keys(c) - 1
  PROVE  KeyPos(c, s) \in Live(c) /\ KeyPos(c, s) % Ring(c) = s /\ KeyPos(c, s) \in Int
  <1> DEFINE R == Ring(c)
             e == End(c)
             a == e - 1 - s
             d == a \div R
             r == a % R
  <1>1. R \in Positive /\ R \in Nat /\ R > 0 /\ e \in Nat /\ s \in Nat /\ s < e /\ s < R /\ s \in 0 .. R - 1
    BY CallSizes, BlockSizes DEF Positive
  <1> HIDE DEF R, e
  <1>2. a \in Nat /\ a \in Int
    BY <1>1
  <1> HIDE DEF a
  <1>3. a = R * d + r /\ r \in 0 .. R - 1 /\ d \in Nat
    BY <1>1, <1>2, DivMod
  <1>4. KeyPos(c, s) = s + d * R
    BY DEF KeyPos, d, a, e, R
  <1> HIDE DEF d, r
  <1>5. d * R = R * d /\ R * d \in Nat
    BY <1>1, <1>3
  <1> DEFINE u == R * d
             p == KeyPos(c, s)
  <1>6. p = u + s /\ a = u + r /\ u \in Nat /\ p \in Nat
    BY <1>1, <1>3, <1>4, <1>5
  <1>7. p % R = s
    <2>1. (R * d + s) % R = s
      BY <1>1, <1>3, Quotient
    <2> QED BY <1>6, <2>1
  <1> HIDE DEF u, p
  <1>8. p \in 0 .. e - 1 /\ p + R >= e
    BY <1>1, <1>3, <1>6 DEF a
  <1>9. p \in Live(c)
    BY <1>8 DEF Live, e, R
  <1> QED BY <1>6, <1>7, <1>9 DEF p, R

\* Every live position is the last one written to its slot.
LEMMA LiveKeyPos ==
  ASSUME NEW c, Attends(c), NEW k \in Live(c)
  PROVE  k % Ring(c) \in 0 .. Keys(c) - 1 /\ KeyPos(c, k % Ring(c)) = k
  <1> DEFINE R == Ring(c)
             e == End(c)
             s == k % R
             n == Keys(c)
             p == KeyPos(c, s)
  <1>1. R \in Positive /\ R \in Nat /\ R > 0 /\ e \in Nat /\ k \in Nat /\ k \in Int /\ k < e /\ k + R >= e
    BY CallSizes DEF Live, Positive
  <1>2. s \in 0 .. R - 1 /\ s <= k
    <2>1. k = R * (k \div R) + (k % R) /\ k % R \in 0 .. R - 1 /\ k \div R \in Nat
      BY <1>1, DivMod
    <2> DEFINE d == k \div R
    <2>2. R * d \in Nat
      <3>1. d \in Nat
        BY <2>1
      <3> HIDE DEF d
      <3> QED BY <1>1, <3>1
    <2> DEFINE u == R * d
    <2>3. k = u + s /\ u \in Nat /\ s \in 0 .. R - 1
      BY <2>1, <2>2
    <2> HIDE DEF u, s
    <2> QED BY <1>1, <2>3
  <1>3. s \in 0 .. n - 1
    <2>1. n = e \/ n = R
      BY BlockSizes
    <2> HIDE DEF s, n, e, R
    <2> QED BY <1>1, <1>2, <2>1
  <1>4. p \in Live(c) /\ p % R = s
    <2> HIDE DEF s
    <2>1. s \in 0 .. Keys(c) - 1
      BY <1>3
    <2>2. KeyPos(c, s) \in Live(c) /\ KeyPos(c, s) % Ring(c) = s
      BY <2>1, KeyPosLive
    <2> QED BY <2>2
  <1>5. p \in Int /\ p < e /\ p + R >= e
    <2> HIDE DEF p
    <2>1. p \in 0 .. e - 1 /\ p + R >= e
      BY <1>4 DEF Live
    <2> HIDE DEF e, R
    <2> QED BY <1>1, <2>1
  <1>6. p = k
    <2> HIDE DEF p, R, e
    <2>1. p % R = k % R
      BY <1>4 DEF s
    <2>2. p < k => p + R <= k
      BY <1>1, <1>5, <2>1, SameSlot
    <2>3. k < p => k + R <= p
      BY <1>1, <1>5, <2>1, SameSlot
    <2> QED BY <1>1, <1>5, <2>2, <2>3
  <1> QED BY <1>3, <1>6

\* The positions of a list of slots.
LEMMA PositionsList ==
  ASSUME NEW c, Attends(c), NEW s, NEW L \in SUBSET (0 .. Keys(c) - 1), Lists(s, L), NEW h \in Int, NEW W,
         W = {KeyPos(c, j) : j \in L}
  PROVE  ReadsOf(c, h, RowsAt(s, c, h), W)
  <1> DEFINE n == Len(s)
             pos == [i \in 1 .. n |-> KeyPos(c, s[i])]
             reads == RowsAt(s, c, h)
  <1>1. /\ s \in Seq(Int) /\ DOMAIN s = 1 .. n /\ n \in Nat /\ L = {s[i] : i \in 1 .. n}
        /\ \A i \in 1 .. n, j \in 1 .. n : i # j => s[i] # s[j]
    BY InRange DEF Lists
  <1> HIDE DEF n
  <1>2. \A i \in 1 .. n : /\ s[i] \in 0 .. Keys(c) - 1 /\ KeyPos(c, s[i]) \in Live(c)
                          /\ KeyPos(c, s[i]) % Ring(c) = s[i] /\ KeyPos(c, s[i]) \in Int
    <2> TAKE i \in 1 .. n
    <2> DEFINE a == s[i]
    <2>1. a \in 0 .. Keys(c) - 1
      BY <1>1
    <2> HIDE DEF a
    <2>2. KeyPos(c, a) \in Live(c) /\ KeyPos(c, a) % Ring(c) = a /\ KeyPos(c, a) \in Int
      BY <2>1, KeyPosLive
    <2> QED BY <2>1, <2>2 DEF a
  <1>3. DOMAIN pos = 1 .. n /\ Len(pos) = n /\ pos \in Seq(Int)
    BY <1>1, <1>2
  <1>4. \A i \in 1 .. n : pos[i] = KeyPos(c, s[i]) /\ pos[i] % Ring(c) = s[i] /\ pos[i] \in Live(c)
    BY <1>2
  <1>5. Range(pos) = W
    <2>1. W = {KeyPos(c, s[i]) : i \in 1 .. n}
      BY <1>1
    <2> HIDE DEF pos
    <2> QED BY <1>3, <1>4, <2>1 DEF Range
  <1>6. \A i \in 1 .. n, j \in 1 .. n : i # j => pos[i] # pos[j]
    <2> SUFFICES ASSUME NEW i \in 1 .. n, NEW j \in 1 .. n, i # j, pos[i] = pos[j] PROVE FALSE
      OBVIOUS
    <2> HIDE DEF pos
    <2>1. s[i] = s[j]
      BY <1>4
    <2> QED BY <1>1, <2>1
  <1> HIDE DEF pos
  <1>7. Lists(pos, W)
    BY <1>3, <1>5, <1>6 DEF Lists
  <1>8. W \in SUBSET Live(c)
    BY <1>3, <1>4, <1>5 DEF Range
  <1>9. reads = [i \in 1 .. n |-> reads[i]] /\ \A i \in 1 .. n : reads[i] = Row(pos[i] % Ring(c), c, h)
    BY <1>1, <1>4 DEF RowsAt
  <1> HIDE DEF reads
  <1>10. ReadsOf(c, h, reads, W)
    BY <1>3, <1>7, <1>8, <1>9, ListedRows
  <1> QED BY <1>10 DEF reads

\* Two parts that share no key.
LEMMA MergeTwo ==
  ASSUME NEW c, Attends(c), NEW h, NEW V, NEW W, NEW p, PartOf(c, h, p, V), NEW r, PartOf(c, h, r, W), V \cap W = {}
  PROVE  PartOf(c, h, Merge(<<p, r>>), V \cup W)
  <1> DEFINE ps == <<p, r>>
             Vs == <<V, W>>
             n == 2
  <1>1. V \in SUBSET Live(c) /\ W \in SUBSET Live(c)
    BY DEF PartOf
  <1>2. n \in Nat /\ n > 0 /\ 1 .. n = {1, 2}
    OBVIOUS
  <1>3. ps = [i \in 1 .. n |-> ps[i]] /\ \A i \in 1 .. n : PartOf(c, h, ps[i], Vs[i])
    BY <1>2
  <1>4. Apart(c, Vs, n)
    <2>1. Vs \in [1 .. n -> SUBSET Live(c)]
      BY <1>1, <1>2
    <2>2. \A i \in 1 .. n, j \in 1 .. n : i # j => Vs[i] \cap Vs[j] = {}
      BY <1>2
    <2> HIDE DEF Vs, n
    <2> QED BY <2>1, <2>2 DEF Apart
  <1>5. Upto(Vs, n) = V \cup W
    BY <1>2 DEF Upto
  <1> HIDE DEF ps, Vs, n
  <1>6. PartOf(c, h, Merge(ps), Upto(Vs, n))
    BY <1>2, <1>3, <1>4, MergeAdds
  <1> QED BY <1>5, <1>6 DEF ps

\* The product of a block adds the visible keys of its slots.
LEMMA KeyBlockHas ==
  ASSUME NEW c, Attends(c), NEW base \in Nat, NEW x \in Pairs(c)
  PROVE  PartOf(c, x[2], KeyBlock(c, base)[x], InSlots(c, c.past + x[1], base))
  <1> DEFINE q == c.past + x[1]
             h == x[2]
             n == Keys(c)
             B == BlockKeys(c)
             to == Smaller(base + B, n)
             seen == {s \in 0 .. Keys(c) - 1 : Sees(c, q, KeyPos(c, s))}
             s == Steps(base, to, 1)
             list == Where(s, seen)
             L == (base .. to - 1) \cap seen
             W == InSlots(c, q, base)
  <1>1. KeyBlock(c, base)[x] = Absorb(c, Empty, RowsAt(list, c, h))
    BY DEF KeyBlock
  <1>2. n \in Positive /\ n \in Nat /\ B \in Positive /\ B \in Nat /\ q \in c.past .. End(c) - 1 /\ h \in Int
    BY BlockSizes, PairQuery DEF Positive
  <1> HIDE DEF q, h, n, B
  <1>3. to \in Int
    BY <1>2 DEF Smaller
  <1>4. Lists(list, L)
    <2> HIDE DEF to
    <2>1. Lists(s, base .. to - 1)
      BY <1>3, StepsList
    <2> HIDE DEF s, seen
    <2> QED BY <2>1, WhereList
  <1>5. L \in SUBSET (0 .. Keys(c) - 1)
    OBVIOUS
  <1>6. \A j : j \in L <=> j \in 0 .. Keys(c) - 1 /\ base <= j /\ j < base + B /\ Sees(c, q, KeyPos(c, j))
    <2> SUFFICES ASSUME NEW j PROVE j \in L <=> j \in 0 .. Keys(c) - 1 /\ base <= j /\ j < base + B /\ Sees(c, q, KeyPos(c, j))
      OBVIOUS
    <2>1. j \in L <=> j \in base .. to - 1 /\ j \in 0 .. n - 1 /\ Sees(c, q, KeyPos(c, j))
      BY DEF n
    <2>2. j \in 0 .. n - 1 => (j \in base .. to - 1 <=> base <= j /\ j < base + B)
      <3> SUFFICES ASSUME j \in 0 .. n - 1 PROVE j \in base .. to - 1 <=> base <= j /\ j < base + B
        OBVIOUS
      <3>1. j \in Int /\ j < n
        BY <1>2
      <3> QED BY <1>2, <3>1 DEF Smaller
    <2> QED BY <2>1, <2>2 DEF n
  <1> HIDE DEF s, seen, L, list
  <1>7. W = {KeyPos(c, j) : j \in L}
    <2>1. ASSUME NEW k \in W PROVE \E j \in L : k = KeyPos(c, j)
      <3> DEFINE j == k % Ring(c)
      <3>1. k \in Visible(c, q) /\ base <= j /\ j < base + B
        BY DEF InSlots, B
      <3>2. k \in Live(c)
        BY <1>2, <3>1, VisibleLive
      <3> HIDE DEF j
      <3>3. j \in 0 .. Keys(c) - 1 /\ KeyPos(c, j) = k
        BY <3>2, LiveKeyPos DEF j
      <3>4. Sees(c, q, k)
        BY <3>1 DEF Visible
      <3> QED BY <1>6, <3>1, <3>3, <3>4
    <2>2. ASSUME NEW j \in L PROVE KeyPos(c, j) \in W
      <3> DEFINE k == KeyPos(c, j)
      <3>1. j \in 0 .. Keys(c) - 1 /\ base <= j /\ j < base + B /\ Sees(c, q, k)
        BY <1>6
      <3>2. k \in Live(c) /\ k % Ring(c) = j
        BY <3>1, KeyPosLive
      <3> HIDE DEF k
      <3>3. k \in 0 .. End(c) - 1
        BY <3>2 DEF Live
      <3>4. k \in Visible(c, q)
        BY <3>1, <3>3 DEF Visible
      <3>5. base <= k % Ring(c) /\ k % Ring(c) < base + B
        BY <3>1, <3>2
      <3> QED BY <3>4, <3>5 DEF InSlots, B, k
    <2> HIDE DEF W
    <2> QED BY <2>1, <2>2
  <1> HIDE DEF W
  <1>8. ReadsOf(c, h, RowsAt(list, c, h), W)
    BY <1>2, <1>4, <1>5, <1>7, PositionsList
  <1>9. PartOf(c, h, Absorb(c, Empty, RowsAt(list, c, h)), {} \cup W)
    <2> DEFINE reads == RowsAt(list, c, h)
               none == {}
    <2>1. PartOf(c, h, Empty, none) /\ none \cap W = {}
      BY EmptyHasNothing
    <2> HIDE DEF reads, none
    <2>2. PartOf(c, h, Absorb(c, Empty, reads), none \cup W)
      BY <1>8, <2>1, AbsorbAdds DEF reads
    <2> QED BY <2>2 DEF reads, none
  <1> QED BY <1>1, <1>9 DEF W, h, q

\* The keys before the next block are those before this one and its own.
LEMMA NextBlock ==
  ASSUME NEW c, Attends(c), NEW q \in c.past .. End(c) - 1, NEW base \in Nat
  PROVE  /\ Before(c, q, base) \cup InSlots(c, q, base) = Before(c, q, base + BlockKeys(c))
         /\ Before(c, q, base) \cap InSlots(c, q, base) = {}
         /\ Before(c, q, 0) = {}
         /\ base >= Keys(c) => Before(c, q, base) = Visible(c, q)
  <1> DEFINE B == BlockKeys(c)
             n == Keys(c)
  <1>1. B \in Nat /\ B > 0 /\ n \in Nat
    BY BlockSizes DEF Positive
  <1>2. \A k \in Visible(c, q) : k % Ring(c) \in 0 .. n - 1
    BY VisibleLive, LiveKeyPos
  <1> HIDE DEF B, n
  <1>3. \A k \in Visible(c, q) : k % Ring(c) \in Nat /\ k % Ring(c) < n
    BY <1>1, <1>2
  <1>4. Before(c, q, 0) = {}
    BY <1>3 DEF Before
  <1>5. Before(c, q, base) \cap InSlots(c, q, base) = {}
    BY <1>3 DEF Before, InSlots
  <1>6. Before(c, q, base) \cup InSlots(c, q, base) = Before(c, q, base + B)
    <2>1. ASSUME NEW k \in Visible(c, q)
          PROVE  k % Ring(c) < base + B <=> k % Ring(c) < base \/ (base <= k % Ring(c) /\ k % Ring(c) < base + B)
      <3> DEFINE d == k % Ring(c)
      <3>1. d \in Nat
        BY <1>3
      <3> HIDE DEF d
      <3>2. d < base + B <=> d < base \/ (base <= d /\ d < base + B)
        BY <1>1, <3>1
      <3> QED BY <3>2 DEF d
    <2> QED BY <2>1 DEF Before, InSlots, B
  <1>7. base >= n => Before(c, q, base) = Visible(c, q)
    <2> SUFFICES ASSUME base >= n PROVE \A k \in Visible(c, q) : k % Ring(c) < base
      BY DEF Before
    <2> TAKE k \in Visible(c, q)
    <2> DEFINE d == k % Ring(c)
    <2>1. d \in Nat /\ d < n
      BY <1>3
    <2> HIDE DEF d
    <2>2. d < base
      BY <1>1, <2>1
    <2> QED BY <2>2 DEF d
  <1> QED BY <1>4, <1>5, <1>6, <1>7 DEF B, n
-----------------------------------------------------------------------------
(* Rotations.                                                               *)

\* Numbers below n * m, in n rows of m.
LEMMA InRows ==
  ASSUME NEW n \in Positive, NEW m \in Positive, NEW a \in 0 .. n * m - 1
  PROVE  /\ a = m * (a \div m) + (a % m) /\ a \in Nat
         /\ a \div m \in 0 .. n - 1 /\ a % m \in 0 .. m - 1
         /\ (a \div m) % n = a \div m
  <1> DEFINE d == a \div m
             r == a % m
  <1>1. n \in Nat /\ n > 0 /\ m \in Nat /\ m > 0 /\ n * m = m * n /\ m * n \in Nat
    BY DEF Positive
  <1>2. a \in Nat /\ a < m * n
    BY <1>1
  <1>3. a = m * d + r /\ d \in Nat /\ r \in 0 .. m - 1
    BY <1>2, DivMod
  <1> HIDE DEF d, r
  <1>4. ASSUME d >= n PROVE FALSE
    <2>1. m * n <= m * d /\ m * d \in Int
      BY <1>1, <1>3, <1>4, TimesOrder
    <2> QED BY <1>1, <1>2, <1>3, <2>1
  <1>5. d \in 0 .. n - 1
    BY <1>1, <1>3, <1>4
  <1>6. d % n = d
    <2>1. (n * 0 + d) % n = d
      BY <1>5, Quotient
    <2>2. n * 0 + d = d
      BY <1>1, <1>3
    <2> QED BY <2>1, <2>2
  <1> QED BY <1>2, <1>3, <1>5, <1>6 DEF d, r

\* And the number in a place of a row.
LEMMA OfRow ==
  ASSUME NEW n \in Positive, NEW m \in Positive, NEW s \in 0 .. n - 1, NEW r \in 0 .. m - 1
  PROVE  /\ m * s + r \in 0 .. n * m - 1
         /\ (m * s + r) \div m = s /\ (m * s + r) % m = r
  <1>1. n \in Nat /\ n > 0 /\ m \in Nat /\ m > 0 /\ s \in Nat /\ s + 1 <= n /\ n * m = m * n
    BY DEF Positive
  <1>2. m * (s + 1) <= m * n /\ m * (s + 1) = m * s + m /\ m * s \in Nat /\ m * n \in Nat
    BY <1>1, TimesOrder
  <1> DEFINE u == m * s
             w == m * n
  <1>3. u \in Nat /\ w \in Nat /\ u + m <= w
    BY <1>2
  <1> HIDE DEF u, w
  <1>4. u + r \in 0 .. w - 1
    BY <1>1, <1>3
  <1>5. m * s + r \in 0 .. n * m - 1
    BY <1>1, <1>4 DEF u, w
  <1>6. (m * s + r) \div m = s /\ (m * s + r) % m = r
    BY <1>1, Quotient
  <1> QED BY <1>5, <1>6

\* Dividing by a product.
LEMMA DivTwice ==
  ASSUME NEW a \in Nat, NEW m \in Positive, NEW n \in Positive
  PROVE  a \div (m * n) = (a \div m) \div n /\ m * n \in Positive
  <1> DEFINE b == a \div m
             r == a % m
             d == b \div n
             h == b % n
             w == m * n
             t == m * h + r
  <1>1. m \in Nat /\ m > 0 /\ n \in Nat /\ n > 0
    BY DEF Positive
  <1>2. a = m * b + r /\ b \in Nat /\ r \in 0 .. m - 1
    BY DivMod
  <1> HIDE DEF b, r
  <1>3. b = n * d + h /\ d \in Nat /\ h \in 0 .. n - 1
    BY <1>2, DivMod
  <1> HIDE DEF d, h
  <1>4. w \in Positive /\ w \in Nat
    BY <1>1 DEF Positive
  <1>5. t \in 0 .. w - 1
    <2>1. m * h + r \in 0 .. n * m - 1
      BY <1>2, <1>3, OfRow
    <2>2. n * m = m * n
      BY <1>1
    <2> QED BY <2>1, <2>2
  <1>6. a = w * d + t
    <2>1. m * b = m * (n * d) + m * h
      BY <1>1, <1>3
    <2>2. m * (n * d) = w * d
      BY <1>1, <1>3
    <2>3. m * (n * d) \in Nat /\ m * h \in Nat
      BY <1>1, <1>3
    <2> QED BY <1>2, <2>1, <2>2, <2>3
  <1> HIDE DEF w, t
  <1>7. (w * d + t) \div w = d
    <2>1. d \in Int
      BY <1>3
    <2> QED BY <1>4, <1>5, <2>1, Quotient
  <1> QED BY <1>4, <1>6, <1>7 DEF w, d, b

\* How far apart the two elements of a pair are.
Distance(c) == IF c.proportional THEN c.dim \div 2 ELSE Rotary(c)

\* A head has room for its pairs.
LEMMA RotarySizes ==
  ASSUME NEW c, Rotates(c)
  PROVE  /\ Rotary(c) \in Nat /\ Rotary(c) > 0 /\ Rotary(c) \in Positive
         /\ Distance(c) \in Nat /\ Rotary(c) <= Distance(c) /\ Distance(c) + Rotary(c) <= c.dim
         /\ c.dim \in Positive /\ c.dim \in Nat /\ c.dim > 0 /\ c.new \in Positive /\ c.past \in Nat
         /\ c.heads \in Positive /\ c.kvHeads \in Positive /\ c.maxSeq \in Nat
         /\ c.fused => Distance(c) = Rotary(c)
  <1>1. /\ c.past \in Nat /\ c.new \in Positive /\ c.maxSeq \in Nat
        /\ c.heads \in Positive /\ c.kvHeads \in Positive /\ c.dim \in Positive
        /\ Rotary(c) \in 1 .. c.dim \div 2 /\ (c.fused => ~c.proportional)
    BY DEF Rotates
  <1> DEFINE d == c.dim
             half == d \div 2
             r == Rotary(c)
  <1>2. d \in Nat /\ d > 0
    BY <1>1 DEF Positive
  <1>3. half \in Nat /\ half + half <= d
    <2> HIDE DEF d
    <2> QED BY <1>2
  <1>4. r \in 1 .. half
    BY <1>1
  <1> HIDE DEF d, half, r
  <1>5. r \in Nat /\ r > 0 /\ r <= half /\ half + r <= d /\ r + r <= d
    BY <1>2, <1>3, <1>4
  <1>6. Distance(c) = (IF c.proportional THEN half ELSE r)
    BY DEF Distance, half, d, r
  <1>7. Distance(c) \in Nat /\ r <= Distance(c) /\ Distance(c) + r <= d
    BY <1>2, <1>3, <1>5, <1>6
  <1>8. c.fused => Distance(c) = r
    BY <1>1, <1>6
  <1> QED BY <1>1, <1>2, <1>5, <1>7, <1>8 DEF r, d, Positive

\* What the thread of a pair of a head writes; b counts the heads of all the rows.
PairWrites(c, heads, b, pair) ==
  {<<c.dim * b + pair, Turn(TRUE, c.dim * b, pair, Distance(c), c.past + b \div heads)>>,
   <<c.dim * b + pair + Distance(c), Turn(FALSE, c.dim * b, pair, Distance(c), c.past + b \div heads)>>}

\* The pairs of the heads Bs.
Writes(c, heads, Bs, W) ==
  \A w : w \in W <=> \E b \in Bs, pair \in 0 .. Rotary(c) - 1 : w \in PairWrites(c, heads, b, pair)

\* An element of a head is turned with its pair, and with no other.
LEMMA TurnsOnce ==
  ASSUME NEW c, Rotates(c), NEW heads \in Positive, NEW Bs \in SUBSET Nat, NEW W, Writes(c, heads, Bs, W),
         NEW x \in Nat, x \div c.dim \in Bs
  PROVE  WrittenAt(W, x) = Turned(c, heads, x)
  <1> DEFINE d == c.dim
             b0 == x \div d
             i0 == x % d
             n == Rotary(c)
             far == Distance(c)
             pos == c.past + b0 \div heads
             first == Turn(TRUE, d * b0, i0, far, pos)
             second == Turn(FALSE, d * b0, i0 - far, far, pos)
  <1>1. /\ n \in Nat /\ n > 0 /\ far \in Nat /\ n <= far /\ far + n <= d /\ d \in Positive /\ d \in Nat /\ d > 0
    BY RotarySizes
  <1> HIDE DEF d, n, far
  <1>2. x = d * b0 + i0 /\ i0 \in 0 .. d - 1 /\ b0 \in Nat /\ b0 \in Bs
    BY <1>1, DivMod DEF d
  <1>3. Turned(c, heads, x) = CASE i0 < n -> {first}
                                [] i0 \in far .. far + n - 1 -> {second}
                                [] OTHER -> {}
    <2>1. x \div (heads * d) = b0 \div heads
      <3>1. x \div (d * heads) = (x \div d) \div heads
        BY <1>1, DivTwice
      <3>2. d * heads = heads * d
        BY <1>1 DEF Positive
      <3> QED BY <3>1, <3>2
    <2>2. x - (x % d) = d * b0
      <3>1. d * b0 \in Int
        BY <1>1, <1>2
      <3> HIDE DEF b0
      <3> DEFINE u == d * b0
      <3>2. x = u + i0 /\ u \in Int /\ i0 \in Int
        BY <1>2, <3>1
      <3> HIDE DEF u, i0
      <3>3. x - i0 = u
        BY <3>2
      <3> QED BY <3>3 DEF u, i0
    <2>3. Turned(c, heads, x) =
            CASE i0 < n -> {Turn(TRUE, x - i0, i0, far, c.past + x \div (heads * d))}
              [] i0 \in far .. far + n - 1 -> {Turn(FALSE, x - i0, i0 - far, far, c.past + x \div (heads * d))}
              [] OTHER -> {}
      BY DEF Turned, far, d, n, Distance
    <2> QED BY <2>1, <2>2, <2>3
  <1> HIDE DEF b0, i0
  <1>4. \A w : w \in W <=> \E b \in Bs, pair \in 0 .. n - 1 : w \in PairWrites(c, heads, b, pair)
    BY DEF Writes, n
  <1>5. ASSUME NEW b \in Bs, NEW j \in 0 .. d - 1, d * b + j = x PROVE b = b0 /\ j = i0
    <2>1. (d * b + j) \div d = b /\ (d * b + j) % d = j
      BY <1>1, Quotient
    <2> QED BY <1>5, <2>1 DEF b0, i0
  <1>6. \A b \in Bs : d * b \in Nat
    BY <1>1
  <1>7. ASSUME NEW w \in W, w[1] = x
        PROVE  (i0 < n /\ w[2] = first) \/ (i0 \in far .. far + n - 1 /\ w[2] = second)
    <2>1. PICK b \in Bs, pair \in 0 .. n - 1 : w \in PairWrites(c, heads, b, pair)
      BY <1>4
    <2>2. d * b \in Nat /\ pair \in 0 .. d - 1 /\ pair + far \in 0 .. d - 1
      BY <1>1, <1>6
    <2>3. CASE w = <<d * b + pair, Turn(TRUE, d * b, pair, far, c.past + b \div heads)>>
      <3>1. b = b0 /\ pair = i0
        BY <1>5, <1>7, <2>2, <2>3
      <3>2. i0 < n
        BY <1>1, <3>1
      <3>3. w[2] = Turn(TRUE, d * b, pair, far, c.past + b \div heads)
        BY <2>3
      <3>4. w[2] = first
        BY <3>1, <3>3
      <3> QED BY <3>2, <3>4
    <2>4. CASE w = <<d * b + pair + far, Turn(FALSE, d * b, pair, far, c.past + b \div heads)>>
      <3>1. d * b + (pair + far) = x
        BY <1>1, <1>7, <2>2, <2>4
      <3>2. b = b0 /\ pair + far = i0
        BY <1>5, <2>2, <3>1
      <3>3. pair = i0 - far /\ i0 \in far .. far + n - 1
        BY <1>1, <3>2
      <3> QED BY <2>4, <3>2, <3>3
    <2> QED BY <2>1, <2>3, <2>4 DEF PairWrites, d, far
  <1>8. ASSUME i0 < n PROVE <<x, first>> \in W
    <2>1. i0 \in 0 .. n - 1
      BY <1>1, <1>2, <1>8
    <2>2. <<x, first>> \in PairWrites(c, heads, b0, i0)
      BY <1>2 DEF PairWrites, d, far
    <2> QED BY <1>2, <1>4, <2>1, <2>2
  <1>9. ASSUME i0 \in far .. far + n - 1 PROVE <<x, second>> \in W
    <2> DEFINE j == i0 - far
    <2>1. j \in 0 .. n - 1 /\ j + far = i0
      BY <1>1, <1>2, <1>9
    <2>2. d * b0 + j + far = x
      <3>1. d * b0 \in Nat
        BY <1>2, <1>6
      <3> HIDE DEF j
      <3> DEFINE u == d * b0
      <3>2. u \in Nat /\ x = u + i0
        BY <1>2, <3>1
      <3> HIDE DEF u
      <3>3. u + j + far = x
        BY <1>1, <2>1, <3>2
      <3> QED BY <3>3 DEF u
    <2>3. <<d * b0 + j + far, second>> \in PairWrites(c, heads, b0, j)
      BY DEF PairWrites, d, far
    <2>4. <<x, second>> \in PairWrites(c, heads, b0, j)
      BY <2>2, <2>3
    <2> HIDE DEF j, second
    <2> QED BY <1>2, <1>4, <2>1, <2>4
  <1> HIDE DEF first, second
  <1>10. WrittenAt(W, x) = {w[2] : w \in {v \in W : v[1] = x}}
    BY DEF WrittenAt
  <1>11. CASE i0 < n
    <2>1. ~(i0 \in far .. far + n - 1)
      BY <1>1, <1>2, <1>11
    <2>2. \A w \in W : w[1] = x => w[2] = first
      BY <1>7, <2>1
    <2>3. <<x, first>> \in W /\ <<x, first>>[1] = x /\ <<x, first>>[2] = first
      BY <1>8, <1>11
    <2>4. WrittenAt(W, x) = {first}
      <3>1. ASSUME NEW u \in WrittenAt(W, x) PROVE u = first
        BY <1>10, <2>2
      <3>2. first \in WrittenAt(W, x)
        BY <1>10, <2>3
      <3> QED BY <3>1, <3>2
    <2> QED BY <1>3, <1>11, <2>1, <2>4
  <1>12. CASE ~(i0 < n) /\ i0 \in far .. far + n - 1
    <2>2. \A w \in W : w[1] = x => w[2] = second
      BY <1>7, <1>12
    <2>3. <<x, second>> \in W /\ <<x, second>>[1] = x /\ <<x, second>>[2] = second
      BY <1>9, <1>12
    <2>4. WrittenAt(W, x) = {second}
      <3>1. ASSUME NEW u \in WrittenAt(W, x) PROVE u = second
        BY <1>10, <2>2
      <3>2. second \in WrittenAt(W, x)
        BY <1>10, <2>3
      <3> QED BY <3>1, <3>2
    <2> QED BY <1>3, <1>12, <2>4
  <1>13. CASE ~(i0 < n) /\ ~(i0 \in far .. far + n - 1)
    <2>1. \A w \in W : w[1] # x
      BY <1>7, <1>13
    <2>2. WrittenAt(W, x) = {}
      BY <1>10, <2>1
    <2> QED BY <1>3, <1>13, <2>2
  <1> QED BY <1>11, <1>12, <1>13

\* The threads of the separate kernels.
IdxWrites(c, heads, idx) == RopeThread(c, heads, Rotary(c), Distance(c), idx)

\* Each is the thread of a pair of a head.
LEMMA ThreadOfPair ==
  ASSUME NEW c, Rotates(c), NEW heads \in Positive, NEW b \in 0 .. c.new * heads - 1, NEW pair \in 0 .. Rotary(c) - 1,
         NEW idx, idx = Rotary(c) * b + pair
  PROVE  /\ IdxWrites(c, heads, idx) = PairWrites(c, heads, b, pair)
         /\ idx \in 0 .. c.new * heads * Rotary(c) - 1
         /\ idx \div Rotary(c) = b /\ idx % Rotary(c) = pair
  <1> DEFINE n == Rotary(c)
             d == c.dim
             N == c.new * heads
             s == b \div heads
             h == b % heads
             t == (idx \div (n * heads)) % c.new
             base == t * heads * d + ((idx \div n) % heads) * d
  <1>1. n \in Positive /\ n \in Nat /\ d \in Nat /\ c.new \in Positive /\ c.past \in Nat /\ heads \in Nat /\ N \in Positive
    BY RotarySizes DEF Positive
  <1>2. idx \in 0 .. N * n - 1 /\ idx \div n = b /\ idx % n = pair
    <2>1. n * b + pair \in 0 .. N * n - 1 /\ (n * b + pair) \div n = b /\ (n * b + pair) % n = pair
      <3> HIDE DEF N, n
      <3>1. b \in 0 .. N - 1 /\ pair \in 0 .. n - 1
        BY DEF N, n
      <3> QED BY <1>1, <3>1, OfRow
    <2> QED BY <2>1
  <1>3. b = heads * s + h /\ s \in 0 .. c.new - 1 /\ h \in 0 .. heads - 1 /\ s % c.new = s
    BY <1>1, InRows
  <1>4. idx \div (n * heads) = s
    <2> HIDE DEF n
    <2>1. idx \in Nat
      <3>1. N * n \in Int
        BY <1>1 DEF Positive
      <3> QED BY <1>2, <3>1
    <2>2. idx \div (n * heads) = (idx \div n) \div heads
      BY <1>1, <2>1, DivTwice
    <2> QED BY <1>2, <2>2
  <1>5. t = s
    BY <1>3, <1>4
  <1> HIDE DEF t, s, h
  <1>6. base = d * b
    <2>1. base = s * heads * d + h * d
      BY <1>2, <1>5 DEF h
    <2>2. s \in Nat /\ h \in Nat
      BY <1>3
    <2>3. d * b = d * (heads * s) + d * h
      BY <1>1, <1>3, <2>2
    <2>4. d * (heads * s) = s * heads * d /\ d * h = h * d
      BY <1>1, <2>2
    <2> HIDE DEF base
    <2> QED BY <2>1, <2>3, <2>4
  <1>7. s + c.past = c.past + s
    BY <1>1, <1>3
  <1>8. IdxWrites(c, heads, idx) =
          {<<base + (idx % n), Turn(TRUE, base, idx % n, Distance(c), t + c.past)>>,
           <<base + (idx % n) + Distance(c), Turn(FALSE, base, idx % n, Distance(c), t + c.past)>>}
    BY DEF IdxWrites, RopeThread, t
  <1> HIDE DEF base
  <1>9. IdxWrites(c, heads, idx) = PairWrites(c, heads, b, pair)
    <2>1. base = c.dim * b /\ idx % n = pair /\ t + c.past = c.past + b \div heads
      BY <1>2, <1>5, <1>6, <1>7 DEF d, s
    <2> HIDE DEF n
    <2> QED BY <1>8, <2>1 DEF PairWrites
  <1> QED BY <1>2, <1>9 DEF N, n

(* The separate kernels turn each pair of each head once.                   *)
LEMMA RopeRight ==
  ASSUME NEW c, Rotates(c), NEW heads \in Positive, NEW x \in 0 .. c.new * heads * c.dim - 1
  PROVE  RopeKernel(c, heads, Rotary(c), Distance(c))[x] = Turned(c, heads, x)
  <1> DEFINE n == Rotary(c)
             N == c.new * heads
             W == UNION {IdxWrites(c, heads, idx) : idx \in 0 .. c.new * heads * n - 1}
             Bs == 0 .. N - 1
  <1>1. RopeKernel(c, heads, n, Distance(c))[x] = WrittenAt(W, x)
    BY DEF RopeKernel, IdxWrites, Stored
  <1>2. n \in Positive /\ c.dim \in Positive /\ N \in Positive /\ N \in Nat /\ n \in Nat /\ c.dim \in Nat
    BY RotarySizes DEF Positive
  <1>3. ASSUME NEW idx \in 0 .. N * n - 1
        PROVE  \E b \in Bs, pair \in 0 .. n - 1 : IdxWrites(c, heads, idx) = PairWrites(c, heads, b, pair)
    <2> DEFINE b == idx \div n
               pair == idx % n
    <2>1. idx = n * b + pair /\ b \in 0 .. N - 1 /\ pair \in 0 .. n - 1
      <3> HIDE DEF N, n
      <3> QED BY <1>2, InRows
    <2> HIDE DEF b, pair
    <2>2. b \in 0 .. c.new * heads - 1 /\ pair \in 0 .. Rotary(c) - 1 /\ idx = Rotary(c) * b + pair
      BY <2>1
    <2>3. IdxWrites(c, heads, idx) = PairWrites(c, heads, b, pair)
      BY <2>2, ThreadOfPair
    <2> QED BY <2>1, <2>3
  <1>4. ASSUME NEW b \in Bs, NEW pair \in 0 .. n - 1
        PROVE  \E idx \in 0 .. N * n - 1 : IdxWrites(c, heads, idx) = PairWrites(c, heads, b, pair)
    <2> DEFINE idx == n * b + pair
    <2>1. IdxWrites(c, heads, idx) = PairWrites(c, heads, b, pair) /\ idx \in 0 .. N * n - 1
      BY ThreadOfPair
    <2> HIDE DEF idx, N, n
    <2> QED BY <2>1
  <1> HIDE DEF Bs
  <1>5. Writes(c, heads, Bs, W)
    <2>1. \A w : w \in W <=> \E idx \in 0 .. N * n - 1 : w \in IdxWrites(c, heads, idx)
      OBVIOUS
    <2> HIDE DEF W, N
    <2>2. \A w : w \in W => \E b \in Bs, pair \in 0 .. n - 1 : w \in PairWrites(c, heads, b, pair)
      BY <1>3, <2>1
    <2>3. \A w : (\E b \in Bs, pair \in 0 .. n - 1 : w \in PairWrites(c, heads, b, pair)) => w \in W
      BY <1>4, <2>1
    <2> QED BY <2>2, <2>3 DEF Writes
  <1> HIDE DEF W
  <1>6. Bs \in SUBSET Nat /\ x \in Nat /\ x \div c.dim \in Bs
    <2>1. x \div c.dim \in 0 .. N - 1 /\ x \in Nat
      <3> HIDE DEF N
      <3>1. x \in 0 .. N * c.dim - 1
        BY DEF N
      <3> QED BY <1>2, <3>1, InRows
    <2> QED BY <1>2, <2>1 DEF Bs
  <1> HIDE DEF N
  <1>7. WrittenAt(W, x) = Turned(c, heads, x)
    BY <1>5, <1>6, TurnsOnce
  <1> QED BY <1>1, <1>7

\* What a call writes to x is right, for q and for k.
SeparateRight(c) ==
  /\ \A x \in DOMAIN Separate(c).q : Separate(c).q[x] = Turned(c, c.heads, x)
  /\ \A x \in DOMAIN Separate(c).k : Separate(c).k[x] = Turned(c, c.kvHeads, x)

\* Both of the separate rotations.
LEMMA SeparateTurns ==
  ASSUME NEW c, Rotates(c)
  PROVE  SeparateRight(c)
  <1>1. c.heads \in Positive /\ c.kvHeads \in Positive
    BY RotarySizes
  <1>2. Separate(c) = [q |-> RopeKernel(c, c.heads, Rotary(c), Distance(c)),
                       k |-> RopeKernel(c, c.kvHeads, Rotary(c), Distance(c))]
    BY DEF Separate, Distance
  <1>3. ASSUME NEW heads \in Positive, NEW x \in DOMAIN RopeKernel(c, heads, Rotary(c), Distance(c))
        PROVE  RopeKernel(c, heads, Rotary(c), Distance(c))[x] = Turned(c, heads, x)
    <2>1. x \in 0 .. c.new * heads * c.dim - 1
      BY DEF RopeKernel, Stored
    <2> QED BY <2>1, RopeRight
  <1> QED BY <1>1, <1>2, <1>3 DEF SeparateRight

\* The block of a head turns its pairs.
LEMMA FusedHeadWrites ==
  ASSUME NEW c, Rotates(c), c.fused, NEW heads \in Positive, NEW b \in Nat, NEW base, base = c.dim * b,
         NEW s, s = b \div heads, NEW w
  PROVE  w \in FusedHead(c, base, s) <=> \E pair \in 0 .. Rotary(c) - 1 : w \in PairWrites(c, heads, b, pair)
  <1> DEFINE n == Rotary(c)
             d == c.dim
             Two(i) == {<<base + i, Turn(TRUE, base, i, n, s + c.past)>>,
                        <<base + i + n, Turn(FALSE, base, i, n, s + c.past)>>}
             Of(i) == IF i < n THEN Two(i) ELSE {}
  <1>1. n \in Nat /\ d \in Nat /\ n <= d /\ Distance(c) = n /\ c.past \in Nat
    BY RotarySizes
  <1>2. s \in Int /\ s + c.past = c.past + s
    <2>1. s \in Int
      BY DivMod
    <2> QED BY <1>1, <2>1
  <1>3. w \in FusedHead(c, base, s) <=> \E i \in 0 .. d - 1 : w \in Of(i)
    BY DEF FusedHead
  <1>4. \A i \in 0 .. n - 1 : PairWrites(c, heads, b, i) = Two(i)
    BY <1>1, <1>2 DEF PairWrites
  <1> HIDE DEF Two, n, d
  <1>5. ASSUME NEW i \in 0 .. d - 1, w \in Of(i) PROVE \E pair \in 0 .. n - 1 : w \in PairWrites(c, heads, b, pair)
    <2>1. i \in 0 .. n - 1
      BY <1>1, <1>5
    <2> QED BY <1>4, <1>5, <2>1
  <1>6. ASSUME NEW i \in 0 .. n - 1, w \in PairWrites(c, heads, b, i) PROVE \E j \in 0 .. d - 1 : w \in Of(j)
    <2>1. i \in 0 .. d - 1 /\ i < n
      BY <1>1
    <2>2. w \in Of(i)
      BY <1>4, <1>6, <2>1
    <2> HIDE DEF Of
    <2> QED BY <2>1, <2>2
  <1> HIDE DEF Of
  <1> QED BY <1>3, <1>5, <1>6 DEF n

\* The blocks of the fused kernel are the heads of the rows.
LEMMA BlockOfHead ==
  ASSUME NEW c, Rotates(c)
  PROVE  /\ FusedHeads(c) \in Positive /\ FusedHeads(c) = c.heads + (IF c.cache THEN 2 ELSE 1) * c.kvHeads
         /\ c.heads + c.kvHeads <= FusedHeads(c)
         /\ \A blk \in 0 .. c.new * FusedHeads(c) - 1 :
               BlockRow(c, blk) \in 0 .. c.new - 1 /\ BlockHead(c, blk) \in 0 .. FusedHeads(c) - 1
         /\ \A s \in 0 .. c.new - 1, head \in 0 .. FusedHeads(c) - 1 :
               \E blk \in 0 .. c.new * FusedHeads(c) - 1 : BlockRow(c, blk) = s /\ BlockHead(c, blk) = head
  <1> DEFINE t == FusedHeads(c)
  <1>1. c.heads \in Nat /\ c.heads > 0 /\ c.kvHeads \in Nat /\ c.kvHeads > 0 /\ c.new \in Positive
    BY RotarySizes DEF Positive
  <1>2. t = c.heads + (IF c.cache THEN 2 ELSE 1) * c.kvHeads
    BY DEF FusedHeads
  <1>3. t \in Positive /\ c.heads + c.kvHeads <= t
    <2> DEFINE a == c.heads
               b == c.kvHeads
    <2>1. a \in Nat /\ a > 0 /\ b \in Nat /\ b > 0 /\ t = a + (IF c.cache THEN 2 ELSE 1) * b
      BY <1>1, <1>2
    <2> HIDE DEF a, b, t
    <2>2. t = a + 2 * b \/ t = a + b
      BY <2>1
    <2>3. t \in Nat /\ t > 0 /\ a + b <= t
      BY <2>1, <2>2
    <2> QED BY <2>3 DEF a, b, Positive
  <1> HIDE DEF t
  <1>4. ASSUME NEW blk \in 0 .. c.new * t - 1
        PROVE  (blk \div t) % c.new \in 0 .. c.new - 1 /\ blk % t \in 0 .. t - 1
    BY <1>1, <1>3, InRows
  <1>5. ASSUME NEW s \in 0 .. c.new - 1, NEW head \in 0 .. t - 1
        PROVE  \E blk \in 0 .. c.new * t - 1 : (blk \div t) % c.new = s /\ blk % t = head
    <2> DEFINE blk == t * s + head
    <2>1. blk \in 0 .. c.new * t - 1 /\ blk \div t = s /\ blk % t = head
      BY <1>1, <1>3, OfRow
    <2> HIDE DEF blk
    <2>2. (blk \div t) % c.new = s
      <3>1. (blk \div t) % c.new = blk \div t
        BY <1>1, <1>3, <2>1, InRows
      <3> QED BY <2>1, <3>1
    <2> QED BY <2>1, <2>2
  <1> QED BY <1>2, <1>3, <1>4, <1>5 DEF BlockRow, BlockHead, t

\* The blocks of heads off .. off + hs - 1, for some of the rows.
HeadWrites(c, hs, off, Lines, W) ==
  \A w : w \in W <=>
    \E blk \in 0 .. c.new * FusedHeads(c) - 1 :
      /\ BlockHead(c, blk) \in off .. off + hs - 1 /\ BlockRow(c, blk) \in Lines
      /\ w \in FusedHead(c, (BlockRow(c, blk) * hs + (BlockHead(c, blk) - off)) * c.dim, BlockRow(c, blk))

\* They write the pairs of those heads.
LEMMA FusedWrites ==
  ASSUME NEW c, Rotates(c), c.fused, NEW hs \in Positive, NEW off \in Nat, off + hs <= FusedHeads(c),
         NEW Lines \in SUBSET (0 .. c.new - 1), NEW W, HeadWrites(c, hs, off, Lines, W)
  PROVE  Writes(c, hs, {b \in 0 .. c.new * hs - 1 : b \div hs \in Lines}, W)
  <1> DEFINE Bs == {b \in 0 .. c.new * hs - 1 : b \div hs \in Lines}
             n == Rotary(c)
             blocks == 0 .. c.new * FusedHeads(c) - 1
             d == c.dim
  <1>1. hs \in Nat /\ hs > 0 /\ c.new \in Positive /\ c.new \in Nat /\ FusedHeads(c) \in Nat /\ d \in Nat
    BY RotarySizes, BlockOfHead DEF Positive
  <1> HIDE DEF d
  <1>2. ASSUME NEW s \in Lines, NEW head \in off .. off + hs - 1, NEW b, b = hs * s + (head - off), NEW w
        PROVE  /\ b \in Bs
               /\ w \in FusedHead(c, (s * hs + (head - off)) * d, s) <=> \E pair \in 0 .. n - 1 : w \in PairWrites(c, hs, b, pair)
    <2> DEFINE h == head - off
    <2>1. h \in 0 .. hs - 1 /\ s \in 0 .. c.new - 1
      BY <1>1
    <2> HIDE DEF h
    <2>2. b \in 0 .. c.new * hs - 1 /\ b \div hs = s
      <3>1. b = hs * s + h
        BY <1>2 DEF h
      <3>2. hs * s + h \in 0 .. c.new * hs - 1 /\ (hs * s + h) \div hs = s
        <4> DEFINE n1 == c.new
        <4>1. n1 \in Positive /\ s \in 0 .. n1 - 1
          BY <1>1, <2>1
        <4> HIDE DEF n1
        <4>2. hs * s + h \in 0 .. n1 * hs - 1 /\ (hs * s + h) \div hs = s
          BY <2>1, <4>1, OfRow
        <4> QED BY <4>2 DEF n1
      <3> QED BY <3>1, <3>2
    <2>3. b \in Bs /\ b \in Nat
      <3>1. c.new * hs \in Nat
        BY <1>1
      <3> QED BY <2>2, <3>1
    <2>4. (s * hs + h) * d = d * b
      <3>1. s \in Nat /\ h \in Nat /\ s * hs = hs * s /\ hs * s \in Nat
        BY <1>1, <2>1
      <3>2. s * hs + h = b
        BY <1>2, <3>1 DEF h
      <3>3. b * d = d * b
        BY <1>1, <2>3
      <3> QED BY <3>2, <3>3
    <2> DEFINE base == (s * hs + h) * d
    <2>5. base = c.dim * b
      BY <2>4 DEF d
    <2> HIDE DEF base, Bs
    <2>6. w \in FusedHead(c, base, s) <=> \E pair \in 0 .. Rotary(c) - 1 : w \in PairWrites(c, hs, b, pair)
      BY <2>2, <2>3, <2>5, FusedHeadWrites
    <2> QED BY <2>3, <2>6 DEF base, h
  <1>3. ASSUME NEW w \in W PROVE \E b \in Bs, pair \in 0 .. n - 1 : w \in PairWrites(c, hs, b, pair)
    <2>1. PICK blk \in blocks :
            /\ BlockHead(c, blk) \in off .. off + hs - 1 /\ BlockRow(c, blk) \in Lines
            /\ w \in FusedHead(c, (BlockRow(c, blk) * hs + (BlockHead(c, blk) - off)) * d, BlockRow(c, blk))
      BY DEF HeadWrites, d
    <2> DEFINE s == BlockRow(c, blk)
               head == BlockHead(c, blk)
               b == hs * s + (head - off)
    <2>2. s \in Lines /\ head \in off .. off + hs - 1 /\ w \in FusedHead(c, (s * hs + (head - off)) * d, s)
      BY <2>1
    <2> HIDE DEF s, head, Bs, n
    <2>3. b \in Bs /\ \E pair \in 0 .. n - 1 : w \in PairWrites(c, hs, b, pair)
      BY <1>2, <2>2
    <2> HIDE DEF b
    <2> QED BY <2>3
  <1>4. ASSUME NEW b \in Bs, NEW pair \in 0 .. n - 1, NEW w \in PairWrites(c, hs, b, pair) PROVE w \in W
    <2> DEFINE s == b \div hs
               h == b % hs
               head == off + h
    <2>1. b = hs * s + h /\ s \in Lines /\ h \in 0 .. hs - 1
      BY <1>1, InRows
    <2> HIDE DEF s, h, Bs, n
    <2>2. head \in off .. off + hs - 1 /\ head - off = h /\ head \in 0 .. FusedHeads(c) - 1 /\ s \in 0 .. c.new - 1
      BY <1>1, <2>1
    <2> HIDE DEF head
    <2>3. b = hs * s + (head - off)
      BY <2>1, <2>2
    <2>4. PICK blk \in blocks : BlockRow(c, blk) = s /\ BlockHead(c, blk) = head
      BY <2>2, BlockOfHead
    <2>5. w \in FusedHead(c, (s * hs + (head - off)) * d, s)
      BY <1>2, <2>1, <2>2, <2>3
    <2> QED BY <2>1, <2>2, <2>4, <2>5 DEF HeadWrites, d
  <1> HIDE DEF Bs, n
  <1>5. \A w : w \in W <=> \E b \in Bs, pair \in 0 .. n - 1 : w \in PairWrites(c, hs, b, pair)
    BY <1>3, <1>4
  <1> QED BY <1>5 DEF Writes, Bs, n

\* Where the queries of a fused rotation are written.
LEMMA FusedQueries ==
  ASSUME NEW c, Rotates(c), c.fused, NEW x \in 0 .. c.new * c.heads * c.dim - 1
  PROVE  Fused(c).q[x] = Turned(c, c.heads, x)
  <1> DEFINE W == UNION {QueryBlock(c, blk) : blk \in {e \in 0 .. c.new * FusedHeads(c) - 1 : BlockHead(c, e) < c.heads}}
             Lines == 0 .. c.new - 1
             hs == c.heads
             off == 0
             Bs == {b \in 0 .. c.new * hs - 1 : b \div hs \in Lines}
             N == c.new * hs
  <1>1. Fused(c).q = Stored(W, c.new * c.heads * c.dim)
    BY DEF Fused
  <1>2. /\ hs \in Positive /\ hs \in Nat /\ hs > 0 /\ c.new \in Positive /\ c.new \in Nat /\ c.dim \in Positive /\ off \in Nat
        /\ off + hs <= FusedHeads(c) /\ N \in Positive /\ FusedHeads(c) \in Nat
    BY RotarySizes, BlockOfHead DEF Positive
  <1>3. HeadWrites(c, hs, off, Lines, W)
    <2> DEFINE blocks == 0 .. c.new * FusedHeads(c) - 1
               Of(blk) == FusedHead(c, (BlockRow(c, blk) * hs + (BlockHead(c, blk) - off)) * c.dim, BlockRow(c, blk))
    <2>1. \A w : w \in W <=> \E blk \in blocks : BlockHead(c, blk) < hs /\ w \in QueryBlock(c, blk)
      OBVIOUS
    <2>2. ASSUME NEW blk \in blocks
          PROVE  /\ BlockHead(c, blk) < hs <=> BlockHead(c, blk) \in off .. off + hs - 1
                 /\ BlockRow(c, blk) \in Lines /\ QueryBlock(c, blk) = Of(blk)
      <3> DEFINE head == BlockHead(c, blk)
                 s == BlockRow(c, blk)
      <3>1. head \in 0 .. FusedHeads(c) - 1 /\ s \in Lines
        BY BlockOfHead
      <3>2. QueryBlock(c, blk) = FusedHead(c, (s * hs + head) * c.dim, s)
        BY DEF QueryBlock
      <3>3. Of(blk) = FusedHead(c, (s * hs + (head - off)) * c.dim, s)
        OBVIOUS
      <3> HIDE DEF head, s, Of
      <3>4. head - off = head /\ head \in Int
        BY <1>2, <3>1
      <3>5. head < hs <=> head \in off .. off + hs - 1
        BY <1>2, <3>1
      <3> QED BY <3>1, <3>2, <3>3, <3>4, <3>5 DEF head, s
    <2> HIDE DEF W, hs, off, Lines
    <2> QED BY <2>1, <2>2 DEF HeadWrites
  <1> HIDE DEF W, hs, off
  <1>4. Writes(c, hs, Bs, W)
    <2> HIDE DEF Lines
    <2>1. Lines \in SUBSET (0 .. c.new - 1)
      BY DEF Lines
    <2> QED BY <1>2, <1>3, <2>1, FusedWrites
  <1>5. Bs \in SUBSET Nat /\ x \in Nat /\ x \div c.dim \in Bs
    <2> DEFINE b == x \div c.dim
    <2>1. x \in 0 .. N * c.dim - 1
      BY DEF hs
    <2> HIDE DEF N
    <2>2. b \in 0 .. N - 1 /\ x \in Nat
      BY <1>2, <2>1, InRows
    <2> HIDE DEF b
    <2>3. b \div hs \in 0 .. c.new - 1
      <3>1. b \in 0 .. c.new * hs - 1
        BY <2>2 DEF N
      <3> QED BY <1>2, <3>1, InRows
    <2>4. Bs \in SUBSET Nat
      BY <1>2 DEF N
    <2> QED BY <2>2, <2>3, <2>4 DEF N, b
  <1> HIDE DEF Bs, N
  <1>6. WrittenAt(W, x) = Turned(c, hs, x)
    BY <1>2, <1>4, <1>5, TurnsOnce
  <1>7. Fused(c).q[x] = WrittenAt(W, x)
    BY <1>1 DEF Stored
  <1> QED BY <1>6, <1>7 DEF hs

\* And the keys that have a place in the cache.
LEMMA FusedKeys ==
  ASSUME NEW c, Rotates(c), c.fused, NEW x \in 0 .. c.new * c.kvHeads * c.dim - 1,
         c.past + x \div (c.kvHeads * c.dim) < c.maxSeq
  PROVE  Fused(c).k[x] = Turned(c, c.kvHeads, x)
  <1> DEFINE Keep(e) == BlockHead(c, e) \in c.heads .. c.heads + c.kvHeads - 1
                        /\ (c.cache => BlockRow(c, e) + c.past < c.maxSeq)
             W == UNION {KeyBlockOf(c, blk) : blk \in {e \in 0 .. c.new * FusedHeads(c) - 1 : Keep(e)}}
             hs == c.kvHeads
             off == c.heads
             Lines == {s \in 0 .. c.new - 1 : c.cache => s + c.past < c.maxSeq}
             N == c.new * hs
             Bs == {b \in 0 .. c.new * hs - 1 : b \div hs \in Lines}
  <1>1. Fused(c).k = Stored(W, c.new * c.kvHeads * c.dim)
    BY DEF Fused
  <1>2. /\ hs \in Positive /\ hs \in Nat /\ hs > 0 /\ c.new \in Positive /\ c.new \in Nat /\ c.dim \in Positive /\ off \in Nat
        /\ off + hs <= FusedHeads(c) /\ N \in Positive /\ FusedHeads(c) \in Nat /\ c.past \in Nat /\ c.dim \in Nat
    BY RotarySizes, BlockOfHead DEF Positive
  <1>3. HeadWrites(c, hs, off, Lines, W)
    <2> DEFINE blocks == 0 .. c.new * FusedHeads(c) - 1
               Of(blk) == FusedHead(c, (BlockRow(c, blk) * hs + (BlockHead(c, blk) - off)) * c.dim, BlockRow(c, blk))
    <2>1. \A w : w \in W <=> \E blk \in blocks : Keep(blk) /\ w \in KeyBlockOf(c, blk)
      BY Zenon
    <2>2. ASSUME NEW blk \in blocks
          PROVE  /\ Keep(blk) <=> BlockHead(c, blk) \in off .. off + hs - 1 /\ BlockRow(c, blk) \in Lines
                 /\ KeyBlockOf(c, blk) = Of(blk)
      <3> DEFINE head == BlockHead(c, blk)
                 s == BlockRow(c, blk)
      <3>1. head \in 0 .. FusedHeads(c) - 1 /\ s \in 0 .. c.new - 1
        BY BlockOfHead
      <3>2. KeyBlockOf(c, blk) = FusedHead(c, (s * hs + head - off) * c.dim, s)
        BY DEF KeyBlockOf
      <3>3. Of(blk) = FusedHead(c, (s * hs + (head - off)) * c.dim, s)
        OBVIOUS
      <3>4. Keep(blk) <=> BlockHead(c, blk) \in off .. off + hs - 1 /\ BlockRow(c, blk) \in Lines
        BY <3>1
      <3> HIDE DEF head, s, Of, Keep
      <3>5. s * hs + head - off = s * hs + (head - off)
        <4>1. s * hs \in Int /\ head \in Int
          BY <1>2, <3>1
        <4> QED BY <1>2, <4>1
      <3> QED BY <3>2, <3>3, <3>4, <3>5
    <2> HIDE DEF W, hs, off, Lines, Keep
    <2> QED BY <2>1, <2>2 DEF HeadWrites
  <1> HIDE DEF W, hs, off
  <1>4. Writes(c, hs, Bs, W)
    <2>1. Lines \in SUBSET (0 .. c.new - 1)
      OBVIOUS
    <2> HIDE DEF Lines
    <2> QED BY <1>2, <1>3, <2>1, FusedWrites
  <1>5. Bs \in SUBSET Nat /\ x \in Nat /\ x \div c.dim \in Bs
    <2> DEFINE b == x \div c.dim
    <2>1. x \in 0 .. N * c.dim - 1
      BY DEF hs
    <2> HIDE DEF N
    <2>2. b \in 0 .. N - 1 /\ x \in Nat
      BY <1>2, <2>1, InRows
    <2>3. b \div hs \in 0 .. c.new - 1
      <3> HIDE DEF b
      <3>1. b \in 0 .. c.new * hs - 1
        BY <2>2 DEF N
      <3> QED BY <1>2, <3>1, InRows
    <2>4. Bs \in SUBSET Nat
      BY <1>2 DEF N
    <2>5. b \div hs = x \div (c.kvHeads * c.dim)
      <3>1. x \div (c.dim * hs) = (x \div c.dim) \div hs
        <4> DEFINE d == c.dim
        <4>1. x \in Nat /\ d \in Positive /\ hs \in Positive
          BY <1>2, <2>2
        <4> HIDE DEF d
        <4>2. x \div (d * hs) = (x \div d) \div hs
          BY <4>1, DivTwice
        <4> QED BY <4>2 DEF d
      <3>2. c.dim * hs = c.kvHeads * c.dim
        BY <1>2 DEF hs
      <3> QED BY <3>1, <3>2
    <2> HIDE DEF b
    <2>6. b \div hs \in Lines
      <3> DEFINE r == b \div hs
      <3>1. r \in 0 .. c.new - 1 /\ c.past + r < c.maxSeq
        BY <2>3, <2>5
      <3> HIDE DEF r
      <3>2. r + c.past < c.maxSeq
        <4>1. r + c.past = c.past + r
          BY <1>2, <3>1
        <4> QED BY <3>1, <4>1
      <3>3. r \in Lines
        BY <3>1, <3>2
      <3> QED BY <3>3 DEF r
    <2> HIDE DEF Lines
    <2> QED BY <2>2, <2>4, <2>6 DEF N, b
  <1> HIDE DEF Bs, N
  <1>6. WrittenAt(W, x) = Turned(c, hs, x)
    BY <1>2, <1>4, <1>5, TurnsOnce
  <1>7. Fused(c).k[x] = WrittenAt(W, x)
    BY <1>1 DEF Stored
  <1> QED BY <1>6, <1>7 DEF hs

\* Every row the cache has room for is put there, key and value.
LEMMA FusedStores ==
  ASSUME NEW c, Rotates(c), c.fused, c.cache
  PROVE  Fused(c).cached = (c.past .. Smaller(End(c), c.maxSeq) - 1) \X (0 .. 2 * c.kvHeads - 1)
  <1> DEFINE blocks == 0 .. c.new * FusedHeads(c) - 1
             Keep(e) == c.cache /\ BlockHead(c, e) >= c.heads /\ BlockRow(c, e) + c.past < c.maxSeq
             Of(e) == <<BlockRow(c, e) + c.past, BlockHead(c, e) - c.heads>>
             All == (c.past .. Smaller(End(c), c.maxSeq) - 1) \X (0 .. 2 * c.kvHeads - 1)
             S == Fused(c).cached
             a == c.heads
             k == c.kvHeads
             p == c.past
             n == c.new
             m == c.maxSeq
  <1>1. S = {Of(blk) : blk \in {e \in blocks : Keep(e)}}
    BY DEF Fused
  <1>2. a \in Nat /\ a > 0 /\ k \in Nat /\ k > 0 /\ FusedHeads(c) = a + 2 * k /\ p \in Nat /\ n \in Nat /\ m \in Nat
        /\ FusedHeads(c) \in Nat
    BY RotarySizes, BlockOfHead DEF Positive
  <1>3. End(c) = p + n
    BY DEF End
  <1>4. ASSUME NEW e \in blocks, Keep(e) PROVE Of(e) \in All
    <2> DEFINE s == BlockRow(c, e)
               h == BlockHead(c, e)
    <2>1. s \in 0 .. n - 1 /\ h \in 0 .. FusedHeads(c) - 1 /\ h >= a /\ s + p < m
      BY <1>4, BlockOfHead
    <2> HIDE DEF s, h, a, k, p, n, m
    <2>2. s + p \in p .. Smaller(p + n, m) - 1
      BY <1>2, <2>1 DEF Smaller
    <2>3. h - a \in 0 .. 2 * k - 1
      BY <1>2, <2>1
    <2>4. <<s + p, h - a>> \in (p .. Smaller(p + n, m) - 1) \X (0 .. 2 * k - 1)
      BY <2>2, <2>3
    <2> QED BY <1>3, <2>4 DEF s, h, a, k, p, m
  <1>5. ASSUME NEW y \in All PROVE y \in S
    <2> DEFINE s == y[1] - p
               h == y[2] + a
    <2>1. y = <<y[1], y[2]>> /\ y[1] \in p .. Smaller(p + n, m) - 1 /\ y[2] \in 0 .. 2 * k - 1
      BY <1>3
    <2> HIDE DEF a, k, p, n, m
    <2>2. s \in 0 .. n - 1 /\ s + p = y[1] /\ s + p < m
      BY <1>2, <2>1 DEF Smaller
    <2>3. h \in 0 .. FusedHeads(c) - 1 /\ h - a = y[2] /\ h >= a
      BY <1>2, <2>1
    <2> HIDE DEF s, h
    <2>4. s \in 0 .. c.new - 1
      BY <2>2 DEF n
    <2>5. PICK e \in blocks : BlockRow(c, e) = s /\ BlockHead(c, e) = h
      BY <2>3, <2>4, BlockOfHead
    <2>6. Of(e) = y
      BY <2>1, <2>2, <2>3, <2>5 DEF p, a
    <2>7. Keep(e)
      BY <2>2, <2>3, <2>5 DEF p, a, m
    <2> HIDE DEF Of, Keep, blocks, S
    <2> QED BY <1>1, <2>6, <2>7
  <1> HIDE DEF Of, Keep, blocks, S, All
  <1>6. S = All
    BY <1>1, <1>4, <1>5
  <1> QED BY <1>6 DEF S, All

(* Separate or fused, a call rotates q and k, and what the cache has room   *)
(* for is in it.                                                            *)
LEMMA RotationRight ==
  ASSUME NEW c, Rotates(c)
  PROVE  IsRotation(c, IF c.fused THEN Fused(c) ELSE Separate(c))
  <1>1. CASE c.fused
    <2>1. DOMAIN Fused(c).q = 0 .. c.new * c.heads * c.dim - 1 /\ DOMAIN Fused(c).k = 0 .. c.new * c.kvHeads * c.dim - 1
      BY DEF Fused, Stored
    <2>2. \A x \in DOMAIN Fused(c).q : Fused(c).q[x] = Turned(c, c.heads, x)
      BY <1>1, <2>1, FusedQueries
    <2>3. \A x \in DOMAIN Fused(c).k :
            c.past + x \div (c.kvHeads * c.dim) < c.maxSeq => Fused(c).k[x] = Turned(c, c.kvHeads, x)
      BY <1>1, <2>1, FusedKeys
    <2>4. c.cache => Fused(c).cached = (c.past .. Smaller(End(c), c.maxSeq) - 1) \X (0 .. 2 * c.kvHeads - 1)
      BY <1>1, FusedStores
    <2> QED BY <1>1, <2>2, <2>3, <2>4 DEF IsRotation
  <1>2. CASE ~c.fused
    <2>1. SeparateRight(c)
      BY SeparateTurns
    <2> QED BY <1>2, <2>1 DEF SeparateRight, IsRotation
  <1> QED BY <1>1, <1>2
-----------------------------------------------------------------------------
(* The operations, from one kernel to the next.                             *)

\* What a finished call has written.
Right(c, out) ==
  IF c.op = "rope" THEN IsRotation(c, out) ELSE \A x \in Pairs(c) : IsAttention(c, x, out[x])

\* Between the two kernels of a decode: each split that has keys has written its
\* part, whatever an earlier call left in the workspace beside it.
PartsWritten(c, parts) ==
  /\ c.op = "cached" /\ DecodePath(c) \in Paths
  /\ \A h \in 0 .. c.heads - 1, i \in 1 .. Splits(c, DecodePath(c)) :
       /\ <<h, i - 1>> \in DOMAIN parts
       /\ PartOf(c, h, parts[<<h, i - 1>>], SplitKeys(c, DecodePath(c))[i])

\* Between the blocks of a GEMM: what each query sees in the slots behind has
\* been added.
BlocksAdded(c, base, sums) ==
  /\ c.op = "prefill" /\ base \in Nat
  /\ base > 0 => \A x \in Pairs(c) : PartOf(c, x[2], sums[x], Before(c, c.past + x[1], base))

KernelsInv ==
  /\ stage.at # "idle" => call \in Calls
  /\ stage.at = "parts" => PartsWritten(call, partials)
  /\ stage.at = "gemm" => BlocksAdded(call, stage.base, merging)
  /\ stage.at = "fallback" => call.op = "prefill" /\ ~HasBlock(call)
  /\ stage.at = "done" => Right(call, output)

\* The fields of a stage.
LEMMA AtFields ==
  ASSUME NEW a, NEW b
  PROVE  At(a, b).at = a /\ At(a, b).base = b
  BY DEF At

\* An attention that is asked for.
LEMMA CallAttends ==
  ASSUME NEW c \in Calls, c.op # "rope"
  PROVE  Attends(c)
  BY KernelsAssumption

\* A rotation that is asked for.
LEMMA CallRotates ==
  ASSUME NEW c \in Calls, c.op = "rope"
  PROVE  Rotates(c)
  BY KernelsAssumption

\* A step that only writes is right when what it writes is.
LEMMA WriteKeeps ==
  ASSUME NEW values, KernelsInv, stage.at # "idle", Right(call, values), Write(values)
  PROVE  KernelsInv'
  <1>1. stage'.at = "done" /\ output' = values /\ call' = call
    BY AtFields DEF Write
  <1>2. call \in Calls
    BY DEF KernelsInv
  <1> QED BY <1>1, <1>2 DEF KernelsInv

\* The second kernel of a decode.
LEMMA MergePartsRight ==
  ASSUME KernelsInv, MergeParts
  PROVE  KernelsInv'
  <1> DEFINE path == DecodePath(call)
             n == Merged(call, path)
             of(x) == [i \in 1 .. n |-> IF <<x[2], i - 1>> \in DOMAIN partials THEN partials[<<x[2], i - 1>>] ELSE Empty]
             values == [x \in Pairs(call) |-> Merge(of(x))]
  <1>1. stage.at = "parts" /\ Write(values)
    BY DEF MergeParts
  <1>2. call \in Calls /\ PartsWritten(call, partials)
    BY <1>1 DEF KernelsInv
  <1>3. Attends(call) /\ call.op = "cached" /\ path \in Paths
    BY <1>2, CallAttends DEF PartsWritten
  <1>4. ASSUME NEW x \in Pairs(call) PROVE IsAttention(call, x, values[x])
    <2>1. x[2] \in 0 .. call.heads - 1
      BY <1>3, PairQuery
    <2>2. of(x) = [i \in 1 .. n |-> of(x)[i]]
      OBVIOUS
    <2>3. ASSUME NEW i \in 1 .. n PROVE PartOf(call, x[2], of(x)[i], SplitKeys(call, path)[i])
      <3>1. i \in 1 .. Splits(call, path)
        BY DEF Merged
      <3>2. <<x[2], i - 1>> \in DOMAIN partials /\ PartOf(call, x[2], partials[<<x[2], i - 1>>], SplitKeys(call, path)[i])
        BY <1>2, <2>1, <3>1 DEF PartsWritten
      <3>3. of(x)[i] = partials[<<x[2], i - 1>>]
        BY <3>2
      <3> QED BY <3>2, <3>3
    <2>4. values[x] = Merge(of(x))
      OBVIOUS
    <2> DEFINE ps == of(x)
    <2>5. ps = [i \in 1 .. n |-> ps[i]] /\ (\A i \in 1 .. n : PartOf(call, x[2], ps[i], SplitKeys(call, path)[i]))
          /\ values[x] = Merge(ps)
      BY <2>2, <2>3, <2>4
    <2> HIDE DEF ps, values, of
    <2>6. IsAttention(call, x, Merge(ps))
      <3> HIDE DEF n
      <3>1. ps = [i \in 1 .. n |-> ps[i]] /\ (\A i \in 1 .. n : PartOf(call, x[2], ps[i], SplitKeys(call, path)[i]))
        BY <2>5
      <3> QED BY <1>3, <3>1, DecodeRight DEF n
    <2> QED BY <2>5, <2>6
  <1> HIDE DEF values
  <1>5. Right(call, values)
    BY <1>3, <1>4 DEF Right
  <1> QED BY <1>1, <1>5, WriteKeeps

\* The first kernel of a decode.
LEMMA DecodePartsRight ==
  ASSUME KernelsInv, DecodeParts
  PROVE  KernelsInv'
  <1> DEFINE path == DecodePath(call)
             n == Splits(call, path)
             active == (0 .. call.heads - 1) \X (0 .. n - 1)
  <1>1. /\ stage.at = "asked" /\ call.op = "cached" /\ path \in Paths
        /\ partials' = SplitParts(call, path) /\ stage'.at = "parts" /\ call' = call
    BY AtFields DEF DecodeParts, Asked, Paths
  <1>2. call \in Calls
    BY <1>1 DEF KernelsInv
  <1>3. Attends(call)
    BY <1>1, <1>2, CallAttends
  <1>4. n \in Nat
    BY <1>1, <1>3, SplitsShare DEF Positive
  <1>5. ASSUME NEW h \in 0 .. call.heads - 1, NEW i \in 1 .. n
        PROVE  /\ <<h, i - 1>> \in DOMAIN partials'
               /\ PartOf(call, h, partials'[<<h, i - 1>>], SplitKeys(call, path)[i])
    <2> DEFINE y == <<h, i - 1>>
    <2>1. y \in active /\ y[1] = h /\ y[2] = i - 1 /\ h \in Int
      <3> HIDE DEF n
      <3> QED BY <1>4
    <2>2. y \in DOMAIN partials' /\ partials'[y] = SplitPart(call, path, y[1], y[2])
      <3> HIDE DEF y, path
      <3> QED BY <1>1, <2>1 DEF SplitParts
    <2>3. PartOf(call, h, SplitPart(call, path, h, i - 1), SplitKeys(call, path)[i])
      BY <1>1, <1>3, <2>1, SplitPartHas
    <2> QED BY <2>1, <2>2, <2>3
  <1>6. PartsWritten(call, partials')
    BY <1>1, <1>5 DEF PartsWritten
  <1> QED BY <1>1, <1>2, <1>6 DEF KernelsInv

\* The fused kernels, for the shapes they take.
LEMMA FlashRight ==
  ASSUME NEW c, Attends(c), FlashTakes(c), NEW x \in Pairs(c)
  PROVE  IsAttention(c, x, (IF c.dim = 128 THEN Flash128(c) ELSE FlashWide(c))[x])
  <1>1. CASE c.dim = 128
    <2>1. c.window = 0 /\ End(c) <= Ring(c) /\ ~HasBlock(c)
      BY <1>1 DEF FlashTakes
    <2> QED BY <1>1, <2>1, Flash128Right
  <1>2. CASE c.dim # 128
    BY <1>2, FlashWideRight
  <1> QED BY <1>1, <1>2

\* A block of the GEMM path.
LEMMA GemmBlockRight ==
  ASSUME KernelsInv, GemmBlock
  PROVE  KernelsInv'
  <1> DEFINE b == stage.base
             B == BlockKeys(call)
             block == KeyBlock(call, b)
             q(x) == call.past + x[1]
  <1>1. /\ stage.at = "gemm" /\ merging' = Accumulate(b, block)
        /\ stage'.at = "gemm" /\ stage'.base = b + B /\ call' = call
    BY AtFields DEF GemmBlock
  <1>2. call \in Calls /\ BlocksAdded(call, b, merging)
    BY <1>1 DEF KernelsInv
  <1>3. Attends(call) /\ call.op = "prefill" /\ b \in Nat
    BY <1>2, CallAttends DEF BlocksAdded
  <1>4. B \in Nat /\ B > 0
    BY <1>3, BlockSizes DEF Positive
  <1>5. ASSUME NEW x \in Pairs(call)
        PROVE  PartOf(call, x[2], merging'[x], Before(call, q(x), b + B))
    <2>1. q(x) \in call.past .. End(call) - 1
      BY <1>3, PairQuery
    <2>2. PartOf(call, x[2], block[x], InSlots(call, q(x), b))
      BY <1>3, KeyBlockHas
    <2>3. x \in DOMAIN block
      BY DEF KeyBlock
    <2>4. /\ Before(call, q(x), b) \cup InSlots(call, q(x), b) = Before(call, q(x), b + B)
          /\ Before(call, q(x), b) \cap InSlots(call, q(x), b) = {}
          /\ Before(call, q(x), 0) = {}
      <3> DEFINE qx == q(x)
      <3>1. qx \in call.past .. End(call) - 1
        BY <2>1
      <3> HIDE DEF qx
      <3>2. /\ Before(call, qx, b) \cup InSlots(call, qx, b) = Before(call, qx, b + B)
            /\ Before(call, qx, b) \cap InSlots(call, qx, b) = {}
            /\ Before(call, qx, 0) = {}
        BY <1>3, <3>1, NextBlock
      <3> QED BY <3>2 DEF qx
    <2>5. CASE b = 0
      <3>1. merging'[x] = block[x]
        <4> HIDE DEF block, b
        <4> QED BY <1>1, <2>3, <2>5 DEF Accumulate
      <3>2. InSlots(call, q(x), b) = Before(call, q(x), b + B)
        <4> HIDE DEF q, b
        <4> QED BY <2>4, <2>5
      <3> QED BY <2>2, <3>1, <3>2
    <2>6. CASE b # 0
      <3>1. merging'[x] = Merge(<<merging[x], block[x]>>)
        <4> HIDE DEF block, b
        <4> QED BY <1>1, <2>3, <2>6 DEF Accumulate
      <3>2. PartOf(call, x[2], merging[x], Before(call, q(x), b))
        BY <1>2, <1>3, <2>6 DEF BlocksAdded
      <3> DEFINE V == Before(call, q(x), b)
                 W == InSlots(call, q(x), b)
                 h == x[2]
                 p == merging[x]
                 r == block[x]
      <3>3. PartOf(call, h, p, V) /\ PartOf(call, h, r, W) /\ V \cap W = {}
        BY <2>2, <2>4, <3>2
      <3>4. PartOf(call, h, Merge(<<p, r>>), V \cup W)
        <4> HIDE DEF V, W, h, p, r
        <4> QED BY <1>3, <3>3, MergeTwo
      <3>5. V \cup W = Before(call, q(x), b + B)
        BY <2>4
      <3> HIDE DEF V, W
      <3> QED BY <3>1, <3>4, <3>5
    <2> QED BY <2>5, <2>6
  <1>6. BlocksAdded(call, b + B, merging')
    <2>1. b + B \in Nat
      BY <1>3, <1>4
    <2> HIDE DEF b, B
    <2> QED BY <1>3, <1>5, <2>1 DEF BlocksAdded
  <1> HIDE DEF b, B, block
  <1> QED BY <1>1, <1>2, <1>6 DEF KernelsInv

\* After the last block every visible key has been added.
LEMMA GemmEndRight ==
  ASSUME KernelsInv, GemmEnd
  PROVE  KernelsInv'
  <1> DEFINE b == stage.base
             q(x) == call.past + x[1]
  <1>1. stage.at = "gemm" /\ b >= Keys(call) /\ output' = merging /\ stage'.at = "done" /\ call' = call
    BY AtFields DEF GemmEnd
  <1>2. call \in Calls /\ BlocksAdded(call, b, merging)
    BY <1>1 DEF KernelsInv
  <1>3. Attends(call) /\ call.op = "prefill" /\ b \in Nat
    BY <1>2, CallAttends DEF BlocksAdded
  <1>4. b > 0
    <2>1. Keys(call) \in Nat /\ Keys(call) > 0
      BY <1>3, BlockSizes DEF Positive
    <2> HIDE DEF b
    <2> QED BY <1>1, <1>3, <2>1
  <1>5. ASSUME NEW x \in Pairs(call) PROVE IsAttention(call, x, merging[x])
    <2>1. PartOf(call, x[2], merging[x], Before(call, q(x), b))
      BY <1>2, <1>4 DEF BlocksAdded
    <2>2. q(x) \in call.past .. End(call) - 1
      BY <1>3, PairQuery
    <2> DEFINE qx == q(x)
    <2>3. qx \in call.past .. End(call) - 1
      BY <2>2
    <2> HIDE DEF qx
    <2>4. Before(call, qx, b) = Visible(call, qx)
      BY <1>1, <1>3, <2>3, NextBlock
    <2>5. PartOf(call, x[2], merging[x], Visible(call, call.past + x[1]))
      BY <2>1, <2>4 DEF qx
    <2> QED BY <1>3, <2>5, PartIsAttention
  <1>6. Right(call, output')
    BY <1>1, <1>3, <1>5 DEF Right
  <1> QED BY <1>1, <1>2, <1>6 DEF KernelsInv

\* A launcher that returns false leaves an image block failed, and the rest to
\* the reference kernels.
LEMMA UnavailableKeeps ==
  ASSUME KernelsInv, stage.at # "idle", call.op = "prefill", call' = call, stage' = Unavailable
  PROVE  KernelsInv'
  <1>1. stage'.at = IF HasBlock(call) THEN "failed" ELSE "fallback"
    BY AtFields DEF Unavailable
  <1>2. call \in Calls
    BY DEF KernelsInv
  <1> QED BY <1>1, <1>2 DEF KernelsInv

(* Every step keeps the invariant; a GEMM starts with nothing added,        *)
(* whatever an earlier call left in the accumulator.                        *)
LEMMA KernelsKeep ==
  ASSUME KernelsInv, [AttentionNext]_kernels
  PROVE  KernelsInv'
  <1>1. ASSUME Rotate PROVE KernelsInv'
    <2> DEFINE values == IF call.fused THEN Fused(call) ELSE Separate(call)
    <2>1. stage.at = "asked" /\ call.op = "rope" /\ Write(values)
      BY <1>1 DEF Rotate, Asked
    <2>2. call \in Calls
      BY <2>1 DEF KernelsInv
    <2>3. Right(call, values)
      BY <2>1, <2>2, CallRotates, RotationRight DEF Right
    <2> HIDE DEF values
    <2> QED BY <2>1, <2>3, WriteKeeps
  <1>2. ASSUME Uncached PROVE KernelsInv'
    <2>1. stage.at = "asked" /\ call.op = "attention" /\ Write(Naive(call))
      BY <1>2 DEF Uncached, Asked
    <2>2. call \in Calls
      BY <2>1 DEF KernelsInv
    <2>3. Right(call, Naive(call))
      BY <2>1, <2>2, CallAttends, NaiveRight DEF Right
    <2> QED BY <2>1, <2>3, WriteKeeps
  <1>3. ASSUME Decode PROVE KernelsInv'
    <2>1. stage.at = "asked" /\ call.op = "cached" /\ Write(ByWarps(call, FALSE))
      BY <1>3 DEF Decode, Asked
    <2>2. call \in Calls
      BY <2>1 DEF KernelsInv
    <2>3. Attends(call)
      BY <2>1, <2>2, CallAttends
    <2>4. ~HasBlock(call)
      BY <2>1, <2>3 DEF Attends
    <2>5. Right(call, ByWarps(call, FALSE))
      <3>1. FALSE \in BOOLEAN
        OBVIOUS
      <3> QED BY <2>1, <2>3, <2>4, <3>1, ByWarpsRight DEF Right
    <2> QED BY <2>1, <2>5, WriteKeeps
  <1>4. ASSUME PrefillFused PROVE KernelsInv'
    <2> DEFINE values == IF call.dim = 128 THEN Flash128(call) ELSE FlashWide(call)
    <2>1. stage.at = "asked" /\ call.op = "prefill" /\ FlashTakes(call) /\ Write(values)
      BY <1>4 DEF PrefillFused, Asked
    <2>2. call \in Calls
      BY <2>1 DEF KernelsInv
    <2>3. Right(call, values)
      BY <2>1, <2>2, CallAttends, FlashRight DEF Right
    <2> HIDE DEF values
    <2> QED BY <2>1, <2>3, WriteKeeps
  <1>5. ASSUME PrefillGemm PROVE KernelsInv'
    <2>1. /\ stage.at = "asked" /\ call.op = "prefill" /\ call' = call
          /\ stage'.at = "gemm" /\ stage'.base = 0
      BY <1>5, AtFields DEF PrefillGemm, WantsGemm, Asked
    <2>2. call \in Calls
      BY <2>1 DEF KernelsInv
    <2>3. BlocksAdded(call', stage'.base, merging')
      BY <2>1 DEF BlocksAdded
    <2> QED BY <2>1, <2>2, <2>3 DEF KernelsInv
  <1>6. ASSUME GemmRefused PROVE KernelsInv'
    <2>1. stage.at = "asked" /\ call.op = "prefill" /\ call' = call /\ stage' = Unavailable
      BY <1>6 DEF GemmRefused, WantsGemm, Asked
    <2> QED BY <2>1, UnavailableKeeps
  <1>7. ASSUME PrefillReference PROVE KernelsInv'
    <2> DEFINE counted == "coalesced" \in call.opts
    <2>1. Write(ByWarps(call, counted)) /\ stage.at \in {"fallback", "asked"} /\ counted \in BOOLEAN
      BY <1>7 DEF PrefillReference, Asked
    <2>2. call \in Calls
      BY <2>1 DEF KernelsInv
    <2>3. call.op = "prefill" /\ ~HasBlock(call)
      <3>1. CASE stage.at = "fallback"
        BY <3>1 DEF KernelsInv
      <3>2. CASE Asked("prefill") /\ FusedRefused /\ ~WantsGemm
        BY <3>2 DEF Asked, WantsGemm
      <3> QED BY <1>7, <3>1, <3>2 DEF PrefillReference
    <2>4. Right(call, ByWarps(call, counted))
      <3> HIDE DEF counted
      <3>1. Attends(call)
        BY <2>2, <2>3, CallAttends
      <3> QED BY <2>1, <2>3, <3>1, ByWarpsRight DEF Right
    <2> HIDE DEF counted
    <2> QED BY <2>1, <2>4, WriteKeeps
  <1>8. ASSUME Return PROVE KernelsInv'
    <2>1. stage'.at = "idle"
      BY <1>8, AtFields DEF Return
    <2> QED BY <2>1 DEF KernelsInv
  <1>9. ASSUME NEW c \in Calls, Ask(c) PROVE KernelsInv'
    <2>1. stage'.at = "asked" /\ call' \in Calls
      BY <1>9, AtFields DEF Ask
    <2> QED BY <2>1 DEF KernelsInv
  <1>10. ASSUME UNCHANGED kernels PROVE KernelsInv'
    <2>1. call' = call /\ stage' = stage /\ partials' = partials /\ merging' = merging /\ output' = output
      BY <1>10 DEF kernels
    <2> QED BY <2>1 DEF KernelsInv
  <1>11. ASSUME GemmFails PROVE KernelsInv'
    <2>1. stage.at = "gemm" /\ call' = call /\ stage' = Unavailable
      BY <1>11 DEF GemmFails
    <2>2. call.op = "prefill"
      BY <2>1 DEF KernelsInv, BlocksAdded
    <2> QED BY <2>1, <2>2, UnavailableKeeps
  <1>12. ASSUME GemmFaults PROVE KernelsInv'
    <2>1. stage.at = "gemm" /\ call' = call /\ stage'.at = "lost"
      BY <1>12, AtFields DEF GemmFaults
    <2>2. call \in Calls
      BY <2>1 DEF KernelsInv
    <2> QED BY <2>1, <2>2 DEF KernelsInv
  <1> QED BY <1>1, <1>2, <1>3, <1>4, <1>5, <1>6, <1>7, <1>8, <1>9, <1>10, <1>11, <1>12,
             DecodePartsRight, MergePartsRight, GemmBlockRight, GemmEndRight DEF AttentionNext, Serve

(* Whatever kernel serves an attention or a rotation, for whatever shapes,  *)
(* cache, window, image block and switches, when the call completes each    *)
(* query has added each row it sees, and nothing else, once, and each pair  *)
(* has been turned once by its position; also after memory or a product was *)
(* refused and another kernel took its place.  Not after the workspace of   *)
(* an earlier call was lost and its size kept: such a call does not         *)
(* complete (GemmFaults).                                                   *)
THEOREM AttentionComputed == AttentionSpec => []KernelsComputeAttention
  <1>1. AttentionInit => KernelsInv
    BY AtFields DEF AttentionInit, KernelsInv
  <1>2. KernelsInv /\ [AttentionNext]_kernels => KernelsInv'
    BY KernelsKeep
  <1>3. KernelsInv => KernelsComputeAttention
    BY DEF KernelsInv, Right, KernelsComputeAttention, OutputIsAttention, RotatesEachPairOnce
  <1> QED BY <1>1, <1>2, <1>3, PTL DEF AttentionSpec

Memory == [first : Nat, second : Nat, noted : Nat]
Workspaces == [scores : Memory, outs : Memory, stats : Nat, statElems : Nat]

\* The memory behind each pointer is what its size says.
Whole(group) == group.first = group.noted /\ group.second = group.noted
Behind(w) == Whole(w.scores) /\ Whole(w.outs) /\ w.stats = w.statElems

\* The needs of a call are numbers.
LEMMA NeedsAreNumbers ==
  ASSUME NEW c, Attends(c)
  PROVE  Scores(c) \in Nat /\ Outs(c) \in Nat /\ Stats(c) \in Nat
  <1>1. BlockKeys(c) \in Nat
    BY BlockSizes DEF Positive
  <1>2. c.heads \in Nat /\ c.new \in Nat /\ c.dim \in Nat
    BY DEF Attends, Positive
  <1> QED BY <1>1, <1>2 DEF Scores, Outs, Stats

\* A group that is not refused has what is needed.
LEMMA GroupGrows ==
  \A group \in Memory, need \in Nat, fail \in Int : fail \notin {1, 2} /\ Whole(group) =>
    LET g == Grown(group, need, fail) IN g \in Memory /\ Whole(g) /\ g.first >= need /\ g.second >= need
  BY DEF Grown, Whole, Memory

\* And so does the workspace.
LEMMA WorkspaceGrows ==
  ASSUME NEW c, Attends(c), NEW w \in Workspaces, Behind(w)
  PROVE  LET grown == EnsureWorkspace(w, c, 0)
         IN  grown \in Workspaces /\ Behind(grown) /\ Backed(grown, c)
  <1> DEFINE grown == EnsureWorkspace(w, c, 0)
             first == Grown(w.scores, Scores(c), 0)
             second == Grown(w.outs, Outs(c), 0 - 2)
  <1>1. Scores(c) \in Nat /\ Outs(c) \in Nat /\ Stats(c) \in Nat
    BY NeedsAreNumbers
  <1>2. w.scores \in Memory /\ w.outs \in Memory /\ w.stats \in Nat /\ w.statElems \in Nat
    BY DEF Workspaces
  <1>3. Whole(w.scores) /\ Whole(w.outs) /\ w.stats = w.statElems
    BY DEF Behind
  <1>4. first \in Memory /\ Whole(first) /\ first.first >= Scores(c) /\ first.second >= Scores(c)
    <2>1. 0 \in Int /\ 0 \notin {1, 2}
      OBVIOUS
    <2> QED BY <1>1, <1>2, <1>3, <2>1, GroupGrows
  <1>5. second \in Memory /\ Whole(second) /\ second.first >= Outs(c) /\ second.second >= Outs(c)
    <2> DEFINE fail == 0 - 2
    <2>1. fail \in Int /\ fail \notin {1, 2}
      OBVIOUS
    <2> HIDE DEF fail
    <2>2. LET g == Grown(w.outs, Outs(c), fail) IN g \in Memory /\ Whole(g) /\ g.first >= Outs(c) /\ g.second >= Outs(c)
      BY <1>1, <1>2, <1>3, <2>1, GroupGrows
    <2> QED BY <2>2 DEF fail
  <1> HIDE DEF first, second
  <1>6. grown = [scores |-> first, outs |-> second,
                 stats |-> IF Stats(c) <= w.statElems THEN w.stats ELSE Stats(c),
                 statElems |-> IF Stats(c) <= w.statElems THEN w.statElems ELSE Stats(c)]
    BY DEF EnsureWorkspace, first, second
  <1> HIDE DEF grown
  <1>7. /\ grown.scores = first /\ grown.outs = second
        /\ grown.stats \in Nat /\ grown.statElems = grown.stats /\ grown.stats >= Stats(c)
    BY <1>1, <1>2, <1>3, <1>6
  <1>8. grown \in Workspaces
    BY <1>4, <1>5, <1>6, <1>7 DEF Workspaces
  <1>9. Behind(grown) /\ Backed(grown, c)
    BY <1>4, <1>5, <1>7 DEF Behind, Backed
  <1> QED BY <1>8, <1>9 DEF grown

\* Between calls and in them, with no growth refused.
WorkspaceInv ==
  /\ stage.at # "idle" => call \in Calls
  /\ stage.at = "gemm" => call.op = "prefill" /\ Backed(ws, call)
  /\ ws \in Workspaces /\ Behind(ws)

(* Where no allocation is ever refused the GEMMs never run without their    *)
(* workspace: it is the refused growth, and nothing else, that leaves a     *)
(* size without its memory (ensure_workspace).                              *)
THEOREM WorkspaceIsThere ==
  ASSUME ~MayFail
  PROVE  AttentionSpec => []GemmHasWorkspace
  <1>1. AttentionInit => WorkspaceInv
    BY AtFields DEF AttentionInit, WorkspaceInv, NoWorkspace, NoMemory, Behind, Whole, Workspaces, Memory
  <1>2. WorkspaceInv /\ [AttentionNext]_kernels => WorkspaceInv'
    <2> SUFFICES ASSUME WorkspaceInv, [AttentionNext]_kernels
                 PROVE  WorkspaceInv'
      OBVIOUS
    <2>1. CASE PrefillGemm
      <3>1. /\ stage.at = "asked" /\ call.op = "prefill" /\ call' = call /\ stage'.at = "gemm"
            /\ ws' = EnsureWorkspace(ws, call, 0)
        BY <2>1, AtFields DEF PrefillGemm, WantsGemm, Asked
      <3>2. call \in Calls
        BY <3>1 DEF WorkspaceInv
      <3>3. Attends(call)
        BY <3>1, <3>2, CallAttends
      <3>4. ws' \in Workspaces /\ Behind(ws') /\ Backed(ws', call)
        BY <3>1, <3>3, WorkspaceGrows DEF WorkspaceInv
      <3> QED BY <3>1, <3>2, <3>4 DEF WorkspaceInv
    <2>2. CASE GemmBlock
      BY <2>2 DEF WorkspaceInv, GemmBlock
    <2>3. CASE \E c \in Calls : Ask(c)
      BY <2>3, AtFields DEF WorkspaceInv, Ask
    <2>4. ASSUME ws' = ws, stage'.at # "gemm", stage.at # "idle" \/ stage'.at = "idle",
                 call' = call \/ stage'.at = "idle"
          PROVE  WorkspaceInv'
      BY <2>4 DEF WorkspaceInv
    <2>5. CASE \/ Rotate \/ Uncached \/ Decode \/ MergeParts \/ PrefillFused \/ PrefillReference
      <3>1. ASSUME NEW v, Write(v), stage.at # "idle" PROVE WorkspaceInv'
        BY <2>4, <3>1, AtFields DEF Write
      <3>2. CASE Rotate
        BY <3>1, <3>2 DEF Rotate, Asked
      <3>3. CASE Uncached
        BY <3>1, <3>3 DEF Uncached, Asked
      <3>4. CASE Decode
        BY <3>1, <3>4 DEF Decode, Asked
      <3>5. CASE MergeParts
        BY <3>1, <3>5 DEF MergeParts
      <3>6. CASE PrefillFused
        BY <3>1, <3>6 DEF PrefillFused, Asked
      <3>7. CASE PrefillReference
        BY <3>1, <3>7 DEF PrefillReference, Asked
      <3> QED BY <2>5, <3>2, <3>3, <3>4, <3>5, <3>6, <3>7
    <2>6. CASE DecodeParts \/ GemmEnd \/ GemmFaults \/ Return
      BY <2>4, <2>6, AtFields DEF DecodeParts, Asked, GemmEnd, GemmFaults, Return
    <2>7. CASE GemmRefused \/ GemmFails
      BY <2>4, <2>7, AtFields DEF GemmRefused, GemmFails, WantsGemm, Asked, Unavailable
    <2>8. CASE UNCHANGED kernels
      BY <2>8 DEF WorkspaceInv, kernels
    <2> QED BY <2>1, <2>2, <2>3, <2>5, <2>6, <2>7, <2>8 DEF AttentionNext, Serve
  <1>3. WorkspaceInv => GemmHasWorkspace
    BY DEF WorkspaceInv, GemmHasWorkspace
  <1> QED BY <1>1, <1>2, <1>3, PTL DEF AttentionSpec

-----------------------------------------------------------------------------
(* The rings of KvRing, for every number of layers, every window, sequence  *)
(* length and batch: the invariant IInv is inductive, a rewind the cache    *)
(* accepts keeps the window, the current position is never disowned, and    *)
(* the attention of every layer reads the conversation.                     *)

\* No multiple of a number lies strictly between 0 and it.
LEMMA NoMultipleBetween ==
  ASSUME NEW s \in Nat \ {0}, NEW d \in Int
  PROVE  ~ (0 < s * d /\ s * d < s)
  <1>1. CASE d <= 0
    <2>1. s * d <= 0
      BY <1>1
    <2> QED BY <2>1
  <1>2. CASE d >= 1
    <2>1. s * d >= s
      BY <1>2
    <2> QED BY <2>1
  <1> QED BY <1>1, <1>2

(* Two positions less than a ring apart never share a slot: the reason why  *)
(* a ring of window + batch slots is enough.                                *)
LEMMA SlotsDiffer ==
  ASSUME NEW s \in Nat \ {0}, NEW a \in Nat, NEW b \in Nat, a < b, b < a + s
  PROVE  a % s # b % s
  <1> SUFFICES ASSUME a % s = b % s PROVE FALSE
    OBVIOUS
  <1> DEFINE d == (b \div s) - (a \div s)
  <1>1. /\ a = s * (a \div s) + (a % s) /\ a \div s \in Int
        /\ b = s * (b \div s) + (b % s) /\ b \div s \in Int
    BY DivMod
  <1>2. d \in Int /\ s * d = s * (b \div s) - s * (a \div s)
    BY <1>1
  <1>3. s * d = b - a
    BY <1>1, <1>2, DivMod
  <1> HIDE DEF d
  <1> QED BY <1>2, <1>3, NoMultipleBetween

\* A ring has the slots of the whole sequence, or of its window and a batch.
LEMMA SlotsType ==
  ASSUME NEW l \in Layers
  PROVE  /\ Slots(l) \in Nat \ {0}
         /\ Slots(l) <= MaxSeq
         /\ Slots(l) = MaxSeq \/ Slots(l) = Window[l] + MaxPrefill
         /\ Window[l] = 0 => Slots(l) = MaxSeq
         /\ Window[l] \in Nat
  BY KvAssumption DEF Slots, Smaller

\* A batch that fits in the sequence fits in every ring.
LEMMA BatchInRing ==
  ASSUME NEW l \in Layers, NEW n \in Nat, n <= MaxPrefill, n <= MaxSeq
  PROVE  n <= Slots(l)
  BY KvAssumption, SlotsType DEF Slots, Smaller

\* The slot of a position is in its ring.
LEMMA RowSlot ==
  ASSUME NEW l \in Layers, NEW p \in Nat
  PROVE  p % Slots(l) \in 0 .. Slots(l) - 1
  BY SlotsType, DivMod

-----------------------------------------------------------------------------
(* What writing a batch does to the ring of one layer.                      *)

\* A layer that was written holds the batch, and what the batch did not reach.
LEMMA WrittenRows ==
  ASSUME TypeOK, BatchFits, GraphAccepts, NEW l \in Layers
  PROVE  /\ Written(l) \in [0 .. Slots(l) - 1 -> Rows]
         /\ \A p \in Batch :
              Written(l)[p % Slots(l)] = <<p, forward.tokens[p - position + 1]>>
         /\ \A p \in 0 .. position - 1 :
              p + Slots(l) >= position + BatchSize =>
                Written(l)[p % Slots(l)] = ring[l][p % Slots(l)]
  <1> DEFINE S == Slots(l)
             BatchRow(p) == <<p, forward.tokens[p - position + 1]>>
             Hit(s) == CHOOSE p \in Batch : p % S = s
  <1>1. /\ S \in Nat \ {0} /\ S <= MaxSeq
        /\ position \in Nat /\ BatchSize \in Nat /\ MaxSeq \in Nat
        /\ Batch \subseteq Nat
    BY SlotsType, KvAssumption DEF TypeOK, BatchSize, Batch
  <1>2. BatchSize <= S /\ position + BatchSize <= MaxSeq
    BY <1>1, BatchInRing, KvAssumption DEF BatchFits, GraphAccepts
  <1>3. \A p, q \in Batch : p % S = q % S => p = q
    <2> SUFFICES ASSUME NEW p \in Batch, NEW q \in Batch, p < q
                 PROVE  p % S # q % S
      BY <1>1
    <2> QED BY <1>1, <1>2, SlotsDiffer DEF Batch
  <1>4. \A p \in Batch : Hit(p % S) = p
    BY <1>3
  <1>5. \A p \in Batch : p \in Nat /\ p % S \in 0 .. S - 1
    BY <1>1, RowSlot
  <1>6. \A p \in Batch : Written(l)[p % S] = BatchRow(p)
    <2> TAKE p \in Batch
    <2>1. Written(l)[p % S] = BatchRow(Hit(p % S))
      BY <1>5 DEF Written
    <2> QED BY <2>1, <1>4
  <1>7. \A p \in 0 .. position - 1 :
          p + S >= position + BatchSize => Written(l)[p % S] = ring[l][p % S]
    <2> SUFFICES ASSUME NEW p \in 0 .. position - 1, p + S >= position + BatchSize
                 PROVE  Written(l)[p % S] = ring[l][p % S]
      OBVIOUS
    <2>1. \A q \in Batch : q % S # p % S
      BY <1>1, SlotsDiffer DEF Batch
    <2>2. p % S \in 0 .. S - 1
      BY <1>1, RowSlot
    <2> QED BY <2>1, <2>2 DEF Written
  <1>8. \A p \in Batch : BatchRow(p) \in Rows
    BY <1>1, <1>2 DEF Batch, Rows, TypeOK, BatchSize
  <1>9. Written(l) \in [0 .. S - 1 -> Rows]
    <2> SUFFICES ASSUME NEW s \in 0 .. S - 1
                 PROVE  Written(l)[s] \in Rows
      BY DEF Written
    <2>1. CASE \E p \in Batch : p % S = s
      BY <2>1, <1>6, <1>8
    <2>2. CASE ~ \E p \in Batch : p % S = s
      BY <2>2 DEF Written, TypeOK
    <2> QED BY <2>1, <2>2
  <1> QED BY <1>6, <1>7, <1>9

-----------------------------------------------------------------------------
(* The invariant holds at the start and every step keeps it.                *)

\* The sizes every step lemma needs, out of TypeOK and the assumptions.
LEMMA Sizes ==
  ASSUME TypeOK
  PROVE  /\ position \in Nat /\ position <= MaxSeq
         /\ writtenUntil \in Nat /\ writtenUntil <= MaxSeq
         /\ BatchSize \in Nat
         /\ HighWater \in Nat
         /\ MaxSeq \in Nat \ {0} /\ MaxPrefill \in Nat \ {0} /\ NumLayers \in Nat
         /\ \A l \in Layers : Window[l] \in Nat
  BY KvAssumption DEF TypeOK, BatchSize, HighWater, InFlight, Smaller, Larger

\* The invariant holds at the start.
LEMMA InitInvariant == Init => IInv
  <1> SUFFICES ASSUME Init PROVE IInv
    OBVIOUS
  <1> USE DEF Init, Idle
  <1>1. TypeOK
    <2>1. \A l \in Layers : ring[l] \in [0 .. Slots(l) - 1 -> Rows]
      BY KvAssumption, SlotsType DEF Rows, Unwritten
    <2> QED BY <2>1, KvAssumption DEF TypeOK, Kinds
  <1>2. NotedBeforeDispatch /\ BatchFits
    BY KvAssumption DEF NotedBeforeDispatch, BatchFits, InFlight, BatchSize
  <1>3. NotOverwritten
    BY DEF NotOverwritten
  <1>4. BatchWritten
    BY DEF BatchWritten, Layers
  <1>5. CanAlwaysContinue
    BY KvAssumption, SlotsType DEF CanAlwaysContinue, CanRewindTo, Needed, Oldest
  <1> QED BY <1>1, <1>2, <1>3, <1>4, <1>5 DEF IInv

\* A batch is a non-empty sequence of tokens, no longer than its bound.
LEMMA BatchesType ==
  ASSUME NEW n \in Nat, NEW tokens \in Batches(n)
  PROVE  /\ tokens \in Seq(Tokens)
         /\ tokens # <<>>
         /\ Len(tokens) \in 1 .. n
  BY DEF Batches

(* Noting the end of a batch that fits in the ring leaves the window of the *)
(* current position in it.                                                  *)
LEMMA NotingKeepsWindow ==
  ASSUME TypeOK, CanAlwaysContinue, NEW n \in Nat, n <= MaxPrefill,
         NEW l \in Layers, Window[l] # 0
  PROVE  LET w == NotedWriteEnd(position + n)
         IN  /\ w \in writtenUntil .. MaxSeq
             /\ Needed(l, position) >= (IF w > Slots(l) THEN w - Slots(l) ELSE 0)
  BY Sizes, SlotsType
  DEF CanAlwaysContinue, CanRewindTo, Needed, Oldest, NotedWriteEnd, Smaller

\* Noting the end of a text batch before it runs keeps the invariant.
LEMMA BeginTextStep ==
  ASSUME IInv, NEW tokens \in Batches(Chunk), BeginText(tokens)
  PROVE  IInv'
  <1> USE DEF BeginText
  <1>1. /\ tokens \in Seq(Tokens) /\ tokens # <<>>
        /\ Len(tokens) \in Nat /\ Len(tokens) <= MaxPrefill
    BY BatchesType, KvAssumption
  <1>2. TypeOK
    BY DEF IInv
  <1>3. TypeOK'
    <2>1. writtenUntil' \in 0 .. MaxSeq
      BY <1>1, <1>2, Sizes DEF NotedWriteEnd, Smaller
    <2> QED BY <1>1, <1>2, <2>1, KvAssumption DEF TypeOK, Kinds
  <1>4. /\ HighWater' = writtenUntil' /\ HighWater' >= HighWater
        /\ HighWater' \in Nat /\ BatchSize' = Len(tokens) /\ InFlight'
    BY <1>1, <1>2, Sizes
    DEF HighWater, InFlight, BatchSize, NotedWriteEnd, Smaller, Larger, IInv
  <1>5. NotedBeforeDispatch'
    BY <1>4 DEF NotedBeforeDispatch
  <1>6. BatchFits'
    BY <1>1, <1>4 DEF BatchFits
  <1>7. NotOverwritten'
    <2> SUFFICES ASSUME NEW l \in Layers, NEW p \in 0 .. position - 1,
                        p + Slots(l) >= HighWater'
                 PROVE  ring[l][p % Slots(l)] = <<p, context[p]>>
      BY DEF NotOverwritten, Resident
    <2>1. p + Slots(l) >= HighWater
      BY <1>2, <1>4, Sizes, SlotsType
    <2> QED BY <2>1 DEF IInv, NotOverwritten, Resident
  <1>8. BatchWritten'
    BY DEF BatchWritten, Layers
  <1>9. CanAlwaysContinue'
    <2>1. \A l \in Layers : Window[l] # 0 => (Needed(l, position) >= Oldest(l))'
      BY <1>1, <1>2, NotingKeepsWindow DEF IInv, Oldest, Needed
    <2>2. (position <= position)'
      BY <1>2, Sizes
    <2> QED BY <2>1, <2>2 DEF CanAlwaysContinue, CanRewindTo, Needed, Oldest
  <1> QED BY <1>3, <1>5, <1>6, <1>7, <1>8, <1>9 DEF IInv

\* A visual batch, which notes nothing, keeps it.
LEMMA BeginVisualStep ==
  ASSUME IInv, NEW tokens \in Batches(MaxPrefill), BeginVisual(tokens)
  PROVE  IInv'
  <1> USE DEF BeginVisual
  <1>1. /\ tokens \in Seq(Tokens) /\ tokens # <<>>
        /\ Len(tokens) \in Nat /\ Len(tokens) <= MaxPrefill
    BY BatchesType, KvAssumption
  <1>2. TypeOK
    BY DEF IInv
  <1>3. TypeOK'
    BY <1>1, <1>2, KvAssumption DEF TypeOK, Kinds
  <1>4. HighWater' >= HighWater /\ HighWater' \in Nat /\ BatchSize' = Len(tokens)
    BY <1>1, <1>2, Sizes DEF HighWater, InFlight, BatchSize, Smaller, Larger
  <1>5. NotedBeforeDispatch'
    BY DEF NotedBeforeDispatch
  <1>6. BatchFits'
    BY <1>1, <1>4 DEF BatchFits
  <1>7. NotOverwritten'
    <2> SUFFICES ASSUME NEW l \in Layers, NEW p \in 0 .. position - 1,
                        p + Slots(l) >= HighWater'
                 PROVE  ring[l][p % Slots(l)] = <<p, context[p]>>
      BY DEF NotOverwritten, Resident
    <2>1. p + Slots(l) >= HighWater
      BY <1>2, <1>4, Sizes, SlotsType
    <2> QED BY <2>1 DEF IInv, NotOverwritten, Resident
  <1>8. BatchWritten'
    BY DEF BatchWritten, Layers
  <1>9. CanAlwaysContinue'
    BY DEF IInv, CanAlwaysContinue, CanRewindTo, Needed, Oldest
  <1> QED BY <1>3, <1>5, <1>6, <1>7, <1>8, <1>9 DEF IInv

\* Writing one layer keeps it.
LEMMA WriteLayerStep ==
  ASSUME IInv, WriteLayer
  PROVE  IInv'
  <1> DEFINE k == forward.layer
  <1>1. /\ TypeOK /\ BatchFits /\ GraphAccepts /\ k \in Layers /\ InFlight
        /\ position' = position /\ writtenUntil' = writtenUntil /\ context' = context
    BY DEF IInv, WriteLayer
  <1>2. /\ k \in Nat
        /\ forward' = [kind |-> forward.kind, tokens |-> forward.tokens, layer |-> k + 1]
        /\ forward'.layer = k + 1 /\ forward'.tokens = forward.tokens
        /\ forward'.kind = forward.kind
    BY <1>1 DEF TypeOK, Layers, WriteLayer
  <1>3. /\ \A l \in Layers : l # k => ring'[l] = ring[l]
        /\ ring'[k] = Written(k)
        /\ DOMAIN ring' = Layers
    BY <1>1 DEF TypeOK, WriteLayer
  <1>4. /\ HighWater' = HighWater /\ BatchSize' = BatchSize /\ Batch' = Batch
        /\ InFlight' /\ GraphAccepts'
    BY <1>1, <1>2 DEF HighWater, InFlight, BatchSize, Batch, GraphAccepts
  <1>5. /\ HighWater \in Nat /\ BatchSize \in Nat /\ position \in Nat
        /\ HighWater >= position + BatchSize
    BY <1>1, Sizes DEF HighWater, Larger, Smaller, GraphAccepts
  <1>6. TypeOK'
    <2>1. \A l \in Layers : ring'[l] \in [0 .. Slots(l) - 1 -> Rows]
      BY <1>1, <1>3, WrittenRows DEF TypeOK
    <2>2. forward' \in [kind : Kinds, tokens : Seq(Tokens), layer : 0 .. NumLayers]
      BY <1>1, <1>2, KvAssumption DEF TypeOK, Layers
    <2> QED BY <1>1, <1>3, <2>1, <2>2 DEF TypeOK
  <1>7. NotedBeforeDispatch'
    BY <1>1, <1>2, <1>4 DEF NotedBeforeDispatch, IInv
  <1>8. BatchFits'
    BY <1>1, <1>4 DEF BatchFits
  <1>9. NotOverwritten'
    <2> SUFFICES ASSUME NEW l \in Layers, NEW p \in 0 .. position - 1,
                        p + Slots(l) >= HighWater
                 PROVE  ring'[l][p % Slots(l)] = <<p, context[p]>>
      BY <1>1, <1>4 DEF NotOverwritten, Resident
    <2>1. ring[l][p % Slots(l)] = <<p, context[p]>>
      BY DEF IInv, NotOverwritten, Resident
    <2>2. p + Slots(l) >= position + BatchSize
      BY <1>5, SlotsType
    <2>3. CASE l = k
      BY <1>1, <1>3, <2>1, <2>2, <2>3, WrittenRows
    <2>4. CASE l # k
      BY <1>3, <2>1, <2>4
    <2> QED BY <2>3, <2>4
  <1>10. BatchWritten'
    <2> SUFFICES ASSUME NEW l \in Layers, l < k + 1, NEW p \in Batch
                 PROVE  ring'[l][p % Slots(l)] = <<p, forward.tokens[p - position + 1]>>
      BY <1>1, <1>2, <1>4 DEF BatchWritten
    <2>1. CASE l = k
      BY <1>1, <1>3, <2>1, WrittenRows
    <2>2. CASE l # k
      <3>1. l < k
        BY <1>2, <2>2 DEF Layers
      <3> QED BY <1>3, <2>2, <3>1 DEF IInv, BatchWritten
    <2> QED BY <2>1, <2>2
  <1>11. CanAlwaysContinue'
    BY <1>1 DEF IInv, CanAlwaysContinue, CanRewindTo, Needed, Oldest
  <1> QED BY <1>6, <1>7, <1>8, <1>9, <1>10, <1>11 DEF IInv

\* Moving the position past the batch keeps it.
LEMMA CompleteStep ==
  ASSUME IInv, Complete
  PROVE  IInv'
  <1> DEFINE n == BatchSize
  <1>1. /\ TypeOK /\ GraphAccepts /\ InFlight /\ n <= MaxPrefill /\ n <= MaxSeq - position
        /\ forward.layer = NumLayers /\ ring' = ring
    BY DEF IInv, GraphAccepts, BatchFits, Complete
  <1>2. /\ position \in Nat /\ n \in Nat /\ position' = position + n
        /\ position' <= MaxSeq /\ MaxSeq \in Nat
    BY <1>1, Sizes DEF Smaller, Complete
  <1>3. /\ writtenUntil' = HighWater /\ HighWater \in Nat /\ writtenUntil' <= MaxSeq
        /\ HighWater' = HighWater /\ ~InFlight' /\ forward' = Idle
    BY <1>1, <1>2, Sizes
    DEF HighWater, InFlight, NotedWriteEnd, Smaller, Larger, Idle, Complete
  <1>4. \A p \in Batch : /\ context'[p] = forward.tokens[p - position + 1]
                         /\ forward.tokens[p - position + 1] \in Tokens
    BY <1>1, <1>2 DEF Batch, TypeOK, BatchSize, Complete
  <1>5. TypeOK'
    <2>1. context' \in [0 .. MaxSeq - 1 -> Tokens \cup {NoToken}]
      BY <1>1, <1>4 DEF TypeOK, Complete
    <2> QED BY <1>1, <1>2, <1>3, <2>1, KvAssumption DEF TypeOK, Idle, Kinds
  <1>6. NotedBeforeDispatch' /\ BatchFits' /\ BatchWritten'
    BY <1>3, KvAssumption
    DEF NotedBeforeDispatch, BatchFits, BatchWritten, BatchSize, Idle, Layers
  <1>7. NotOverwritten'
    <2> SUFFICES ASSUME NEW l \in Layers, NEW p \in 0 .. position + n - 1,
                        p + Slots(l) >= HighWater
                 PROVE  ring[l][p % Slots(l)] = <<p, context'[p]>>
      BY <1>1, <1>2, <1>3 DEF NotOverwritten, Resident
    <2>1. CASE p < position
      <3>1. ring[l][p % Slots(l)] = <<p, context[p]>>
        BY <1>2, <2>1 DEF IInv, NotOverwritten, Resident
      <3>2. p \notin Batch /\ p \in 0 .. MaxSeq - 1
        BY <1>1, <1>2, <2>1 DEF Batch
      <3> QED BY <3>1, <3>2 DEF Complete
    <2>2. CASE p >= position
      <3>1. p \in Batch
        BY <1>2, <2>2 DEF Batch
      <3>2. l < forward.layer
        BY <1>1, KvAssumption DEF Layers
      <3> QED BY <1>4, <3>1, <3>2 DEF IInv, BatchWritten
    <2> QED BY <1>2, <2>1, <2>2
  <1>8. CanAlwaysContinue'
    <2>1. ASSUME NEW l \in Layers, Window[l] # 0
          PROVE  (Needed(l, position) >= Oldest(l))'
      <3>1. Needed(l, position) >= Oldest(l)
        BY <2>1 DEF IInv, CanAlwaysContinue, CanRewindTo
      <3>2. writtenUntil' = writtenUntil \/ writtenUntil' = position + n
        BY <1>1, <1>2, Sizes DEF NotedWriteEnd, Smaller, Complete
      <3>3. /\ Window[l] \in Nat /\ MaxPrefill \in Nat /\ Slots(l) \in Nat
            /\ Slots(l) = MaxSeq \/ Slots(l) = Window[l] + MaxPrefill
        BY <1>1, Sizes, SlotsType
      <3>4. Needed(l, position') >= (IF writtenUntil' > Slots(l) THEN writtenUntil' - Slots(l) ELSE 0)
        <4>1. CASE writtenUntil' = writtenUntil
          BY <1>1, <1>2, <2>1, <3>1, <3>3, <4>1, Sizes DEF Needed, Oldest
        <4>2. CASE writtenUntil' = position + n
          BY <1>1, <1>2, <1>3, <2>1, <3>3, <4>2, Sizes DEF Needed
        <4> QED BY <3>2, <4>1, <4>2
      <3> QED BY <3>4 DEF Needed, Oldest
    <2> QED BY <1>2, <2>1 DEF CanAlwaysContinue, CanRewindTo, Needed, Oldest
  <1> QED BY <1>5, <1>6, <1>7, <1>8 DEF IInv

\* What Clear leaves: nothing to rewind to, nothing to overwrite.
LEMMA ClearedState ==
  ASSUME IInv, Clear, ring' = ring, forward' = Idle
  PROVE  IInv'
  <1>1. TypeOK'
    BY KvAssumption DEF IInv, TypeOK, Clear, Idle, Kinds
  <1>2. NotedBeforeDispatch' /\ BatchFits' /\ NotOverwritten' /\ BatchWritten'
    BY KvAssumption
    DEF NotedBeforeDispatch, BatchFits, NotOverwritten, BatchWritten, InFlight,
        BatchSize, Clear, Idle, Layers
  <1>3. CanAlwaysContinue'
    BY KvAssumption, SlotsType DEF CanAlwaysContinue, CanRewindTo, Needed, Oldest, Clear
  <1> QED BY <1>1, <1>2, <1>3 DEF IInv

\* Without a forward in flight there is no batch.
LEMMA IdleIsNotInFlight ==
  ASSUME TypeOK, ~InFlight
  PROVE  forward.tokens = <<>> /\ BatchSize = 0 /\ HighWater = writtenUntil
  BY DEF TypeOK, InFlight, BatchSize, HighWater

\* A forward that fails after any number of layers keeps it.
LEMMA FailStep ==
  ASSUME IInv, Fail
  PROVE  IInv'
  <1>1. CASE forward.kind = "text"
    <2>1. /\ TypeOK /\ InFlight /\ HighWater = writtenUntil
          /\ position' = position /\ writtenUntil' = writtenUntil
          /\ context' = context /\ ring' = ring /\ forward' = Idle
      BY <1>1 DEF IInv, Fail, NotedBeforeDispatch
    <2>2. TypeOK'
      BY <2>1, KvAssumption DEF TypeOK, Idle, Kinds
    <2>3. /\ HighWater' = writtenUntil
          /\ NotedBeforeDispatch' /\ BatchFits' /\ BatchWritten'
      BY <2>1, KvAssumption
      DEF NotedBeforeDispatch, BatchFits, BatchWritten, InFlight, BatchSize, HighWater,
          Idle, Layers
    <2>4. NotOverwritten'
      BY <2>1, <2>3 DEF IInv, NotOverwritten, Resident
    <2>5. CanAlwaysContinue'
      BY <2>1 DEF IInv, CanAlwaysContinue, CanRewindTo, Needed, Oldest
    <2> QED BY <2>2, <2>3, <2>4, <2>5 DEF IInv
  <1>2. CASE forward.kind = "visual"
    BY <1>2, ClearedState DEF Fail
  <1> QED BY <1>1, <1>2 DEF Fail

(* Giving up positions needs nothing new from the memory.                   *)
LEMMA RewindStep ==
  ASSUME IInv, NEW p \in 0 .. position, Rewind(p)
  PROVE  IInv'
  <1>1. TypeOK /\ ~InFlight /\ ring' = ring /\ forward' = forward
    BY DEF IInv, Rewind
  <1>2. /\ forward.tokens = <<>> /\ BatchSize = 0 /\ HighWater = writtenUntil
        /\ forward.layer = 0
    BY <1>1, IdleIsNotInFlight DEF IInv, BatchFits, TypeOK
  <1>3. CASE CanRewindTo(p)
    <2>1. /\ position' = p /\ writtenUntil' = writtenUntil
          /\ context' = [q \in 0 .. MaxSeq - 1 |-> IF q < p THEN context[q] ELSE NoToken]
      BY <1>3 DEF Rewind
    <2>2. p \in Nat /\ p <= position /\ position \in Nat /\ position <= MaxSeq
      BY <1>1, Sizes
    <2>3. TypeOK'
      BY <1>1, <2>1, <2>2, Sizes DEF TypeOK
    <2>4. /\ HighWater' = writtenUntil /\ ~InFlight'
          /\ NotedBeforeDispatch' /\ BatchFits' /\ BatchWritten'
      BY <1>1, <1>2, <2>1, KvAssumption
      DEF NotedBeforeDispatch, BatchFits, BatchWritten, InFlight, BatchSize, HighWater, Layers
    <2>5. NotOverwritten'
      <3> SUFFICES ASSUME NEW l \in Layers, NEW q \in 0 .. p - 1, q + Slots(l) >= writtenUntil
                   PROVE  ring[l][q % Slots(l)] = <<q, context'[q]>>
        BY <1>1, <2>1, <2>4 DEF NotOverwritten, Resident
      <3>1. context'[q] = context[q] /\ q \in 0 .. position - 1
        BY <1>1, <2>1, <2>2, Sizes
      <3> QED BY <1>2, <3>1 DEF IInv, NotOverwritten, Resident
    <2>6. CanAlwaysContinue'
      BY <1>3, <2>1, <2>2 DEF CanAlwaysContinue, CanRewindTo, Needed, Oldest
    <2> QED BY <2>3, <2>4, <2>5, <2>6 DEF IInv
  <1>4. CASE ~CanRewindTo(p)
    <2>1. Clear
      BY <1>4 DEF Rewind
    <2>2. TypeOK'
      BY <1>1, <2>1, KvAssumption DEF TypeOK, Clear
    <2>3. NotedBeforeDispatch' /\ BatchFits' /\ NotOverwritten' /\ BatchWritten'
      BY <1>1, <1>2, <2>1, KvAssumption
      DEF NotedBeforeDispatch, BatchFits, NotOverwritten, BatchWritten, InFlight,
          BatchSize, Clear, Layers
    <2>4. CanAlwaysContinue'
      BY <2>1, KvAssumption, SlotsType
      DEF CanAlwaysContinue, CanRewindTo, Needed, Oldest, Clear
    <2> QED BY <2>2, <2>3, <2>4 DEF IInv
  <1> QED BY <1>3, <1>4

\* Emptying the cache keeps it.
LEMMA ResetStep ==
  ASSUME IInv, Reset
  PROVE  IInv'
  <1>1. TypeOK /\ ~InFlight /\ Clear /\ ring' = ring /\ forward' = forward
    BY DEF IInv, Reset
  <1>2. forward.tokens = <<>> /\ forward.layer = 0
    BY <1>1, IdleIsNotInFlight DEF IInv, BatchFits, TypeOK
  <1>3. TypeOK'
    BY <1>1, KvAssumption DEF TypeOK, Clear
  <1>4. NotedBeforeDispatch' /\ BatchFits' /\ NotOverwritten' /\ BatchWritten'
    BY <1>1, <1>2, KvAssumption
    DEF NotedBeforeDispatch, BatchFits, NotOverwritten, BatchWritten, InFlight,
        BatchSize, Clear, Layers
  <1>5. CanAlwaysContinue'
    BY <1>1, KvAssumption, SlotsType
    DEF CanAlwaysContinue, CanRewindTo, Needed, Oldest, Clear
  <1> QED BY <1>3, <1>4, <1>5 DEF IInv

\* Every step keeps it.
LEMMA StepInvariant == IInv /\ [Next]_vars => IInv'
  <1> SUFFICES ASSUME IInv, [Next]_vars PROVE IInv'
    OBVIOUS
  <1>1. CASE Next
    BY <1>1, BeginTextStep, BeginVisualStep, WriteLayerStep, CompleteStep, FailStep,
       RewindStep, ResetStep DEF Next
  <1>2. CASE UNCHANGED vars
    BY <1>2 DEF vars, IInv, TypeOK, NotedBeforeDispatch, BatchFits, NotOverwritten,
                BatchWritten, CanAlwaysContinue, CanRewindTo, Oldest, HighWater, InFlight,
                BatchSize, Batch, GraphAccepts, Resident
  <1> QED BY <1>1, <1>2

(* The inductive invariant, for every instance.                             *)
THEOREM RingInvariant == Spec => []IInv
  BY InitInvariant, StepInvariant, PTL DEF Spec

-----------------------------------------------------------------------------
(* What the invariant is for.                                               *)

\* The two numbers of the cache, its rings and its context have their types.
THEOREM TypeCorrect == Spec => []TypeOK
  <1>1. IInv => TypeOK
    BY DEF IInv
  <1> QED BY <1>1, RingInvariant, PTL

(* Whatever failed before, the cache never disowns the position it is at.   *)
THEOREM NeverDisowned == Spec => []CanAlwaysContinue
  <1>1. IInv => CanAlwaysContinue
    BY DEF IInv
  <1> QED BY <1>1, RingInvariant, PTL

(* The promise of can_rewind_to: an accepted target has its window resident *)
(* in every layer, sliding or global.                                       *)
THEOREM RewindSafe == Spec => []RewindKeepsWindow
  <1>1. IInv => RewindKeepsWindow
    <2> SUFFICES ASSUME IInv, ~InFlight, NEW p \in 0 .. position, CanRewindTo(p),
                        NEW l \in Layers, NEW q \in Needed(l, p) .. p - 1
                 PROVE  Resident(l, q)
      BY DEF RewindKeepsWindow
    <2>1. TypeOK /\ HighWater = writtenUntil
      BY IdleIsNotInFlight DEF IInv
    <2>2. Needed(l, p) \in Nat /\ q \in 0 .. position - 1
      BY <2>1, Sizes DEF Needed
    <2>3. q + Slots(l) >= writtenUntil
      <3>1. CASE Window[l] = 0
        BY <2>1, <2>2, <3>1, Sizes, SlotsType
      <3>2. CASE Window[l] # 0
        <4>1. Needed(l, p) >= Oldest(l)
          BY <3>2 DEF CanRewindTo
        <4> QED BY <2>1, <2>2, <4>1, Sizes, SlotsType DEF Oldest
      <3> QED BY <3>1, <3>2
    <2> QED BY <2>1, <2>2, <2>3 DEF IInv, NotOverwritten
  <1> QED BY <1>1, RingInvariant, PTL

(* No forward, of text or of an image, makes the attention of any layer     *)
(* read a row that is not the conversation's.                               *)
THEOREM AttentionCorrect == Spec => AttentionReadsConversation
  <1> DEFINE RingReads ==
        \A l \in Layers : (forward.layer = l /\ forward'.layer = l + 1) =>
          \A q \in Batch :
            \A p \in Needed(l, q) ..
                     (IF forward.kind = "visual" THEN position + BatchSize - 1 ELSE q) :
              ring'[l][p % Slots(l)] = <<p, TokenAt(p)>>
  <1>1. ASSUME IInv, Next, NEW l \in Layers,
               forward.layer = l, forward'.layer = l + 1,
               NEW q \in Batch,
               NEW p \in Needed(l, q) ..
                         (IF forward.kind = "visual" THEN position + BatchSize - 1 ELSE q)
        PROVE  ring'[l][p % Slots(l)] = <<p, TokenAt(p)>>
    <2>1. TypeOK /\ BatchFits /\ position \in Nat /\ BatchSize \in Nat
      BY <1>1, Sizes DEF IInv
    <2>2. WriteLayer
      <3>1. l + 1 > 0 /\ l + 1 # l
        BY DEF Layers
      <3> QED BY <1>1, <3>1 DEF Next, BeginText, BeginVisual, Complete, Fail, Rewind, Reset, Idle
    <2>3. GraphAccepts /\ ring'[l] = Written(l)
      BY <1>1, <2>1, <2>2 DEF WriteLayer, TypeOK
    <2>4. q \in Nat /\ q >= position /\ q < position + BatchSize
      BY <2>1 DEF Batch
    <2>5. /\ Needed(l, q) \in Nat /\ p \in Nat /\ p < position + BatchSize
          /\ Needed(l, q) >= Needed(l, position)
      BY <1>1, <2>1, <2>4, Sizes DEF Needed
    <2>6. CASE p >= position
      <3>1. p \in Batch
        BY <2>1, <2>5, <2>6 DEF Batch
      <3> QED BY <2>1, <2>3, <2>5, <2>6, <3>1, WrittenRows DEF TokenAt
    <2>7. CASE p < position
      <3>1. /\ Slots(l) \in Nat /\ Window[l] \in Nat
            /\ Slots(l) = MaxSeq \/ Slots(l) = Window[l] + MaxPrefill
            /\ position + BatchSize <= MaxSeq /\ BatchSize <= MaxPrefill
        BY <2>1, <2>3, Sizes, SlotsType DEF GraphAccepts, BatchFits
      <3>2. p + Slots(l) >= position + BatchSize
        BY <1>1, <2>1, <2>4, <2>5, <3>1, Sizes, SlotsType DEF Needed
      <3>3. p + Slots(l) >= writtenUntil
        <4>1. CASE Window[l] = 0
          BY <2>1, <2>5, <4>1, Sizes, SlotsType
        <4>2. CASE Window[l] # 0
          <5>1. Needed(l, position) >= Oldest(l)
            BY <1>1, <4>2 DEF IInv, CanAlwaysContinue, CanRewindTo
          <5> QED BY <1>1, <2>1, <2>4, <2>5, <3>1, <5>1, Sizes DEF Oldest, Needed
        <4> QED BY <4>1, <4>2
      <3>4. Resident(l, p)
        BY <1>1, <2>1, <2>5, <2>7, <3>1, <3>2, <3>3, Sizes
        DEF IInv, NotOverwritten, HighWater, Larger, Smaller
      <3>5. Written(l)[p % Slots(l)] = ring[l][p % Slots(l)]
        BY <2>1, <2>3, <2>5, <2>7, <3>2, WrittenRows
      <3> QED BY <2>3, <2>7, <3>4, <3>5 DEF Resident, TokenAt
    <2> QED BY <2>1, <2>5, <2>6, <2>7
  <1>2. IInv /\ [Next]_vars => [RingReads]_vars
    BY <1>1
  <1>3. Spec => [][RingReads]_vars
    BY <1>2, RingInvariant, PTL DEF Spec
  <1> QED BY <1>3 DEF AttentionReadsConversation
=============================================================================
