-------------------------- MODULE ModelSessionsProofs --------------------------
(***************************************************************************)
(* What is proved of placing and opening a model and of attaching sessions *)
(* to it, for any models, memories and sessions, and of the turns of those *)
(* sessions: one decodes with what it captured and built itself, and one   *)
(* that goes on from its KV finds its own rows in the rings.               *)
(*                                                                         *)
(* Bytes are sums over sets of layers, and the boundary is the first layer *)
(* that does not fit: both need induction.  It is done here over the       *)
(* subsets of a finite set, from the least element of a set of naturals,   *)
(* which the library gives for sets without asking for an operator.        *)
(***************************************************************************)
EXTENDS ModelSessions, SharedModel, FiniteSetTheorems, WellFoundedInduction, TLAPS

(* A least element, and induction over the subsets of a finite set.        *)

\* The order of the naturals has no endless descent.
LEMMA NatWF == IsWellFoundedOn({ss \in Nat \X Nat : ss[1] < ss[2]}, Nat)
  BY NatLessThanWellFounded DEF OpToRel

\* A set of naturals that is not empty has a least element.
LEMMA Least ==
  ASSUME NEW T \in SUBSET Nat, T # {}
  PROVE  \E x \in T : \A y \in T : x <= y
  <1> DEFINE R == {ss \in Nat \X Nat : ss[1] < ss[2]}
  <1>1. \E x \in T : \A y \in T : ~(<<y, x>> \in R)
    <2> HIDE DEF R
    <2> QED BY NatWF, WFMin DEF R
  <1>2. PICK x \in T : \A y \in T : ~(<<y, x>> \in R)
    BY <1>1
  <1>3. ASSUME NEW y \in T PROVE x <= y
    <2>1. x \in Nat /\ y \in Nat
      OBVIOUS
    <2>2. ~(<<y, x>> \in R)
      BY <1>2
    <2>3. ~(y < x)
      BY <2>1, <2>2
    <2> QED BY <2>1, <2>3
  <1> QED BY <1>3

(* Induction over the subsets of a finite set. *)
LEMMA SubsetInduction ==
  ASSUME NEW S, IsFiniteSet(S), NEW Good,
         \A s \in SUBSET S : (\A t \in SUBSET s : t # s => t \in Good) => s \in Good
  PROVE  SUBSET S \subseteq Good
  <1>1. SUFFICES ASSUME NEW s0 \in SUBSET S, s0 \notin Good PROVE FALSE
    OBVIOUS
  <1> DEFINE T == {Cardinality(s) : s \in {s \in SUBSET S : s \notin Good}}
  <1>2. \A s \in SUBSET S : IsFiniteSet(s) /\ Cardinality(s) \in Nat
    BY FS_Subset, FS_CardinalityType
  <1>3. T \in SUBSET Nat /\ T # {}
    BY <1>1, <1>2
  <1>4. PICK n \in T : \A m \in T : n <= m
    <2> HIDE DEF T
    <2> QED BY <1>3, Least
  <1>5. PICK s \in SUBSET S : s \notin Good /\ n = Cardinality(s)
    BY <1>4
  <1>6. ASSUME NEW t \in SUBSET s, t # s PROVE t \in Good
    <2>1. Cardinality(t) < Cardinality(s)
      BY <1>2, <1>5, <1>6, FS_Subset
    <2>2. t \in SUBSET S
      OBVIOUS
    <2>3. ~(n <= Cardinality(t))
      BY <1>2, <1>5, <2>1, <2>2
    <2> QED BY <1>4, <2>2, <2>3
  <1> QED BY <1>5, <1>6

Chosen(s) == CHOOSE x \in s : TRUE

\* g is what the fold computes for every subset of S.
Folds(g, f, S) ==
  g = [s \in SUBSET S |-> IF s = {} THEN 0 ELSE f[Chosen(s)] + g[s \ {Chosen(s)}]]

\* What it computes for one.
Computes(g, f, s) == g[s] = IF s = {} THEN 0 ELSE f[Chosen(s)] + g[s \ {Chosen(s)}]

\* The sum of the library is what a fold computes for the whole set.
LEMMA SumIsFold ==
  ASSUME NEW f, NEW S
  PROVE  SumFunctionOnSet(f, S) = (CHOOSE g : Folds(g, f, S))[S]
  BY DEF SumFunctionOnSet, FoldFunctionOnSet, MapThenFoldSet, Folds, Chosen

\* The element chosen from a set is one of it.
LEMMA ChosenIn ==
  ASSUME NEW s, s # {}
  PROVE  Chosen(s) \in s
  BY DEF Chosen

\* What a fold is at each subset.
LEMMA FoldAt ==
  ASSUME NEW f, NEW S, NEW g, Folds(g, f, S), NEW s \in SUBSET S
  PROVE  Computes(g, f, s)
  <1> DEFINE F(t) == IF t = {} THEN 0 ELSE f[Chosen(t)] + g[t \ {Chosen(t)}]
  <1>1. g = [t \in SUBSET S |-> F(t)]
    BY DEF Folds
  <1> HIDE DEF F
  <1>2. g[s] = F(s)
    BY <1>1
  <1> QED BY <1>2 DEF F, Computes

\* Two folds agree wherever both are defined.
LEMMA FoldsAgree ==
  ASSUME NEW f, NEW S, NEW T, IsFiniteSet(S), S \subseteq T,
         NEW g, NEW h, Folds(g, f, S), Folds(h, f, T)
  PROVE  \A s \in SUBSET S : g[s] = h[s]
  <1> DEFINE Good == {s \in SUBSET S : g[s] = h[s]}
  <1>1. ASSUME NEW s \in SUBSET S, \A t \in SUBSET s : t # s => t \in Good
        PROVE  s \in Good
    <2>0. Computes(g, f, s) /\ Computes(h, f, s)
      <3>1. s \in SUBSET S /\ s \in SUBSET T
        OBVIOUS
      <3> QED BY <3>1, FoldAt
    <2>1. CASE s = {}
      BY <2>0, <2>1 DEF Computes
    <2>2. CASE s # {}
      <3>1. Chosen(s) \in s
        BY <2>2, ChosenIn
      <3> DEFINE t == s \ {Chosen(s)}
      <3>2. t \in SUBSET s /\ t # s
        BY <3>1
      <3>3. g[t] = h[t]
        BY <1>1, <3>2
      <3>4. g[s] = f[Chosen(s)] + g[t]
        BY <2>0, <2>2 DEF Computes
      <3>5. h[s] = f[Chosen(s)] + h[t]
        BY <2>0, <2>2 DEF Computes
      <3> QED BY <3>3, <3>4, <3>5
    <2> QED BY <2>1, <2>2
  <1> HIDE DEF Good
  <1>2. SUBSET S \subseteq Good
    BY <1>1, SubsetInduction
  <1> QED BY <1>2 DEF Good

\* There is a fold over every finite set.
LEMMA FoldExists ==
  ASSUME NEW f, NEW S, IsFiniteSet(S)
  PROVE  \E g : Folds(g, f, S)
  <1> DEFINE Good == {s \in SUBSET S : \E g : Folds(g, f, s)}
  <1>1. ASSUME NEW s \in SUBSET S, \A t \in SUBSET s : t # s => t \in Good
        PROVE  s \in Good
    <2> DEFINE Of(t) == CHOOSE g : Folds(g, f, t)
               Value(t) == IF t = {} THEN 0 ELSE f[Chosen(t)] + Of(t \ {Chosen(t)})[t \ {Chosen(t)}]
               h == [t \in SUBSET s |-> Value(t)]
    <2>1. \A t \in SUBSET s : t # s => Folds(Of(t), f, t)
      <3>1. \A t \in SUBSET s : t # s => \E g : Folds(g, f, t)
        BY <1>1
      <3> QED BY <3>1
    <2>2. ASSUME NEW t \in SUBSET s, t # s PROVE Of(t)[t] = Value(t)
      <3> DEFINE u == t \ {Chosen(t)}
      <3>1. Folds(Of(t), f, t)
        BY <2>1, <2>2
      <3>2. CASE t = {}
        <4> HIDE DEF Of
        <4>1. Computes(Of(t), f, t)
          BY <3>1, FoldAt
        <4> QED BY <4>1, <3>2 DEF Computes
      <3>3. CASE t # {}
        <4>1. Chosen(t) \in t
          BY <3>3, ChosenIn
        <4>2. u \in SUBSET s /\ u \subseteq t /\ u # s /\ IsFiniteSet(u)
          BY <4>1, <2>2, FS_Subset
        <4>3. Folds(Of(u), f, u)
          BY <4>2, <2>1
        <4>4. Of(u)[u] = Of(t)[u]
          <5> HIDE DEF Of, u
          <5> QED BY <3>1, <4>2, <4>3, FoldsAgree
        <4>5. Of(t)[t] = f[Chosen(t)] + Of(t)[u]
          <5> HIDE DEF Of
          <5>1. Computes(Of(t), f, t)
            BY <3>1, FoldAt
          <5> QED BY <5>1, <3>3 DEF Computes
        <4> QED BY <4>4, <4>5, <3>3
      <3> QED BY <3>2, <3>3
    <2>3. ASSUME NEW t \in SUBSET s
          PROVE  h[t] = IF t = {} THEN 0 ELSE f[Chosen(t)] + h[t \ {Chosen(t)}]
      <3>1. CASE t = {}
        BY <3>1
      <3>2. CASE t # {}
        <4> DEFINE u == t \ {Chosen(t)}
        <4>1. u \in SUBSET s /\ u # s
          BY <3>2, ChosenIn
        <4>2. h[u] = Value(u) /\ Value(u) = Of(u)[u]
          BY <4>1, <2>2
        <4>3. h[t] = f[Chosen(t)] + Of(u)[u]
          BY <3>2
        <4> QED BY <4>2, <4>3, <3>2
      <3> QED BY <3>1, <3>2
    <2>4. Folds(h, f, s)
      <3> DEFINE F(t) == IF t = {} THEN 0 ELSE f[Chosen(t)] + h[t \ {Chosen(t)}]
      <3>1. \A t \in SUBSET s : h[t] = F(t)
        BY <2>3
      <3>2. h = [t \in SUBSET s |-> h[t]]
        OBVIOUS
      <3> HIDE DEF h
      <3>3. h = [t \in SUBSET s |-> F(t)]
        BY <3>1, <3>2
      <3> QED BY <3>3 DEF Folds
    <2> QED BY <2>4
  <1> HIDE DEF Good
  <1>2. SUBSET S \subseteq Good
    BY <1>1, SubsetInduction
  <1> QED BY <1>2 DEF Good

(* The sum over a finite set, one chosen element at a time.                 *)
LEMMA SumChosen ==
  ASSUME NEW f, NEW S, IsFiniteSet(S)
  PROVE  SumFunctionOnSet(f, S) =
           IF S = {} THEN 0 ELSE f[Chosen(S)] + SumFunctionOnSet(f, S \ {Chosen(S)})
  <1> DEFINE Of(t) == CHOOSE g : Folds(g, f, t)
             u == S \ {Chosen(S)}
  <1>1. IsFiniteSet(u) /\ u \subseteq S
    BY FS_Subset
  <1>2. Folds(Of(S), f, S) /\ Folds(Of(u), f, u)
    <2>1. \E g : Folds(g, f, S)
      BY FoldExists
    <2>2. \E g : Folds(g, f, u)
      <3> HIDE DEF u
      <3> QED BY <1>1, FoldExists
    <2> QED BY <2>1, <2>2
  <1>3. SumFunctionOnSet(f, S) = Of(S)[S] /\ SumFunctionOnSet(f, u) = Of(u)[u]
    <2>1. \A t : SumFunctionOnSet(f, t) = Of(t)[t]
      BY SumIsFold
    <2> QED BY <2>1
  <1>4. Of(u)[u] = Of(S)[u]
    <2> HIDE DEF Of, u
    <2> QED BY <1>1, <1>2, FoldsAgree
  <1>5. Computes(Of(S), f, S)
    <2> HIDE DEF Of
    <2> QED BY <1>2, FoldAt
  <1> HIDE DEF Of
  <1> QED BY <1>3, <1>4, <1>5 DEF Computes

\* Nothing to add.
LEMMA SumEmpty ==
  ASSUME NEW f
  PROVE  SumFunctionOnSet(f, {}) = 0
  BY SumChosen, FS_EmptySet

\* f is defined on S, with naturals.
Naturals(f, S) == \A x \in S : f[x] \in Nat

\* A sum of naturals is a natural.
LEMMA SumType ==
  ASSUME NEW f, NEW S, IsFiniteSet(S), Naturals(f, S)
  PROVE  SumFunctionOnSet(f, S) \in Nat
  <1> DEFINE Sum(s) == SumFunctionOnSet(f, s)
             Good == {s \in SUBSET S : Sum(s) \in Nat}
  <1>1. ASSUME NEW s \in SUBSET S, \A t \in SUBSET s : t # s => t \in Good
        PROVE  s \in Good
    <2>1. IsFiniteSet(s)
      BY FS_Subset
    <2>2. Sum(s) = IF s = {} THEN 0 ELSE f[Chosen(s)] + Sum(s \ {Chosen(s)})
      BY <2>1, SumChosen
    <2> HIDE DEF Sum
    <2>3. CASE s = {}
      BY <2>2, <2>3
    <2>4. CASE s # {}
      <3>1. Chosen(s) \in s
        BY <2>4, ChosenIn
      <3>2. Sum(s \ {Chosen(s)}) \in Nat
        BY <3>1, <1>1
      <3>3. f[Chosen(s)] \in Nat
        BY <3>1 DEF Naturals
      <3> QED BY <2>2, <2>4, <3>2, <3>3
    <2> QED BY <2>3, <2>4
  <1> HIDE DEF Good
  <1>2. SUBSET S \subseteq Good
    BY <1>1, SubsetInduction
  <1> QED BY <1>2 DEF Good

(* Any element can be taken out of the sum.                                 *)
LEMMA SumRemove ==
  ASSUME NEW f, NEW S, IsFiniteSet(S), Naturals(f, S), NEW x \in S
  PROVE  SumFunctionOnSet(f, S) = f[x] + SumFunctionOnSet(f, S \ {x})
  <1> DEFINE Sum(s) == SumFunctionOnSet(f, s)
             Good == {s \in SUBSET S : \A y \in s : Sum(s) = f[y] + Sum(s \ {y})}
  <1>1. ASSUME NEW s \in SUBSET S, \A t \in SUBSET s : t # s => t \in Good
        PROVE  s \in Good
    <2>1. \A t \in SUBSET s : IsFiniteSet(t) /\ Naturals(f, t)
      BY FS_Subset DEF Naturals
    <2>2. \A t \in SUBSET s : Sum(t) \in Nat
      BY <2>1, SumType
    <2>3. \A t \in SUBSET s : t # {} => Sum(t) = f[Chosen(t)] + Sum(t \ {Chosen(t)})
      BY <2>1, SumChosen
    <2> HIDE DEF Sum
    <2>4. ASSUME NEW y \in s PROVE Sum(s) = f[y] + Sum(s \ {y})
      <3> DEFINE c == Chosen(s)
      <3>1. c \in s
        BY ChosenIn
      <3>2. Sum(s) = f[c] + Sum(s \ {c})
        BY <2>3
      <3>3. CASE c = y
        BY <3>2, <3>3
      <3>4. CASE c # y
        <4> HIDE DEF c
        <4> DEFINE a == s \ {c}
                   b == s \ {y}
                   r == s \ {c, y}
        <4>1. a \in SUBSET s /\ a # s /\ y \in a /\ b \in SUBSET s /\ b # s /\ c \in b
          BY <3>1, <3>4
        <4>2. a \ {y} = r /\ b \ {c} = r /\ r \in SUBSET s
          OBVIOUS
        <4>3. Sum(a) = f[y] + Sum(r)
          <5>1. a \in Good
            BY <1>1, <4>1
          <5>2. Sum(a) = f[y] + Sum(a \ {y})
            BY <5>1, <4>1
          <5> QED BY <5>2, <4>2
        <4>4. Sum(b) = f[c] + Sum(r)
          <5>1. b \in Good
            BY <1>1, <4>1
          <5>2. Sum(b) = f[c] + Sum(b \ {c})
            BY <5>1, <4>1
          <5> QED BY <5>2, <4>2
        <4>5. f[y] \in Nat /\ f[c] \in Nat /\ Sum(r) \in Nat
          BY <2>2, <3>1, <4>2 DEF Naturals
        <4> HIDE DEF a, b, r
        <4>6. Sum(s) = f[c] + Sum(a)
          BY <3>2 DEF a
        <4>7. Sum(s) = f[y] + Sum(b)
          BY <4>3, <4>4, <4>5, <4>6
        <4> QED BY <4>7 DEF b
      <3> QED BY <3>3, <3>4
    <2> QED BY <2>4
  <1> HIDE DEF Good
  <1>2. SUBSET S \subseteq Good
    BY <1>1, SubsetInduction
  <1> QED BY <1>2 DEF Good

(* The sum over two sets that have nothing in common.                       *)
LEMMA SumUnion ==
  ASSUME NEW f, NEW S, NEW T, IsFiniteSet(S), IsFiniteSet(T), S \cap T = {},
         Naturals(f, S), Naturals(f, T)
  PROVE  SumFunctionOnSet(f, S \cup T) = SumFunctionOnSet(f, S) + SumFunctionOnSet(f, T)
  <1> DEFINE Sum(s) == SumFunctionOnSet(f, s)
             Good == {s \in SUBSET S : Sum(s \cup T) = Sum(s) + Sum(T)}
  <1>0. Sum(T) \in Nat /\ Sum({}) = 0
    BY SumType, SumEmpty
  <1>1. ASSUME NEW s \in SUBSET S, \A t \in SUBSET s : t # s => t \in Good
        PROVE  s \in Good
    <2>1. CASE s = {}
      <3>1. s \cup T = T
        BY <2>1
      <3> QED BY <3>1, <2>1, <1>0
    <2>2. CASE s # {}
      <3>1. PICK x \in s : TRUE
        BY <2>2
      <3> DEFINE t == s \ {x}
      <3>2. t \in SUBSET s /\ t # s /\ x \notin T /\ (s \cup T) \ {x} = t \cup T
        BY <3>1
      <3>3. IsFiniteSet(s) /\ IsFiniteSet(t) /\ IsFiniteSet(s \cup T)
        BY <3>2, FS_Subset, FS_Union
      <3>4. Naturals(f, s) /\ Naturals(f, t) /\ Naturals(f, s \cup T) /\ f[x] \in Nat
        BY <3>1 DEF Naturals
      <3>5. Sum(s) = f[x] + Sum(t)
        BY <3>1, <3>3, <3>4, SumRemove
      <3>6. Sum(s \cup T) = f[x] + Sum((s \cup T) \ {x})
        <4> DEFINE w == s \cup T
        <4>1. x \in w /\ IsFiniteSet(w) /\ Naturals(f, w)
          BY <3>1, <3>3, <3>4
        <4> HIDE DEF w
        <4>2. Sum(w) = f[x] + Sum(w \ {x})
          BY <4>1, SumRemove
        <4> QED BY <4>2 DEF w
      <3>7. Sum(t \cup T) = Sum(t) + Sum(T)
        BY <1>1, <3>2
      <3>8. Sum(t) \in Nat
        BY <3>3, <3>4, SumType
      <3>10. Sum((s \cup T) \ {x}) = Sum(t \cup T)
        BY <3>2
      <3>11. \A a, b, c, d, e, g \in Nat : a = b + c /\ d = b + e /\ e = c + g => d = a + g
        OBVIOUS
      <3>12. Sum(s) \in Nat /\ Sum(s \cup T) \in Nat /\ Sum(t \cup T) \in Nat
        <4> HIDE DEF Sum
        <4> QED BY <1>0, <3>4, <3>5, <3>6, <3>7, <3>8, <3>10
      <3> HIDE DEF Sum, t
      <3>13. Sum(s \cup T) = f[x] + Sum(t \cup T)
        BY <3>6, <3>10
      <3>9. Sum(s \cup T) = Sum(s) + Sum(T)
        BY ONLY <1>0, <3>4, <3>5, <3>7, <3>8, <3>11, <3>12, <3>13
      <3> QED BY <3>9
    <2> QED BY <2>1, <2>2
  <1> HIDE DEF Good
  <1>2. SUBSET S \subseteq Good
    BY <1>1, SubsetInduction
  <1> QED BY <1>2 DEF Good

(* Less is summed over a part.                                              *)
LEMMA SumPart ==
  ASSUME NEW f, NEW S, NEW T \in SUBSET S, IsFiniteSet(S), Naturals(f, S)
  PROVE  SumFunctionOnSet(f, T) <= SumFunctionOnSet(f, S)
  <1> DEFINE R == S \ T
  <1>1. IsFiniteSet(T) /\ IsFiniteSet(R) /\ T \cap R = {} /\ T \cup R = S
    BY FS_Subset
  <1>2. Naturals(f, T) /\ Naturals(f, R)
    BY DEF Naturals
  <1> HIDE DEF R
  <1>3. SumFunctionOnSet(f, S) = SumFunctionOnSet(f, T) + SumFunctionOnSet(f, R)
    BY <1>1, <1>2, SumUnion
  <1>4. SumFunctionOnSet(f, T) \in Nat /\ SumFunctionOnSet(f, R) \in Nat
    BY <1>1, <1>2, SumType
  <1> QED BY <1>3, <1>4
-----------------------------------------------------------------------------
(* The bytes of ranges of layers.                                           *)

\* The bytes of a set of layers are a natural.
LEMMA RangeOfLayers ==
  ASSUME NEW m, Measured(m), NEW S \in SUBSET Layers
  PROVE  IsFiniteSet(S) /\ Naturals(m.bytes, S) /\ Load(m.bytes, S) \in Nat
  <1>1. NumLayers - 1 \in Int
    BY LayersAssumption
  <1>2. IsFiniteSet(Layers)
    BY <1>1, FS_Interval DEF Layers
  <1>3. IsFiniteSet(S)
    BY <1>2, FS_Subset
  <1>4. Naturals(m.bytes, S)
    BY DEF Measured, Naturals
  <1> QED BY <1>3, <1>4, SumType DEF Load

\* Fewer layers take no more bytes.
LEMMA LoadPart ==
  ASSUME NEW m, Measured(m), NEW S \in SUBSET Layers, NEW T \in SUBSET S
  PROVE  Load(m.bytes, T) <= Load(m.bytes, S)
  BY RangeOfLayers, SumPart DEF Load

\* The bytes of two groups of layers add up.
LEMMA LoadUnion ==
  ASSUME NEW m, Measured(m), NEW S \in SUBSET Layers, NEW T \in SUBSET Layers, S \cap T = {}
  PROVE  Load(m.bytes, S \cup T) = Load(m.bytes, S) + Load(m.bytes, T)
  BY RangeOfLayers, SumUnion DEF Load

\* No layer takes no bytes.
LEMMA LoadNothing ==
  ASSUME NEW m
  PROVE  Load(m.bytes, {}) = 0
  BY SumEmpty DEF Load

\* The layers before b and the ones from b on are all the layers.
LEMMA LoadAt ==
  ASSUME NEW m, Measured(m), NEW b \in 0 .. NumLayers
  PROVE  /\ 0 .. b - 1 \subseteq Layers /\ b .. NumLayers - 1 \subseteq Layers
         /\ Load(m.bytes, Layers) = Load(m.bytes, 0 .. b - 1) + Load(m.bytes, b .. NumLayers - 1)
  <1>1. 0 .. b - 1 \subseteq Layers /\ b .. NumLayers - 1 \subseteq Layers
    BY LayersAssumption DEF Layers
  <1>2. (0 .. b - 1) \cap (b .. NumLayers - 1) = {}
    BY LayersAssumption
  <1>3. (0 .. b - 1) \cup (b .. NumLayers - 1) = Layers
    BY LayersAssumption DEF Layers
  <1>4. Load(m.bytes, (0 .. b - 1) \cup (b .. NumLayers - 1)) = Load(m.bytes, 0 .. b - 1) + Load(m.bytes, b .. NumLayers - 1)
    <2> DEFINE S == 0 .. b - 1
               T == b .. NumLayers - 1
    <2>1. S \in SUBSET Layers /\ T \in SUBSET Layers /\ S \cap T = {}
      BY <1>1, <1>2
    <2> HIDE DEF S, T
    <2>2. Load(m.bytes, S \cup T) = Load(m.bytes, S) + Load(m.bytes, T)
      BY <2>1, LoadUnion
    <2> QED BY <2>2 DEF S, T
  <1> QED BY <1>1, <1>3, <1>4

-----------------------------------------------------------------------------
(* The boundary of a split.                                                 *)

\* What a primary GPU holds with the layers before b, and whether they fit.
Here(m, b) == m.common + Load(m.bytes, 0 .. b - 1)

\* The first layer that does not fit, and every layer before it does.
IsBoundary(m, b) ==
  /\ \A i \in 0 .. b - 1 : m.common + Load(m.bytes, 0 .. i) <= m.primary
  /\ b < NumLayers => m.common + Load(m.bytes, 0 .. b) > m.primary

(* There is a boundary: the least layer that does not fit, or the end.      *)
LEMMA BoundaryExists ==
  ASSUME NEW m, Measured(m)
  PROVE  Boundary(m) \in 0 .. NumLayers /\ IsBoundary(m, Boundary(m))
  <1> DEFINE Over(i) == m.common + Load(m.bytes, 0 .. i) > m.primary
             T == {b \in 0 .. NumLayers : b = NumLayers \/ Over(b)}
  <1>1. T \in SUBSET Nat /\ NumLayers \in T
    BY LayersAssumption
  <1>2. PICK b \in T : \A c \in T : b <= c
    <2>1. T # {}
      BY <1>1
    <2> HIDE DEF T
    <2> QED BY <1>1, <2>1, Least
  <1>3. \A i \in 0 .. b - 1 : m.common + Load(m.bytes, 0 .. i) <= m.primary
    <2>1. SUFFICES ASSUME NEW i \in 0 .. b - 1
                   PROVE  m.common + Load(m.bytes, 0 .. i) <= m.primary
      OBVIOUS
    <2>2. i \in 0 .. NumLayers /\ ~(b <= i) /\ i < NumLayers
      BY <1>2, LayersAssumption
    <2>3. ~Over(i)
      BY <1>2, <2>2
    <2>4. 0 .. i \subseteq Layers
      BY <2>2, LayersAssumption DEF Layers
    <2>5. Load(m.bytes, 0 .. i) \in Nat
      BY <2>4, RangeOfLayers
    <2> QED BY <2>3, <2>5 DEF Measured
  <1>4. b < NumLayers => Over(b)
    BY <1>2, LayersAssumption
  <1>5. IsBoundary(m, b) /\ b \in 0 .. NumLayers
    BY <1>2, <1>3, <1>4 DEF IsBoundary
  <1>6. Boundary(m) = CHOOSE c \in 0 .. NumLayers : IsBoundary(m, c)
    BY DEF Boundary, IsBoundary
  <1> QED BY <1>5, <1>6

\* What a boundary leaves on each GPU, which is the whole text together.
LEMMA LoadTypes ==
  ASSUME NEW m, Measured(m), NEW b \in 0 .. NumLayers
  PROVE  /\ Load(m.bytes, 0 .. b - 1) \in Nat /\ Load(m.bytes, b .. NumLayers - 1) \in Nat
         /\ Here(m, b) \in Nat
         /\ Text(m) = Here(m, b) + Load(m.bytes, b .. NumLayers - 1) /\ Text(m) \in Nat
  <1>1. 0 .. b - 1 \subseteq Layers /\ b .. NumLayers - 1 \subseteq Layers
    BY LoadAt
  <1>2. Load(m.bytes, 0 .. b - 1) \in Nat /\ Load(m.bytes, b .. NumLayers - 1) \in Nat
    BY <1>1, RangeOfLayers
  <1>3. Load(m.bytes, Layers) = Load(m.bytes, 0 .. b - 1) + Load(m.bytes, b .. NumLayers - 1)
    BY LoadAt
  <1> QED BY <1>2, <1>3 DEF Text, Here, Measured

\* What a primary GPU is left with fits, if anything does.
LEMMA BoundaryFits ==
  ASSUME NEW m, Measured(m), m.common <= m.primary
  PROVE  Here(m, Boundary(m)) <= m.primary
  <1> DEFINE b == Boundary(m)
  <1>1. b \in 0 .. NumLayers /\ IsBoundary(m, b)
    BY BoundaryExists
  <1> HIDE DEF b
  <1>2. CASE b = 0
    <2>1. 0 .. b - 1 = {}
      BY <1>2
    <2>3. Load(m.bytes, 0 .. b - 1) = 0
      BY <2>1, LoadNothing
    <2>2. Here(m, b) = m.common
      BY <2>3 DEF Here, Measured
    <2> QED BY <2>2 DEF b
  <1>3. CASE b # 0
    <2>1. b - 1 \in 0 .. b - 1
      BY <1>1, <1>3, LayersAssumption
    <2> QED BY <1>1, <2>1 DEF IsBoundary, Here, b
  <1> QED BY <1>2, <1>3

\* More layers take more.
LEMMA LoadGrows ==
  ASSUME NEW m, Measured(m), NEW b \in 0 .. NumLayers, NEW c \in 0 .. NumLayers, b <= c
  PROVE  /\ Here(m, b) <= Here(m, c)
         /\ Load(m.bytes, c .. NumLayers - 1) <= Load(m.bytes, b .. NumLayers - 1)
  <1>1. 0 .. b - 1 \subseteq 0 .. c - 1 /\ c .. NumLayers - 1 \subseteq b .. NumLayers - 1
    BY LayersAssumption
  <1>2. 0 .. c - 1 \subseteq Layers /\ b .. NumLayers - 1 \subseteq Layers
    BY LoadAt
  <1>3. Load(m.bytes, 0 .. b - 1) <= Load(m.bytes, 0 .. c - 1)
    BY <1>1, <1>2, LoadPart
  <1>4. Load(m.bytes, c .. NumLayers - 1) <= Load(m.bytes, b .. NumLayers - 1)
    BY <1>1, <1>2, LoadPart
  <1>5. Load(m.bytes, 0 .. b - 1) \in Nat /\ Load(m.bytes, 0 .. c - 1) \in Nat
    BY LoadTypes
  <1> QED BY <1>3, <1>4, <1>5 DEF Here, Measured

\* No boundary is further than the one the loop finds.
LEMMA BoundaryIsLast ==
  ASSUME NEW m, Measured(m), NEW b \in 0 .. NumLayers, Here(m, b) <= m.primary
  PROVE  b <= Boundary(m)
  <1>1. Boundary(m) \in 0 .. NumLayers /\ IsBoundary(m, Boundary(m))
    BY BoundaryExists
  <1> SUFFICES ASSUME Boundary(m) < b PROVE FALSE
    BY <1>1
  <1> DEFINE c == Boundary(m) + 1
  <1>2. c \in 0 .. NumLayers /\ c <= b /\ 0 .. c - 1 = 0 .. Boundary(m) /\ Boundary(m) < NumLayers
    BY <1>1, LayersAssumption
  <1>3. Here(m, c) <= Here(m, b)
    BY <1>2, LoadGrows
  <1>4. Here(m, c) > m.primary
    BY <1>1, <1>2 DEF IsBoundary, Here
  <1>5. Here(m, c) \in Nat /\ Here(m, b) \in Nat
    BY <1>2, LoadTypes
  <1> HIDE DEF c
  <1> QED BY <1>3, <1>4, <1>5 DEF Measured

(* The greedy split is made exactly when some split in order exists.        *)
LEMMA GreedyIsBest ==
  ASSUME NEW m, Measured(m), NEW budget \in Int
  PROVE  Splits(m, budget) <=>
           /\ m.splits /\ Text(m) > m.primary
           /\ \E b \in 0 .. NumLayers : Here(m, b) <= m.primary /\ Load(m.bytes, b .. NumLayers - 1) <= budget
  <1> DEFINE B == Boundary(m)
             Rest(b) == Load(m.bytes, b .. NumLayers - 1)
  <1>1. B \in 0 .. NumLayers /\ IsBoundary(m, B)
    BY BoundaryExists
  <1>2. Splits(m, budget) <=> m.splits /\ m.common <= m.primary /\ Rest(B) <= budget /\ B < NumLayers
    <2> DEFINE made == [boundary |-> B, primary |-> m.common + Load(m.bytes, 0 .. B - 1), secondary |-> Rest(B)]
    <2>1. made # NoPlan
      BY <1>1 DEF NoPlan
    <2>2. SplitPlan(m, budget) = IF m.common > m.primary \/ Rest(B) > budget THEN NoPlan ELSE made
      BY DEF SplitPlan
    <2>3. Rest(B) \in Nat /\ m.common \in Nat /\ m.primary \in Nat
      BY <1>1, LoadTypes DEF Measured
    <2>4. SplitPlan(m, budget) # NoPlan <=> m.common <= m.primary /\ Rest(B) <= budget
      BY <2>1, <2>2, <2>3
    <2>5. SplitPlan(m, budget) # NoPlan => SplitPlan(m, budget).boundary = B
      BY <2>2
    <2> QED BY <2>4, <2>5 DEF Splits
  <1>3. Text(m) \in Nat /\ m.primary \in Nat /\ m.common \in Nat
    BY <1>1, LoadTypes DEF Measured
  <1>4. ASSUME Splits(m, budget)
        PROVE  m.splits /\ Text(m) > m.primary /\ Here(m, B) <= m.primary /\ Rest(B) <= budget
    <2>1. Here(m, B) <= m.primary
      BY <1>2, <1>4, BoundaryFits
    <2>2. ~(Text(m) <= m.primary)
      <3> SUFFICES ASSUME Text(m) <= m.primary PROVE FALSE
        OBVIOUS
      <3>1. NumLayers \in 0 .. NumLayers /\ NumLayers .. NumLayers - 1 = {}
        BY LayersAssumption
      <3>2. Text(m) = Here(m, NumLayers)
        <4>1. Text(m) = Here(m, NumLayers) + Rest(NumLayers) /\ Here(m, NumLayers) \in Nat
          BY <3>1, LoadTypes
        <4>2. Rest(NumLayers) = 0
          BY <3>1, LoadNothing
        <4> QED BY <4>1, <4>2
      <3>3. NumLayers <= B
        BY <3>1, <3>2, BoundaryIsLast
      <3> QED BY <3>3, <1>1, <1>2, <1>4, LayersAssumption
    <2> QED BY <2>1, <2>2, <1>2, <1>3, <1>4
  <1>5. ASSUME m.splits, Text(m) > m.primary,
               NEW b \in 0 .. NumLayers, Here(m, b) <= m.primary, Rest(b) <= budget
        PROVE  Splits(m, budget)
    <2>1. b <= B
      BY <1>5, BoundaryIsLast
    <2>2. Rest(B) <= Rest(b) /\ Rest(B) \in Nat /\ Rest(b) \in Nat
      BY <1>1, <2>1, LoadGrows, LoadTypes
    <2>3. m.common <= m.primary
      BY <1>3, <1>5, LoadTypes DEF Here
    <2>4. B < NumLayers
      <3> SUFFICES ASSUME B = NumLayers PROVE FALSE
        BY <1>1, LayersAssumption
      <3>1. Here(m, B) <= m.primary
        BY <2>3, BoundaryFits
      <3>2. B .. NumLayers - 1 = {}
        BY LayersAssumption
      <3>3. Rest(B) = 0
        BY <3>2, LoadNothing
      <3>4. Text(m) = Here(m, B) + Rest(B) /\ Here(m, B) \in Nat
        BY <1>1, LoadTypes
      <3> QED BY <1>3, <1>5, <3>1, <3>3, <3>4
    <2>5. Rest(B) <= budget
      <3> HIDE DEF Rest, B
      <3> QED BY <1>5, <2>2
    <2> QED BY <1>2, <1>5, <2>3, <2>4, <2>5
  <1> QED BY <1>1, <1>4, <1>5

-----------------------------------------------------------------------------
(* The placement.                                                           *)

\* The text fits, with so much more in the secondary GPU.
LEMMA OpenMeans ==
  ASSUME NEW m, Measured(m), NEW more \in Nat
  PROVE  (\E b \in 0 .. NumLayers : TextFits(m, b, more)) <=>
           \/ Text(m) <= m.primary /\ more <= m.secondary
           \/ Splits(m, m.secondary - more)
  <1> DEFINE Rest(b) == Load(m.bytes, b .. NumLayers - 1)
  <1>1. m.secondary - more \in Int /\ m.secondary \in Nat /\ m.primary \in Nat
    BY DEF Measured
  <1>2. NumLayers \in 0 .. NumLayers /\ Rest(NumLayers) = 0 /\ Here(m, NumLayers) = Text(m)
    <2>1. NumLayers \in 0 .. NumLayers /\ NumLayers .. NumLayers - 1 = {}
      BY LayersAssumption
    <2>2. Rest(NumLayers) = 0
      BY <2>1, LoadNothing
    <2>3. Text(m) = Here(m, NumLayers) + Rest(NumLayers) /\ Here(m, NumLayers) \in Nat
      BY <2>1, LoadTypes
    <2> QED BY <2>1, <2>2, <2>3
  <1>3. \A b \in 0 .. NumLayers :
          /\ Rest(b) \in Nat /\ Here(m, b) \in Nat
          /\ TextFits(m, b, more) <=> Here(m, b) <= m.primary /\ Rest(b) + more <= m.secondary
                                      /\ (b < NumLayers => m.splits)
    BY LoadTypes DEF TextFits, Here
  <1>4. Text(m) \in Nat
    BY <1>2, LoadTypes
  <1>5. Splits(m, m.secondary - more) <=>
           /\ m.splits /\ Text(m) > m.primary
           /\ \E b \in 0 .. NumLayers : Here(m, b) <= m.primary /\ Rest(b) <= m.secondary - more
    BY <1>1, GreedyIsBest
  <1> HIDE DEF Rest
  <1>6. ASSUME NEW b \in 0 .. NumLayers, TextFits(m, b, more), ~(Text(m) <= m.primary /\ more <= m.secondary)
        PROVE  Splits(m, m.secondary - more)
    <2>1. Rest(b) <= m.secondary - more /\ more <= m.secondary /\ Here(m, b) <= m.primary
      BY <1>1, <1>3, <1>6
    <2>2. Text(m) > m.primary
      BY <1>1, <1>4, <1>6, <2>1
    <2>3. b < NumLayers
      BY <1>1, <1>2, <1>4, <2>1, <2>2, LayersAssumption
    <2>4. m.splits
      BY <1>3, <1>6, <2>3
    <2> QED BY <1>5, <2>1, <2>2, <2>4
  <1>7. ASSUME Text(m) <= m.primary, more <= m.secondary
        PROVE  TextFits(m, NumLayers, more)
    BY <1>1, <1>2, <1>3, <1>7
  <1>8. ASSUME Splits(m, m.secondary - more)
        PROVE  \E b \in 0 .. NumLayers : TextFits(m, b, more)
    <2>1. PICK b \in 0 .. NumLayers : Here(m, b) <= m.primary /\ Rest(b) <= m.secondary - more
      BY <1>5, <1>8
    <2>2. m.splits
      BY <1>5, <1>8
    <2>3. Rest(b) + more <= m.secondary
      BY <1>1, <1>3, <2>1
    <2> QED BY <1>3, <2>1, <2>2, <2>3
  <1> QED BY <1>2, <1>6, <1>7, <1>8

\* Whether the tower has a place.
LEMMA SeeMeans ==
  ASSUME NEW m, Measured(m), m.vision # 0
  PROVE  CanSee(m) <=> Together(m) \/ TowerApart(m) \/ SplitWithTower(m)
  <1>1. Text(m) \in Nat
    <2>1. 0 \in 0 .. NumLayers
      BY LayersAssumption
    <2> QED BY <2>1, LoadTypes
  <1>2. m.vision \in Nat /\ m.primary \in Nat /\ m.secondary \in Nat
    BY DEF Measured
  <1>3. CanSee(m) <=>
          \/ Text(m) + m.vision <= m.primary
          \/ Text(m) <= m.primary /\ m.vision <= m.secondary
          \/ Splits(m, m.secondary - m.vision)
    BY <1>2, OpenMeans DEF CanSee
  <1>4. Together(m) <=> Text(m) + m.vision <= m.primary
    BY <1>1, <1>2 DEF Together
  <1>5. TowerApart(m) <=> Text(m) <= m.primary /\ m.vision <= m.secondary
    BY DEF TowerApart
  <1>6. Splits(m, m.secondary - m.vision) => m.vision <= m.secondary
    <2> SUFFICES ASSUME Splits(m, m.secondary - m.vision) PROVE m.vision <= m.secondary
      OBVIOUS
    <2>1. m.secondary - m.vision \in Int
      BY <1>2
    <2>2. PICK b \in 0 .. NumLayers : Load(m.bytes, b .. NumLayers - 1) <= m.secondary - m.vision
      BY <2>1, GreedyIsBest
    <2>3. Load(m.bytes, b .. NumLayers - 1) \in Nat
      BY LoadTypes
    <2> QED BY <1>2, <2>2, <2>3
  <1>7. SplitWithTower(m) <=> Splits(m, m.secondary - m.vision)
    BY <1>6 DEF SplitWithTower, TowerBudget
  <1> QED BY <1>3, <1>4, <1>5, <1>7

\* What the model is told of its placement.
Best(m, placed) ==
  /\ placed.fit # "nofit" <=> CanOpen(m)
  /\ placed.fit # "nofit" => (placed.vision # "none" <=> m.vision # 0 /\ CanSee(m))
  /\ placed.fit = "split" => Text(m) > m.primary

(* The plan is the best: it finds a placement when there is one, keeps the  *)
(* tower when it has a place, and splits only a text that does not fit.     *)
THEOREM PlanIsBest ==
  ASSUME NEW m, Measured(m)
  PROVE  Best(m, plan_gemma4_placement(m))
  <1> DEFINE placed == plan_gemma4_placement(m)
             WithTower == Split(m, SplitPlan(m, TowerBudget(m)), "secondary", FALSE)
             TextOnly == Split(m, SplitPlan(m, m.secondary), "none", m.vision # 0)
  <1> SUFFICES Best(m, placed)
    OBVIOUS
  <1>1. Text(m) \in Nat /\ m.vision \in Nat /\ m.primary \in Nat /\ m.secondary \in Nat
    <2>1. 0 \in 0 .. NumLayers
      BY LayersAssumption
    <2> QED BY <2>1, LoadTypes DEF Measured
  <1>2. WithTower.fit = "split" /\ WithTower.vision = "secondary" /\ TextOnly.fit = "split" /\ TextOnly.vision = "none"
    BY DEF Split, Result
  <1>3. CanOpen(m) <=> Text(m) <= m.primary \/ Splits(m, m.secondary)
    <2>1. m.secondary - 0 = m.secondary /\ 0 <= m.secondary /\ 0 \in Nat
      BY <1>1
    <2> QED BY <2>1, OpenMeans DEF CanOpen
  <1>4. \A budget \in Int : Splits(m, budget) => Text(m) > m.primary
    BY GreedyIsBest
  <1>5. SplitWithTower(m) => Text(m) > m.primary /\ CanOpen(m)
    <2> SUFFICES ASSUME SplitWithTower(m) PROVE Text(m) > m.primary /\ CanOpen(m)
      OBVIOUS
    <2>1. Splits(m, m.secondary - m.vision) /\ m.secondary - m.vision \in Int
      BY <1>1 DEF SplitWithTower, TowerBudget
    <2>2. PICK b \in 0 .. NumLayers : TextFits(m, b, m.vision)
      BY <1>1, <2>1, OpenMeans
    <2>3. Load(m.bytes, b .. NumLayers - 1) \in Nat
      BY LoadTypes
    <2>4. TextFits(m, b, 0)
      BY <1>1, <2>2, <2>3 DEF TextFits
    <2> QED BY <1>4, <2>1, <2>4 DEF CanOpen
  <1>6. CASE Together(m)
    <2>1. placed = Result("single", 0, IF m.vision = 0 THEN "none" ELSE "primary", FALSE, Text(m) + m.vision, 0)
      BY <1>6 DEF plan_gemma4_placement
    <2>2. placed.fit = "single" /\ placed.vision = IF m.vision = 0 THEN "none" ELSE "primary"
      BY <2>1 DEF Result
    <2>3. Text(m) <= m.primary
      BY <1>6 DEF Together
    <2> HIDE DEF placed
    <2> QED BY <1>3, <1>6, <2>2, <2>3, SeeMeans DEF Best
  <1>7. CASE ~Together(m) /\ TowerApart(m)
    <2>1. placed = Result("single", 0, "secondary", FALSE, Text(m), m.vision)
      BY <1>7 DEF plan_gemma4_placement
    <2>2. placed.fit = "single" /\ placed.vision = "secondary" /\ m.vision # 0 /\ Text(m) <= m.primary
      BY <2>1, <1>7 DEF Result, TowerApart
    <2> HIDE DEF placed
    <2> QED BY <1>3, <1>7, <2>2, SeeMeans DEF Best
  <1>8. CASE ~Together(m) /\ ~TowerApart(m) /\ SplitWithTower(m)
    <2>1. placed = WithTower
      BY <1>8 DEF plan_gemma4_placement
    <2>2. placed.fit = "split" /\ placed.vision = "secondary" /\ m.vision # 0
      BY <1>2, <1>8, <2>1 DEF SplitWithTower
    <2> HIDE DEF placed
    <2> QED BY <1>5, <1>8, <2>2, SeeMeans DEF Best
  <1>9. CASE ~Together(m) /\ ~TowerApart(m) /\ ~SplitWithTower(m)
    <2>0. m.vision # 0 => ~CanSee(m)
      BY <1>9, SeeMeans
    <2>1. CASE Text(m) <= m.primary
      <3>1. placed = Result("single", 0, "none", m.vision # 0, Text(m), 0)
        BY <1>9, <2>1 DEF plan_gemma4_placement
      <3>2. placed.fit = "single" /\ placed.vision = "none"
        BY <3>1 DEF Result
      <3> HIDE DEF placed
      <3> QED BY <1>3, <2>0, <2>1, <3>2 DEF Best
    <2>2. CASE ~(Text(m) <= m.primary) /\ Splits(m, m.secondary)
      <3>1. placed = TextOnly
        BY <1>9, <2>2 DEF plan_gemma4_placement
      <3>2. placed.fit = "split" /\ placed.vision = "none"
        BY <1>2, <3>1
      <3> HIDE DEF placed
      <3> QED BY <1>1, <1>3, <2>0, <2>2, <3>2 DEF Best
    <2>3. CASE ~(Text(m) <= m.primary) /\ ~Splits(m, m.secondary)
      <3>1. placed = Result("nofit", 0, "none", m.vision # 0, 0, 0)
        BY <1>9, <2>3 DEF plan_gemma4_placement
      <3>2. placed.fit = "nofit"
        BY <3>1 DEF Result
      <3> HIDE DEF placed
      <3> QED BY <1>3, <2>3, <3>2 DEF Best
    <2> QED BY <2>1, <2>2, <2>3
  <1> QED BY <1>6, <1>7, <1>8, <1>9

\* What the plan says each GPU will hold is what its part of the model takes.
TowerOn(m, placed, gpu) == IF placed.vision = gpu THEN m.vision ELSE 0

Accounted(m, placed) ==
  /\ placed.fit \in {"single", "split", "nofit"}
  /\ placed.fit = "single" =>
       /\ placed.primary = Text(m) + TowerOn(m, placed, "primary")
       /\ placed.secondary = TowerOn(m, placed, "secondary")
  /\ placed.fit = "split" =>
       /\ placed.boundary \in 0 .. NumLayers
       /\ placed.primary = Here(m, placed.boundary) + TowerOn(m, placed, "primary")
       /\ placed.secondary = Load(m.bytes, placed.boundary .. NumLayers - 1) + TowerOn(m, placed, "secondary")
  /\ placed.fit # "nofit" => placed.primary <= m.primary /\ placed.secondary <= m.secondary

\* A split leaves in each GPU no more than its memory.
LEMMA SplitFits ==
  ASSUME NEW m, Measured(m), NEW budget \in Int, Splits(m, budget)
  PROVE  LET b == Boundary(m)
         IN  /\ b \in 0 .. NumLayers
             /\ SplitPlan(m, budget) = [boundary |-> b, primary |-> Here(m, b),
                                        secondary |-> Load(m.bytes, b .. NumLayers - 1)]
             /\ Here(m, b) <= m.primary /\ Load(m.bytes, b .. NumLayers - 1) <= budget
  <1> DEFINE b == Boundary(m)
             rest == Load(m.bytes, b .. NumLayers - 1)
  <1>1. b \in 0 .. NumLayers /\ rest \in Nat /\ m.common \in Nat /\ m.primary \in Nat
    BY BoundaryExists, LoadTypes DEF Measured
  <1>2. ~(m.common > m.primary \/ rest > budget)
    BY DEF Splits, SplitPlan
  <1>3. SplitPlan(m, budget) = [boundary |-> b, primary |-> Here(m, b), secondary |-> rest]
    BY <1>2 DEF SplitPlan, Here
  <1>4. m.common <= m.primary /\ rest <= budget
    <2> HIDE DEF b, rest
    <2> QED BY <1>1, <1>2
  <1>5. Here(m, b) <= m.primary
    BY <1>4, BoundaryFits
  <1> QED BY <1>1, <1>3, <1>4, <1>5

(* The plan is made with what is loaded by it, and fits.                    *)
THEOREM PlanIsAccounted ==
  ASSUME NEW m, Measured(m)
  PROVE  Accounted(m, plan_gemma4_placement(m))
  <1> DEFINE placed == plan_gemma4_placement(m)
             b == Boundary(m)
             rest == Load(m.bytes, b .. NumLayers - 1)
             WithTower == Split(m, SplitPlan(m, TowerBudget(m)), "secondary", FALSE)
             TextOnly == Split(m, SplitPlan(m, m.secondary), "none", m.vision # 0)
  <1> SUFFICES Accounted(m, placed)
    OBVIOUS
  <1>1. /\ Text(m) \in Nat /\ m.vision \in Nat /\ m.primary \in Nat /\ m.secondary \in Nat
        /\ b \in 0 .. NumLayers /\ Here(m, b) \in Nat /\ rest \in Nat
    <2>1. b \in 0 .. NumLayers
      BY BoundaryExists
    <2> HIDE DEF b
    <2> QED BY <2>1, LoadTypes DEF Measured
  <1>6. CASE Together(m)
    <2>1. placed = Result("single", 0, IF m.vision = 0 THEN "none" ELSE "primary", FALSE, Text(m) + m.vision, 0)
      BY <1>6 DEF plan_gemma4_placement
    <2>2. /\ placed.fit = "single" /\ placed.vision = IF m.vision = 0 THEN "none" ELSE "primary"
          /\ placed.primary = Text(m) + m.vision /\ placed.secondary = 0
      BY <2>1 DEF Result
    <2>3. TowerOn(m, placed, "primary") = m.vision /\ TowerOn(m, placed, "secondary") = 0
      <3> HIDE DEF placed
      <3> QED BY <1>1, <2>2 DEF TowerOn
    <2>4. Text(m) + m.vision <= m.primary
      BY <1>1, <1>6 DEF Together
    <2> HIDE DEF placed
    <2> QED BY <1>1, <2>2, <2>3, <2>4 DEF Accounted
  <1>7. CASE ~Together(m) /\ TowerApart(m)
    <2>1. placed = Result("single", 0, "secondary", FALSE, Text(m), m.vision)
      BY <1>7 DEF plan_gemma4_placement
    <2>2. placed.fit = "single" /\ placed.vision = "secondary" /\ placed.primary = Text(m) /\ placed.secondary = m.vision
      BY <2>1 DEF Result
    <2>3. Text(m) <= m.primary /\ m.vision <= m.secondary
      BY <1>7 DEF TowerApart
    <2> HIDE DEF placed
    <2> QED BY <1>1, <2>2, <2>3 DEF Accounted, TowerOn
  <1>8. CASE ~Together(m) /\ ~TowerApart(m) /\ SplitWithTower(m)
    <2>1. placed = WithTower
      BY <1>8 DEF plan_gemma4_placement
    <2>2. Splits(m, m.secondary - m.vision) /\ m.secondary - m.vision \in Int /\ TowerBudget(m) = m.secondary - m.vision
      BY <1>1, <1>8 DEF SplitWithTower, TowerBudget
    <2>3. /\ SplitPlan(m, TowerBudget(m)) = [boundary |-> b, primary |-> Here(m, b), secondary |-> rest]
          /\ Here(m, b) <= m.primary /\ rest <= m.secondary - m.vision
      BY <2>2, SplitFits
    <2>4. placed = Result("split", b, "secondary", FALSE, Here(m, b), rest + m.vision)
      <3> HIDE DEF placed, b, rest
      <3> QED BY <2>1, <2>3 DEF Split
    <2> HIDE DEF placed, b, rest
    <2>5. /\ placed.fit = "split" /\ placed.vision = "secondary" /\ placed.boundary = b
          /\ placed.primary = Here(m, b) /\ placed.secondary = rest + m.vision
      BY <2>4 DEF Result
    <2>6. TowerOn(m, placed, "primary") = 0 /\ TowerOn(m, placed, "secondary") = m.vision
      BY <2>5 DEF TowerOn
    <2>7. rest = Load(m.bytes, placed.boundary .. NumLayers - 1)
      BY <2>5 DEF rest
    <2> QED BY <1>1, <2>3, <2>5, <2>6, <2>7 DEF Accounted
  <1>9. CASE ~Together(m) /\ ~TowerApart(m) /\ ~SplitWithTower(m)
    <2>1. CASE Text(m) <= m.primary
      <3>1. placed = Result("single", 0, "none", m.vision # 0, Text(m), 0)
        BY <1>9, <2>1 DEF plan_gemma4_placement
      <3>2. placed.fit = "single" /\ placed.vision = "none" /\ placed.primary = Text(m) /\ placed.secondary = 0
        BY <3>1 DEF Result
      <3> HIDE DEF placed
      <3> QED BY <1>1, <2>1, <3>2 DEF Accounted, TowerOn
    <2>2. CASE ~(Text(m) <= m.primary) /\ Splits(m, m.secondary)
      <3>1. placed = TextOnly
        BY <1>9, <2>2 DEF plan_gemma4_placement
      <3>2. /\ SplitPlan(m, m.secondary) = [boundary |-> b, primary |-> Here(m, b), secondary |-> rest]
            /\ Here(m, b) <= m.primary /\ rest <= m.secondary
        BY <1>1, <2>2, SplitFits
      <3>3. placed = Result("split", b, "none", m.vision # 0, Here(m, b), rest + 0)
        <4> HIDE DEF placed, b, rest
        <4> QED BY <3>1, <3>2 DEF Split
      <3> HIDE DEF placed, b, rest
      <3>4. /\ placed.fit = "split" /\ placed.vision = "none" /\ placed.boundary = b
            /\ placed.primary = Here(m, b) /\ placed.secondary = rest + 0
        BY <3>3 DEF Result
      <3>5. TowerOn(m, placed, "primary") = 0 /\ TowerOn(m, placed, "secondary") = 0
        BY <3>4 DEF TowerOn
      <3>6. rest = Load(m.bytes, placed.boundary .. NumLayers - 1)
        BY <3>4 DEF rest
      <3> QED BY <1>1, <3>2, <3>4, <3>5, <3>6 DEF Accounted
    <2>3. CASE ~(Text(m) <= m.primary) /\ ~Splits(m, m.secondary)
      <3>1. placed = Result("nofit", 0, "none", m.vision # 0, 0, 0)
        BY <1>9, <2>3 DEF plan_gemma4_placement
      <3>2. placed.fit = "nofit"
        BY <3>1 DEF Result
      <3> HIDE DEF placed
      <3> QED BY <3>2 DEF Accounted
    <2> QED BY <2>1, <2>2, <2>3
  <1> QED BY <1>6, <1>7, <1>8, <1>9
-----------------------------------------------------------------------------
(* Opening and attaching: the invariant.                                    *)

States == {"none", "primary", "secondary", "attached", "refused", "closing", "gone"}
Live(s) == session[s].state # "none"

Typed ==
  /\ model \in Models
  /\ stage \in {"plan", "secondary", "primary", "tower", "open", "closed"}
  /\ loaded \in [Gpus -> SUBSET Tensors]
  /\ sesiones \in Nat
  /\ session \in [Sessions -> [state : States, prefix : Nat \cup {NoOwner}, short : BOOLEAN]]
  /\ memory \subseteq Nat \X Gpus
  /\ DOMAIN kvViews \subseteq [engine : Gpus, prefix : Nat, layer : Layers]

\* The plan is made once, and a model that is loaded has a place.
Planned ==
  /\ plan = IF stage = "plan" THEN NotYet ELSE plan_gemma4_placement(model)
  /\ stage = "secondary" => IsSplit
  /\ stage \in {"primary", "tower", "open"} => plan.fit # "nofit"

\* What each engine has once it was loaded.
Part(e) == IF e = "primary" THEN Hosted(e) \cup {Common} ELSE Hosted(e)

PartsLoaded ==
  /\ stage \in {"plan", "secondary"} => loaded["secondary"] = {}
  /\ stage \in {"primary", "tower", "open"} => loaded["secondary"] = Part("secondary")
  /\ stage \in {"tower", "open"} => loaded["primary"] = Part("primary")
  /\ stage = "open" => tower = plan.vision

\* Sessions are attached to an open model, under prefixes of their own.
PrefixesDiffer ==
  \A s \in Sessions : Live(s) =>
    /\ stage = "open"
    /\ session[s].prefix \in 0 .. sesiones - 1
    /\ \A t \in Sessions : Live(t) /\ t # s => session[t].prefix # session[s].prefix

\* While any other session is there, the one whose rings it may use is attached.
DefaultStays == \A s \in Sessions \ {Default} : Live(s) => session[Default].state = "attached"

\* The session has its KV on this engine.
Done(s, e) ==
  \/ session[s].state = "secondary" /\ e = "primary"
  \/ session[s].state = "attached" /\ (e = "primary" \/ IsSplit)

KvComplete ==
  \A s \in Sessions, e \in Gpus : Done(s, e) =>
    /\ <<session[s].prefix, e>> \in memory
    /\ Views(s, e) \subseteq DOMAIN kvViews
    /\ Hosted(e) # {}

\* A view is of a session that is not gone, on an engine it has reached.
OwnedBy(v, s) ==
  /\ session[s].prefix = v.prefix
  /\ session[s].state \in {"secondary", "attached", "refused", "closing"}
  /\ session[s].state = "secondary" => v.engine = "primary"
  /\ v.layer \in Hosted(v.engine)
  /\ kvViews[v] = MemoryOf(s, v.engine, v.layer)

ViewsOwned == \A v \in DOMAIN kvViews : \E s \in Sessions : OwnedBy(v, s)

SessionsInv ==
  /\ Typed /\ Planned /\ PartsLoaded
  /\ PrefixesDiffer /\ DefaultStays
  /\ KvComplete /\ ViewsOwned /\ ViewsPointToLiveKv
-----------------------------------------------------------------------------
(* Lemmas about the state.                                                  *)

\* A session that has views is not the one whose prefix another one has.
LEMMA OwnersAreLive ==
  ASSUME PrefixesDiffer, NEW s \in Sessions, Live(s), NEW t \in Sessions, Live(t),
         session[s].prefix = session[t].prefix
  PROVE  s = t
  BY DEF PrefixesDiffer

\* The boundary of a split is among the layers.
LEMMA BoundaryType ==
  ASSUME Typed, Planned, IsSplit
  PROVE  plan.boundary \in 0 .. NumLayers
  <1>1. Measured(model)
    BY ModelsAssumption DEF Typed
  <1>2. plan = plan_gemma4_placement(model)
    BY DEF Planned, IsSplit, NotYet, Result
  <1> QED BY <1>1, <1>2, PlanIsAccounted DEF Accounted, IsSplit

\* A layer is hosted by the engine where its views are looked for, and no other.
LEMMA HostedWhereOwned ==
  ASSUME Typed, Planned, NEW e \in Gpus
  PROVE  /\ Hosted(e) \subseteq Layers
         /\ \A i \in Layers : i \in Hosted(e) <=> e = OwnerOf(i)
  <1>1. CASE IsSplit
    BY <1>1, BoundaryType, LayersAssumption DEF Hosted, OwnerOf, Gpus, Layers
  <1>2. CASE ~IsSplit
    BY <1>2 DEF Hosted, OwnerOf, Gpus
  <1> QED BY <1>1, <1>2

\* A view keeps its owner when what the owner's KV depends on stays.
LEMMA KeepsOwner ==
  ASSUME NEW v, NEW t \in Sessions, OwnedBy(v, t), UNCHANGED <<model, plan>>,
         session'[t].prefix = session[t].prefix, session'[t].short = session[t].short,
         t # Default => session'[Default].prefix = session[Default].prefix,
         kvViews'[v] = kvViews[v],
         session'[t].state \in {"secondary", "attached", "refused", "closing"},
         session'[t].state = "secondary" => v.engine = "primary"
  PROVE  OwnedBy(v, t)'
  <1>1. v.layer \in Hosted(v.engine)'
    BY DEF OwnedBy, Hosted, IsSplit
  <1>2. Borrows(t, v.engine, v.layer)' = Borrows(t, v.engine, v.layer)
    BY DEF Borrows, Source, FirstShared
  <1>3. MemoryOf(t, v.engine, v.layer)' = MemoryOf(t, v.engine, v.layer)
    BY <1>2 DEF MemoryOf, Borrows
  <1> QED BY <1>1, <1>3 DEF OwnedBy

\* What an attached session has on an engine is not lost when it changes nothing of it.
LEMMA KeepsKv ==
  ASSUME NEW s \in Sessions, NEW e \in Gpus, UNCHANGED plan,
         session'[s].prefix = session[s].prefix,
         <<session[s].prefix, e>> \in memory',
         Views(s, e) \subseteq DOMAIN kvViews', Hosted(e) # {}
  PROVE  /\ <<session[s].prefix, e>>' \in memory'
         /\ Views(s, e)' \subseteq DOMAIN kvViews'
         /\ Hosted(e)' # {}
  BY DEF Views, View, Hosted, IsSplit

\* Before a model is open nothing is attached to it.
LEMMA NothingYet ==
  ASSUME SessionsInv, stage # "open"
  PROVE  (\A s \in Sessions : ~Live(s)) /\ DOMAIN kvViews = {}
  <1>1. \A s \in Sessions : ~Live(s)
    BY DEF SessionsInv, PrefixesDiffer
  <1>2. ASSUME NEW v \in DOMAIN kvViews PROVE FALSE
    BY <1>1 DEF SessionsInv, ViewsOwned, OwnedBy, Live
  <1> QED BY <1>1, <1>2

-----------------------------------------------------------------------------
(* Model::load: nothing is attached before it ends.                         *)

\* Loading does nothing to the sessions, and there are none.
LEMMA LoadingKeepsKv ==
  ASSUME SessionsInv, stage # "open", UNCHANGED kv, Typed'
  PROVE  /\ PrefixesDiffer' /\ DefaultStays' /\ KvComplete'
         /\ ViewsOwned' /\ ViewsPointToLiveKv'
  <1>1. (\A s \in Sessions : session[s].state = "none") /\ DOMAIN kvViews = {}
    BY NothingYet DEF Live
  <1>2. (\A s \in Sessions : session'[s].state = "none") /\ DOMAIN kvViews' = {}
    BY <1>1 DEF kv
  <1> QED BY <1>2 DEF PrefixesDiffer, DefaultStays, KvComplete, Done, ViewsOwned,
                      ViewsPointToLiveKv, Live

\* Making the plan.
LEMMA PlanKeeps ==
  ASSUME SessionsInv, Plan
  PROVE  SessionsInv'
  <1>1. Measured(model)
    BY ModelsAssumption DEF SessionsInv, Typed
  <1>2. plan'.fit \in {"single", "split", "nofit"} /\ plan' = plan_gemma4_placement(model)
    BY <1>1, PlanIsAccounted DEF Plan, Accounted
  <1>3. stage' = IF plan'.fit = "nofit" THEN "closed" ELSE IF plan'.fit = "split" THEN "secondary" ELSE "primary"
    BY DEF Plan
  <1>4. Typed'
    BY <1>3 DEF Plan, SessionsInv, Typed, kv
  <1>5. Planned'
    <2>1. model' = model /\ stage' # "plan"
      BY <1>3 DEF Plan
    <2> QED BY <1>2, <1>3, <2>1 DEF Planned, IsSplit
  <1>6. PartsLoaded'
    <2>1. loaded' = loaded /\ loaded["secondary"] = {} /\ stage' \notin {"tower", "open"}
      BY <1>3 DEF Plan, SessionsInv, PartsLoaded
    <2>2. stage' = "primary" => Part("secondary")' = {}
      BY <1>3 DEF Part, Hosted, IsSplit
    <2> QED BY <1>3, <2>1, <2>2 DEF PartsLoaded
  <1>7. stage # "open" /\ UNCHANGED kv
    BY DEF Plan
  <1> QED BY <1>4, <1>5, <1>6, <1>7, LoadingKeepsKv DEF SessionsInv

\* What an engine is given is its part of the model.
LEMMA SpanIsPart ==
  ASSUME Typed, Planned
  PROVE  /\ IsSplit => {t \in Tensors : InSpan(t, plan.boundary, NumLayers, FALSE)} = Part("secondary")
         /\ (IF IsSplit THEN {t \in Tensors : InSpan(t, 0, plan.boundary, TRUE)} ELSE Tensors) = Part("primary")
         /\ ~IsSplit => Part("secondary") = {}
  <1>1. CASE IsSplit
    <2>1. plan.boundary \in 0 .. NumLayers /\ NumLayers \in Nat
      BY <1>1, BoundaryType, LayersAssumption
    <2>2. \A t \in Layers : t # Common
      BY LayersAssumption DEF Common, Layers
    <2>3. {t \in Tensors : InSpan(t, plan.boundary, NumLayers, FALSE)} = plan.boundary .. NumLayers - 1
      BY <2>1, <2>2 DEF InSpan, Tensors, Layers
    <2>4. {t \in Tensors : InSpan(t, 0, plan.boundary, TRUE)} = (0 .. plan.boundary - 1) \cup {Common}
      BY <2>1, <2>2 DEF InSpan, Tensors, Layers
    <2> QED BY <1>1, <2>3, <2>4 DEF Part, Hosted
  <1>2. CASE ~IsSplit
    BY <1>2 DEF Part, Hosted, Tensors
  <1> QED BY <1>1, <1>2

\* The secondary engine is loaded first.
LEMMA LoadSecondaryKeeps ==
  ASSUME SessionsInv, LoadSecondary
  PROVE  SessionsInv'
  <1>0. Typed /\ Planned /\ IsSplit /\ stage = "secondary"
    BY DEF SessionsInv, Planned, LoadSecondary
  <1>1. stage' = "primary" /\ UNCHANGED <<model, plan, tower, kv>>
    BY DEF LoadSecondary
  <1>2. loaded' = [loaded EXCEPT !["secondary"] = Part("secondary")] /\ Part("secondary") \subseteq Tensors
    BY <1>0, SpanIsPart DEF LoadSecondary
  <1>3. Typed'
    <2>1. loaded' \in [Gpus -> SUBSET Tensors]
      BY <1>0, <1>2 DEF Typed
    <2> QED BY <1>0, <1>1, <2>1 DEF Typed, kv
  <1>4. Planned'
    BY <1>0, <1>1 DEF Planned, IsSplit
  <1>5. PartsLoaded'
    <2>1. Part("secondary")' = Part("secondary")
      BY <1>1 DEF Part, Hosted, IsSplit
    <2>2. loaded'["secondary"] = Part("secondary")
      BY <1>0, <1>2 DEF Typed, Gpus
    <2> QED BY <1>1, <2>1, <2>2 DEF PartsLoaded
  <1> QED BY <1>0, <1>1, <1>3, <1>4, <1>5, LoadingKeepsKv DEF SessionsInv

\* The primary engine is loaded.
LEMMA LoadPrimaryKeeps ==
  ASSUME SessionsInv, LoadPrimary
  PROVE  SessionsInv'
  <1>0. Typed /\ Planned /\ PartsLoaded /\ stage = "primary"
    BY DEF SessionsInv, LoadPrimary
  <1>1. stage' = "tower" /\ UNCHANGED <<model, plan, tower, kv>>
    BY DEF LoadPrimary
  <1>2. loaded' = [loaded EXCEPT !["primary"] = Part("primary")] /\ Part("primary") \subseteq Tensors
    BY <1>0, SpanIsPart DEF LoadPrimary
  <1>3. Typed'
    <2>1. loaded' \in [Gpus -> SUBSET Tensors]
      BY <1>0, <1>2 DEF Typed
    <2> QED BY <1>0, <1>1, <2>1 DEF Typed, kv
  <1>4. Planned'
    BY <1>0, <1>1 DEF Planned, IsSplit
  <1>5. PartsLoaded'
    <2>1. \A e \in Gpus : Part(e)' = Part(e)
      BY <1>1 DEF Part, Hosted, IsSplit
    <2>2. loaded'["primary"] = Part("primary") /\ loaded'["secondary"] = loaded["secondary"]
      BY <1>0, <1>2 DEF Typed, Gpus
    <2> QED BY <1>0, <1>1, <2>1, <2>2 DEF PartsLoaded, Gpus
  <1> QED BY <1>0, <1>1, <1>3, <1>4, <1>5, LoadingKeepsKv DEF SessionsInv

\* The tower is loaded last, and the model is open.
LEMMA LoadTowerKeeps ==
  ASSUME SessionsInv, LoadTower
  PROVE  SessionsInv'
  <1>0. Typed /\ Planned /\ PartsLoaded /\ stage = "tower"
    BY DEF SessionsInv, LoadTower
  <1>1. stage' = "open" /\ tower' = plan.vision /\ UNCHANGED <<model, plan, loaded, kv>>
    BY DEF LoadTower
  <1>2. Typed'
    BY <1>0, <1>1 DEF Typed, kv
  <1>3. Planned'
    BY <1>0, <1>1 DEF Planned, IsSplit
  <1>4. PartsLoaded'
    <2>1. \A e \in Gpus : Part(e)' = Part(e)
      BY <1>1 DEF Part, Hosted, IsSplit
    <2> QED BY <1>0, <1>1, <2>1 DEF PartsLoaded, Gpus
  <1> QED BY <1>0, <1>1, <1>2, <1>3, <1>4, LoadingKeepsKv DEF SessionsInv

\* A load that fails closes what was loaded.
LEMMA LoadFailsKeeps ==
  ASSUME SessionsInv, LoadFails
  PROVE  SessionsInv'
  <1>0. Typed /\ Planned /\ stage \notin {"plan", "open"}
    BY DEF SessionsInv, LoadFails
  <1>1. /\ stage' = "closed" /\ loaded' = [e \in Gpus |-> {}]
        /\ UNCHANGED <<model, plan, kv>>
    BY DEF LoadFails, Closed
  <1>2. Typed'
    BY <1>0, <1>1 DEF Typed, kv
  <1>3. Planned'
    BY <1>0, <1>1 DEF Planned, IsSplit
  <1>4. PartsLoaded'
    BY <1>1 DEF PartsLoaded
  <1> QED BY <1>0, <1>1, <1>2, <1>3, <1>4, LoadingKeepsKv DEF SessionsInv

-----------------------------------------------------------------------------
(* attach and close: the model and its plan stay.                           *)

\* A session step that leaves the model open leaves its parts where they are.
LEMMA ModelKeeps ==
  ASSUME Planned, PartsLoaded, UNCHANGED <<model, plan, stage, loaded, tower>>
  PROVE  Planned' /\ PartsLoaded'
  <1>1. \A e \in Gpus : Part(e)' = Part(e)
    BY DEF Part, Hosted, IsSplit
  <1> QED BY <1>1 DEF Planned, PartsLoaded, IsSplit, Gpus

\* Taking a prefix.
LEMMA AttachKeeps ==
  ASSUME SessionsInv, NEW s \in Sessions, NEW short \in BOOLEAN, Attach(s, short)
  PROVE  SessionsInv'
  <1>0. Typed /\ Planned /\ PartsLoaded /\ PrefixesDiffer /\ DefaultStays
    BY DEF SessionsInv
  <1>1. /\ stage = "open" /\ session[s].state = "none"
        /\ s # Default => session[Default].state = "attached"
        /\ sesiones' = sesiones + 1
        /\ UNCHANGED <<model, plan, stage, loaded, tower, memory, kvViews>>
    BY DEF Attach
  <1>2. /\ session'[s] = [state |-> "primary", prefix |-> sesiones, short |-> short]
        /\ \A t \in Sessions : t # s => session'[t] = session[t]
        /\ session' \in [Sessions -> [state : States, prefix : Nat \cup {NoOwner}, short : BOOLEAN]]
    BY <1>0 DEF Attach, NextPrefix, Typed, States
  <1>3. Typed'
    BY <1>0, <1>1, <1>2 DEF Typed
  <1>4. Planned' /\ PartsLoaded'
    BY <1>0, <1>1, ModelKeeps
  <1>5. PrefixesDiffer'
    <2>1. sesiones \in Nat
      BY <1>0 DEF Typed
    <2>2. \A t \in Sessions : Live(t) => session[t].prefix \in 0 .. sesiones - 1
      BY <1>0 DEF PrefixesDiffer
    <2>3. ASSUME NEW t \in Sessions, Live(t)'
          PROVE  /\ stage' = "open" /\ session'[t].prefix \in 0 .. sesiones' - 1
                 /\ t # s => Live(t) /\ session'[t].prefix \in 0 .. sesiones - 1
      BY <1>1, <1>2, <2>1, <2>2, <2>3 DEF Live
    <2>4. \A t, u \in Sessions : Live(t)' /\ Live(u)' /\ t # u => session'[t].prefix # session'[u].prefix
      BY <1>0, <1>2, <2>1, <2>3 DEF PrefixesDiffer
    <2> QED BY <2>3, <2>4 DEF PrefixesDiffer
  <1>6. DefaultStays'
    BY <1>0, <1>1, <1>2, DefaultIsASession DEF DefaultStays, Live
  <1>7. ASSUME NEW t \in Sessions, NEW e \in Gpus, Done(t, e)'
        PROVE  /\ <<session[t].prefix, e>>' \in memory' /\ Views(t, e)' \subseteq DOMAIN kvViews'
               /\ Hosted(e)' # {}
    <2>1. t # s /\ Done(t, e)
      BY <1>1, <1>2, <1>7 DEF Done, IsSplit
    <2>2. <<session[t].prefix, e>> \in memory /\ Views(t, e) \subseteq DOMAIN kvViews /\ Hosted(e) # {}
      BY <2>1 DEF SessionsInv, KvComplete
    <2> QED BY <1>1, <1>2, <2>1, <2>2, KeepsKv
  <1>8. ASSUME NEW v \in DOMAIN kvViews' PROVE \E t \in Sessions : OwnedBy(v, t)'
    <2>1. PICK t \in Sessions : OwnedBy(v, t)
      BY <1>1 DEF SessionsInv, ViewsOwned
    <2>2. t # s /\ Live(t)
      BY <1>1, <2>1 DEF OwnedBy, Live
    <2>3. t # Default => s # Default
      BY <1>0, <1>1, <2>2 DEF DefaultStays
    <2>4. OwnedBy(v, t)'
      BY <1>1, <1>2, <2>1, <2>2, <2>3, DefaultIsASession, KeepsOwner DEF OwnedBy
    <2> QED BY <2>4
  <1>9. ViewsPointToLiveKv'
    BY <1>1 DEF SessionsInv, ViewsPointToLiveKv
  <1> QED BY <1>3, <1>4, <1>5, <1>6, <1>7, <1>8, <1>9 DEF SessionsInv, KvComplete, ViewsOwned

\* A step of a live session that stays live, with its prefix: the prefixes stay apart.
LEMMA PrefixesStay ==
  ASSUME PrefixesDiffer, NEW s \in Sessions, Live(s), UNCHANGED <<stage, sesiones>>,
         NEW next, session' = [session EXCEPT ![s].state = next],
         session \in [Sessions -> [state : States, prefix : Nat \cup {NoOwner}, short : BOOLEAN]]
  PROVE  PrefixesDiffer'
  <1>1. \A t \in Sessions : session'[t].prefix = session[t].prefix /\ (Live(t)' => Live(t))
    BY DEF Live
  <1> QED BY <1>1 DEF PrefixesDiffer

\* What such a step leaves of the sessions.
LEMMA StateStep ==
  ASSUME Typed, NEW s \in Sessions, NEW next \in States, session' = [session EXCEPT ![s].state = next]
  PROVE  /\ session'[s].state = next
         /\ \A t \in Sessions : t # s => session'[t] = session[t]
         /\ \A t \in Sessions : session'[t].prefix = session[t].prefix /\ session'[t].short = session[t].short
         /\ session' \in [Sessions -> [state : States, prefix : Nat \cup {NoOwner}, short : BOOLEAN]]
  BY DEF Typed

\* attach fails: the session will be destroyed.
LEMMA AttachFailsKeeps ==
  ASSUME SessionsInv, NEW s \in Sessions, AttachFails(s)
  PROVE  SessionsInv'
  <1>0. Typed /\ Planned /\ PartsLoaded /\ PrefixesDiffer /\ DefaultStays
    BY DEF SessionsInv
  <1>1. /\ session[s].state \in Gpus /\ session' = [session EXCEPT ![s].state = "refused"]
        /\ UNCHANGED <<model, plan, stage, loaded, tower, sesiones, memory, kvViews>>
    BY DEF AttachFails
  <1>2. /\ session'[s].state = "refused"
        /\ \A t \in Sessions : t # s => session'[t] = session[t]
        /\ \A t \in Sessions : session'[t].prefix = session[t].prefix /\ session'[t].short = session[t].short
        /\ session' \in [Sessions -> [state : States, prefix : Nat \cup {NoOwner}, short : BOOLEAN]]
    BY <1>0, <1>1, StateStep DEF States
  <1>3. Typed'
    BY <1>0, <1>1, <1>2 DEF Typed
  <1>4. Planned' /\ PartsLoaded'
    BY <1>0, <1>1, ModelKeeps
  <1>5. Live(s) /\ session[s].state # "attached"
    BY <1>1 DEF Live, Gpus
  <1>6. PrefixesDiffer'
    BY <1>0, <1>1, <1>5, PrefixesStay DEF Typed
  <1>7. DefaultStays'
    BY <1>0, <1>2, <1>5, DefaultIsASession DEF DefaultStays, Live
  <1>8. ASSUME NEW t \in Sessions, NEW e \in Gpus, Done(t, e)'
        PROVE  /\ <<session[t].prefix, e>>' \in memory' /\ Views(t, e)' \subseteq DOMAIN kvViews'
               /\ Hosted(e)' # {}
    <2>1. t # s /\ Done(t, e)
      BY <1>1, <1>2, <1>8 DEF Done, IsSplit
    <2>2. <<session[t].prefix, e>> \in memory /\ Views(t, e) \subseteq DOMAIN kvViews /\ Hosted(e) # {}
      BY <2>1 DEF SessionsInv, KvComplete
    <2> QED BY <1>1, <1>2, <2>1, <2>2, KeepsKv
  <1>9. ASSUME NEW v \in DOMAIN kvViews' PROVE \E t \in Sessions : OwnedBy(v, t)'
    <2>1. PICK t \in Sessions : OwnedBy(v, t)
      BY <1>1 DEF SessionsInv, ViewsOwned
    <2>2. session'[t].state \in {"secondary", "attached", "refused", "closing"}
      BY <1>2, <2>1 DEF OwnedBy
    <2>3. session'[t].state = "secondary" => v.engine = "primary"
      BY <1>2, <2>1 DEF OwnedBy
    <2>4. OwnedBy(v, t)'
      BY <1>1, <1>2, <2>1, <2>2, <2>3, DefaultIsASession, KeepsOwner
    <2> QED BY <2>4
  <1>10. ViewsPointToLiveKv'
    BY <1>1 DEF SessionsInv, ViewsPointToLiveKv
  <1> QED BY <1>3, <1>4, <1>6, <1>7, <1>8, <1>9, <1>10 DEF SessionsInv, KvComplete, ViewsOwned

\* A session begins to be closed.
LEMMA CloseSessionKeeps ==
  ASSUME SessionsInv, NEW s \in Sessions, CloseSession(s)
  PROVE  SessionsInv'
  <1>0. Typed /\ Planned /\ PartsLoaded /\ PrefixesDiffer /\ DefaultStays
    BY DEF SessionsInv
  <1>1. /\ s # Default /\ session[s].state = "attached"
        /\ session' = [session EXCEPT ![s].state = "closing"]
        /\ UNCHANGED <<model, plan, stage, loaded, tower, sesiones, memory, kvViews>>
    BY DEF CloseSession
  <1>2. /\ session'[s].state = "closing"
        /\ \A t \in Sessions : t # s => session'[t] = session[t]
        /\ \A t \in Sessions : session'[t].prefix = session[t].prefix /\ session'[t].short = session[t].short
        /\ session' \in [Sessions -> [state : States, prefix : Nat \cup {NoOwner}, short : BOOLEAN]]
    BY <1>0, <1>1, StateStep DEF States
  <1>3. Typed'
    BY <1>0, <1>1, <1>2 DEF Typed
  <1>4. Planned' /\ PartsLoaded'
    BY <1>0, <1>1, ModelKeeps
  <1>5. Live(s)
    BY <1>1 DEF Live
  <1>6. PrefixesDiffer'
    BY <1>0, <1>1, <1>5, PrefixesStay DEF Typed
  <1>7. DefaultStays'
    BY <1>0, <1>1, <1>2, <1>5, DefaultIsASession DEF DefaultStays, Live
  <1>8. ASSUME NEW t \in Sessions, NEW e \in Gpus, Done(t, e)'
        PROVE  /\ <<session[t].prefix, e>>' \in memory' /\ Views(t, e)' \subseteq DOMAIN kvViews'
               /\ Hosted(e)' # {}
    <2>1. t # s /\ Done(t, e)
      BY <1>1, <1>2, <1>8 DEF Done, IsSplit
    <2>2. <<session[t].prefix, e>> \in memory /\ Views(t, e) \subseteq DOMAIN kvViews /\ Hosted(e) # {}
      BY <2>1 DEF SessionsInv, KvComplete
    <2> QED BY <1>1, <1>2, <2>1, <2>2, KeepsKv
  <1>9. ASSUME NEW v \in DOMAIN kvViews' PROVE \E t \in Sessions : OwnedBy(v, t)'
    <2>1. PICK t \in Sessions : OwnedBy(v, t)
      BY <1>1 DEF SessionsInv, ViewsOwned
    <2>2. session'[t].state \in {"secondary", "attached", "refused", "closing"}
      BY <1>2, <2>1 DEF OwnedBy
    <2>3. session'[t].state = "secondary" => v.engine = "primary"
      BY <1>2, <2>1 DEF OwnedBy
    <2>4. OwnedBy(v, t)'
      BY <1>1, <1>2, <2>1, <2>2, <2>3, DefaultIsASession, KeepsOwner
    <2> QED BY <2>4
  <1>10. ViewsPointToLiveKv'
    BY <1>1 DEF SessionsInv, ViewsPointToLiveKv
  <1> QED BY <1>3, <1>4, <1>6, <1>7, <1>8, <1>9, <1>10 DEF SessionsInv, KvComplete, ViewsOwned

\* The prefix of a session is its own: nothing of an engine it has not reached is taken.
LEMMA NothingIsTaken ==
  ASSUME SessionsInv, NEW s \in Sessions, NEW e \in Gpus, session[s].state = e
  PROVE  ~Taken(s, e)
  <1> SUFFICES ASSUME NEW v \in Views(s, e), v \in DOMAIN kvViews PROVE FALSE
    BY DEF Taken
  <1>1. v.prefix = session[s].prefix /\ v.engine = e
    BY DEF Views, View
  <1>2. PICK t \in Sessions : OwnedBy(v, t)
    BY DEF SessionsInv, ViewsOwned
  <1>3. Live(s) /\ Live(t) /\ session[t].prefix = session[s].prefix
    BY <1>1, <1>2 DEF OwnedBy, Live, Gpus
  <1>4. s = t
    BY <1>3, OwnersAreLive DEF SessionsInv
  <1> QED BY <1>1, <1>2, <1>4 DEF OwnedBy, Gpus

\* What registering adds.
LEMMA Registered ==
  ASSUME NEW s \in Sessions, NEW e \in Gpus, RegisterTensors(s, e), ~Taken(s, e)
  PROVE  /\ DOMAIN kvViews' = DOMAIN kvViews \cup Views(s, e)
         /\ \A v \in DOMAIN kvViews : kvViews'[v] = kvViews[v]
         /\ \A v \in Views(s, e) : v \notin DOMAIN kvViews /\ kvViews'[v] = MemoryOf(s, e, v.layer)
  BY DEF RegisterTensors, Taken

\* A session gets its KV on an engine.
LEMMA AllocateKeeps ==
  ASSUME SessionsInv, NEW s \in Sessions, NEW e \in Gpus, NEW next, Allocate(s, e, next),
         next = IF e = "primary" /\ IsSplit THEN "secondary" ELSE "attached"
  PROVE  SessionsInv'
  <1>0. Typed /\ Planned /\ PartsLoaded /\ PrefixesDiffer /\ DefaultStays
    BY DEF SessionsInv
  <1>1. ~Taken(s, e)
    BY NothingIsTaken DEF Allocate
  <1>2. /\ session[s].state = e /\ OwnLayers(s, e) # {}
        /\ memory' = memory \cup {<<session[s].prefix, e>>}
        /\ RegisterTensors(s, e)
        /\ session' = [session EXCEPT ![s].state = next]
        /\ UNCHANGED <<model, plan, stage, loaded, tower, sesiones>>
    BY <1>1 DEF Allocate
  <1>3. /\ session'[s].state = next
        /\ \A t \in Sessions : t # s => session'[t] = session[t]
        /\ \A t \in Sessions : session'[t].prefix = session[t].prefix /\ session'[t].short = session[t].short
        /\ session' \in [Sessions -> [state : States, prefix : Nat \cup {NoOwner}, short : BOOLEAN]]
    <2>1. next \in States
      BY DEF States
    <2> QED BY <1>0, <1>2, <2>1, StateStep
  <1>4. Live(s) /\ session[s].state # "attached" /\ session[s].prefix \in Nat /\ stage = "open"
    <2>1. Live(s) /\ session[s].state # "attached"
      BY <1>2 DEF Live, Gpus
    <2>2. stage = "open" /\ session[s].prefix \in 0 .. sesiones - 1
      BY <1>0, <2>1 DEF PrefixesDiffer
    <2> QED BY <2>1, <2>2
  <1>5. /\ DOMAIN kvViews' = DOMAIN kvViews \cup Views(s, e)
        /\ \A v \in DOMAIN kvViews : kvViews'[v] = kvViews[v]
        /\ \A v \in Views(s, e) : v \notin DOMAIN kvViews /\ kvViews'[v] = MemoryOf(s, e, v.layer)
    BY <1>1, <1>2, Registered
  <1>6. Hosted(e) # {} /\ (e = "secondary" => IsSplit)
    BY <1>2 DEF OwnLayers, Hosted
  <1>7. Typed'
    <2>1. memory' \subseteq Nat \X Gpus
      BY <1>0, <1>2, <1>4 DEF Typed
    <2>2. Hosted(e) \subseteq Layers
      BY <1>0, HostedWhereOwned
    <2>3. Views(s, e) \subseteq [engine : Gpus, prefix : Nat, layer : Layers]
      BY <1>4, <2>2 DEF Views, View
    <2>4. DOMAIN kvViews' \subseteq [engine : Gpus, prefix : Nat, layer : Layers]
      BY <1>0, <1>5, <2>3 DEF Typed
    <2> QED BY <1>0, <1>2, <1>3, <2>1, <2>4 DEF Typed
  <1>8. Planned' /\ PartsLoaded'
    BY <1>0, <1>2, ModelKeeps
  <1>9. PrefixesDiffer'
    BY <1>0, <1>2, <1>4, PrefixesStay DEF Typed
  <1>10. DefaultStays'
    BY <1>0, <1>3, <1>4, DefaultIsASession DEF DefaultStays, Live
  <1>11. ASSUME NEW t \in Sessions, NEW g \in Gpus, Done(t, g)'
         PROVE  /\ <<session[t].prefix, g>>' \in memory' /\ Views(t, g)' \subseteq DOMAIN kvViews'
                /\ Hosted(g)' # {}
    <2>1. CASE Done(t, g)
      <3>1. <<session[t].prefix, g>> \in memory /\ Views(t, g) \subseteq DOMAIN kvViews /\ Hosted(g) # {}
        BY <2>1 DEF SessionsInv, KvComplete
      <3>2. <<session[t].prefix, g>> \in memory' /\ Views(t, g) \subseteq DOMAIN kvViews'
        BY <1>2, <1>5, <3>1
      <3> QED BY <1>2, <1>3, <3>1, <3>2, KeepsKv
    <2>2. CASE ~Done(t, g)
      <3>1. t = s /\ g = e
        BY <1>2, <1>3, <1>6, <1>11, <2>2 DEF Done, IsSplit, Gpus
      <3>2. <<session[t].prefix, g>> \in memory' /\ Views(t, g) \subseteq DOMAIN kvViews' /\ Hosted(g) # {}
        BY <1>2, <1>5, <1>6, <3>1
      <3> QED BY <1>2, <1>3, <3>2, KeepsKv
    <2> QED BY <2>1, <2>2
  <1>12. ASSUME NEW v \in DOMAIN kvViews' PROVE \E t \in Sessions : OwnedBy(v, t)'
    <2>1. CASE v \in DOMAIN kvViews
      <3>1. PICK t \in Sessions : OwnedBy(v, t)
        BY <2>1 DEF SessionsInv, ViewsOwned
      <3>2. CASE t = s
        <4>1. session[s].state = "secondary" /\ next = "attached"
          BY <1>2, <3>1, <3>2 DEF OwnedBy, Gpus
        <4>2. session'[t].state = "attached"
          BY <1>3, <3>2, <4>1
        <4>3. OwnedBy(v, t)'
          BY <1>2, <1>3, <1>5, <2>1, <3>1, <4>2, DefaultIsASession, KeepsOwner
        <4> QED BY <4>3
      <3>3. CASE t # s
        <4>1. /\ session'[t].state \in {"secondary", "attached", "refused", "closing"}
              /\ session'[t].state = "secondary" => v.engine = "primary"
          BY <1>3, <3>1, <3>3 DEF OwnedBy
        <4>2. OwnedBy(v, t)'
          BY <1>2, <1>3, <1>5, <2>1, <3>1, <4>1, DefaultIsASession, KeepsOwner
        <4> QED BY <4>2
      <3> QED BY <3>2, <3>3
    <2>2. CASE v \in Views(s, e)
      <3>1. PICK i \in Hosted(e) : v = View(e, session[s].prefix, i)
        BY <2>2 DEF Views
      <3>2. v.engine = e /\ v.prefix = session[s].prefix /\ v.layer = i
        BY <3>1 DEF View
      <3>3. kvViews'[v] = MemoryOf(s, e, i)
        BY <1>5, <2>2, <3>2
      <3>4. Borrows(s, e, i)' = Borrows(s, e, i)
        BY <1>2, <1>3 DEF Borrows, Source, FirstShared
      <3>5. MemoryOf(s, e, i)' = MemoryOf(s, e, i)
        BY <1>3, <3>4, DefaultIsASession DEF MemoryOf
      <3>6. Hosted(e)' = Hosted(e)
        BY <1>2 DEF Hosted, IsSplit
      <3>7. session'[s].state \in {"secondary", "attached"} /\ (session'[s].state = "secondary" => e = "primary")
        BY <1>3
      <3>8. OwnedBy(v, s)'
        <4>1. session'[s].prefix = v.prefix /\ v.layer \in Hosted(v.engine)'
          BY <1>3, <3>1, <3>2, <3>6
        <4>2. kvViews'[v] = MemoryOf(s, v.engine, v.layer)'
          BY <3>2, <3>3, <3>5
        <4> QED BY <3>2, <3>7, <4>1, <4>2 DEF OwnedBy
      <3> QED BY <3>8
    <2> QED BY <1>5, <2>1, <2>2
  <1>13. ASSUME NEW v \in DOMAIN kvViews' PROVE kvViews'[v] \in memory'
    <2>1. CASE v \in DOMAIN kvViews
      BY <1>2, <1>5, <2>1 DEF SessionsInv, ViewsPointToLiveKv
    <2>2. CASE v \in Views(s, e) /\ ~Borrows(s, e, v.layer)
      BY <1>2, <1>5, <2>2 DEF MemoryOf
    <2>3. CASE v \in Views(s, e) /\ Borrows(s, e, v.layer)
      <3>1. s # Default /\ kvViews'[v] = <<session[Default].prefix, e>>
        BY <1>5, <2>3 DEF MemoryOf, Borrows
      <3>2. session[Default].state = "attached"
        BY <1>0, <1>4, <3>1 DEF DefaultStays
      <3>3. Done(Default, e)
        BY <1>6, <3>2 DEF Done, Gpus
      <3>4. <<session[Default].prefix, e>> \in memory
        BY <3>3, DefaultIsASession DEF SessionsInv, KvComplete
      <3> QED BY <1>2, <3>1, <3>4
    <2> QED BY <1>5, <2>1, <2>2, <2>3
  <1> QED BY <1>7, <1>8, <1>9, <1>10, <1>11, <1>12, <1>13 DEF SessionsInv, KvComplete, ViewsOwned, ViewsPointToLiveKv

\* The two calls.
LEMMA AttachesKeep ==
  ASSUME SessionsInv, NEW s \in Sessions, AttachPrimary(s) \/ AttachSecondary(s)
  PROVE  SessionsInv'
  BY AllocateKeeps DEF AttachPrimary, AttachSecondary, Gpus

\* Every view of a session is among the ones its destructor removes.
LEMMA AllAreRemoved ==
  ASSUME SessionsInv, NEW v \in DOMAIN kvViews, NEW s \in Sessions, OwnedBy(v, s)
  PROVE  v \in {View(OwnerOf(i), session[s].prefix, i) : i \in Layers}
  <1>1. v \in [engine : Gpus, prefix : Nat, layer : Layers]
    BY DEF SessionsInv, Typed
  <1>2. v.engine = OwnerOf(v.layer)
    BY <1>1, HostedWhereOwned DEF SessionsInv, OwnedBy
  <1>3. v = View(OwnerOf(v.layer), session[s].prefix, v.layer)
    BY <1>1, <1>2 DEF View, OwnedBy
  <1> QED BY <1>1, <1>3

\* The views of a session that goes are removed, and no other.
LEMMA UnregisterKeeps ==
  ASSUME SessionsInv, NEW s \in Sessions, Unregister(s)
  PROVE  SessionsInv'
  <1> DEFINE removed == {View(OwnerOf(i), session[s].prefix, i) : i \in Layers}
  <1>0. Typed /\ Planned /\ PartsLoaded /\ PrefixesDiffer /\ DefaultStays
    BY DEF SessionsInv
  <1>1. /\ session[s].state \in {"refused", "closing"}
        /\ session' = [session EXCEPT ![s].state = "gone"]
        /\ UNCHANGED <<model, plan, stage, loaded, tower, sesiones, memory>>
    BY DEF Unregister
  <1>2. /\ session'[s].state = "gone"
        /\ \A t \in Sessions : t # s => session'[t] = session[t]
        /\ \A t \in Sessions : session'[t].prefix = session[t].prefix /\ session'[t].short = session[t].short
        /\ session' \in [Sessions -> [state : States, prefix : Nat \cup {NoOwner}, short : BOOLEAN]]
    BY <1>0, <1>1, StateStep DEF States
  <1>3. /\ DOMAIN kvViews' = DOMAIN kvViews \ removed
        /\ \A v \in DOMAIN kvViews' : kvViews'[v] = kvViews[v]
    BY DEF Unregister, Without
  <1>4. Typed'
    BY <1>0, <1>1, <1>2, <1>3 DEF Typed
  <1>5. Planned' /\ PartsLoaded'
    BY <1>0, <1>1, ModelKeeps
  <1>6. Live(s) /\ session[s].state # "attached"
    BY <1>1 DEF Live
  <1>7. PrefixesDiffer'
    BY <1>0, <1>1, <1>6, PrefixesStay DEF Typed
  <1>8. DefaultStays'
    BY <1>0, <1>2, <1>6, DefaultIsASession DEF DefaultStays, Live
  <1>9. ASSUME NEW t \in Sessions, NEW e \in Gpus, Done(t, e)'
        PROVE  /\ <<session[t].prefix, e>>' \in memory' /\ Views(t, e)' \subseteq DOMAIN kvViews'
               /\ Hosted(e)' # {}
    <2>1. t # s /\ Done(t, e) /\ Live(t)
      BY <1>1, <1>2, <1>9 DEF Done, IsSplit, Live
    <2>2. <<session[t].prefix, e>> \in memory /\ Views(t, e) \subseteq DOMAIN kvViews /\ Hosted(e) # {}
      BY <2>1 DEF SessionsInv, KvComplete
    <2>3. session[t].prefix # session[s].prefix
      BY <1>0, <1>6, <2>1 DEF PrefixesDiffer
    <2>4. Views(t, e) \cap removed = {}
      <3>1. ASSUME NEW v \in Views(t, e), v \in removed PROVE FALSE
        <4>1. v.prefix = session[t].prefix
          BY DEF Views, View
        <4>2. v.prefix = session[s].prefix
          BY <3>1 DEF View
        <4> QED BY <2>3, <4>1, <4>2
      <3> QED BY <3>1
    <2>5. Views(t, e) \subseteq DOMAIN kvViews'
      BY <1>3, <2>2, <2>4
    <2> HIDE DEF removed
    <2> QED BY <1>1, <1>2, <2>2, <2>5, KeepsKv
  <1>10. ASSUME NEW v \in DOMAIN kvViews' PROVE \E t \in Sessions : OwnedBy(v, t)'
    <2>1. PICK t \in Sessions : OwnedBy(v, t)
      BY <1>3 DEF SessionsInv, ViewsOwned
    <2>2. t # s
      BY <1>3, <2>1, AllAreRemoved
    <2>3. session'[t].state \in {"secondary", "attached", "refused", "closing"}
      BY <1>2, <2>1, <2>2 DEF OwnedBy
    <2>4. session'[t].state = "secondary" => v.engine = "primary"
      BY <1>2, <2>1, <2>2 DEF OwnedBy
    <2>5. OwnedBy(v, t)'
      BY <1>1, <1>2, <1>3, <2>1, <2>3, <2>4, DefaultIsASession, KeepsOwner
    <2> QED BY <2>5
  <1>11. ViewsPointToLiveKv'
    BY <1>1, <1>3 DEF SessionsInv, ViewsPointToLiveKv
  <1> QED BY <1>4, <1>5, <1>7, <1>8, <1>9, <1>10, <1>11 DEF SessionsInv, KvComplete, ViewsOwned

\* The KV of a session that goes is freed, and no view of it is left.
LEMMA FreeKvKeeps ==
  ASSUME SessionsInv, NEW s \in Sessions, FreeKv(s)
  PROVE  SessionsInv'
  <1>0. Typed /\ Planned /\ PartsLoaded /\ PrefixesDiffer /\ DefaultStays
    BY DEF SessionsInv
  <1>1. /\ session[s].state = "gone"
        /\ memory' = {a \in memory : a[1] # session[s].prefix}
        /\ session' = [session EXCEPT ![s] = Detached]
        /\ UNCHANGED <<model, plan, sesiones, kvViews>>
    BY DEF FreeKv
  <1>2. /\ session'[s].state = "none"
        /\ \A t \in Sessions : t # s => session'[t] = session[t]
        /\ session' \in [Sessions -> [state : States, prefix : Nat \cup {NoOwner}, short : BOOLEAN]]
    BY <1>0, <1>1 DEF Typed, Detached, States
  <1>3. stage = "open" /\ Live(s) /\ (s # Default => UNCHANGED <<stage, loaded, tower>>)
    <2>1. Live(s)
      BY <1>1 DEF Live
    <2> QED BY <1>0, <2>1 DEF PrefixesDiffer, FreeKv
  <1>4. s = Default => stage' = "closed" /\ loaded' = [e \in Gpus |-> {}]
    BY DEF FreeKv, Closed
  <1>5. \A t \in Sessions : Live(t)' => t # s /\ s # Default /\ Live(t)
    BY <1>0, <1>1, <1>2, <1>3 DEF DefaultStays, Live
  <1>6. Typed'
    <2>1. stage' \in {"open", "closed"} /\ loaded' \in [Gpus -> SUBSET Tensors]
      BY <1>0, <1>3, <1>4 DEF Typed
    <2> QED BY <1>0, <1>1, <1>2, <2>1 DEF Typed
  <1>7. Planned' /\ PartsLoaded'
    <2>1. CASE s = Default
      BY <1>0, <1>1, <1>3, <1>4, <2>1 DEF Planned, PartsLoaded
    <2>2. CASE s # Default
      BY <1>0, <1>1, <1>3, <2>2, ModelKeeps
    <2> QED BY <2>1, <2>2
  <1>8. PrefixesDiffer'
    BY <1>0, <1>1, <1>2, <1>3, <1>5 DEF PrefixesDiffer
  <1>9. DefaultStays'
    BY <1>0, <1>2, <1>5, DefaultIsASession DEF DefaultStays
  <1>10. ASSUME NEW t \in Sessions, NEW e \in Gpus, Done(t, e)'
         PROVE  /\ <<session[t].prefix, e>>' \in memory' /\ Views(t, e)' \subseteq DOMAIN kvViews'
                /\ Hosted(e)' # {}
    <2>0. Live(t)'
      BY <1>10 DEF Done, Live
    <2>1. t # s /\ Live(t) /\ Done(t, e)
      BY <1>1, <1>2, <1>5, <1>10, <2>0 DEF Done, IsSplit
    <2>2. <<session[t].prefix, e>> \in memory /\ Views(t, e) \subseteq DOMAIN kvViews /\ Hosted(e) # {}
      BY <2>1 DEF SessionsInv, KvComplete
    <2>3. session[t].prefix # session[s].prefix
      BY <1>0, <1>3, <2>1 DEF PrefixesDiffer
    <2>4. <<session[t].prefix, e>> \in memory'
      BY <1>1, <2>2, <2>3
    <2> QED BY <1>1, <1>2, <2>1, <2>2, <2>4, KeepsKv
  <1>11. ASSUME NEW v \in DOMAIN kvViews'
         PROVE  (\E t \in Sessions : OwnedBy(v, t)') /\ kvViews'[v] \in memory'
    <2>1. PICK t \in Sessions : OwnedBy(v, t)
      BY <1>1 DEF SessionsInv, ViewsOwned
    <2>2. t # s /\ Live(t)
      BY <1>1, <2>1 DEF OwnedBy, Live
    <2>3. /\ session'[t].state \in {"secondary", "attached", "refused", "closing"}
          /\ session'[t].state = "secondary" => v.engine = "primary"
      BY <1>2, <2>1, <2>2 DEF OwnedBy
    <2>4. t # Default => session[Default].state = "attached" /\ Default # s
      BY <1>0, <1>1, <2>2 DEF DefaultStays
    <2>5. OwnedBy(v, t)'
      BY <1>1, <1>2, <2>1, <2>2, <2>3, <2>4, DefaultIsASession, KeepsOwner
    <2>6. session[t].prefix # session[s].prefix /\ (t # Default => session[Default].prefix # session[s].prefix)
      BY <1>0, <1>3, <2>2, <2>4, DefaultIsASession DEF PrefixesDiffer, Live
    <2>7. kvViews[v][1] # session[s].prefix
      BY <2>1, <2>6 DEF OwnedBy, MemoryOf, Borrows
    <2>8. kvViews[v] \in memory
      BY <1>1 DEF SessionsInv, ViewsPointToLiveKv
    <2> QED BY <1>1, <2>5, <2>7, <2>8
  <1> QED BY <1>6, <1>7, <1>8, <1>9, <1>10, <1>11 DEF SessionsInv, KvComplete, ViewsOwned, ViewsPointToLiveKv
-----------------------------------------------------------------------------
(* The invariant holds.                                                     *)

\* At the beginning nothing is loaded or attached.
LEMMA OpeningInitKeeps ==
  ASSUME OpeningInit
  PROVE  SessionsInv
  <1>1. Typed
    BY DEF OpeningInit, Typed, Detached, States
  <1>2. Planned /\ PartsLoaded
    BY DEF OpeningInit, Planned, PartsLoaded, Gpus
  <1>3. \A s \in Sessions : session[s].state = "none"
    BY DEF OpeningInit, Detached
  <1>4. DOMAIN kvViews = {}
    BY DEF OpeningInit
  <1> QED BY <1>1, <1>2, <1>3, <1>4 DEF SessionsInv, PrefixesDiffer, DefaultStays, KvComplete, Done,
                                        ViewsOwned, ViewsPointToLiveKv, Live

\* No step breaks it.
LEMMA OpeningNextKeeps ==
  ASSUME SessionsInv, [OpeningNext]_opening
  PROVE  SessionsInv'
  <1>1. CASE Plan \/ LoadSecondary \/ LoadPrimary \/ LoadTower \/ LoadFails
    BY <1>1, PlanKeeps, LoadSecondaryKeeps, LoadPrimaryKeeps, LoadTowerKeeps, LoadFailsKeeps
  <1>2. ASSUME NEW s \in Sessions, NEW short \in BOOLEAN, Attach(s, short)
        PROVE  SessionsInv'
    BY <1>2, AttachKeeps
  <1>3. ASSUME NEW s \in Sessions,
               AttachPrimary(s) \/ AttachSecondary(s) \/ AttachFails(s)
                 \/ CloseSession(s) \/ Unregister(s) \/ FreeKv(s)
        PROVE  SessionsInv'
    BY <1>3, AttachesKeep, AttachFailsKeeps, CloseSessionKeeps, UnregisterKeeps, FreeKvKeeps
  <1>4. CASE UNCHANGED opening
    <2>1. UNCHANGED <<model, plan, stage, loaded, tower, sesiones, session, memory, kvViews>>
      BY <1>4 DEF opening
    <2>2. Typed' /\ PrefixesDiffer' /\ DefaultStays' /\ ViewsPointToLiveKv'
      BY <2>1 DEF SessionsInv, Typed, PrefixesDiffer, DefaultStays, ViewsPointToLiveKv, Live
    <2>3. Planned' /\ PartsLoaded'
      BY <2>1, ModelKeeps DEF SessionsInv
    <2>4. KvComplete'
      BY <2>1 DEF SessionsInv, KvComplete, Done, Views, View, Hosted, IsSplit
    <2>5. ASSUME NEW v \in DOMAIN kvViews' PROVE \E t \in Sessions : OwnedBy(v, t)'
      <3>1. PICK t \in Sessions : OwnedBy(v, t)
        BY <2>1 DEF SessionsInv, ViewsOwned
      <3>2. /\ session'[t].state \in {"secondary", "attached", "refused", "closing"}
            /\ session'[t].state = "secondary" => v.engine = "primary"
        BY <2>1, <3>1 DEF OwnedBy
      <3> QED BY <2>1, <3>1, <3>2, KeepsOwner
    <2> QED BY <2>2, <2>3, <2>4, <2>5 DEF SessionsInv, ViewsOwned
  <1> QED BY <1>1, <1>2, <1>3, <1>4 DEF OpeningNext

(* Every session has a prefix, KV and views of its own on the engines it    *)
(* has reached, and its views go before its KV does.                        *)
THEOREM SessionsInvariant == OpeningSpec => []SessionsInv
  <1>1. OpeningInit => SessionsInv
    BY OpeningInitKeeps
  <1>2. SessionsInv /\ [OpeningNext]_opening => SessionsInv'
    BY OpeningNextKeeps
  <1> QED BY <1>1, <1>2, PTL DEF OpeningSpec

-----------------------------------------------------------------------------
(* What it means for the runs' properties.                                  *)

(* The plan that is used is the best there is for the model.                *)
THEOREM BestPlan == OpeningSpec => []PlacementIsBest
  <1>1. SessionsInv => PlacementIsBest
    <2> SUFFICES ASSUME SessionsInv, stage # "plan" PROVE PlacementIsBest
      BY DEF PlacementIsBest
    <2>1. Measured(model)
      BY ModelsAssumption DEF SessionsInv, Typed
    <2>2. plan = plan_gemma4_placement(model)
      BY DEF SessionsInv, Planned
    <2>3. Best(model, plan)
      BY <2>1, <2>2, PlanIsBest
    <2> QED BY <2>3 DEF PlacementIsBest, Best, IsSplit
  <1> QED BY <1>1, SessionsInvariant, PTL

(* No view is left on KV that was freed.                                    *)
THEOREM ViewsAreLive == OpeningSpec => []ViewsPointToLiveKv
  <1>1. SessionsInv => ViewsPointToLiveKv
    BY DEF SessionsInv
  <1> QED BY <1>1, SessionsInvariant, PTL

\* A layer that shares the KV of another one shares that of one of its kind.
LEMMA SourceKind ==
  ASSUME Typed, NEW i \in Layers
  PROVE  Source(i) \in model.global <=> i \in model.global
  <1>1. CASE i < FirstShared
    BY <1>1 DEF Source
  <1>2. CASE ~(i < FirstShared)
    <2> DEFINE n == NumLayers - model.shared
               Alike(j) == (j \in model.global) = (i \in model.global)
               Last(j) == \A k \in j + 1 .. n - 1 : (k \in model.global) # (i \in model.global)
               T == {n - 1 - j : j \in {j \in 0 .. n - 1 : Alike(j)}}
    <2>1. n \in Nat /\ n <= NumLayers /\ i \in NumLayers - model.shared .. NumLayers - 1 /\ FirstShared = n
      BY <1>2, ModelsAssumption, LayersAssumption DEF Typed, FirstShared, Layers
    <2>2. \E j \in 0 .. n - 1 : Alike(j)
      BY <2>1, ModelsAssumption DEF Typed
    <2> HIDE DEF n, Alike
    <2>3. T \in SUBSET Nat /\ T # {}
      BY <2>1, <2>2
    <2>4. PICK x \in T : \A y \in T : x <= y
      <3> HIDE DEF T
      <3> QED BY <2>3, Least
    <2>5. PICK j \in 0 .. n - 1 : Alike(j) /\ x = n - 1 - j
      BY <2>4
    <2>6. ASSUME NEW k \in j + 1 .. n - 1 PROVE ~Alike(k)
      <3>1. k \in 0 .. n - 1 /\ n - 1 - k < n - 1 - j
        BY <2>1
      <3>2. ~(n - 1 - k \in T)
        <4> HIDE DEF T
        <4> QED BY <2>1, <2>3, <2>4, <2>5, <3>1
      <3> QED BY <3>1, <3>2
    <2>7. Last(j)
      BY <2>6 DEF Alike
    <2>8. Source(i) = CHOOSE j_1 \in 0 .. n - 1 : Alike(j_1) /\ Last(j_1)
      BY <1>2, <2>1 DEF Source, Alike
    <2> HIDE DEF Last
    <2>9. Alike(Source(i))
      BY <2>5, <2>7, <2>8
    <2> QED BY <2>9 DEF Alike
  <1> QED BY <1>1, <1>2

\* Each tensor of an open model is on one engine.
LEMMA OnOneEngine ==
  ASSUME SessionsInv, stage = "open", NEW t \in Tensors
  PROVE  Cardinality({e \in Gpus : t \in loaded[e]}) = 1
  <1>0. Typed /\ Planned
    BY DEF SessionsInv
  <1>1. \A e \in Gpus : loaded[e] = Part(e)
    BY DEF SessionsInv, PartsLoaded, Gpus
  <1>2. \E g \in Gpus : \A e \in Gpus : t \in Part(e) <=> e = g
    <2>1. CASE t = Common
      <3>1. t \notin Layers
        BY <2>1, LayersAssumption DEF Common, Layers
      <3>2. \A e \in Gpus : t \in Part(e) <=> e = "primary"
        BY <1>0, <2>1, <3>1, HostedWhereOwned DEF Part, Gpus
      <3> QED BY <3>2 DEF Gpus
    <2>2. CASE t # Common
      <3>1. t \in Layers
        BY <2>2 DEF Tensors
      <3>2. OwnerOf(t) \in Gpus /\ \A e \in Gpus : t \in Part(e) <=> e = OwnerOf(t)
        BY <1>0, <2>2, <3>1, HostedWhereOwned DEF Part, Gpus, OwnerOf
      <3> QED BY <3>2
    <2> QED BY <2>1, <2>2
  <1>3. PICK g \in Gpus : {e \in Gpus : t \in loaded[e]} = {g}
    BY <1>1, <1>2
  <1> QED BY <1>3, FS_Singleton

\* What an engine loads is what the plan accounted for, and fits.
LEMMA LoadedAsPlanned ==
  ASSUME SessionsInv, stage = "open"
  PROVE  /\ BytesOn("primary") = plan.primary /\ BytesOn("primary") <= model.primary
         /\ BytesOn("secondary") = plan.secondary /\ BytesOn("secondary") <= model.secondary
  <1>0. Typed /\ Planned /\ Measured(model)
    BY ModelsAssumption DEF SessionsInv, Typed
  <1>1. Accounted(model, plan) /\ plan.fit # "nofit"
    <2>1. plan = plan_gemma4_placement(model) /\ plan.fit # "nofit"
      BY <1>0 DEF Planned
    <2> QED BY <1>0, <2>1, PlanIsAccounted
  <1>2. \A e \in Gpus : loaded[e] = Part(e) /\ Hosted(e) \subseteq Layers
    BY <1>0, HostedWhereOwned DEF SessionsInv, PartsLoaded, Gpus
  <1>3. \A S \in SUBSET Layers : S \ {Common} = S /\ (S \cup {Common}) \ {Common} = S
    <2>1. Common \notin Layers
      BY LayersAssumption DEF Common, Layers
    <2> QED BY <2>1
  <1>4. /\ loaded["primary"] \ {Common} = Hosted("primary") /\ Common \in loaded["primary"]
        /\ loaded["secondary"] \ {Common} = Hosted("secondary") /\ Common \notin loaded["secondary"]
    BY <1>2, <1>3 DEF Gpus, Part
  <1>5. tower = plan.vision
    BY DEF SessionsInv, PartsLoaded
  <1>6. /\ BytesOn("primary") = Load(model.bytes, Hosted("primary")) + model.common + TowerOn(model, plan, "primary")
        /\ BytesOn("secondary") = Load(model.bytes, Hosted("secondary")) + 0 + TowerOn(model, plan, "secondary")
    BY <1>4, <1>5 DEF BytesOn, TowerOn
  <1>7. model.common \in Nat /\ model.vision \in Nat
    BY <1>0 DEF Measured
  <1>8. \A g : TowerOn(model, plan, g) \in Nat
    BY <1>7 DEF TowerOn
  <1>9. /\ Load(model.bytes, Hosted("primary")) + model.common + TowerOn(model, plan, "primary") = plan.primary
        /\ Load(model.bytes, Hosted("secondary")) + 0 + TowerOn(model, plan, "secondary") = plan.secondary
    <2>1. CASE IsSplit
      <3>1. /\ plan.boundary \in 0 .. NumLayers
            /\ plan.primary = Here(model, plan.boundary) + TowerOn(model, plan, "primary")
            /\ plan.secondary = Load(model.bytes, plan.boundary .. NumLayers - 1) + TowerOn(model, plan, "secondary")
        BY <1>1, <2>1 DEF Accounted, IsSplit
      <3>2. Here(model, plan.boundary) = model.common + Load(model.bytes, 0 .. plan.boundary - 1)
        BY DEF Here
      <3>3. /\ Load(model.bytes, 0 .. plan.boundary - 1) \in Nat
            /\ Load(model.bytes, plan.boundary .. NumLayers - 1) \in Nat
        BY <1>0, <3>1, LoadTypes
      <3>4. Hosted("primary") = 0 .. plan.boundary - 1 /\ Hosted("secondary") = plan.boundary .. NumLayers - 1
        BY <2>1 DEF Hosted
      <3> QED BY <1>7, <1>8, <3>1, <3>2, <3>3, <3>4
    <2>2. CASE ~IsSplit
      <3>1. /\ plan.primary = Text(model) + TowerOn(model, plan, "primary")
            /\ plan.secondary = TowerOn(model, plan, "secondary")
        BY <1>1, <2>2 DEF Accounted, IsSplit
      <3>2. Text(model) = model.common + Load(model.bytes, Layers) /\ Load(model.bytes, Layers) \in Nat
        BY <1>0, RangeOfLayers DEF Text
      <3>3. Load(model.bytes, {}) = 0
        BY LoadNothing
      <3>4. Hosted("primary") = Layers /\ Hosted("secondary") = {}
        BY <2>2 DEF Hosted
      <3> QED BY <1>7, <1>8, <3>1, <3>2, <3>3, <3>4
    <2> QED BY <2>1, <2>2
  <1>10. plan.primary <= model.primary /\ plan.secondary <= model.secondary
    BY <1>1 DEF Accounted
  <1> QED BY <1>6, <1>9, <1>10

\* What the graph finds for a layer of an attached session.
LEMMA ViewOfLayer ==
  ASSUME SessionsInv, NEW s \in Sessions, session[s].state = "attached", NEW i \in Layers
  PROVE  LET v == View(OwnerOf(i), session[s].prefix, i)
         IN  /\ OwnerOf(i) \in Gpus /\ i \in loaded[OwnerOf(i)]
             /\ v \in DOMAIN kvViews /\ kvViews[v] = MemoryOf(s, OwnerOf(i), i)
  <1> DEFINE e == OwnerOf(i)
             v == View(e, session[s].prefix, i)
  <1>0. Typed /\ Planned /\ Live(s)
    BY DEF SessionsInv, Live
  <1>1. e \in Gpus /\ (e = "secondary" => IsSplit)
    BY DEF OwnerOf, Gpus
  <1> HIDE DEF e
  <1>2. i \in Hosted(e)
    BY <1>0, <1>1, HostedWhereOwned DEF e
  <1>3. loaded[e] = Part(e)
    BY <1>0, <1>1 DEF SessionsInv, PartsLoaded, PrefixesDiffer, Gpus
  <1>4. Done(s, e)
    BY <1>1 DEF Done, Gpus
  <1>5. v \in DOMAIN kvViews
    BY <1>1, <1>2, <1>4 DEF SessionsInv, KvComplete, Views
  <1>6. PICK t \in Sessions : OwnedBy(v, t)
    BY <1>5 DEF SessionsInv, ViewsOwned
  <1>7. v.engine = e /\ v.prefix = session[s].prefix /\ v.layer = i
    BY DEF View
  <1>8. t = s
    <2>1. Live(t) /\ session[t].prefix = session[s].prefix
      BY <1>6, <1>7 DEF OwnedBy, Live
    <2> QED BY <1>0, <2>1, OwnersAreLive DEF SessionsInv
  <1>9. kvViews[v] = MemoryOf(s, e, i)
    BY <1>6, <1>7, <1>8 DEF OwnedBy
  <1> QED BY <1>1, <1>2, <1>3, <1>5, <1>9 DEF Part, e

(* A model is loaded as its plan accounted for, within the memory of each   *)
(* GPU, and the graph finds the KV of an attached session where it runs     *)
(* each layer: its own, or the owner's rings for a sliding layer.           *)
THEOREM LoadedWhereItIsRead == OpeningSpec => []LoadedWhereItFits
  <1>1. ASSUME SessionsInv PROVE LoadedWhereItFits
    <2>1. ASSUME NEW s \in Sessions, session[s].state = "attached", NEW i \in Layers
          PROVE  \E e \in Gpus :
                   /\ i \in loaded[e] /\ View(e, session[s].prefix, i) \in DOMAIN kvViews
                   /\ LET holder == kvViews[View(e, session[s].prefix, i)]
                      IN  \/ holder = <<session[s].prefix, e>>
                          \/ holder = <<session[Default].prefix, e>> /\ i \notin model.global
      <3> DEFINE e == OwnerOf(i)
                 holder == kvViews[View(e, session[s].prefix, i)]
      <3>1. /\ e \in Gpus /\ i \in loaded[e] /\ View(e, session[s].prefix, i) \in DOMAIN kvViews
            /\ holder = MemoryOf(s, e, i)
        BY <1>1, <2>1, ViewOfLayer
      <3>2. Borrows(s, e, i) => i \notin model.global
        BY <1>1, SourceKind DEF SessionsInv, Borrows
      <3>3. \/ holder = <<session[s].prefix, e>>
            \/ holder = <<session[Default].prefix, e>> /\ i \notin model.global
        BY <3>1, <3>2 DEF MemoryOf
      <3> QED BY <3>1, <3>3
    <2> QED BY <1>1, <2>1, OnOneEngine, LoadedAsPlanned DEF LoadedWhereItFits
  <1> QED BY <1>1, SessionsInvariant, PTL

(* A session that writes into the rings of the owner is seen on the primary *)
(* engine: the first layer is always there, and slides.                     *)
THEOREM BorrowersSeen == OpeningSpec => []BorrowersAreSeen
  <1>1. ASSUME SessionsInv PROVE BorrowersAreSeen
    <2> SUFFICES ASSUME NEW s \in Sessions \ {Default}, session[s].state = "attached",
                        NEW v \in DOMAIN kvViews, v.prefix = session[s].prefix,
                        kvViews[v][1] = session[Default].prefix
                 PROVE  BorrowsRings(s)
      BY DEF BorrowersAreSeen
    <2>0. Typed /\ Planned /\ Live(s)
      BY <1>1 DEF SessionsInv, Live
    <2>1. PICK t \in Sessions : OwnedBy(v, t)
      BY <1>1 DEF SessionsInv, ViewsOwned
    <2>2. t = s
      <3>1. Live(t) /\ session[t].prefix = session[s].prefix
        BY <2>1 DEF OwnedBy, Live
      <3> QED BY <1>1, <2>0, <3>1, OwnersAreLive DEF SessionsInv
    <2>3. session[Default].prefix # session[s].prefix
      <3>1. Live(Default)
        BY <1>1, <2>0 DEF SessionsInv, DefaultStays, Live
      <3> QED BY <1>1, <2>0, <3>1, DefaultIsASession DEF SessionsInv, PrefixesDiffer
    <2>4. ~session[s].short
      BY <2>1, <2>2, <2>3 DEF OwnedBy, MemoryOf, Borrows
    <2>5. Hosted("primary") # {}
      <3>1. Done(s, "primary")
        BY DEF Done
      <3> QED BY <1>1, <3>1 DEF SessionsInv, KvComplete, Gpus
    <2>6. 0 \in Hosted("primary") /\ 0 \in Layers
      <3>1. CASE IsSplit
        BY <2>0, <2>5, <3>1, BoundaryType, LayersAssumption DEF Hosted, Layers
      <3>2. CASE ~IsSplit
        BY <2>5, <3>2, LayersAssumption DEF Hosted, Layers
      <3> QED BY <3>1, <3>2
    <2>7. Source(0) \notin model.global
      BY <2>0, <2>6, SourceKind, FirstLayerSlides DEF Typed
    <2> QED BY <2>4, <2>6, <2>7 DEF BorrowsRings, Borrows
  <1> QED BY <1>1, SessionsInvariant, PTL

-----------------------------------------------------------------------------
(* The turns of the sessions (SharedModel).                                 *)

(* Borrowing leads to the default session, which owns its rings.            *)
LEMMA HolderIsHolder ==
  ASSUME NEW s \in Sessions
  PROVE  Holder(s) \in Holders /\ Default \in Holders /\ (s \in Borrowers => Holder(s) = Default)
                /\ (s \notin Borrowers => Holder(s) = s)
  BY SharedAssumption, DefaultIsASession DEF Holder, Holders

LEMMA StampsAreStamps ==
  ASSUME NEW s \in Sessions, NEW n \in Nat
  PROVE  <<s, n>> \in Stamps /\ Garbage \in Stamps
  BY DEF Stamps, Garbage

(* What a copy of the rings leaves on an engine is one of three things, and *)
(* a copy that reached the end leaves what was copied everywhere.           *)
LEMMA PartialIsStamp ==
  ASSUME NEW n \in Copies, NEW e \in Engines, NEW c \in Stamps, NEW o \in Stamps
  PROVE  /\ Partial(n, e, c, o) \in Stamps
         /\ n = Len(Order) => Partial(n, e, c, o) = c
  <1>1. Garbage \in Stamps
    BY DEF Stamps
  <1>2. Partial(n, e, c, o) \in Stamps
    BY <1>1 DEF Partial
  <1>3. n = Len(Order) => e \in Before(n)
    BY SharedAssumption DEF Before
  <1> QED BY <1>2, <1>3 DEF Partial

LEMMA InitEstablishes ==
  Init => IInv
  <1> SUFFICES ASSUME Init PROVE IInv
    OBVIOUS
  <1>1. Garbage \in Stamps
    BY DEF Stamps
  <1>2. TypeOK
    BY <1>1 DEF Init, TypeOK, Places
  <1> QED
    BY <1>2 DEF Init, IInv, DecodesWithItsOwn, OwnersKeepRows, BorrowerStartsOver, BorrowerForgot, Holders

(* A forward keeps the types, whatever it does to the position.             *)
LEMMA ForwardKeepsTypes ==
  ASSUME IInv, Forward
  PROVE  /\ at' \in {"turn", "return"} /\ at = "turn"
         /\ running' = running /\ running \in Sessions
         /\ empty' \in [Sessions -> BOOLEAN]
         /\ \A s \in Sessions : s # running => empty'[s] = empty[s]
         /\ empty[running] /\ ~empty'[running] => at' = "turn"
         /\ forwards' \in [Sessions -> Nat]
         /\ \A s \in Sessions : s # running => forwards'[s] = forwards[s]
         /\ ring' \in [Holders -> [Engines -> Stamps]]
         /\ \A h \in Holders : h # Holder(running) => ring'[h] = ring[h]
         /\ \A e \in Engines : ring'[Holder(running)][e] = <<running, forwards'[running]>>
         /\ saved' = saved /\ saved \in [Engines -> Stamps]
  <1> USE DEF IInv, TypeOK
  <1>1. at = "turn" /\ running \in Sessions /\ running' = running /\ saved' = saved
    BY DEF Forward, Writes
  <1>2. Holder(running) \in Holders
    BY <1>1, HolderIsHolder
  <1>3. forwards[running] + 1 \in Nat
    BY <1>1
  <1>4. <<running, forwards[running] + 1>> \in Stamps
    BY <1>1, <1>3, StampsAreStamps
  <1>5. forwards' = [forwards EXCEPT ![running] = forwards[running] + 1]
    BY DEF Forward, Writes
  <1>6. ring' = [ring EXCEPT ![Holder(running)] = [e \in Engines |-> <<running, forwards[running] + 1>>]]
    BY DEF Forward, Writes
  <1>7. empty' \in [Sessions -> BOOLEAN] /\ \A s \in Sessions : s # running => empty'[s] = empty[s]
    BY <1>1 DEF Forward
  <1>8. at' \in {"turn", "return"} /\ (empty[running] /\ ~empty'[running] => at' = "turn")
    BY <1>1 DEF Forward
  <1>9. forwards' \in [Sessions -> Nat] /\ forwards'[running] = forwards[running] + 1
        /\ \A s \in Sessions : s # running => forwards'[s] = forwards[s]
    BY <1>1, <1>3, <1>5
  <1>10. ring' \in [Holders -> [Engines -> Stamps]]
    BY <1>2, <1>4, <1>6
  <1>11. \A h \in Holders : h # Holder(running) => ring'[h] = ring[h]
    BY <1>2, <1>6
  <1>12. ring'[Holder(running)] = [e \in Engines |-> <<running, forwards[running] + 1>>]
    BY <1>2, <1>6
  <1> QED BY <1>1, <1>7, <1>8, <1>9, <1>10, <1>11, <1>12

(* The rows of every owner are where they should be after a forward.        *)
LEMMA ForwardKeepsRows ==
  ASSUME IInv, Forward
  PROVE  OwnersKeepRows' /\ BorrowerStartsOver' /\ BorrowerForgot'
  <1>1. /\ at' \in {"turn", "return"} /\ at = "turn"
        /\ running' = running /\ running \in Sessions
        /\ \A s \in Sessions : s # running => empty'[s] = empty[s]
        /\ \A s \in Sessions : s # running => forwards'[s] = forwards[s]
        /\ \A h \in Holders : h # Holder(running) => ring'[h] = ring[h]
        /\ \A e \in Engines : ring'[Holder(running)][e] = <<running, forwards'[running]>>
        /\ saved' = saved
    BY ForwardKeepsTypes
  <1>2. (running \in Borrowers => Holder(running) = Default) /\ Default \in Holders
        /\ (running \notin Borrowers => Holder(running) = running)
    BY <1>1, HolderIsHolder
  <1>3. BorrowerForgot'
    BY <1>1 DEF BorrowerForgot
  <1>4. BorrowerStartsOver'
    BY <1>1, <1>2 DEF BorrowerStartsOver, HoldsRows, Stamp
  <1>5. OwnersKeepRows'
    <2> SUFFICES ASSUME NEW h \in Holders, ~empty'[h], NEW e \in Engines
                 PROVE  (IF Lent' /\ h = Default THEN saved' ELSE ring'[h])[e] = <<h, forwards'[h]>>
      BY DEF OwnersKeepRows, HoldsRows, Stamp
    <2>1. h \in Sessions /\ h \notin Borrowers
      BY DEF Holders
    <2>2. Lent' = Lent
      BY <1>1 DEF Lent
    <2>3. CASE h = running
      BY <1>1, <1>2, <2>1, <2>3 DEF Lent
    <2>4. CASE h # running
      <3>1. (IF Lent /\ h = Default THEN saved ELSE ring[h])[e] = <<h, forwards[h]>>
        BY <1>1, <2>1, <2>4 DEF IInv, OwnersKeepRows, HoldsRows, Stamp
      <3>2. CASE Lent /\ h = Default
        BY <1>1, <2>1, <2>2, <2>4, <3>1, <3>2
      <3>3. CASE ~(Lent /\ h = Default)
        <4>1. h # Holder(running)
          BY <1>1, <1>2, <2>4, <3>3 DEF Lent
        <4> QED BY <1>1, <2>1, <2>2, <2>4, <3>1, <3>3, <4>1
      <3> QED BY <3>2, <3>3
    <2> QED BY <2>3, <2>4
  <1> QED BY <1>3, <1>4, <1>5

(* Forwards, of any kind.                                                   *)
LEMMA DecodingKeepsInvariant ==
  ASSUME IInv, Chunk \/ DecodeBuilding \/ DecodeReplaying \/ DecodeEager
  PROVE  IInv'
  <1>1. Forward
    BY DEF Chunk, DecodeBuilding, DecodeReplaying, DecodeEager
  <1>2. OwnersKeepRows' /\ BorrowerStartsOver' /\ BorrowerForgot'
    BY <1>1, ForwardKeepsRows
  <1>3. /\ at' \in {"turn", "return"} /\ at = "turn"
        /\ running' = running /\ running \in Sessions
        /\ empty' \in [Sessions -> BOOLEAN]
        /\ forwards' \in [Sessions -> Nat]
        /\ ring' \in [Holders -> [Engines -> Stamps]]
        /\ saved' \in [Engines -> Stamps]
    BY <1>1, ForwardKeepsTypes
  <1>4. /\ graph' \in [GraphSlots -> Sessions \cup {Nobody}]
        /\ views' \in Sessions \cup {Nobody}
        /\ built' \in [Sessions -> BOOLEAN]
        /\ unavailable' \in [Sessions -> BOOLEAN]
    <2>1. CASE Chunk
      BY <1>3, <2>1 DEF IInv, TypeOK, Chunk, InvalidateGraphs, NotBuilt
    <2>2. CASE DecodeBuilding
      BY <1>3, <2>2 DEF IInv, TypeOK, DecodeBuilding
    <2>3. CASE DecodeReplaying
      <3>1. (\E g \in GraphSlots : graph'[g] = Nobody) \in BOOLEAN
        OBVIOUS
      <3> QED BY <1>3, <2>3, <3>1 DEF IInv, TypeOK, DecodeReplaying
    <2>4. CASE DecodeEager
      BY <2>4 DEF IInv, TypeOK, DecodeEager, decoding
    <2> QED BY <2>1, <2>2, <2>3, <2>4
  <1>5. TypeOK'
    BY <1>3, <1>4 DEF TypeOK, Places
  <1>6. DecodesWithItsOwn'
    <2> SUFFICES (\A g \in GraphSlots : graph'[g] \in {running, Nobody})
                 /\ (built'[running] => views' = running)
      BY <1>3 DEF DecodesWithItsOwn
    <2>1. (\A g \in GraphSlots : graph[g] \in {running, Nobody}) /\ (built[running] => views = running)
      BY <1>3 DEF IInv, DecodesWithItsOwn
    <2>2. CASE Chunk
      BY <1>3, <2>2 DEF IInv, TypeOK, Chunk, InvalidateGraphs, NotBuilt
    <2>3. CASE DecodeBuilding
      BY <2>1, <2>3 DEF DecodeBuilding
    <2>4. CASE DecodeReplaying
      BY <2>1, <2>4 DEF DecodeReplaying
    <2>5. CASE DecodeEager
      BY <2>1, <2>5 DEF DecodeEager, decoding
    <2> QED BY <2>2, <2>3, <2>4, <2>5
  <1> QED BY <1>2, <1>5, <1>6 DEF IInv

(* The steps that move the turn on without touching rows or graphs.         *)
LEMMA MovingKeepsInvariant ==
  ASSUME IInv, NEW s \in Sessions, Serve(s) \/ Return \/ GiveUp \/ EndTurn \/ UNCHANGED vars
  PROVE  IInv'
  <1> USE DEF IInv, TypeOK, Places, DecodesWithItsOwn, OwnersKeepRows, BorrowerStartsOver,
              BorrowerForgot, HoldsRows, Stamp, Lent, rings, decoding
  <1>1. CASE Serve(s)
    BY <1>1, SharedAssumption, DefaultIsASession DEF Serve
  <1>2. CASE Return
    BY <1>2 DEF Return
  <1>3. CASE GiveUp
    BY <1>3 DEF GiveUp
  <1>4. CASE EndTurn
    BY <1>4 DEF EndTurn
  <1>5. CASE UNCHANGED vars
    BY <1>5 DEF vars
  <1> QED BY <1>1, <1>2, <1>3, <1>4, <1>5

(* Saving, forgetting and restoring around the turn of a borrower.          *)
LEMMA SavingKeepsInvariant ==
  ASSUME IInv, SaveRings
  PROVE  IInv'
  <1>1. Default \in Sessions /\ Default \in Holders /\ Default \notin Borrowers /\ Nobody \notin Sessions
    BY SharedAssumption, DefaultIsASession DEF Holders
  <1>2. running \in Sessions /\ at = "lend"
    BY DEF SaveRings, IInv, TypeOK
  <1> PICK n \in Copies :
        /\ saved' = [e \in Engines |-> Partial(n, e, ring[Default][e], saved[e])]
        /\ IF n = Len(Order) THEN at' = "forget" /\ UNCHANGED running
           ELSE at' = "idle" /\ running' = Nobody
    BY DEF SaveRings
  <1>3. \A e \in Engines : ring[Default][e] \in Stamps /\ saved[e] \in Stamps
    BY <1>1 DEF IInv, TypeOK
  <1>4. \A e \in Engines : saved'[e] \in Stamps
                             /\ (n = Len(Order) => saved'[e] = ring[Default][e])
    BY <1>3, PartialIsStamp
  <1>5. UNCHANGED <<empty, forwards, ring, graph, views, built, unavailable>>
    BY DEF SaveRings, decoding
  <1>6. at' \in {"forget", "idle"} /\ running' \in Sessions \cup {Nobody}
        /\ (at' # "idle" => running' \in Sessions)
    BY <1>2
  <1>7. saved' \in [Engines -> Stamps]
    BY <1>4
  <1>8. TypeOK'
    BY <1>5, <1>6, <1>7 DEF IInv, TypeOK, Places
  <1>9. DecodesWithItsOwn' /\ BorrowerStartsOver' /\ BorrowerForgot'
    BY <1>6 DEF DecodesWithItsOwn, BorrowerStartsOver, BorrowerForgot
  <1>10. OwnersKeepRows'
    <2>1. \A h \in Holders : ~empty[h] => \A e \in Engines : ring[h][e] = <<h, forwards[h]>>
      BY <1>2 DEF IInv, OwnersKeepRows, HoldsRows, Stamp, Lent
    <2>2. CASE n = Len(Order)
      BY <1>4, <1>5, <2>1, <2>2 DEF OwnersKeepRows, HoldsRows, Stamp
    <2>3. CASE n # Len(Order)
      BY <1>5, <2>1, <2>3 DEF OwnersKeepRows, HoldsRows, Stamp, Lent
    <2> QED BY <2>2, <2>3
  <1> QED BY <1>8, <1>9, <1>10 DEF IInv

LEMMA RestoringKeepsInvariant ==
  ASSUME IInv, RestoreRings
  PROVE  IInv'
  <1>1. Default \in Sessions /\ Default \in Holders /\ Default \notin Borrowers /\ Nobody \notin Sessions
    BY SharedAssumption, DefaultIsASession DEF Holders
  <1>2. running \in Sessions /\ running \in Borrowers /\ at = "return" /\ at' = "idle" /\ running' = Nobody
    BY DEF RestoreRings, IInv, TypeOK
  <1> PICK n \in Copies :
        /\ ring' = [ring EXCEPT ![Default] =
                      [e \in Engines |-> Partial(n, e, saved[e], ring[Default][e])]]
        /\ IF n = Len(Order) THEN UNCHANGED <<empty, decoding>> ELSE ResetSession(Default)
    BY DEF RestoreRings
  <1>3. \A e \in Engines : ring[Default][e] \in Stamps /\ saved[e] \in Stamps
    BY <1>1 DEF IInv, TypeOK
  <1>4. ring'[Default] = [e \in Engines |-> Partial(n, e, saved[e], ring[Default][e])]
        /\ \A h \in Holders : h # Default => ring'[h] = ring[h]
    BY <1>1 DEF IInv, TypeOK
  <1>5. \A e \in Engines : ring'[Default][e] \in Stamps
                             /\ (n = Len(Order) => ring'[Default][e] = saved[e])
    BY <1>3, <1>4, PartialIsStamp
  <1>6. [e \in Engines |-> Partial(n, e, saved[e], ring[Default][e])] \in [Engines -> Stamps]
    BY <1>4, <1>5
  <1>7. ring' \in [Holders -> [Engines -> Stamps]]
    BY <1>6 DEF IInv, TypeOK
  <1>8. UNCHANGED <<forwards, saved>>
    BY DEF RestoreRings
  <1>9. /\ empty' \in [Sessions -> BOOLEAN]
        /\ graph' \in [GraphSlots -> Sessions \cup {Nobody}] /\ views' \in Sessions \cup {Nobody}
        /\ built' \in [Sessions -> BOOLEAN] /\ unavailable' \in [Sessions -> BOOLEAN]
        /\ \A s \in Sessions : s # Default => empty'[s] = empty[s]
        /\ n # Len(Order) => empty'[Default]
        /\ n = Len(Order) => empty'[Default] = empty[Default]
    BY <1>1 DEF IInv, TypeOK, ResetSession, InvalidateGraphs, NotBuilt, decoding
  <1>10. TypeOK'
    BY <1>2, <1>7, <1>8, <1>9 DEF IInv, TypeOK, Places
  <1>11. DecodesWithItsOwn' /\ BorrowerStartsOver' /\ BorrowerForgot'
    BY <1>2 DEF DecodesWithItsOwn, BorrowerStartsOver, BorrowerForgot
  <1>12. OwnersKeepRows'
    <2> SUFFICES ASSUME NEW h \in Holders, ~empty'[h], NEW e \in Engines
                 PROVE  ring'[h][e] = <<h, forwards'[h]>>
      BY <1>1, <1>2 DEF OwnersKeepRows, HoldsRows, Stamp, Lent
    <2>1. h \in Sessions
      BY DEF Holders
    <2>2. CASE h = Default
      <3>1. n = Len(Order) /\ ~empty[Default]
        BY <1>9, <2>2
      <3>2. saved[e] = <<Default, forwards[Default]>>
        BY <1>1, <1>2, <3>1 DEF IInv, OwnersKeepRows, HoldsRows, Stamp, Lent
      <3> QED BY <1>5, <1>8, <2>2, <3>1, <3>2
    <2>3. CASE h # Default
      <3>1. ~empty[h]
        BY <1>9, <2>1, <2>3
      <3>2. ring[h][e] = <<h, forwards[h]>>
        BY <2>3, <3>1 DEF IInv, OwnersKeepRows, HoldsRows, Stamp
      <3> QED BY <1>4, <1>8, <2>3, <3>2
    <2> QED BY <2>2, <2>3
  <1> QED BY <1>10, <1>11, <1>12 DEF IInv

(* A session that forgets leaves nothing to be found in the rings.          *)
LEMMA ForgettingKeepsInvariant ==
  ASSUME IInv, NEW s \in Sessions, ForgetBorrower \/ Reset(s) \/ Clear \/ StartTurn
  PROVE  IInv'
  <1> USE DEF IInv, TypeOK, Places, DecodesWithItsOwn, OwnersKeepRows, BorrowerStartsOver,
              BorrowerForgot, HoldsRows, Stamp, Lent, Holders
  <1>1. CASE ForgetBorrower
    BY <1>1 DEF ForgetBorrower, ResetSession, InvalidateGraphs, NotBuilt, rings
  <1>2. CASE Reset(s)
    BY <1>2 DEF Reset, ResetSession, InvalidateGraphs, NotBuilt, rings
  <1>3. CASE Clear
    BY <1>3 DEF Clear, rings, decoding
  <1>4. CASE StartTurn
    BY <1>4 DEF StartTurn, InvalidateGraphs, NotBuilt, rings
  <1> QED BY <1>1, <1>2, <1>3, <1>4

LEMMA ReopeningKeepsInvariant ==
  ASSUME IInv, NEW s \in Sessions, Reopen(s)
  PROVE  IInv'
  <1>1. at = "idle" /\ at' = "idle" /\ s # Default /\ UNCHANGED <<running, forwards, saved, views>>
    BY DEF Reopen
  <1>2. Garbage \in Stamps
    BY DEF Stamps
  <1>3. ring' \in [Holders -> [Engines -> Stamps]] /\ \A h \in Holders : h # s => ring'[h] = ring[h]
    BY <1>2 DEF Reopen, IInv, TypeOK
  <1>4. /\ empty' \in [Sessions -> BOOLEAN] /\ empty'[s] /\ \A h \in Sessions : h # s => empty'[h] = empty[h]
        /\ built' \in [Sessions -> BOOLEAN] /\ unavailable' \in [Sessions -> BOOLEAN]
        /\ graph' \in [GraphSlots -> Sessions \cup {Nobody}]
    BY DEF Reopen, IInv, TypeOK, InvalidateGraphs, NotBuilt
  <1>5. TypeOK'
    BY <1>1, <1>3, <1>4 DEF IInv, TypeOK
  <1>6. DecodesWithItsOwn' /\ BorrowerStartsOver' /\ BorrowerForgot'
    BY <1>1 DEF DecodesWithItsOwn, BorrowerStartsOver, BorrowerForgot
  <1>7. OwnersKeepRows'
    BY <1>1, <1>3, <1>4 DEF IInv, OwnersKeepRows, HoldsRows, Stamp, Lent, Holders
  <1> QED BY <1>5, <1>6, <1>7 DEF IInv

(* The invariant holds in every state, whatever turns, resets and failing   *)
(* copies the sessions go through.                                          *)
THEOREM SharedInvariant == Spec => []IInv
  <1>1. Init => IInv
    BY InitEstablishes
  <1>2. IInv /\ [Next]_vars => IInv'
    <2> SUFFICES ASSUME IInv, [Next]_vars PROVE IInv'
      OBVIOUS
    <2>1. \A s \in Sessions : Serve(s) \/ Return \/ GiveUp \/ EndTurn \/ UNCHANGED vars => IInv'
      BY MovingKeepsInvariant
    <2>2. \A s \in Sessions : ForgetBorrower \/ Reset(s) \/ Clear \/ StartTurn => IInv'
      BY ForgettingKeepsInvariant
    <2>3. \A s \in Sessions : Reopen(s) => IInv'
      BY ReopeningKeepsInvariant
    <2>4. Default \in Sessions
      BY SharedAssumption, DefaultIsASession
    <2>5. Chunk \/ DecodeBuilding \/ DecodeReplaying \/ DecodeEager => IInv'
      BY DecodingKeepsInvariant
    <2>6. (SaveRings => IInv') /\ (RestoreRings => IInv')
      BY SavingKeepsInvariant, RestoringKeepsInvariant
    <2> QED BY <2>1, <2>2, <2>3, <2>4, <2>5, <2>6 DEF Next
  <1> QED BY <1>1, <1>2, PTL DEF Spec

(* No turn replays a graph of another session, or decodes through views a   *)
(* prefill has rewritten (run_turn, forward_batch, forward_one).            *)
THEOREM GraphsAreItsOwn == Spec => []DecodesWithItsOwn
  <1>1. IInv => DecodesWithItsOwn
    BY DEF IInv
  <1> QED BY <1>1, SharedInvariant, PTL

(* A session that goes on from its KV finds its own latest rows, however    *)
(* many turns borrowed its rings and however their copies failed.           *)
THEOREM RingsAreItsOwn == Spec => []ContinuesItsOwnRows
  <1>1. IInv => ContinuesItsOwnRows
    <2> SUFFICES ASSUME IInv PROVE ContinuesItsOwnRows
      OBVIOUS
    <2>1. ASSUME at \in {"call", "turn"}, ~empty[running]
          PROVE  HoldsRows(running, ring[Holder(running)])
      <3>1. running \in Sessions
        BY <2>1 DEF IInv, TypeOK
      <3>2. CASE running \in Borrowers
        BY <2>1, <3>1, <3>2, HolderIsHolder DEF IInv, BorrowerStartsOver
      <3>3. CASE running \notin Borrowers
        BY <2>1, <3>1, <3>3, HolderIsHolder DEF IInv, OwnersKeepRows, Lent
      <3> QED BY <3>2, <3>3
    <2>2. ASSUME at = "idle", NEW h \in Holders, ~empty[h]
          PROVE  HoldsRows(h, ring[h])
      BY <2>2 DEF IInv, OwnersKeepRows, Lent
    <2> QED BY <2>1, <2>2 DEF ContinuesItsOwnRows
  <1> QED BY <1>1, SharedInvariant, PTL
=============================================================================
