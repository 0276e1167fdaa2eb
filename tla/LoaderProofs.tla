----------------------------- MODULE LoaderProofs -----------------------------
(***************************************************************************)
(* The loader, for any file, any settings and any number of buffers: what  *)
(* a tensor points into is live and holds its bytes, and every allocation  *)
(* has one owner.                                                          *)
(***************************************************************************)
EXTENDS Loader, FiniteSetTheorems, WellFoundedInduction, SequenceTheorems, TLAPS

-----------------------------------------------------------------------------
(* The least and the greatest of a finite set of naturals.                  *)

\* The order of the naturals has no endless descent.
LEMMA NatWF == IsWellFoundedOn({ss \in Nat \X Nat : ss[1] < ss[2]}, Nat)
  BY NatLessThanWellFounded DEF OpToRel

\* A set of naturals that is not empty has a least element.
LEMMA Least ==
  ASSUME NEW T \in SUBSET Nat, T # {}
  PROVE  \E x \in T : \A y \in T : x <= y
  <1> DEFINE R == {ss \in Nat \X Nat : ss[1] < ss[2]}
  <1>1. \E x \in T : \A y \in T : ~(<<y, x>> \in R)
    <2> HIDE DEF R
    <2> QED BY NatWF, WFMin DEF R
  <1>2. PICK x \in T : \A y \in T : ~(<<y, x>> \in R)
    BY <1>1
  <1>3. ASSUME NEW y \in T PROVE x <= y
    <2>1. x \in Nat /\ y \in Nat
      OBVIOUS
    <2>2. ~(<<y, x>> \in R)
      BY <1>2
    <2>3. ~(y < x)
      BY <2>1, <2>2
    <2> QED BY <2>1, <2>3
  <1> QED BY <1>3

(* Induction over the subsets of a finite set. *)
LEMMA SubsetInduction ==
  ASSUME NEW S, IsFiniteSet(S), NEW Good,
         \A s \in SUBSET S : (\A t \in SUBSET s : t # s => t \in Good) => s \in Good
  PROVE  SUBSET S \subseteq Good
  <1>1. SUFFICES ASSUME NEW s0 \in SUBSET S, s0 \notin Good PROVE FALSE
    OBVIOUS
  <1> DEFINE T == {Cardinality(s) : s \in {s \in SUBSET S : s \notin Good}}
  <1>2. \A s \in SUBSET S : IsFiniteSet(s) /\ Cardinality(s) \in Nat
    BY FS_Subset, FS_CardinalityType
  <1>3. T \in SUBSET Nat /\ T # {}
    BY <1>1, <1>2
  <1>4. PICK n \in T : \A m \in T : n <= m
    <2> HIDE DEF T
    <2> QED BY <1>3, Least
  <1>5. PICK s \in SUBSET S : s \notin Good /\ n = Cardinality(s)
    BY <1>4
  <1>6. ASSUME NEW t \in SUBSET s, t # s PROVE t \in Good
    <2>1. Cardinality(t) < Cardinality(s)
      BY <1>2, <1>5, <1>6, FS_Subset
    <2>2. t \in SUBSET S
      OBVIOUS
    <2>3. ~(n <= Cardinality(t))
      BY <1>2, <1>5, <2>1, <2>2
    <2> QED BY <1>4, <2>2, <2>3
  <1> QED BY <1>5, <1>6

\* A finite set of naturals that is not empty has a greatest element.
LEMMA Greatest ==
  ASSUME NEW S \in SUBSET Nat, IsFiniteSet(S), S # {}
  PROVE  \E x \in S : \A y \in S : y <= x
  <1> DEFINE Good == {s \in SUBSET S : s # {} => \E x \in s : \A y \in s : y <= x}
  <1>1. ASSUME NEW s \in SUBSET S, \A t \in SUBSET s : t # s => t \in Good
        PROVE  s \in Good
    <2>1. SUFFICES ASSUME s # {} PROVE \E x \in s : \A y \in s : y <= x
      OBVIOUS
    <2>2. PICK x \in s : TRUE
      BY <2>1
    <2>3. s \ {x} \in Good
      BY <1>1, <2>2
    <2>4. CASE s \ {x} = {}
      BY <2>2, <2>4
    <2>5. CASE s \ {x} # {}
      <3>1. PICK z \in s \ {x} : \A y \in s \ {x} : y <= z
        BY <2>3, <2>5
      <3>2. CASE x <= z
        BY <3>1, <3>2
      <3>3. CASE ~(x <= z)
        <4>1. ASSUME NEW y \in s PROVE y <= x
          <5>1. y = x \/ y <= z
            BY <3>1
          <5>2. x \in Nat /\ y \in Nat /\ z \in Nat
            OBVIOUS
          <5> QED BY <3>3, <5>1, <5>2
        <4> QED BY <4>1
      <3> QED BY <3>2, <3>3
    <2> QED BY <2>4, <2>5
  <1>2. SUBSET S \subseteq Good
    <2> HIDE DEF Good
    <2> QED BY <1>1, SubsetInduction
  <1> QED BY <1>2

\* Min and Max are in the set and bound it.
LEMMA MinMax ==
  ASSUME NEW S \in SUBSET Nat, IsFiniteSet(S), S # {}
  PROVE  /\ Min(S) \in S /\ \A y \in S : Min(S) <= y
         /\ Max(S) \in S /\ \A y \in S : y <= Max(S)
  <1>1. PICK x \in S : \A y \in S : x <= y
    BY Least
  <1>2. PICK z \in S : \A y \in S : y <= z
    BY Greatest
  <1>3. \A y \in S : z >= y
    BY <1>2
  <1>4. Min(S) \in S /\ \A y \in S : Min(S) =< y
    BY <1>1 DEF Min
  <1>5. Max(S) \in S /\ \A y \in S : Max(S) >= y
    BY <1>3 DEF Max
  <1> QED BY <1>4, <1>5

-----------------------------------------------------------------------------
(* The inductive invariant.                                                 *)

Tower == TowerOf("vision")
TowerWindow == WindowOf("vision")
TowerKind == IF env.visionMmap THEN "mmap" ELSE "vram"
Of(b) == blocks[b].names
Listing(b) == loading.block = b

\* What the registry has of the tower when it is one allocation.
TowerNames == IF file.tower THEN Of("vision") ELSE {}
TowerThere == file.tower /\ (blocks["vision"].loaded \/ Listing("vision"))

\* The local variables of a load: one block at a time, in one of its ways.
LoadingOK ==
  /\ loading \in [block : Blocks \cup {"none", "buffers"},
                  mode : {"none", "each", "mapped", "contiguous", "fuse", "buffers"},
                  next : Nat \ {0}, base : {NoMemory, Tower}]
  /\ loading.mode = "none" => loading = Rest
  /\ loading.mode \in {"each", "fuse"} =>
        loading.block \in Blocks /\ TowerMode(loading.block) = "each" /\ loading.base = NoMemory
  /\ loading.mode \in {"mapped", "contiguous"} =>
        Listing("vision") /\ file.tower /\ loading.mode = TowerMode("vision") /\ loading.base = Tower
  /\ loading.mode \in {"each", "mapped", "contiguous"} => loading.next <= Len(OfBlock(loading.block)) + 1
  /\ loading.mode = "buffers" => Listing("buffers") /\ loading.base = NoMemory /\ loading.next <= Len(Buffers)

State(loaded, names, staged, window, capacity) ==
  [loaded |-> loaded, names |-> names, staged |-> staged, window |-> window, capacity |-> capacity]

\* Only the tower is staged, and only when it is loaded.
BlocksOK ==
  /\ blocks = [b \in Blocks |-> State(blocks[b].loaded, blocks[b].names, blocks[b].staged,
                                     blocks[b].window, blocks[b].capacity)]
  /\ \A b \in Blocks :
       /\ blocks[b].loaded \in BOOLEAN
       /\ blocks[b].capacity \in Nat
       /\ blocks[b].window \in {NoMemory, WindowOf(b)}
       /\ Listing(b) => ~blocks[b].loaded
       /\ blocks[b].loaded \/ Listing(b) => 1 \in DOMAIN OfBlock(b)
       /\ ~blocks[b].loaded /\ ~Listing(b) => Of(b) = {}
       /\ IsStaged(b) => blocks[b].window # NoMemory
       /\ blocks[b].window # NoMemory => b = "vision" /\ blocks[b].loaded /\ file.tower /\ env.visionMmap

\* Who registered each name.
RegistryOK ==
  /\ env.taken \cup Of("text") \cup Of("vision") \subseteq DOMAIN tensors
  /\ DOMAIN tensors \subseteq env.taken \cup Of("text") \cup Of("vision") \cup Range(Buffers)
  /\ loading.mode = "buffers" => \A i \in DOMAIN Buffers : Buffers[i] \in DOMAIN tensors <=> i < loading.next
  /\ loading.mode # "buffers" => Range(Buffers) \subseteq DOMAIN tensors \/ Range(Buffers) \cap DOMAIN tensors = {}

PartsOf(b) == {Part(b, i) : i \in DOMAIN OfBlock(b)}
FusedNames == {Fused(l, kind) : l \in Int, kind \in {"qkv", "gate_up"}}

NamesOK ==
  /\ Of("text") \subseteq PartsOf("text") \cup FusedNames
  /\ Of("vision") \subseteq PartsOf("vision")
  /\ Of("vision") \cap env.taken = {}
  /\ file.tower => \A i \in DOMAIN OfBlock("vision") :
       Part("vision", i) \in Of("vision") <=> blocks["vision"].loaded \/ (Listing("vision") /\ i < loading.next)

\* A tensor with memory of its own.
Size(n) == CASE n[2] = "qkv" -> 3 [] n[2] = "gate_up" -> 2 [] OTHER -> 1

Single(n) ==
  /\ heap[n] = [kind |-> heap[n].kind, bytes |-> Meant(n)]
  /\ tensors[n] = Info(n, 0, Size(n), n, heap[n].kind)
  /\ heap[n].kind = "mmap" => EmbeddingIsLookupOnly(n)

HeapOK ==
  /\ DOMAIN heap = (DOMAIN tensors \ TowerNames) \cup ({blocks["vision"].window} \ {NoMemory})
                     \cup (IF TowerThere THEN {Tower} ELSE {})
  /\ \A n \in DOMAIN tensors \ TowerNames : Single(n)

\* A view of the tower: where it is in the allocation, and in the window.
Owner(i) == IF i = 1 THEN Tower ELSE NoMemory
Home(i) == Info(Tower, Offset("vision", i) - Start("vision"), 1, Owner(i), TowerKind)
InWindow(i) == Info(TowerWindow, Offset("vision", i) - First("vision", Part("vision", i)[1]), 1, Owner(i), TowerKind)

\* Memory that holds the bytes of a tensor at an offset.
Holds(a, offset, n) ==
  /\ heap[a].bytes \in Seq(Names)
  /\ offset + 1 \in 1 .. Len(heap[a].bytes)
  /\ heap[a].bytes[offset + 1] = n

StagedName(n) == n \in DOMAIN blocks["vision"].staged

TowerOK ==
  /\ TowerThere => heap[Tower] = [kind |-> TowerKind, bytes |-> heap[Tower].bytes]
  /\ TowerThere => heap[Tower].bytes \in Seq(Names) /\ Len(heap[Tower].bytes) = Length("vision")
  /\ file.tower => \A i \in DOMAIN OfBlock("vision") : Part("vision", i) \in Of("vision") =>
        /\ Holds(Tower, Offset("vision", i) - Start("vision"), Part("vision", i))
        /\ tensors[Part("vision", i)] = IF StagedName(Part("vision", i)) THEN InWindow(i) ELSE Home(i)

StagedOK ==
  /\ DOMAIN blocks["vision"].staged \subseteq Of("vision")
  /\ \A i \in DOMAIN OfBlock("vision") : StagedName(Part("vision", i)) =>
        /\ blocks["vision"].staged[Part("vision", i)] = Home(i)
        /\ Holds(TowerWindow, Offset("vision", i) - First("vision", Part("vision", i)[1]), Part("vision", i))

\* A block loaded is all there.
Wants(b, i) == TowerMode(b) = "each" => Part(b, i) \in env.kept

CompleteOK ==
  /\ \A b \in Blocks : blocks[b].loaded \/ (Listing(b) /\ loading.mode = "fuse") =>
       \A i \in DOMAIN OfBlock(b) : Wants(b, i) => Present(Part(b, i))
  /\ loading.mode = "each" => \A i \in DOMAIN OfBlock(loading.block) :
       i < loading.next /\ Wants(loading.block, i) => Present(Part(loading.block, i))

\* Where no fusion fails, those of the text are made when it is loaded.
Fusable(i) == Wanted(Fusions[i][1], Fusions[i][2]) /\ CanConcat(Parts(Fusions[i][1], Fusions[i][2]))

FusedOK ==
  ~file.fusionMayFail => \A i \in DOMAIN Fusions :
    blocks["text"].loaded \/ (Listing("text") /\ loading.mode = "fuse" /\ i < loading.next) => ~Fusable(i)

FixedOK == file \in Files /\ env \in Settings /\ (env.taken # {} => file.tower)

LoaderInv ==
  /\ FixedOK /\ LoadingOK /\ BlocksOK /\ RegistryOK /\ NamesOK
  /\ HeapOK /\ TowerOK /\ StagedOK /\ CompleteOK /\ FusedOK
-----------------------------------------------------------------------------
(* The directory.                                                           *)

\* What the assumption says of the file that is open.
LEMMA TheFile ==
  ASSUME FixedOK
  PROVE  WellFormed(file)
  BY FilesAssumption DEF FixedOK

\* An entry has a name of its own kind and an offset.
LEMMA AnEntry ==
  ASSUME FixedOK, NEW b \in Blocks, NEW i \in DOMAIN OfBlock(b)
  PROVE  /\ Part(b, i) \in Names /\ Part(b, i)[2] \notin Reserved
         /\ b = "vision" => Part(b, i)[2] \notin Weights
         /\ Part(b, i)[2] \in {"token_embedding", "lm_head"} => Part(b, i)[1] = -1
         /\ Part(b, i)[2] = "v_proj" => Part(b, i)[1] \notin file.kEqV
         /\ Offset(b, i) \in Nat
         /\ OfBlock(b) \in Seq([name : Names, offset : Nat])
         /\ i \in 1 .. Len(OfBlock(b)) /\ Len(OfBlock(b)) \in Nat
  <1>1. WellFormed(file)
    BY TheFile
  <1>2. OfBlock(b) \in Seq([name : Names, offset : Nat])
    BY <1>1 DEF WellFormed, OfBlock
  <1>3. i \in 1 .. Len(OfBlock(b)) /\ Len(OfBlock(b)) \in Nat
    BY <1>2
  <1>4. OfBlock(b)[i] \in [name : Names, offset : Nat]
    BY <1>2, <1>3, ElementOfSeq
  <1>5. Part(b, i) \in Names /\ Offset(b, i) \in Nat
    BY <1>4 DEF Part, Offset
  <1> QED BY <1>1, <1>2, <1>3, <1>5 DEF WellFormed, OfBlock, Part

\* No two entries share a name or an offset.
LEMMA Distinct ==
  ASSUME FixedOK, NEW b \in Blocks, NEW c \in Blocks,
         NEW i \in DOMAIN OfBlock(b), NEW j \in DOMAIN OfBlock(c),
         Part(b, i) = Part(c, j) \/ Offset(b, i) = Offset(c, j)
  PROVE  b = c /\ i = j
  <1>1. WellFormed(file)
    BY TheFile
  <1> QED BY <1>1 DEF WellFormed, OfBlock, Part, Offset

\* A block is a finite sequence.
LEMMA BlockSeq ==
  ASSUME FixedOK, NEW b \in Blocks
  PROVE  /\ OfBlock(b) \in Seq([name : Names, offset : Nat])
         /\ Len(OfBlock(b)) \in Nat /\ DOMAIN OfBlock(b) = 1 .. Len(OfBlock(b))
  <1>1. WellFormed(file)
    BY TheFile
  <1>2. OfBlock(b) \in Seq([name : Names, offset : Nat])
    BY <1>1 DEF WellFormed, OfBlock
  <1> QED BY <1>2

\* The least and the greatest offset of some entries of a block.
LEMMA Bounds ==
  ASSUME FixedOK, NEW b \in Blocks, NEW S \in SUBSET DOMAIN OfBlock(b), NEW k \in S
  PROVE  LET offsets == {Offset(b, i) : i \in S} IN
         /\ Min(offsets) \in Nat /\ Max(offsets) \in Nat
         /\ Min(offsets) <= Offset(b, k) /\ Offset(b, k) <= Max(offsets)
  <1> DEFINE offsets == {Offset(b, i) : i \in S}
  <1>1. IsFiniteSet(S)
    <2>1. IsFiniteSet(1 .. Len(OfBlock(b)))
      BY BlockSeq, FS_Interval
    <2> QED BY <2>1, BlockSeq, FS_Subset
  <1>2. IsFiniteSet(offsets)
    <2> DEFINE f == [i \in S |-> Offset(b, i)]
    <2>1. f \in Surjection(S, offsets)
      BY DEF Surjection
    <2> HIDE DEF f, offsets
    <2> QED BY <1>1, <2>1, FS_Surjection
  <1>3. offsets \in SUBSET Nat /\ Offset(b, k) \in offsets
    BY AnEntry
  <1> HIDE DEF offsets
  <1>4. /\ Min(offsets) \in offsets /\ \A y \in offsets : Min(offsets) <= y
        /\ Max(offsets) \in offsets /\ \A y \in offsets : y <= Max(offsets)
    BY <1>2, <1>3, MinMax
  <1>5. /\ Min(offsets) \in Nat /\ Max(offsets) \in Nat
        /\ Min(offsets) <= Offset(b, k) /\ Offset(b, k) <= Max(offsets)
    BY <1>3, <1>4
  <1> QED BY <1>5 DEF offsets

\* An entry is within the range of its block.
LEMMA InBlock ==
  ASSUME FixedOK, NEW b \in Blocks, NEW i \in DOMAIN OfBlock(b)
  PROVE  /\ Start(b) \in Nat /\ Length(b) \in Nat
         /\ Offset(b, i) - Start(b) \in Nat
         /\ Offset(b, i) - Start(b) + 1 \in 1 .. Length(b)
  <1> DEFINE offsets == {Offset(b, j) : j \in DOMAIN OfBlock(b)}
  <1>1. /\ Min(offsets) \in Nat /\ Max(offsets) \in Nat
        /\ Min(offsets) <= Offset(b, i) /\ Offset(b, i) <= Max(offsets)
    BY Bounds
  <1>2. Start(b) = Min(offsets) /\ Length(b) = Max(offsets) + 1 - Start(b)
    BY DEF Start, Length
  <1>3. Offset(b, i) \in Nat
    BY AnEntry
  <1> HIDE DEF offsets
  <1> QED BY <1>1, <1>2, <1>3

\* An entry is within the range of its phase.
LEMMA InPhase ==
  ASSUME FixedOK, NEW b \in Blocks, NEW phase, NEW i \in Selected(b, phase)
  PROVE  /\ First(b, phase) \in Nat /\ Span(b, phase) \in Nat
         /\ Offset(b, i) - First(b, phase) \in Nat
         /\ Offset(b, i) - First(b, phase) + 1 \in 1 .. Span(b, phase)
  <1> DEFINE offsets == {Offset(b, j) : j \in Selected(b, phase)}
  <1>1. Selected(b, phase) \in SUBSET DOMAIN OfBlock(b)
    BY DEF Selected
  <1>2. /\ Min(offsets) \in Nat /\ Max(offsets) \in Nat
        /\ Min(offsets) <= Offset(b, i) /\ Offset(b, i) <= Max(offsets)
    BY <1>1, Bounds
  <1>3. First(b, phase) = Min(offsets) /\ Span(b, phase) = Max(offsets) + 1 - First(b, phase)
    BY DEF First, Span, Offsets
  <1>4. Offset(b, i) \in Nat
    BY <1>1, AnEntry
  <1> HIDE DEF offsets
  <1> QED BY <1>2, <1>3, <1>4

\* The bytes of a range of the file: each entry within it is at its place.
LEMMA SliceHolds ==
  ASSUME FixedOK, NEW from \in Nat, NEW size \in Nat
  PROVE  /\ Slice(from, size) \in Seq(Names) /\ Len(Slice(from, size)) = size
         /\ \A b \in Blocks : \A i \in DOMAIN OfBlock(b) :
              Offset(b, i) - from + 1 \in 1 .. size => Slice(from, size)[Offset(b, i) - from + 1] = Part(b, i)
  <1> DEFINE There(k) == {e \in Entries : e.offset = from + k - 1}
             Byte(k) == IF There(k) = {} THEN <<-1, "gap">> ELSE (CHOOSE e \in There(k) : TRUE).name
  <1>1. Slice(from, size) = [k \in 1 .. size |-> Byte(k)]
    BY DEF Slice
  <1>2. ASSUME NEW e \in Entries
        PROVE  \E b \in Blocks : \E i \in DOMAIN OfBlock(b) : e = OfBlock(b)[i]
    BY DEF Entries, Range
  <1>3. ASSUME NEW k \in 1 .. size PROVE Byte(k) \in Names
    <2>1. <<-1, "gap">> \in Names
      <3>1. -1 \in Int /\ "gap" \in STRING
        BY StringAssumption
      <3> QED BY <3>1 DEF Names
    <2>2. CASE There(k) = {}
      BY <2>1, <2>2
    <2>3. CASE There(k) # {}
      <3> DEFINE e == CHOOSE e \in There(k) : TRUE
      <3>1. e \in There(k)
        BY <2>3
      <3>2. e \in Entries
        BY <3>1
      <3> HIDE DEF e
      <3>3. PICK b \in Blocks : \E i \in DOMAIN OfBlock(b) : e = OfBlock(b)[i]
        BY <1>2, <3>2
      <3>4. PICK i \in DOMAIN OfBlock(b) : e = OfBlock(b)[i]
        BY <3>3
      <3>5. e.name \in Names
        BY <3>4, AnEntry DEF Part
      <3> QED BY <2>3, <3>5 DEF e
    <2> QED BY <2>2, <2>3
  <1>4. ASSUME NEW b \in Blocks, NEW i \in DOMAIN OfBlock(b), Offset(b, i) - from + 1 \in 1 .. size
        PROVE  Byte(Offset(b, i) - from + 1) = Part(b, i)
    <2> DEFINE k == Offset(b, i) - from + 1
    <2>1. OfBlock(b)[i] \in Entries /\ Offset(b, i) \in Nat
      BY AnEntry DEF Entries, Range
    <2>2. from + k - 1 = Offset(b, i)
      BY <2>1
    <2>3. OfBlock(b)[i] \in There(k)
      BY <2>1, <2>2 DEF Offset
    <2>4. ASSUME NEW e \in There(k) PROVE e.name = Part(b, i)
      <3>1. e \in Entries /\ e.offset = Offset(b, i)
        BY <2>2
      <3>2. PICK c \in Blocks : \E j \in DOMAIN OfBlock(c) : e = OfBlock(c)[j]
        BY <1>2, <3>1
      <3>3. PICK j \in DOMAIN OfBlock(c) : e = OfBlock(c)[j]
        BY <3>2
      <3>4. c = b /\ j = i
        BY <3>1, <3>3, Distinct DEF Offset
      <3> QED BY <3>3, <3>4 DEF Part
    <2> DEFINE e == CHOOSE e \in There(k) : TRUE
    <2>5. e \in There(k)
      BY <2>3
    <2>6. e.name = Part(b, i)
      BY <2>4, <2>5
    <2> QED BY <2>3, <2>6
  <1> HIDE DEF Byte
  <1> QED BY <1>1, <1>3, <1>4

\* Memory that nothing was copied to.
LEMMA JunkSeq ==
  ASSUME NEW size \in Nat
  PROVE  Junk(size) \in Seq(Names) /\ Len(Junk(size)) = size
  <1>1. <<-1, "junk">> \in Names
    <2>1. -1 \in Int /\ "junk" \in STRING
      BY StringAssumption
    <2> QED BY <2>1 DEF Names
  <1> QED BY <1>1 DEF Junk

-----------------------------------------------------------------------------
(* The names of the registry, and what they stand for.                      *)

\* A name of the registry is of a tensor, and those the loader knows are of the text.
LEMMA RegisteredNames ==
  ASSUME FixedOK, RegistryOK, NamesOK, NEW n \in DOMAIN tensors
  PROVE  /\ n \in Names /\ n[2] \notin {"none", "text", "vision"}
         /\ n[2] \in Weights \cup {"qkv", "gate_up"} => n \in Of("text")
  <1>1. n \in env.taken \cup Of("text") \cup Of("vision") \cup Range(Buffers)
    BY DEF RegistryOK
  <1>2. CASE n \in env.taken
    BY <1>2, FilesAssumption DEF FixedOK, ForeignName, Reserved
  <1>3. CASE n \in Range(Buffers)
    <2>1. PICK i \in DOMAIN Buffers : n = Buffers[i]
      BY <1>3 DEF Range
    <2> QED BY <2>1, FilesAssumption DEF ForeignName, Reserved
  <1>4. CASE n \in Of("text")
    <2>1. n \in PartsOf("text") \/ n \in FusedNames
      BY <1>4 DEF NamesOK
    <2>2. CASE n \in FusedNames
      <3>1. PICK l \in Int, kind \in {"qkv", "gate_up"} : n = Fused(l, kind)
        BY <2>2 DEF FusedNames
      <3>2. kind \in STRING
        BY StringAssumption DEF Reserved
      <3> QED BY <1>4, <3>1, <3>2 DEF Fused, Names
    <2>3. CASE n \in PartsOf("text")
      <3>1. PICK i \in DOMAIN OfBlock("text") : n = Part("text", i)
        BY <2>3 DEF PartsOf
      <3> QED BY <1>4, <3>1, AnEntry DEF Blocks, Reserved
    <2> QED BY <2>1, <2>2, <2>3
  <1>5. CASE n \in Of("vision")
    <2>1. PICK i \in DOMAIN OfBlock("vision") : n = Part("vision", i)
      BY <1>5 DEF NamesOK, PartsOf
    <2> QED BY <2>1, AnEntry DEF Blocks, Reserved
  <1> QED BY <1>1, <1>2, <1>3, <1>4, <1>5

\* So no tensor has the name of the memory of a block.
LEMMA NotMemory ==
  ASSUME FixedOK, RegistryOK, NamesOK, NEW n \in DOMAIN tensors
  PROVE  n # NoMemory /\ n # Tower /\ n # TowerWindow
  BY RegisteredNames DEF NoMemory, Tower, TowerWindow, TowerOf, WindowOf

\* Each name has one origin.
LEMMA Apart ==
  ASSUME FixedOK, NamesOK
  PROVE  /\ Of("text") \cap Of("vision") = {} /\ Of("text") \cap env.taken = {}
         /\ Range(Buffers) \cap (Of("text") \cup Of("vision") \cup env.taken) = {}
  <1>1. ASSUME NEW n \in Of("text")
        PROVE  n \notin Of("vision") /\ n \notin env.taken /\ n \notin Range(Buffers)
    <2>1. n \in PartsOf("text") \/ n \in FusedNames
      BY DEF NamesOK
    <2>2. CASE n \in FusedNames
      <3>1. n[2] \in Reserved
        BY <2>2 DEF FusedNames, Fused, Reserved
      <3>2. n \notin Of("vision")
        BY <3>1, AnEntry DEF NamesOK, PartsOf, Blocks
      <3> QED BY <3>1, <3>2, FilesAssumption DEF FixedOK, ForeignName, Range
    <2>3. CASE n \in PartsOf("text")
      <3>1. PICK i \in DOMAIN OfBlock("text") : n = Part("text", i)
        BY <2>3 DEF PartsOf
      <3>2. n \notin Of("vision")
        BY <3>1, Distinct DEF NamesOK, PartsOf, Blocks
      <3>3. n \notin env.taken
        BY <3>1, FilesAssumption DEF FixedOK, Part, OfBlock
      <3>4. n \notin Range(Buffers)
        BY <3>1, FilesAssumption DEF FixedOK, Part, OfBlock, Range, Blocks
      <3> QED BY <3>2, <3>3, <3>4
    <2> QED BY <2>1, <2>2, <2>3
  <1>2. ASSUME NEW n \in Range(Buffers), n \in Of("vision")
        PROVE  FALSE
    <2>1. PICK i \in DOMAIN OfBlock("vision") : n = Part("vision", i)
      BY <1>2 DEF NamesOK, PartsOf
    <2> QED BY <2>1, FilesAssumption DEF FixedOK, Part, OfBlock, Range, Blocks
  <1>3. ASSUME NEW n \in Range(Buffers) PROVE n \notin env.taken
    BY FilesAssumption DEF FixedOK, Range
  <1> QED BY <1>1, <1>2, <1>3

\* What a tensor means is a sequence of names.
LEMMA MeantSeq ==
  ASSUME NEW n \in Names
  PROVE  Meant(n) \in Seq(Names) /\ Len(Meant(n)) = Size(n) /\ Size(n) \in Nat
  <1>1. \A l \in Int, part \in Weights : <<l, part>> \in Names
    BY StringAssumption DEF Names
  <1>2. n[1] \in Int
    BY DEF Names
  <1>3. /\ Q(n[1]) \in Names /\ K(n[1]) \in Names /\ V(n[1]) \in Names
        /\ Gate(n[1]) \in Names /\ Up(n[1]) \in Names
    BY <1>1, <1>2 DEF Q, K, V, Gate, Up, Weights
  <1>4. ValuesOf(n[1]) \in Names
    BY <1>3 DEF ValuesOf
  <1> QED BY <1>3, <1>4 DEF Meant, Size

\* A weight of a tensor's own means itself.
LEMMA MeantAlone ==
  ASSUME NEW n, n[2] \notin {"qkv", "gate_up"}
  PROVE  Meant(n) = <<n>> /\ Size(n) = 1
  BY DEF Meant, Size

\* A tensor with memory of its own holds what it means.
LEMMA SingleHolds ==
  ASSUME NEW n \in Names, Single(n)
  PROVE  Held(n) = Meant(n)
  <1>1. Held(n) = SubSeq(Meant(n), 0 + 1, 0 + Size(n))
    <2>1. tensors[n].alloc = n /\ tensors[n].at = 0 /\ tensors[n].size = Size(n)
      BY DEF Single, Info
    <2>2. heap[n].bytes = Meant(n)
      BY DEF Single
    <2> QED BY <2>1, <2>2, Zenon DEF Held
  <1>2. Meant(n) \in Seq(Names) /\ Len(Meant(n)) = Size(n) /\ Size(n) \in Nat
    BY MeantSeq
  <1>3. SubSeq(Meant(n), 1, Len(Meant(n))) = Meant(n)
    BY <1>2, SubSeqFull
  <1> QED BY <1>1, <1>2, <1>3

\* One byte of memory.
LEMMA OneByte ==
  ASSUME NEW n, NEW a, NEW offset \in Nat, Holds(a, offset, n),
         NEW own, NEW kind, n \in DOMAIN tensors, tensors[n] = Info(a, offset, 1, own, kind)
  PROVE  Held(n) = <<n>>
  <1> DEFINE s == heap[a].bytes
  <1>1. Held(n) = SubSeq(s, offset + 1, offset + 1)
    <2>1. tensors[n].alloc = a /\ tensors[n].at = offset /\ tensors[n].size = 1
      BY DEF Info
    <2> QED BY <2>1, Zenon DEF Held
  <1>2. s[offset + 1] = n /\ s \in Seq(Names) /\ offset + 1 \in 1 .. Len(s)
    BY DEF Holds
  <1>3. n \in Names
    BY <1>2, ElementOfSeq
  <1> HIDE DEF s
  <1>4. \A i \in offset + 1 .. offset + 1 : s[i] \in Names
    BY <1>2, <1>3
  <1>5. /\ SubSeq(s, offset + 1, offset + 1) \in Seq(Names)
        /\ Len(SubSeq(s, offset + 1, offset + 1)) = 1
        /\ SubSeq(s, offset + 1, offset + 1)[1] = n
    BY <1>2, <1>4, SubSeqProperties
  <1>6. <<n>> \in Seq(Names) /\ Len(<<n>>) = 1 /\ <<n>>[1] = n
    BY <1>3
  <1>7. SubSeq(s, offset + 1, offset + 1) = <<n>>
    <2>1. \A i \in 1 .. Len(<<n>>) : SubSeq(s, offset + 1, offset + 1)[i] = <<n>>[i]
      BY <1>5, <1>6
    <2> QED BY <1>5, <1>6, <2>1, SeqEqual
  <1> QED BY <1>1, <1>7

(* The invariant gives the first property: whatever the registry points     *)
(* into is live and holds the bytes of the tensor.                          *)
LEMMA InvHolds ==
  ASSUME LoaderInv
  PROVE  TensorsHoldTheirData
  <1> USE DEF LoaderInv
  <1>1. SUFFICES ASSUME NEW n \in DOMAIN tensors
                 PROVE  tensors[n].alloc \in DOMAIN heap /\ Held(n) = Meant(n)
    BY DEF TensorsHoldTheirData
  <1>2. n \in Names /\ n[2] \notin {"none", "text", "vision"}
    BY RegisteredNames
  <1>3. CASE n \notin TowerNames
    <2>1. Single(n) /\ n \in DOMAIN heap
      BY <1>3 DEF HeapOK
    <2>2. tensors[n].alloc = n
      BY <2>1 DEF Single, Info
    <2> QED BY <1>2, <2>1, <2>2, SingleHolds
  <1>4. CASE n \in TowerNames
    <2>1. file.tower /\ n \in Of("vision")
      BY <1>4 DEF TowerNames
    <2>2. PICK i \in DOMAIN OfBlock("vision") : n = Part("vision", i)
      BY <2>1 DEF NamesOK, PartsOf
    <2>3. Meant(n) = <<n>>
      BY <2>2, AnEntry, MeantAlone DEF Blocks, Reserved
    <2>4. TowerThere
      BY <2>1 DEF BlocksOK, TowerThere, Blocks, Of, Listing
    <2>5. CASE ~StagedName(n)
      <3>1. Holds(Tower, Offset("vision", i) - Start("vision"), n) /\ tensors[n] = Home(i)
        BY <2>1, <2>2, <2>5 DEF TowerOK
      <3>2. Offset("vision", i) - Start("vision") \in Nat
        BY InBlock DEF Blocks
      <3>3. Held(n) = <<n>>
        BY <3>1, <3>2, OneByte DEF Home
      <3>4. Tower \in DOMAIN heap /\ tensors[n].alloc = Tower
        BY <2>4, <3>1 DEF HeapOK, Home, Info
      <3> QED BY <2>3, <3>3, <3>4
    <2>6. CASE StagedName(n)
      <3>1. tensors[n] = InWindow(i)
        BY <2>1, <2>2, <2>6 DEF TowerOK
      <3>2. Holds(TowerWindow, Offset("vision", i) - First("vision", Part("vision", i)[1]), n)
        BY <2>2, <2>6 DEF StagedOK
      <3>3. i \in Selected("vision", Part("vision", i)[1])
        BY DEF Selected
      <3>4. Offset("vision", i) - First("vision", Part("vision", i)[1]) \in Nat
        BY <3>3, InPhase DEF Blocks
      <3>5. Held(n) = <<n>>
        BY <3>1, <3>2, <3>4, OneByte DEF InWindow
      <3>6. blocks["vision"].window # NoMemory /\ blocks["vision"].window = TowerWindow
        BY <2>6 DEF StagedName, BlocksOK, IsStaged, Blocks, TowerWindow
      <3>7. TowerWindow \in DOMAIN heap /\ tensors[n].alloc = TowerWindow
        BY <3>1, <3>6 DEF HeapOK, InWindow, Info
      <3> QED BY <2>3, <3>5, <3>7
    <2> QED BY <2>5, <2>6
  <1> QED BY <1>3, <1>4

\* While the tower is loaded its allocation is a local of the load.
LEMMA TowerBase ==
  ASSUME LoadingOK
  PROVE  /\ loading.base = Tower <=> file.tower /\ Listing("vision")
         /\ loading.base # Tower => loading.base = NoMemory
         /\ loading.base \in {NoMemory, Tower}
         /\ file.tower /\ Listing("vision") => loading.mode \in {"mapped", "contiguous"} /\ loading.mode = TowerMode("vision")
  <1>1. Tower # NoMemory
    BY DEF Tower, TowerOf, NoMemory
  <1>2. /\ loading.mode \in {"none", "each", "mapped", "contiguous", "fuse", "buffers"}
        /\ loading.base \in {NoMemory, Tower}
    BY DEF LoadingOK
  <1>3. CASE loading.mode = "none"
    BY <1>1, <1>3 DEF LoadingOK, Rest, Listing
  <1>4. CASE loading.mode \in {"each", "fuse"}
    BY <1>1, <1>4 DEF LoadingOK, Listing, TowerMode
  <1>5. CASE loading.mode \in {"mapped", "contiguous"}
    BY <1>1, <1>5 DEF LoadingOK, Listing
  <1>6. CASE loading.mode = "buffers"
    BY <1>1, <1>6 DEF LoadingOK, Listing
  <1> QED BY <1>2, <1>3, <1>4, <1>5, <1>6

\* Nothing is loaded between two calls.
LEMMA IdleMode ==
  ASSUME LoadingOK
  PROVE  Idle <=> loading.mode = "none"
  BY DEF LoadingOK, Idle, Rest

\* Where a view of the tower is known, its tensor.
LEMMA ViewTensor ==
  ASSUME LoaderInv, NEW n \in TowerNames
  PROVE  /\ TowerThere /\ n \in Of("vision")
         /\ \E i \in DOMAIN OfBlock("vision") :
              /\ n = Part("vision", i) /\ tensors[n].own = Owner(i) /\ tensors[n].kind = TowerKind
              /\ tensors[n] = IF StagedName(n) THEN InWindow(i) ELSE Home(i)
  <1> USE DEF LoaderInv
  <1>1. file.tower /\ n \in Of("vision")
    BY DEF TowerNames
  <1>2. PICK i \in DOMAIN OfBlock("vision") : n = Part("vision", i)
    BY <1>1 DEF NamesOK, PartsOf
  <1>3. TowerThere
    BY <1>1 DEF BlocksOK, TowerThere, Blocks, Of, Listing
  <1>4. tensors[n] = IF StagedName(n) THEN InWindow(i) ELSE Home(i)
    BY <1>1, <1>2 DEF TowerOK
  <1>5. tensors[n].own = Owner(i) /\ tensors[n].kind = TowerKind
    BY <1>4 DEF InWindow, Home, Info
  <1> QED BY <1>1, <1>2, <1>3, <1>4, <1>5

\* A set with one element has one.
LEMMA OneOwner ==
  ASSUME NEW a, NEW x, Owners(a) = {x}
  PROVE  Cardinality(Owners(a)) = 1
  BY FS_Singleton

\* Who owns an allocation, by what it was made for.
LEMMA OwnersAre ==
  ASSUME NEW a
  PROVE  \A x : x \in Owners(a) <=>
           \/ x \in DOMAIN tensors /\ tensors[x].own = a
           \/ \E b \in Blocks : x = <<-1, b>> /\ blocks[b].window = a
           \/ x = <<-2, loading.block>> /\ loading.base = a /\ loading.next = 1
  <1>1. \A l : l \in {k \in {loading} : k.base = a /\ k.next = 1} <=> l = loading /\ loading.base = a /\ loading.next = 1
    OBVIOUS
  <1>2. \A x : x \in {<<-2, l.block>> : l \in {k \in {loading} : k.base = a /\ k.next = 1}}
                 <=> x = <<-2, loading.block>> /\ loading.base = a /\ loading.next = 1
    BY <1>1
  <1>3. \A x : x \in {<<-1, b>> : b \in {c \in Blocks : blocks[c].window = a}}
                 <=> \E b \in Blocks : x = <<-1, b>> /\ blocks[b].window = a
    OBVIOUS
  <1> QED BY <1>2, <1>3 DEF Owners

\* A set is known by its one element.
LEMMA OnlyOwner ==
  ASSUME NEW a, \E y : \A x : x \in Owners(a) <=> x = y
  PROVE  \E x : Owners(a) = {x}
  <1>0. PICK y : \A x : x \in Owners(a) <=> x = y
    OBVIOUS
  <1>1. Owners(a) = {y}
    BY <1>0
  <1> QED BY <1>1

\* The windows of the blocks.
LEMMA TheWindow ==
  ASSUME BlocksOK, NEW b \in Blocks
  PROVE  /\ blocks[b].window = NoMemory \/ (b = "vision" /\ blocks[b].window = TowerWindow)
         /\ blocks["text"].window = NoMemory
         /\ ~IsStaged("text")
  BY DEF BlocksOK, Blocks, TowerWindow

\* Every allocation has one owner.
LEMMA InvOwner ==
  ASSUME LoaderInv, NEW a \in DOMAIN heap
  PROVE  \E x : Owners(a) = {x}
  <1> USE DEF LoaderInv
  <1>0. Tower # NoMemory /\ TowerWindow # NoMemory /\ Tower # TowerWindow
    BY DEF Tower, TowerWindow, TowerOf, WindowOf, NoMemory
  <1>a. ASSUME NEW n \in DOMAIN tensors \ TowerNames PROVE tensors[n].own = n
    <2>1. Single(n)
      BY DEF HeapOK
    <2> QED BY <2>1 DEF Single, Info
  <1>b. \A n \in TowerNames : tensors[n].own \in {Tower, NoMemory}
    BY ViewTensor DEF Owner
  <1>c. \A b \in Blocks : blocks[b].window = a => (b = "vision" /\ a = TowerWindow) \/ a = NoMemory
    BY TheWindow
  <1>d. TowerNames \subseteq DOMAIN tensors
    BY DEF TowerNames, RegistryOK
  <1>1. CASE a \in DOMAIN tensors \ TowerNames
    <2>1. a # NoMemory /\ a # Tower /\ a # TowerWindow
      BY <1>1, NotMemory
    <2>2. loading.base # a
      BY <2>1, TowerBase
    <2>3. \A x : x \in Owners(a) <=> x = a
      BY <1>1, <1>a, <1>b, <1>c, <2>1, <2>2, OwnersAre
    <2> QED BY <2>3, OnlyOwner
  <1>2. CASE a = TowerWindow /\ blocks["vision"].window = TowerWindow
    <2>1. \A n \in DOMAIN tensors : tensors[n].own # a
      BY <1>0, <1>2, <1>a, <1>b, NotMemory
    <2>2. loading.base # a
      BY <1>0, <1>2, TowerBase
    <2>w. PICK w : w = <<-1, "vision">>
      OBVIOUS
    <2>3. \A x : x \in Owners(a) <=> x = w
      BY <1>0, <1>2, <1>c, <2>1, <2>2, <2>w, OwnersAre DEF Blocks
    <2> QED BY <2>3, OnlyOwner
  <1>3. CASE a = Tower /\ TowerThere
    <2>0. \A b \in Blocks : blocks[b].window # a
      BY <1>0, <1>3, <1>c
    <2>f. 1 \in DOMAIN OfBlock("vision")
      BY <1>3 DEF TowerThere, BlocksOK, Blocks
    <2>g. \A x \in DOMAIN tensors : tensors[x].own = a <=> x = Part("vision", 1) /\ x \in TowerNames
      <3>1. ASSUME NEW x \in TowerNames PROVE tensors[x].own = a <=> x = Part("vision", 1)
        <4>1. PICK i \in DOMAIN OfBlock("vision") : x = Part("vision", i) /\ tensors[x].own = Owner(i)
          BY ViewTensor
        <4>2. x = Part("vision", 1) <=> i = 1
          BY <2>f, <4>1, Distinct DEF Blocks
        <4> QED BY <1>0, <1>3, <4>1, <4>2 DEF Owner
      <3>2. ASSUME NEW x \in DOMAIN tensors \ TowerNames PROVE tensors[x].own # a
        BY <1>3, <1>a, NotMemory
      <3> QED BY <3>1, <3>2
    <2>h. Part("vision", 1) \in TowerNames <=> blocks["vision"].loaded \/ (Listing("vision") /\ 1 < loading.next)
      BY <1>3, <2>f DEF TowerNames, TowerThere, NamesOK
    <2>1. CASE blocks["vision"].loaded
      <3>1. ~Listing("vision")
        BY <2>1 DEF BlocksOK, Blocks
      <3>2. loading.base # a
        BY <1>3, <3>1, TowerBase
      <3>3. \A x : x \in Owners(a) <=> x = Part("vision", 1)
        BY <1>d, <2>0, <2>g, <2>h, <2>1, <3>2, OwnersAre
      <3> QED BY <3>3, OnlyOwner
    <2>2. CASE ~blocks["vision"].loaded
      <3>1. Listing("vision") /\ loading.base = a
        BY <1>3, <2>2, TowerBase DEF TowerThere
      <3>2. loading.next \in Nat \ {0}
        BY DEF LoadingOK
      <3>3. CASE loading.next = 1
        <4>1. Part("vision", 1) \notin TowerNames
          BY <2>h, <2>2, <3>3
        <4>w. PICK w : w = <<-2, loading.block>>
          OBVIOUS
        <4>2. \A x : x \in Owners(a) <=> x = w
          BY <2>0, <2>g, <3>1, <3>3, <4>1, <4>w, OwnersAre
        <4> QED BY <4>2, OnlyOwner
      <3>4. CASE loading.next # 1
        <4>1. Part("vision", 1) \in TowerNames
          BY <2>h, <3>1, <3>2, <3>4
        <4>2. \A x : x \in Owners(a) <=> x = Part("vision", 1)
          BY <1>d, <2>0, <2>g, <3>4, <4>1, OwnersAre
        <4> QED BY <4>2, OnlyOwner
      <3> QED BY <3>3, <3>4
    <2> QED BY <2>1, <2>2
  <1>4. \/ a \in DOMAIN tensors \ TowerNames
        \/ a = TowerWindow /\ blocks["vision"].window = TowerWindow
        \/ a = Tower /\ TowerThere
    <2>1. \/ a \in DOMAIN tensors \ TowerNames
          \/ a = blocks["vision"].window /\ a # NoMemory
          \/ a = Tower /\ TowerThere
      BY DEF HeapOK
    <2>2. "vision" \in Blocks
      BY DEF Blocks
    <2> QED BY <2>1, <2>2, TheWindow
  <1> QED BY <1>1, <1>2, <1>3, <1>4

\* What is in the registry of a block that is not loaded.
LEMMA NothingLeft ==
  ASSUME LoaderInv, Idle, NEW b \in Blocks, ~blocks[b].loaded, NEW n \in PartsOf(b), n \notin env.taken
  PROVE  ~Present(n)
  <1> USE DEF LoaderInv
  <1>1. PICK i \in DOMAIN OfBlock(b) : n = Part(b, i)
    BY DEF PartsOf
  <1>2. Of(b) = {}
    BY DEF Idle, Rest, Listing, BlocksOK, Blocks
  <1>3. n \notin Of("text") \cup Of("vision")
    <2>1. CASE b = "text"
      BY <1>1, <1>2, <2>1, Distinct DEF NamesOK, PartsOf, Blocks
    <2>2. CASE b = "vision"
      <3>1. n \notin PartsOf("text")
        BY <1>1, <2>2, Distinct DEF PartsOf, Blocks
      <3>2. n \notin FusedNames
        BY <1>1, AnEntry DEF FusedNames, Fused, Reserved
      <3> QED BY <1>2, <2>2, <3>1, <3>2 DEF NamesOK
    <2> QED BY <2>1, <2>2 DEF Blocks
  <1>4. n \notin Range(Buffers)
    BY <1>1, FilesAssumption DEF FixedOK, Part, OfBlock, Range
  <1>5. n \notin DOMAIN tensors
    BY <1>3, <1>4 DEF RegistryOK
  <1>6. ASSUME n[2] \in Weights, NEW kind \in {"qkv", "gate_up"}, Fused(n[1], kind) \in DOMAIN tensors
        PROVE  FALSE
    <2>1. b = "text"
      BY <1>1, <1>6, AnEntry DEF Blocks
    <2>2. Fused(n[1], kind) \in Of("text")
      BY <1>6, RegisteredNames DEF Fused
    <2> QED BY <1>2, <2>1, <2>2
  <1>7. /\ n \in {Q(n[1]), K(n[1]), V(n[1])} => n[2] \in Weights
        /\ n \in {Gate(n[1]), Up(n[1])} => n[2] \in Weights
    BY DEF Q, K, V, Gate, Up, Weights
  <1> QED BY <1>5, <1>6, <1>7 DEF Present

(* The invariant gives the second property.                                 *)
LEMMA InvOwns ==
  ASSUME LoaderInv
  PROVE  BlocksOwnTheirMemory
  <1> USE DEF LoaderInv
  <1>1. ASSUME NEW a \in DOMAIN heap PROVE Cardinality(Owners(a)) = 1
    BY InvOwner, OneOwner
  <1>2. ASSUME NEW n \in DOMAIN tensors, tensors[n].own # NoMemory
        PROVE  tensors[n].own \in DOMAIN heap /\ heap[tensors[n].own].kind = tensors[n].kind
    <2>1. CASE n \notin TowerNames
      <3>1. Single(n) /\ n \in DOMAIN heap
        BY <2>1 DEF HeapOK
      <3> QED BY <3>1 DEF Single, Info
    <2>2. CASE n \in TowerNames
      <3>1. TowerThere /\ tensors[n].own = Tower /\ tensors[n].kind = TowerKind
        BY <1>2, <2>2, ViewTensor DEF Owner
      <3>2. Tower \in DOMAIN heap
        BY <3>1 DEF HeapOK
      <3>3. heap[Tower].kind = TowerKind
        BY <3>1 DEF TowerOK
      <3> QED BY <3>1, <3>2, <3>3
    <2> QED BY <2>1, <2>2
  <1>3. ASSUME NEW b \in Blocks PROVE blocks[b].window \in DOMAIN heap \cup {NoMemory}
    BY TheWindow DEF HeapOK
  <1>4. ASSUME Idle, NEW b \in Blocks
        PROVE  IF blocks[b].loaded THEN \A n \in Listed(b) : Present(n)
               ELSE \A n \in Listed(b) \ env.taken : ~Present(n)
    <2>1. ASSUME blocks[b].loaded, NEW n \in Listed(b) PROVE Present(n)
      <3>1. PICK i \in DOMAIN OfBlock(b) : n = Part(b, i)
        BY DEF Listed
      <3>2. Wants(b, i)
        BY <3>1 DEF Listed, Wants
      <3> QED BY <2>1, <3>1, <3>2 DEF CompleteOK
    <2>2. ASSUME ~blocks[b].loaded, NEW n \in Listed(b) \ env.taken PROVE ~Present(n)
      <3>1. n \in PartsOf(b)
        BY DEF Listed, PartsOf
      <3> QED BY <1>4, <2>2, <3>1, NothingLeft
    <2> QED BY <2>1, <2>2
  <1>5. ASSUME Idle PROVE Range(Buffers) \subseteq DOMAIN tensors \/ Range(Buffers) \cap DOMAIN tensors = {}
    BY <1>5, IdleMode DEF RegistryOK
  <1> QED BY <1>1, <1>2, <1>3, <1>4, <1>5 DEF BlocksOwnTheirMemory

-----------------------------------------------------------------------------
(* What a step leaves alone.                                                *)

\* The file and the settings never change, nor does what depends on them only.
LEMMA FixedSame ==
  ASSUME UNCHANGED fixed
  PROVE  /\ file' = file /\ env' = env
         /\ \A b : OfBlock(b)' = OfBlock(b) /\ PartsOf(b)' = PartsOf(b) /\ TowerMode(b)' = TowerMode(b)
         /\ \A b, i : Part(b, i)' = Part(b, i) /\ Offset(b, i)' = Offset(b, i) /\ Wants(b, i)' = Wants(b, i)
         /\ \A n : Meant(n)' = Meant(n) /\ EmbeddingIsLookupOnly(n)' = EmbeddingIsLookupOnly(n)
         /\ TowerKind' = TowerKind /\ Length("vision")' = Length("vision")
         /\ Start("vision")' = Start("vision")
  <1>1. file' = file /\ env' = env
    BY DEF fixed
  <1>2. \A b : OfBlock(b)' = OfBlock(b)
    BY <1>1 DEF OfBlock
  <1>3. \A b, i : Part(b, i)' = Part(b, i) /\ Offset(b, i)' = Offset(b, i)
    BY <1>1 DEF OfBlock, Part, Offset
  <1>4. \A b : PartsOf(b)' = PartsOf(b)
    BY <1>2, <1>3 DEF PartsOf
  <1>5. \A b : TowerMode(b)' = TowerMode(b)
    BY <1>1 DEF TowerMode
  <1>6. \A b, i : Wants(b, i)' = Wants(b, i)
    BY <1>1, <1>3, <1>5 DEF Wants
  <1>7. \A n : EmbeddingIsLookupOnly(n)' = EmbeddingIsLookupOnly(n)
    BY <1>2, <1>3 DEF EmbeddingIsLookupOnly
  <1>8. \A l : ValuesOf(l)' = ValuesOf(l)
    BY <1>2, <1>3 DEF ValuesOf
  <1>9. \A n : Meant(n)' = Meant(n)
    BY <1>8 DEF Meant
  <1>10. TowerKind' = TowerKind
    BY <1>1 DEF TowerKind
  <1>11. Start("vision")' = Start("vision")
    <2>1. {Offset("vision", i) : i \in DOMAIN OfBlock("vision")}' = {Offset("vision", i) : i \in DOMAIN OfBlock("vision")}
      BY <1>2, <1>3
    <2> QED BY <2>1 DEF Start
  <1>12. Length("vision")' = Length("vision")
    <2>1. {Offset("vision", i) : i \in DOMAIN OfBlock("vision")}' = {Offset("vision", i) : i \in DOMAIN OfBlock("vision")}
      BY <1>2, <1>3
    <2> QED BY <1>11, <2>1 DEF Length
  <1> QED BY <1>1, <1>2, <1>3, <1>4, <1>5, <1>6, <1>7, <1>9, <1>10, <1>11, <1>12

\* The places of a view are fixed too.
LEMMA PlacesSame ==
  ASSUME UNCHANGED fixed
  PROVE  /\ \A phase : Selected("vision", phase)' = Selected("vision", phase)
         /\ \A phase : First("vision", phase)' = First("vision", phase)
         /\ \A i : Home(i)' = Home(i) /\ InWindow(i)' = InWindow(i)
  <1>1. \A phase : Selected("vision", phase)' = Selected("vision", phase)
    BY FixedSame DEF Selected
  <1>2. \A phase : First("vision", phase)' = First("vision", phase)
    <2>1. \A phase : Offsets("vision", phase)' = Offsets("vision", phase)
      BY <1>1, FixedSame DEF Offsets
    <2> QED BY <2>1 DEF First
  <1>3. \A i : Home(i)' = Home(i)
    BY FixedSame DEF Home
  <1>4. \A i : InWindow(i)' = InWindow(i)
    BY <1>2, FixedSame DEF InWindow
  <1> QED BY <1>1, <1>2, <1>3, <1>4

\* Nor do the fusions a model asks for.
LEMMA FusionsSame ==
  ASSUME UNCHANGED fixed
  PROVE  Fusions' = Fusions /\ \A l, kind : Parts(l, kind)' = Parts(l, kind)
  <1>1. file' = file
    BY FixedSame
  <1> QED BY <1>1 DEF Fusions, Parts, QkvParts

\* A tensor that is not touched, in memory that is not touched, stays as it is.
LEMMA SingleSame ==
  ASSUME UNCHANGED fixed, NEW n, Single(n), heap'[n] = heap[n], tensors'[n] = tensors[n]
  PROVE  Single(n)'
  BY FixedSame DEF Single, Info, Size

\* The same of a byte.
LEMMA HoldsSame ==
  ASSUME NEW a, NEW offset, NEW n, Holds(a, offset, n), heap'[a] = heap[a]
  PROVE  Holds(a, offset, n)'
  BY DEF Holds

\* The tensors with memory of their own and the memory of the registry.
LEMMA HeapFrame ==
  ASSUME UNCHANGED fixed,
         DOMAIN heap' = (DOMAIN tensors' \ TowerNames') \cup ({blocks'["vision"].window} \ {NoMemory})
                          \cup (IF TowerThere' THEN {Tower} ELSE {}),
         HeapOK,
         \A n \in DOMAIN tensors' \ TowerNames' :
           \/ Single(n)'
           \/ n \in DOMAIN tensors \ TowerNames /\ heap'[n] = heap[n] /\ tensors'[n] = tensors[n]
  PROVE  HeapOK'
  <1>1. ASSUME NEW n \in DOMAIN tensors' \ TowerNames' PROVE Single(n)'
    <2>1. CASE n \in DOMAIN tensors \ TowerNames /\ heap'[n] = heap[n] /\ tensors'[n] = tensors[n]
      <3>1. Single(n)
        BY <2>1 DEF HeapOK
      <3> QED BY <2>1, <3>1, SingleSame
    <2> QED BY <2>1
  <1>2. Tower' = Tower
    BY DEF Tower
  <1> QED BY <1>1, <1>2 DEF HeapOK

\* The views of the tower.
LEMMA TowerFrame ==
  ASSUME UNCHANGED fixed, TowerOK,
         TowerThere' => TowerThere /\ heap'[Tower] = heap[Tower],
         \A n : file.tower /\ n \in Of("vision")' =>
           /\ n \in Of("vision") /\ tensors'[n] = tensors[n] /\ heap'[Tower] = heap[Tower]
           /\ StagedName(n)' <=> StagedName(n)
  PROVE  TowerOK'
  <1>1. Tower' = Tower /\ file' = file
    BY FixedSame DEF Tower
  <1>2. TowerThere' => heap'[Tower] = [kind |-> TowerKind', bytes |-> heap'[Tower].bytes]
    BY FixedSame DEF TowerOK
  <1>3. TowerThere' => heap'[Tower].bytes \in Seq(Names) /\ Len(heap'[Tower].bytes) = Length("vision")'
    BY FixedSame DEF TowerOK
  <1>4. ASSUME file.tower, NEW i \in DOMAIN OfBlock("vision"), Part("vision", i) \in Of("vision")'
        PROVE  /\ Holds(Tower, Offset("vision", i) - Start("vision"), Part("vision", i))'
               /\ tensors'[Part("vision", i)] = IF StagedName(Part("vision", i))' THEN InWindow(i)' ELSE Home(i)'
    <2>1. PICK n, offset : n = Part("vision", i) /\ offset = Offset("vision", i) - Start("vision")
      OBVIOUS
    <2>2. Part("vision", i)' = n /\ (Offset("vision", i) - Start("vision"))' = offset
      BY <2>1, FixedSame
    <2>3. /\ n \in Of("vision") /\ tensors'[n] = tensors[n] /\ heap'[Tower] = heap[Tower]
          /\ StagedName(n)' <=> StagedName(n)
      BY <1>4, <2>1
    <2>4. Holds(Tower, offset, n) /\ tensors[n] = IF StagedName(n) THEN InWindow(i) ELSE Home(i)
      BY <1>4, <2>1, <2>3 DEF TowerOK
    <2>5. Holds(Tower, offset, n)'
      BY <1>1, <2>3, <2>4 DEF Holds
    <2>6. tensors'[n] = IF StagedName(n)' THEN InWindow(i)' ELSE Home(i)'
      BY <2>3, <2>4, PlacesSame
    <2> QED BY <2>1, <2>2, <2>5, <2>6
  <1>5. OfBlock("vision")' = OfBlock("vision")
    BY FixedSame
  <1>6. \A i : Part("vision", i)' = Part("vision", i)
    BY FixedSame
  <1> QED BY <1>1, <1>2, <1>3, <1>4, <1>5, <1>6 DEF TowerOK

\* The window.
LEMMA StagedFrame ==
  ASSUME UNCHANGED fixed, StagedOK,
         \/ DOMAIN blocks'["vision"].staged = {}
         \/ /\ blocks'["vision"].staged = blocks["vision"].staged
            /\ Of("vision") \subseteq Of("vision")'
            /\ IsStaged("vision") => heap'[TowerWindow] = heap[TowerWindow]
  PROVE  StagedOK'
  <1>1. CASE DOMAIN blocks'["vision"].staged = {}
    BY <1>1 DEF StagedOK, StagedName
  <1>2. CASE /\ blocks'["vision"].staged = blocks["vision"].staged
             /\ Of("vision") \subseteq Of("vision")'
             /\ IsStaged("vision") => heap'[TowerWindow] = heap[TowerWindow]
    <2>1. DOMAIN blocks'["vision"].staged \subseteq Of("vision")'
      BY <1>2 DEF StagedOK
    <2>2. ASSUME NEW i \in DOMAIN OfBlock("vision"), StagedName(Part("vision", i))'
          PROVE  /\ blocks'["vision"].staged[Part("vision", i)'] = Home(i)'
                 /\ Holds(TowerWindow, Offset("vision", i) - First("vision", Part("vision", i)[1]), Part("vision", i))'
      <3>1. PICK n, offset : n = Part("vision", i) /\ offset = Offset("vision", i) - First("vision", n[1])
        OBVIOUS
      <3>2. Part("vision", i)' = n /\ (Offset("vision", i) - First("vision", Part("vision", i)[1]))' = offset
        <4>1. Part("vision", i)' = n /\ Offset("vision", i)' = Offset("vision", i)
          BY <3>1, FixedSame
        <4>2. First("vision", n[1])' = First("vision", n[1])
          BY PlacesSame
        <4> QED BY <3>1, <4>1, <4>2
      <3>3. StagedName(n) /\ IsStaged("vision")
        BY <1>2, <2>2, <3>2 DEF StagedName, IsStaged
      <3>4. blocks["vision"].staged[n] = Home(i) /\ Holds(TowerWindow, offset, n)
        BY <3>1, <3>3 DEF StagedOK
      <3>5. Holds(TowerWindow, offset, n)'
        BY <1>2, <3>3, <3>4 DEF Holds, TowerWindow
      <3> QED BY <1>2, <3>2, <3>4, <3>5, PlacesSame
    <2>3. OfBlock("vision")' = OfBlock("vision")
      BY FixedSame
    <2>4. \A n : StagedName(n)' = (n \in DOMAIN blocks'["vision"].staged)
      BY DEF StagedName
    <2> QED BY <2>1, <2>2, <2>3 DEF StagedOK
  <1> QED BY <1>1, <1>2

\* What goes with one block, or with the buffers, is none of another block's.
LEMMA PresentStays ==
  ASSUME FixedOK, RegistryOK, NamesOK, UNCHANGED fixed,
         NEW gone, \A n \in DOMAIN tensors : n \notin gone => n \in DOMAIN tensors',
         NEW b \in Blocks, gone \subseteq Range(Buffers) \cup Of(IF b = "text" THEN "vision" ELSE "text"),
         NEW i \in DOMAIN OfBlock(b), Present(Part(b, i))
  PROVE  Present(Part(b, i))'
  <1>0. PICK n : n = Part(b, i)
    OBVIOUS
  <1>1. Part(b, i)' = n
    BY <1>0, FixedSame
  <1>2. n \notin gone
    <2>1. n \notin Range(Buffers)
      BY <1>0, FilesAssumption DEF FixedOK, Part, OfBlock, Range
    <2>2. CASE b = "text"
      BY <1>0, <2>1, <2>2, Distinct DEF NamesOK, PartsOf, Blocks
    <2>3. CASE b = "vision"
      <3>1. n \notin PartsOf("text")
        BY <1>0, <2>3, Distinct DEF PartsOf, Blocks
      <3>2. n \notin FusedNames
        BY <1>0, AnEntry DEF FusedNames, Fused, Reserved
      <3> QED BY <2>1, <2>3, <3>1, <3>2 DEF NamesOK
    <2> QED BY <2>2, <2>3 DEF Blocks
  <1>3. ASSUME n[2] \in Weights, NEW kind \in {"qkv", "gate_up"}, Fused(n[1], kind) \in DOMAIN tensors
        PROVE  Fused(n[1], kind) \in DOMAIN tensors'
    <2>1. b = "text"
      BY <1>0, <1>3, AnEntry DEF Blocks
    <2>2. Fused(n[1], kind) \in Of("text")
      BY <1>3, RegisteredNames DEF Fused
    <2>3. Fused(n[1], kind) \notin gone
      BY <2>1, <2>2, Apart
    <2> QED BY <1>3, <2>3
  <1>4. /\ n \in {Q(n[1]), K(n[1]), V(n[1])} => n[2] \in Weights
        /\ n \in {Gate(n[1]), Up(n[1])} => n[2] \in Weights
    BY DEF Q, K, V, Gate, Up, Weights
  <1>5. Present(n) => Present(n)'
    BY <1>2, <1>3, <1>4 DEF Present, Q, K, V, Gate, Up, Fused
  <1> QED BY <1>0, <1>1, <1>5

\* What is there stays there while nothing is removed.
LEMMA PresentSame ==
  ASSUME DOMAIN tensors \subseteq DOMAIN tensors', NEW n, Present(n)
  PROVE  Present(n)'
  BY DEF Present, Q, K, V, Gate, Up, Fused

\* A block stays complete.
LEMMA CompleteFrame ==
  ASSUME UNCHANGED fixed, CompleteOK,
         \A b \in Blocks : blocks'[b].loaded \/ (Listing(b)' /\ loading'.mode = "fuse") =>
           /\ blocks[b].loaded \/ (Listing(b) /\ loading.mode = "fuse")
           /\ \A i \in DOMAIN OfBlock(b) : Present(Part(b, i)) => Present(Part(b, i))',
         NEW c, c = loading'.block,
         loading'.mode = "each" => \A i \in DOMAIN OfBlock(c) :
           i < loading'.next /\ Wants(c, i) => Present(Part(c, i))'
  PROVE  CompleteOK'
  <1>1. ASSUME NEW b \in Blocks, blocks'[b].loaded \/ (Listing(b)' /\ loading'.mode = "fuse"),
               NEW i \in DOMAIN OfBlock(b), Wants(b, i)
        PROVE  Present(Part(b, i))'
    BY <1>1 DEF CompleteOK
  <1>2. \A b \in Blocks : blocks'[b].loaded \/ (Listing(b)' /\ loading'.mode = "fuse") =>
           \A i \in DOMAIN OfBlock(b)' : Wants(b, i)' => Present(Part(b, i))'
    BY <1>1, FixedSame
  <1>3. loading'.mode = "each" => \A i \in DOMAIN OfBlock(c)' :
           i < loading'.next /\ Wants(c, i)' => Present(Part(c, i))'
    BY FixedSame
  <1> QED BY <1>2, <1>3 DEF CompleteOK

\* A fusion that cannot be made stays so while the weights of the text do.
LEMMA FusableStays ==
  ASSUME UNCHANGED fixed,
         \A n : n[2] \in Weights \cup {"qkv"} /\ n \in DOMAIN tensors' =>
           n \in DOMAIN tensors /\ tensors'[n] = tensors[n],
         NEW i \in DOMAIN Fusions, Fusable(i)'
  PROVE  Fusable(i)
  <1>0. PICK l, kind : l = Fusions[i][1] /\ kind = Fusions[i][2]
    OBVIOUS
  <1>1. Fusions' = Fusions /\ Parts(l, kind)' = Parts(l, kind) /\ file' = file /\ env' = env
    BY FusionsSame, FixedSame
  <1>2. \A p \in Range(Parts(l, kind)) : p[2] \in Weights
    BY DEF Parts, QkvParts, Q, K, V, Gate, Up, Range, Weights
  <1>3. CanConcat(Parts(l, kind))' => CanConcat(Parts(l, kind))
    BY <1>1, <1>2 DEF CanConcat, Range
  <1>4. Wanted(l, kind)' => Wanted(l, kind)
    BY <1>1 DEF Wanted, Q, Gate, Fused, Weights
  <1> QED BY <1>0, <1>1, <1>3, <1>4 DEF Fusable

\* Made fusions stay made.
LEMMA FusedFrame ==
  ASSUME UNCHANGED fixed, FusedOK,
         ~file.fusionMayFail => \A i \in DOMAIN Fusions :
           blocks'["text"].loaded \/ (Listing("text")' /\ loading'.mode = "fuse" /\ i < loading'.next) =>
             \/ /\ blocks["text"].loaded \/ (Listing("text") /\ loading.mode = "fuse" /\ i < loading.next)
                /\ Fusable(i)' => Fusable(i)
             \/ ~Fusable(i)'
  PROVE  FusedOK'
  BY FixedSame, FusionsSame DEF FusedOK

-----------------------------------------------------------------------------
(* The steps of a load.                                                     *)

\* The first state.
LEMMA InitInv ==
  ASSUME LoaderInit
  PROVE  LoaderInv
  <1> USE DEF LoaderInit
  <1>1. FixedOK
    BY DEF FixedOK
  <1>2. LoadingOK
    BY DEF LoadingOK, Rest
  <1>3. BlocksOK
    BY DEF BlocksOK, State, Unloaded, NoneStaged, IsStaged, Rest, Listing, Blocks, Of
  <1>4. \A b \in Blocks : Of(b) = {}
    BY DEF Of, Unloaded
  <1>5. RegistryOK
    <2>1. Range(Buffers) \cap env.taken = {}
      BY <1>1, FilesAssumption DEF FixedOK, Range
    <2>2. DOMAIN tensors = env.taken /\ loading.mode = "none"
      BY DEF Rest
    <2> QED BY <1>4, <2>1, <2>2 DEF RegistryOK, Blocks
  <1>6. NamesOK
    BY <1>4 DEF NamesOK, Unloaded, Rest, Listing, Blocks
  <1>7. HeapOK
    <2>1. DOMAIN heap = env.taken /\ DOMAIN tensors = env.taken
      OBVIOUS
    <2>2. TowerNames = {} /\ ~TowerThere /\ blocks["vision"].window = NoMemory
      BY <1>4 DEF TowerNames, TowerThere, Unloaded, Rest, Listing, Blocks
    <2>3. ASSUME NEW n \in env.taken PROVE Single(n)
      <3>1. Meant(n) = <<n>> /\ Size(n) = 1
        <4>1. n[2] \notin {"qkv", "gate_up"}
          BY <1>1, FilesAssumption DEF FixedOK, ForeignName, Reserved
        <4> QED BY <4>1, MeantAlone
      <3>2. heap[n] = [kind |-> "vram", bytes |-> <<n>>] /\ tensors[n] = Info(n, 0, 1, n, "vram")
        OBVIOUS
      <3> QED BY <3>1, <3>2 DEF Single
    <2> QED BY <2>1, <2>2, <2>3 DEF HeapOK
  <1>8. TowerOK
    BY <1>4 DEF TowerOK, TowerThere, Unloaded, Rest, Listing, Blocks
  <1>9. StagedOK
    BY DEF StagedOK, StagedName, Unloaded, NoneStaged, Blocks
  <1>10. CompleteOK
    BY DEF CompleteOK, Unloaded, Rest, Listing
  <1>11. FusedOK
    BY DEF FusedOK, Unloaded, Rest, Listing, Blocks
  <1> QED BY <1>1, <1>2, <1>3, <1>5, <1>6, <1>7, <1>8, <1>9, <1>10, <1>11 DEF LoaderInv

\* The state of one block changes.
LEMMA OneBlock ==
  ASSUME BlocksOK, NEW b \in Blocks, NEW r, blocks' = [blocks EXCEPT ![b] = r],
         r = State(r.loaded, r.names, r.staged, r.window, r.capacity)
  PROVE  /\ blocks'[b] = r /\ \A c \in Blocks : c # b => blocks'[c] = blocks[c]
         /\ blocks' = [c \in Blocks |-> State(blocks'[c].loaded, blocks'[c].names, blocks'[c].staged,
                                              blocks'[c].window, blocks'[c].capacity)]
  BY DEF BlocksOK, State

\* The same, field by field.
LEMMA OneState ==
  ASSUME BlocksOK, NEW b \in Blocks,
         NEW loaded, NEW names, NEW staged, NEW window, NEW capacity,
         blocks' = [blocks EXCEPT ![b] = State(loaded, names, staged, window, capacity)]
  PROVE  /\ blocks'[b].loaded = loaded /\ blocks'[b].names = names /\ blocks'[b].staged = staged
         /\ blocks'[b].window = window /\ blocks'[b].capacity = capacity
         /\ \A c \in Blocks : c # b => blocks'[c] = blocks[c]
         /\ blocks' = [c \in Blocks |-> State(blocks'[c].loaded, blocks'[c].names, blocks'[c].staged,
                                              blocks'[c].window, blocks'[c].capacity)]
  <1> DEFINE r == State(loaded, names, staged, window, capacity)
  <1>1. /\ r.loaded = loaded /\ r.names = names /\ r.staged = staged /\ r.window = window /\ r.capacity = capacity
        /\ r = State(r.loaded, r.names, r.staged, r.window, r.capacity)
    BY DEF State
  <1>2. blocks' = [blocks EXCEPT ![b] = r]
    OBVIOUS
  <1> HIDE DEF r
  <1>3. /\ blocks'[b] = r /\ \A c \in Blocks : c # b => blocks'[c] = blocks[c]
        /\ blocks' = [c \in Blocks |-> State(blocks'[c].loaded, blocks'[c].names, blocks'[c].staged,
                                             blocks'[c].window, blocks'[c].capacity)]
    BY <1>1, <1>2, OneBlock
  <1> QED BY <1>1, <1>3

\* A block of which nothing is loaded.
LEMMA Empty ==
  ASSUME LoaderInv, NEW b \in Blocks, ~blocks[b].loaded, ~Listing(b)
  PROVE  Of(b) = {} /\ blocks[b].window = NoMemory /\ DOMAIN blocks[b].staged = {}
  BY DEF LoaderInv, BlocksOK, IsStaged

\* The load of a block begins.
LEMMA BeginState ==
  ASSUME LoaderInv, NEW b \in Blocks, Begin(b)
  PROVE  /\ blocks' = [blocks EXCEPT ![b] = State(FALSE, {}, NoneStaged, NoMemory, 0)]
         /\ blocks'[b] = Unloaded
         /\ \A c \in Blocks : c # b => blocks'[c] = blocks[c]
         /\ blocks' = [c \in Blocks |-> State(blocks'[c].loaded, blocks'[c].names, blocks'[c].staged,
                                              blocks'[c].window, blocks'[c].capacity)]
         /\ \A c \in Blocks : /\ Of(c)' = Of(c) /\ blocks'[c].loaded = blocks[c].loaded
                              /\ blocks'[c].window = blocks[c].window /\ ~Listing(c)
                              /\ blocks'[c].staged = blocks[c].staged \/ DOMAIN blocks'[c].staged = {}
                              /\ DOMAIN blocks'[c].staged = DOMAIN blocks[c].staged
         /\ 1 \in DOMAIN OfBlock(b)
  <1>1. Unloaded = State(FALSE, {}, NoneStaged, NoMemory, 0)
    BY DEF Unloaded, State
  <1>2. blocks' = [blocks EXCEPT ![b] = State(FALSE, {}, NoneStaged, NoMemory, 0)]
    BY <1>1 DEF Begin
  <1>3. \A c \in Blocks : ~Listing(c)
    BY DEF Begin, Idle, Rest, Listing, Blocks
  <1>4. Of(b) = {} /\ blocks[b].window = NoMemory /\ DOMAIN blocks[b].staged = {} /\ ~blocks[b].loaded
    BY <1>3, Empty DEF Begin
  <1>5. blocks[b].loaded = FALSE
    BY <1>4 DEF LoaderInv, BlocksOK
  <1>6. BlocksOK
    BY DEF LoaderInv
  <1>7. /\ blocks'[b].loaded = FALSE /\ blocks'[b].names = {} /\ blocks'[b].staged = NoneStaged
        /\ blocks'[b].window = NoMemory /\ blocks'[b].capacity = 0
        /\ \A c \in Blocks : c # b => blocks'[c] = blocks[c]
        /\ blocks' = [c \in Blocks |-> State(blocks'[c].loaded, blocks'[c].names, blocks'[c].staged,
                                             blocks'[c].window, blocks'[c].capacity)]
    BY <1>2, <1>6, OneState
  <1>8. blocks'[b] = Unloaded
    BY <1>2, <1>6, <1>1 DEF BlocksOK
  <1>9. DOMAIN NoneStaged = {}
    BY DEF NoneStaged
  <1>10. 1 \in DOMAIN OfBlock(b)
    <2>1. OfBlock(b) \in Seq([name : Names, offset : Nat]) /\ DOMAIN OfBlock(b) = 1 .. Len(OfBlock(b))
      BY BlockSeq DEF LoaderInv
    <2>2. OfBlock(b) # <<>>
      BY DEF Begin
    <2>3. Len(OfBlock(b)) \in Nat \ {0}
      BY <2>1, <2>2, EmptySeq
    <2> QED BY <2>1, <2>3
  <1>11. ASSUME NEW c \in Blocks
         PROVE  /\ Of(c)' = Of(c) /\ blocks'[c].loaded = blocks[c].loaded
                /\ blocks'[c].window = blocks[c].window
                /\ blocks'[c].staged = blocks[c].staged \/ DOMAIN blocks'[c].staged = {}
                /\ DOMAIN blocks'[c].staged = DOMAIN blocks[c].staged
    <2>1. CASE c = b
      BY <1>4, <1>5, <1>7, <1>9, <2>1 DEF Of
    <2>2. CASE c # b
      BY <1>7, <2>2 DEF Of
    <2> QED BY <2>1, <2>2
  <1> QED BY <1>2, <1>3, <1>7, <1>8, <1>10, <1>11

\* What a call that begins a load has in common, however it goes on.
LEMMA BeginRest ==
  ASSUME LoaderInv, NEW b \in Blocks, Begin(b), UNCHANGED <<fixed, tensors>>,
         \A a \in DOMAIN heap : heap'[a] = heap[a],
         \/ loading' = Rest
         \/ /\ loading'.block = b /\ loading'.next = 1
            /\ loading'.mode \in {"each", "mapped", "contiguous"}
  PROVE  /\ FixedOK' /\ BlocksOK' /\ RegistryOK' /\ NamesOK'
         /\ StagedOK' /\ CompleteOK' /\ FusedOK'
  <1> USE DEF LoaderInv
  <1>1. /\ blocks'[b] = Unloaded
        /\ blocks' = [c \in Blocks |-> State(blocks'[c].loaded, blocks'[c].names, blocks'[c].staged,
                                             blocks'[c].window, blocks'[c].capacity)]
        /\ \A c \in Blocks : c # b => blocks'[c] = blocks[c]
        /\ \A c \in Blocks : /\ Of(c)' = Of(c) /\ blocks'[c].loaded = blocks[c].loaded
                             /\ blocks'[c].window = blocks[c].window /\ ~Listing(c)
                             /\ blocks'[c].staged = blocks[c].staged \/ DOMAIN blocks'[c].staged = {}
                             /\ DOMAIN blocks'[c].staged = DOMAIN blocks[c].staged
        /\ 1 \in DOMAIN OfBlock(b)
    BY BeginState
  <1>2. \A c : Listing(c)' => c = b \/ c = "none"
    BY DEF Listing, Rest
  <1>3. loading.mode = "none" /\ loading'.mode \notin {"buffers", "fuse"} /\ loading'.next = 1
    BY DEF Begin, Idle, Rest
  <1>4. Blocks = {"text", "vision"}
    BY DEF Blocks
  <1>5. FixedOK'
    BY FixedSame DEF FixedOK
  <1>6. BlocksOK'
    <2>1. ASSUME NEW c \in Blocks
          PROVE  /\ blocks'[c].loaded \in BOOLEAN
                 /\ blocks'[c].capacity \in Nat
                 /\ blocks'[c].window \in {NoMemory, WindowOf(c)}
                 /\ Listing(c)' => ~blocks'[c].loaded
                 /\ blocks'[c].loaded \/ Listing(c)' => 1 \in DOMAIN OfBlock(c)
                 /\ ~blocks'[c].loaded /\ ~Listing(c)' => Of(c)' = {}
                 /\ IsStaged(c)' => blocks'[c].window # NoMemory
                 /\ blocks'[c].window # NoMemory => c = "vision" /\ blocks'[c].loaded /\ file.tower /\ env.visionMmap
      <3>1. ~blocks[b].loaded
        BY DEF Begin
      <3>2. CASE c = b
        <4>1. blocks'[c] = Unloaded
          BY <1>1, <3>2
        <4>2. blocks'[c].loaded = FALSE /\ blocks'[c].capacity = 0 /\ blocks'[c].window = NoMemory
          BY <4>1 DEF Unloaded
        <4>3. Of(c)' = {} /\ DOMAIN blocks'[c].staged = {}
          BY <4>1 DEF Unloaded, Of, NoneStaged
        <4>a. blocks'[c].loaded \in BOOLEAN
          BY <4>2, Zenon
        <4>b. blocks'[c].capacity \in Nat
          BY <4>2
        <4>4. blocks'[c].loaded \in BOOLEAN /\ blocks'[c].capacity \in Nat
          BY <4>a, <4>b
        <4>5. 1 \in DOMAIN OfBlock(c)
          BY <1>1, <3>2
        <4>6. ~IsStaged(c)'
          BY <4>3 DEF IsStaged
        <4> QED BY <4>2, <4>3, <4>4, <4>5, <4>6
      <3>3. CASE c # b
        <4>1. blocks'[c] = blocks[c] /\ ~Listing(c)' /\ ~Listing(c)
          BY <1>1, <1>2, <1>4, <3>3
        <4>2. /\ blocks[c].loaded \in BOOLEAN
              /\ blocks[c].capacity \in Nat
              /\ blocks[c].window \in {NoMemory, WindowOf(c)}
              /\ blocks[c].loaded => 1 \in DOMAIN OfBlock(c)
              /\ ~blocks[c].loaded => Of(c) = {}
              /\ IsStaged(c) => blocks[c].window # NoMemory
              /\ blocks[c].window # NoMemory => c = "vision" /\ blocks[c].loaded /\ file.tower /\ env.visionMmap
          BY <4>1 DEF BlocksOK
        <4> QED BY <4>1, <4>2 DEF IsStaged, Of
      <3> QED BY <3>2, <3>3
    <2> QED BY <1>1, <2>1, FixedSame DEF BlocksOK
  <1>7. RegistryOK'
    <2>1. Of("text")' = Of("text") /\ Of("vision")' = Of("vision") /\ env' = env /\ tensors' = tensors
      BY <1>1, <1>4, FixedSame
    <2> QED BY <1>3, <2>1 DEF RegistryOK
  <1>8. NamesOK'
    <2>1. Of("text")' = Of("text") /\ Of("vision")' = Of("vision") /\ env' = env /\ file' = file
      BY <1>1, <1>4, FixedSame
    <2>2. ASSUME file.tower, NEW i \in DOMAIN OfBlock("vision")
          PROVE  Part("vision", i) \in Of("vision") <=>
                   blocks'["vision"].loaded \/ (Listing("vision")' /\ i < loading'.next)
      <3>1. ~(i < loading'.next)
        BY <1>3, <1>4, AnEntry
      <3>2. blocks'["vision"].loaded = blocks["vision"].loaded /\ ~Listing("vision")
        BY <1>1, <1>4
      <3> QED BY <2>2, <3>1, <3>2 DEF NamesOK
    <2> QED BY <2>1, <2>2, FixedSame DEF NamesOK
  <1>9. StagedOK'
    <2>1. IsStaged("vision") => TowerWindow \in DOMAIN heap
      BY <1>4, TheWindow DEF BlocksOK, HeapOK
    <2> QED BY <1>1, <1>4, <2>1, StagedFrame
  <1>10. CompleteOK'
    <2>1. PICK c : c = loading'.block
      OBVIOUS
    <2>2. loading'.mode = "each" => \A i \in DOMAIN OfBlock(c) : ~(i < loading'.next)
      <3>1. loading'.mode = "each" => c \in Blocks
        BY <2>1 DEF Rest
      <3> QED BY <1>3, <3>1, AnEntry
    <2>3. \A n : Present(n) => Present(n)'
      BY PresentSame
    <2>4. \A n, i : Part(n, i)' = Part(n, i)
      BY FixedSame
    <2>5. \A n, i : Present(Part(n, i)) => Present(Part(n, i))'
      BY <2>3, <2>4 DEF Present
    <2> QED BY <1>1, <1>3, <2>1, <2>2, <2>5, CompleteFrame
  <1>11. FusedOK'
    <2>1. \A i \in DOMAIN Fusions : Fusable(i)' => Fusable(i)
      BY FusableStays
    <2> QED BY <1>1, <1>3, <1>4, <2>1, FusedFrame
  <1> QED BY <1>5, <1>6, <1>7, <1>8, <1>9, <1>10, <1>11

\* A block loaded tensor by tensor: nothing is in memory yet.
LEMMA BeginEachInv ==
  ASSUME LoaderInv, NEW b \in Blocks, BeginEach(b) \/ BeginFails(b)
  PROVE  LoaderInv'
  <1> USE DEF LoaderInv
  <1>1. Begin(b) /\ UNCHANGED fixed /\ tensors' = tensors /\ heap' = heap
    BY DEF BeginEach, BeginFails
  <1>2. \/ loading' = Rest
        \/ loading' = [block |-> b, mode |-> "each", next |-> 1, base |-> NoMemory] /\ TowerMode(b) = "each"
    BY DEF BeginEach, BeginFails, Begin, Idle
  <1>3. Blocks = {"text", "vision"}
    BY DEF Blocks
  <1>4. /\ FixedOK' /\ BlocksOK' /\ RegistryOK' /\ NamesOK'
        /\ StagedOK' /\ CompleteOK' /\ FusedOK'
    BY <1>1, <1>2, BeginRest
  <1>5. /\ \A c \in Blocks : Of(c)' = Of(c) /\ blocks'[c].loaded = blocks[c].loaded
                            /\ blocks'[c].window = blocks[c].window /\ ~Listing(c)
                            /\ DOMAIN blocks'[c].staged = DOMAIN blocks[c].staged
        /\ 1 \in DOMAIN OfBlock(b)
    BY <1>1, BeginState
  <1>6. LoadingOK'
    <2>1. CASE loading' = Rest
      BY <2>1 DEF LoadingOK, Rest
    <2>2. CASE /\ loading' = [block |-> b, mode |-> "each", next |-> 1, base |-> NoMemory]
               /\ TowerMode(b) = "each"
      <3>1. /\ loading'.block = b /\ loading'.mode = "each" /\ loading'.next = 1 /\ loading'.base = NoMemory
            /\ TowerMode(b)' = "each"
        BY <1>1, <2>2, FixedSame
      <3>2. loading' \in [block : Blocks \cup {"none", "buffers"},
                          mode : {"none", "each", "mapped", "contiguous", "fuse", "buffers"},
                          next : Nat \ {0}, base : {NoMemory, Tower}]
        BY <2>2
      <3>3. 1 <= Len(OfBlock(b)) + 1 /\ OfBlock(b)' = OfBlock(b)
        BY <1>1, <1>5, AnEntry, FixedSame
      <3> QED BY <3>1, <3>2, <3>3 DEF LoadingOK, Tower
    <2> QED BY <1>2, <2>1, <2>2
  <1>7. /\ TowerThere' <=> TowerThere
        /\ TowerNames' = TowerNames /\ Of("vision")' = Of("vision")
        /\ blocks'["vision"].window = blocks["vision"].window
        /\ \A n : StagedName(n)' <=> StagedName(n)
    <2>1. Of("vision")' = Of("vision") /\ blocks'["vision"].loaded = blocks["vision"].loaded
          /\ blocks'["vision"].window = blocks["vision"].window
          /\ ~Listing("vision") /\ DOMAIN blocks'["vision"].staged = DOMAIN blocks["vision"].staged
      BY <1>3, <1>5
    <2>2. ~(file.tower /\ Listing("vision")')
      BY <1>2 DEF Listing, Rest, TowerMode
    <2> QED BY <1>1, <2>1, <2>2, FixedSame DEF TowerThere, TowerNames, StagedName
  <1>8. HeapOK'
    BY <1>1, <1>7, HeapFrame DEF HeapOK
  <1>9. TowerOK'
    BY <1>1, <1>7, TowerFrame
  <1> QED BY <1>4, <1>6, <1>8, <1>9

\* The tower gets one allocation.
LEMMA BeginTowerInv ==
  ASSUME LoaderInv, NEW b \in Blocks, BeginTower(b)
  PROVE  LoaderInv'
  <1> USE DEF LoaderInv
  <1>0. b = "vision" /\ file.tower /\ TowerMode("vision") \in {"mapped", "contiguous"}
        /\ (TowerMode("vision") = "mapped" <=> env.visionMmap)
    BY DEF BeginTower, TowerMode
  <1> DEFINE bytes == IF TowerMode("vision") = "mapped" THEN Slice(Start("vision"), Length("vision"))
                      ELSE Junk(Length("vision"))
             tower == [kind |-> TowerKind, bytes |-> bytes]
  <1>1. Begin("vision") /\ UNCHANGED fixed /\ tensors' = tensors /\ heap' = With(heap, Tower, tower)
    BY <1>0 DEF BeginTower, Tower, TowerKind
  <1>2. loading' = [block |-> "vision", mode |-> TowerMode("vision"), next |-> 1, base |-> Tower]
    BY <1>0 DEF BeginTower, Tower
  <1>3. Blocks = {"text", "vision"}
    BY DEF Blocks
  <1>5. /\ \A c \in Blocks : Of(c)' = Of(c) /\ blocks'[c].loaded = blocks[c].loaded
                            /\ blocks'[c].window = blocks[c].window /\ ~Listing(c)
                            /\ DOMAIN blocks'[c].staged = DOMAIN blocks[c].staged
        /\ 1 \in DOMAIN OfBlock("vision")
    BY <1>1, <1>3, BeginState
  <1>6. ~blocks["vision"].loaded /\ Of("vision") = {} /\ Of("vision")' = {} /\ ~TowerThere /\ TowerThere'
        /\ TowerNames = {} /\ TowerNames' = {} /\ blocks["vision"].window = NoMemory /\ blocks'["vision"].window = NoMemory
    <2>1. ~blocks["vision"].loaded
      BY <1>0 DEF BeginTower, Begin
    <2>2. Of("vision") = {} /\ blocks["vision"].window = NoMemory
      BY <1>3, <1>5, <2>1, Empty
    <2>3. Listing("vision")' /\ file' = file
      BY <1>1, <1>2, FixedSame DEF Listing
    <2> QED BY <1>0, <1>3, <1>5, <2>1, <2>2, <2>3 DEF TowerThere, TowerNames
  <1>7. Tower \notin DOMAIN heap
    <2>1. Tower \notin DOMAIN tensors
      BY NotMemory
    <2> QED BY <1>6, <2>1 DEF HeapOK
  <1>8. /\ DOMAIN heap' = DOMAIN heap \cup {Tower} /\ heap'[Tower] = tower
        /\ \A a \in DOMAIN heap : heap'[a] = heap[a]
    <2> HIDE DEF tower
    <2> QED BY <1>1, <1>7 DEF With
  <1>4. /\ FixedOK' /\ BlocksOK' /\ RegistryOK' /\ NamesOK'
        /\ StagedOK' /\ CompleteOK' /\ FusedOK'
    <2>1. loading'.block = "vision" /\ loading'.next = 1 /\ loading'.mode \in {"each", "mapped", "contiguous"}
      BY <1>0, <1>2
    <2> QED BY <1>1, <1>3, <1>8, <2>1, BeginRest
  <1>9. LoadingOK'
    <2>1. /\ loading'.block = "vision" /\ loading'.mode = TowerMode("vision") /\ loading'.next = 1
          /\ loading'.base = Tower /\ TowerMode("vision")' = TowerMode("vision")
      BY <1>1, <1>2, FixedSame
    <2>2. loading' \in [block : Blocks \cup {"none", "buffers"},
                        mode : {"none", "each", "mapped", "contiguous", "fuse", "buffers"},
                        next : Nat \ {0}, base : {NoMemory, Tower}]
      BY <1>0, <1>2, <1>3
    <2>3. 1 <= Len(OfBlock("vision")) + 1 /\ OfBlock("vision")' = OfBlock("vision") /\ file' = file
      BY <1>1, <1>3, <1>5, AnEntry, FixedSame
    <2> QED BY <1>0, <2>1, <2>2, <2>3 DEF LoadingOK, Tower, Listing
  <1>10. HeapOK'
    <2>1. DOMAIN heap' = (DOMAIN tensors' \ TowerNames') \cup ({blocks'["vision"].window} \ {NoMemory})
                          \cup (IF TowerThere' THEN {Tower} ELSE {})
      BY <1>1, <1>6, <1>8 DEF HeapOK
    <2>2. \A n \in DOMAIN tensors' \ TowerNames' : n \in DOMAIN tensors \ TowerNames /\ heap'[n] = heap[n] /\ tensors'[n] = tensors[n]
      BY <1>1, <1>6, <1>8 DEF HeapOK
    <2> QED BY <1>1, <2>1, <2>2, HeapFrame
  <1>11. TowerOK'
    <2>0. Start("vision") \in Nat /\ Length("vision") \in Nat
      BY <1>3, <1>5, InBlock
    <2>1. bytes \in Seq(Names) /\ Len(bytes) = Length("vision")
      <3>1. Slice(Start("vision"), Length("vision")) \in Seq(Names)
            /\ Len(Slice(Start("vision"), Length("vision"))) = Length("vision")
        BY <2>0, SliceHolds
      <3>2. Junk(Length("vision")) \in Seq(Names) /\ Len(Junk(Length("vision"))) = Length("vision")
        BY <2>0, JunkSeq
      <3> QED BY <3>1, <3>2
    <2> HIDE DEF bytes
    <2>2. heap'[Tower] = [kind |-> TowerKind', bytes |-> heap'[Tower].bytes]
      BY <1>1, <1>8, FixedSame
    <2>3. heap'[Tower].bytes \in Seq(Names) /\ Len(heap'[Tower].bytes) = Length("vision")'
      BY <1>1, <1>8, <2>1, FixedSame
    <2>4. Tower' = Tower
      BY DEF Tower
    <2> QED BY <1>6, <2>2, <2>3, <2>4 DEF TowerOK
  <1> QED BY <1>4, <1>9, <1>10, <1>11

-----------------------------------------------------------------------------
(* Steps that only move on, and the end of a load.                          *)

\* Nothing but the place of a load tensor by tensor changes.
LEMMA MovesOn ==
  ASSUME LoaderInv, UNCHANGED <<fixed, tensors, heap, blocks>>, LoadingOK',
         loading.mode \in {"each", "fuse"}, loading'.mode \in {"each", "fuse"},
         NEW b \in Blocks, loading.block = b, loading'.block = b,
         loading'.mode = "fuse" /\ loading.mode = "each" => \A i \in DOMAIN OfBlock(b) : Wants(b, i) => Present(Part(b, i)),
         loading'.mode = "each" => \A i \in DOMAIN OfBlock(b) : i < loading'.next /\ Wants(b, i) => Present(Part(b, i)),
         b = "text" /\ loading'.mode = "fuse" /\ ~file.fusionMayFail =>
           \A i \in DOMAIN Fusions : i < loading'.next => ~Fusable(i)
  PROVE  LoaderInv'
  <1> USE DEF LoaderInv
  <1>1. UNCHANGED fixed /\ tensors' = tensors /\ heap' = heap /\ blocks' = blocks
    OBVIOUS
  <1>2. \A c : Listing(c)' <=> Listing(c)
    BY DEF Listing
  <1>3. b = "vision" => ~file.tower
    BY DEF LoadingOK, TowerMode
  <1>4. \A c : Of(c)' = Of(c)
    BY DEF Of
  <1>5. /\ TowerThere' <=> TowerThere
        /\ TowerNames' = TowerNames
        /\ \A n : StagedName(n)' <=> StagedName(n)
    BY <1>1, <1>2, <1>4, FixedSame DEF TowerThere, TowerNames, StagedName
  <1>6. FixedOK'
    BY <1>1, FixedSame DEF FixedOK
  <1>7. BlocksOK'
    <2>1. \A c : OfBlock(c)' = OfBlock(c) /\ (IsStaged(c)' <=> IsStaged(c))
      BY <1>1, FixedSame DEF IsStaged
    <2>2. file' = file /\ env' = env
      BY FixedSame
    <2> QED BY <1>1, <1>2, <1>4, <2>1, <2>2 DEF BlocksOK
  <1>8. RegistryOK'
    BY <1>1, <1>4, FixedSame DEF RegistryOK
  <1>9. NamesOK'
    <2>1. /\ \A c : PartsOf(c)' = PartsOf(c) /\ OfBlock(c)' = OfBlock(c) /\ \A i : Part(c, i)' = Part(c, i)
          /\ file' = file /\ env' = env
      BY FixedSame
    <2>2. file.tower => ~Listing("vision")
      BY <1>3 DEF Listing
    <2> QED BY <1>1, <1>2, <1>4, <2>1, <2>2 DEF NamesOK
  <1>10. HeapOK'
    BY <1>1, <1>5, HeapFrame DEF HeapOK
  <1>11. TowerOK'
    BY <1>1, <1>4, <1>5, TowerFrame
  <1>12. StagedOK'
    BY <1>1, <1>4, StagedFrame
  <1>13. \A n : Present(n)' <=> Present(n)
    BY <1>1 DEF Present, Q, K, V, Gate, Up, Fused
  <1>14. CompleteOK'
    <2>1. ASSUME NEW c \in Blocks, blocks'[c].loaded \/ (Listing(c)' /\ loading'.mode = "fuse"),
                 NEW i \in DOMAIN OfBlock(c), Wants(c, i)
          PROVE  Present(Part(c, i))
      <3>1. CASE blocks[c].loaded \/ (Listing(c) /\ loading.mode = "fuse")
        BY <2>1, <3>1 DEF CompleteOK
      <3>2. CASE ~(blocks[c].loaded \/ (Listing(c) /\ loading.mode = "fuse"))
        <4>1. c = b /\ loading'.mode = "fuse" /\ loading.mode = "each"
          BY <1>1, <1>2, <2>1, <3>2 DEF Listing
        <4> QED BY <2>1, <4>1
      <3> QED BY <3>1, <3>2
    <2>2. \A c : OfBlock(c)' = OfBlock(c) /\ \A i : (Wants(c, i)' <=> Wants(c, i)) /\ Part(c, i)' = Part(c, i)
      BY FixedSame
    <2> QED BY <1>13, <2>1, <2>2 DEF CompleteOK
  <1>15. FusedOK'
    <2>1. \A i : Fusable(i)' <=> Fusable(i)
      <3>1. Fusions' = Fusions /\ (\A l, kind : Parts(l, kind)' = Parts(l, kind)) /\ file' = file /\ env' = env
        BY FixedSame, FusionsSame
      <3>2. \A l, kind : Wanted(l, kind)' <=> Wanted(l, kind)
        BY <1>1, <3>1 DEF Wanted, Q, Gate, Fused
      <3>3. \A l, kind : CanConcat(Parts(l, kind))' <=> CanConcat(Parts(l, kind))
        BY <1>1, <3>1 DEF CanConcat
      <3> QED BY <3>1, <3>2, <3>3 DEF Fusable
    <2> QED BY <1>1, <2>1, FusedFrame DEF FusedOK, Listing
  <1> QED BY <1>6, <1>7, <1>8, <1>9, <1>10, <1>11, <1>12, <1>14, <1>15

\* The filter leaves a tensor out.
LEMMA SkipEntryInv ==
  ASSUME LoaderInv, SkipEntry
  PROVE  LoaderInv'
  <1> USE DEF LoaderInv
  <1>1. PICK b : b = loading.block
    OBVIOUS
  <1>2. /\ UNCHANGED <<fixed, tensors, heap, blocks>>
        /\ loading.mode = "each" /\ b \in Blocks /\ Entry.name \notin env.kept
        /\ loading' = [loading EXCEPT !.next = @ + 1] /\ loading.next <= Len(OfBlock(b))
    BY <1>1 DEF SkipEntry, Kept, HasEntry, LoadingOK
  <1>3. /\ loading'.block = b /\ loading'.mode = "each" /\ loading'.next = loading.next + 1
        /\ loading'.base = loading.base /\ loading.next \in Nat \ {0}
        /\ loading' \in [block : Blocks \cup {"none", "buffers"},
                         mode : {"none", "each", "mapped", "contiguous", "fuse", "buffers"},
                         next : Nat \ {0}, base : {NoMemory, Tower}]
    BY <1>1, <1>2 DEF LoadingOK
  <1>4. LoadingOK'
    <2>1. TowerMode(b)' = TowerMode(b) /\ OfBlock(b)' = OfBlock(b) /\ Len(OfBlock(b)) \in Nat
      BY <1>2, FixedSame, BlockSeq
    <2>2. TowerMode(b) = "each" /\ loading.base = NoMemory
      BY <1>1, <1>2 DEF LoadingOK
    <2> QED BY <1>2, <1>3, <2>1, <2>2 DEF LoadingOK, Tower
  <1>5. ASSUME NEW i \in DOMAIN OfBlock(b), i < loading'.next, Wants(b, i)
        PROVE  Present(Part(b, i))
    <2>1. i \in Nat
      BY <1>2, <1>5, AnEntry
    <2>2. i < loading.next \/ i = loading.next
      BY <1>3, <1>5, <2>1
    <2>3. i # loading.next
      <3>1. TowerMode(b) = "each"
        BY <1>1, <1>2 DEF LoadingOK
      <3> QED BY <1>1, <1>2, <1>5, <3>1 DEF Wants, Part, Entry
    <2> QED BY <1>1, <1>2, <1>5, <2>2, <2>3 DEF CompleteOK
  <1> QED BY <1>1, <1>2, <1>3, <1>4, <1>5, MovesOn

\* A fusion is left out.
LEMMA SkipFusionInv ==
  ASSUME LoaderInv, SkipFusion
  PROVE  LoaderInv'
  <1> USE DEF LoaderInv
  <1>1. PICK b : b = loading.block
    OBVIOUS
  <1>2. /\ UNCHANGED <<fixed, tensors, heap, blocks>>
        /\ loading.mode = "fuse" /\ b \in Blocks
        /\ loading' = [loading EXCEPT !.next = @ + 1] /\ loading.next <= Len(Fusions)
        /\ file.fusionMayFail \/ ~Fusable(loading.next)
    BY <1>1 DEF SkipFusion, NextFusion, HasFusion, Fusing, LoadingOK, Fusable
  <1>3. /\ loading'.block = b /\ loading'.mode = "fuse" /\ loading'.next = loading.next + 1
        /\ loading'.base = loading.base /\ loading.next \in Nat \ {0}
        /\ loading' \in [block : Blocks \cup {"none", "buffers"},
                         mode : {"none", "each", "mapped", "contiguous", "fuse", "buffers"},
                         next : Nat \ {0}, base : {NoMemory, Tower}]
    BY <1>1, <1>2 DEF LoadingOK
  <1>4. LoadingOK'
    <2>1. TowerMode(b)' = TowerMode(b)
      BY <1>2, FixedSame
    <2>2. TowerMode(b) = "each" /\ loading.base = NoMemory
      BY <1>1, <1>2 DEF LoadingOK
    <2> QED BY <1>2, <1>3, <2>1, <2>2 DEF LoadingOK, Tower
  <1>5. ASSUME b = "text", ~file.fusionMayFail, NEW i \in DOMAIN Fusions, i < loading'.next
        PROVE  ~Fusable(i)
    <2>1. i \in Int
      BY <1>5 DEF Fusions
    <2>2. i < loading.next \/ i = loading.next
      BY <1>3, <1>5, <2>1
    <2> QED BY <1>1, <1>2, <1>5, <2>2 DEF FusedOK, Listing
  <1> QED BY <1>1, <1>2, <1>3, <1>4, <1>5, MovesOn

\* A block is loaded.
LEMMA LoadedInv ==
  ASSUME LoaderInv, Loaded, UNCHANGED <<fixed, tensors, heap>>,
         loading.mode \in {"each", "mapped", "contiguous", "fuse"},
         NEW b, loading.block = b,
         b = "vision" /\ file.tower => \A i \in DOMAIN OfBlock(b) : i < loading.next,
         \A i \in DOMAIN OfBlock(b) : Wants(b, i) => Present(Part(b, i)),
         b = "text" /\ ~file.fusionMayFail => \A i \in DOMAIN Fusions : ~Fusable(i)
  PROVE  LoaderInv'
  <1> USE DEF LoaderInv
  <1>1. UNCHANGED fixed /\ tensors' = tensors /\ heap' = heap /\ loading' = Rest /\ b \in Blocks
    BY DEF Loaded, LoadingOK, Blocks, Listing
  <1>2. Listing(b) /\ ~blocks[b].loaded /\ \A c : ~Listing(c)' \/ c = "none"
    <2>1. Listing(b)
      BY DEF Listing
    <2> QED BY <1>1, <2>1 DEF BlocksOK, Listing, Rest
  <1>3. Blocks = {"text", "vision"}
    BY DEF Blocks
  <1>4. blocks' = [blocks EXCEPT ![b] = State(TRUE, Of(b), blocks[b].staged, blocks[b].window, blocks[b].capacity)]
    <2>1. blocks[b] = State(blocks[b].loaded, Of(b), blocks[b].staged, blocks[b].window, blocks[b].capacity)
      BY <1>1 DEF BlocksOK, Of
    <2>2. [blocks[b] EXCEPT !.loaded = TRUE] = State(TRUE, Of(b), blocks[b].staged, blocks[b].window, blocks[b].capacity)
      <3>1. \A v : [blocks[b] EXCEPT !.loaded = v] = State(v, Of(b), blocks[b].staged, blocks[b].window, blocks[b].capacity)
        BY <2>1 DEF State
      <3> QED BY <3>1, Zenon
    <2>3. blocks' = [blocks EXCEPT ![b] = [blocks[b] EXCEPT !.loaded = TRUE]]
      BY <1>1 DEF Loaded
    <2> QED BY <2>2, <2>3
  <1>5. /\ blocks'[b].loaded = TRUE
        /\ \A c \in Blocks : /\ Of(c)' = Of(c) /\ blocks'[c].staged = blocks[c].staged
                             /\ blocks'[c].window = blocks[c].window /\ blocks'[c].capacity = blocks[c].capacity
        /\ \A c \in Blocks : c # b => blocks'[c] = blocks[c]
        /\ blocks' = [c \in Blocks |-> State(blocks'[c].loaded, blocks'[c].names, blocks'[c].staged,
                                             blocks'[c].window, blocks'[c].capacity)]
    <2>1. /\ blocks'[b].loaded = TRUE /\ blocks'[b].names = Of(b) /\ blocks'[b].staged = blocks[b].staged
          /\ blocks'[b].window = blocks[b].window /\ blocks'[b].capacity = blocks[b].capacity
          /\ \A c \in Blocks : c # b => blocks'[c] = blocks[c]
          /\ blocks' = [c \in Blocks |-> State(blocks'[c].loaded, blocks'[c].names, blocks'[c].staged,
                                               blocks'[c].window, blocks'[c].capacity)]
      BY <1>1, <1>4, OneState
    <2> QED BY <2>1 DEF Of
  <1>6. /\ TowerThere' <=> TowerThere
        /\ TowerNames' = TowerNames
        /\ \A n : StagedName(n)' <=> StagedName(n)
    BY <1>1, <1>2, <1>3, <1>5, FixedSame DEF TowerThere, TowerNames, StagedName, Listing
  <1>7. FixedOK'
    BY <1>1, FixedSame DEF FixedOK
  <1>8. LoadingOK'
    BY <1>1 DEF LoadingOK, Rest
  <1>9. BlocksOK'
    <2>1. \A c : OfBlock(c)' = OfBlock(c) /\ WindowOf(c)' = WindowOf(c)
      BY <1>1, FixedSame DEF WindowOf
    <2>2. \A c \in Blocks : IsStaged(c)' <=> IsStaged(c)
      BY <1>5 DEF IsStaged
    <2>3. file' = file /\ env' = env
      BY <1>1, FixedSame
    <2>4. ASSUME NEW c \in Blocks
          PROVE  /\ blocks'[c].loaded \in BOOLEAN
                 /\ blocks'[c].capacity \in Nat
                 /\ blocks'[c].window \in {NoMemory, WindowOf(c)}
                 /\ Listing(c)' => ~blocks'[c].loaded
                 /\ blocks'[c].loaded \/ Listing(c)' => 1 \in DOMAIN OfBlock(c)
                 /\ ~blocks'[c].loaded /\ ~Listing(c)' => Of(c)' = {}
                 /\ IsStaged(c)' => blocks'[c].window # NoMemory
                 /\ blocks'[c].window # NoMemory => c = "vision" /\ blocks'[c].loaded /\ file.tower /\ env.visionMmap
      <3>1. CASE c = b
        BY <1>2, <1>3, <1>5, <2>2, <3>1 DEF BlocksOK
      <3>2. CASE c # b
        <4>1. blocks'[c] = blocks[c] /\ Of(c)' = Of(c) /\ ~Listing(c)' /\ ~Listing(c)
          BY <1>2, <1>3, <1>5, <3>2 DEF Listing
        <4> QED BY <2>2, <4>1 DEF BlocksOK
      <3> QED BY <3>1, <3>2
    <2> QED BY <1>5, <2>1, <2>3, <2>4 DEF BlocksOK
  <1>10. RegistryOK'
    BY <1>1, <1>3, <1>5, FixedSame DEF RegistryOK, Rest
  <1>11. NamesOK'
    <2>1. /\ \A c : PartsOf(c)' = PartsOf(c) /\ OfBlock(c)' = OfBlock(c) /\ \A i : Part(c, i)' = Part(c, i)
          /\ file' = file /\ env' = env
      BY <1>1, FixedSame
    <2>2. ASSUME file.tower, NEW i \in DOMAIN OfBlock("vision")
          PROVE  Part("vision", i) \in Of("vision")' <=> blocks'["vision"].loaded \/ (Listing("vision")' /\ i < loading'.next)
      <3>1. CASE b = "vision"
        <4>1. Part("vision", i) \in Of("vision")
          BY <1>2, <2>2, <3>1 DEF NamesOK
        <4> QED BY <1>5, <1>3, <3>1, <4>1
      <3>2. CASE b # "vision"
        <4>1. ~Listing("vision") /\ ~Listing("vision")' /\ blocks'["vision"] = blocks["vision"] /\ Of("vision")' = Of("vision")
          BY <1>2, <1>3, <1>5, <3>2 DEF Listing
        <4> QED BY <2>2, <4>1 DEF NamesOK
      <3> QED BY <3>1, <3>2
    <2> QED BY <1>3, <1>5, <2>1, <2>2 DEF NamesOK
  <1>12. HeapOK'
    BY <1>1, <1>3, <1>5, <1>6, HeapFrame DEF HeapOK
  <1>13. TowerOK'
    BY <1>1, <1>3, <1>5, <1>6, TowerFrame
  <1>14. StagedOK'
    BY <1>1, <1>3, <1>5, StagedFrame
  <1>15. CompleteOK'
    <2>1. \A n : Present(n)' <=> Present(n)
      BY <1>1 DEF Present, Q, K, V, Gate, Up, Fused
    <2>2. ASSUME NEW c \in Blocks, blocks'[c].loaded, NEW i \in DOMAIN OfBlock(c), Wants(c, i)
          PROVE  Present(Part(c, i))
      <3>1. CASE c = b
        BY <2>2, <3>1
      <3>2. CASE c # b
        BY <1>5, <2>2, <3>2 DEF CompleteOK
      <3> QED BY <3>1, <3>2
    <2>3. \A c : OfBlock(c)' = OfBlock(c) /\ \A i : (Wants(c, i)' <=> Wants(c, i)) /\ Part(c, i)' = Part(c, i)
      BY <1>1, FixedSame
    <2>4. loading'.mode = "none"
      BY <1>1 DEF Rest
    <2> QED BY <2>1, <2>2, <2>3, <2>4 DEF CompleteOK
  <1>16. FusedOK'
    <2>1. ASSUME NEW i \in DOMAIN Fusions, Fusable(i)' PROVE Fusable(i)
      BY <1>1, <2>1, FusableStays
    <2>2. ASSUME ~file.fusionMayFail, NEW i \in DOMAIN Fusions, blocks'["text"].loaded
          PROVE  ~Fusable(i)'
      <3>1. CASE b = "text"
        BY <2>1, <2>2, <3>1
      <3>2. CASE b # "text"
        <4>1. blocks["text"].loaded
          BY <1>3, <1>5, <2>2, <3>2
        <4> QED BY <2>1, <2>2, <4>1 DEF FusedOK
      <3> QED BY <3>1, <3>2
    <2>3. loading'.mode = "none"
      BY <1>1 DEF Rest
    <2> QED BY <1>1, <2>2, <2>3, FusedFrame
  <1> QED BY <1>7, <1>8, <1>9, <1>10, <1>11, <1>12, <1>13, <1>14, <1>15, <1>16

\* The tensors of a block are all there, or its fusions begin.
LEMMA EndLoadInv ==
  ASSUME LoaderInv, EndLoad
  PROVE  LoaderInv'
  <1> USE DEF LoaderInv
  <1>1. PICK b : b = loading.block
    OBVIOUS
  <1>2. /\ UNCHANGED <<fixed, tensors, heap>> /\ UNCHANGED fixed
        /\ loading.mode \in {"each", "mapped", "contiguous"} /\ b \in Blocks /\ Listing(b)
        /\ loading.next \in Nat \ {0}
    BY <1>1 DEF EndLoad, Loading, LoadingOK, Listing, Blocks
  <1>3. \A i \in DOMAIN OfBlock(b) : i < loading.next
    <2>1. ~(loading.next <= Len(OfBlock(b)))
      BY <1>1 DEF EndLoad, HasEntry
    <2> QED BY <1>2, <2>1, BlockSeq
  <1>4. ASSUME NEW i \in DOMAIN OfBlock(b), Wants(b, i) PROVE Present(Part(b, i))
    <2>1. CASE loading.mode = "each"
      BY <1>1, <1>3, <1>4, <2>1 DEF CompleteOK
    <2>2. CASE loading.mode # "each"
      <3>1. b = "vision" /\ file.tower
        BY <1>1, <1>2, <2>2 DEF LoadingOK, Listing
      <3>2. Part(b, i) \in Of("vision")
        BY <1>2, <1>3, <3>1 DEF NamesOK
      <3> QED BY <1>3, <3>2 DEF RegistryOK, Present
    <2> QED BY <2>1, <2>2
  <1>5. CASE loading.mode = "each" /\ (env.fuseQkv \/ env.fuseGateUp)
    <2>1. loading' = [block |-> b, mode |-> "fuse", next |-> 1, base |-> NoMemory] /\ blocks' = blocks
      BY <1>1, <1>5 DEF EndLoad
    <2>2. /\ loading'.block = b /\ loading'.mode = "fuse" /\ loading'.next = 1 /\ loading'.base = NoMemory
          /\ loading' \in [block : Blocks \cup {"none", "buffers"},
                           mode : {"none", "each", "mapped", "contiguous", "fuse", "buffers"},
                           next : Nat \ {0}, base : {NoMemory, Tower}]
      BY <1>2, <2>1
    <2>3. LoadingOK'
      <3>1. TowerMode(b)' = TowerMode(b)
        BY <1>2, FixedSame
      <3>2. TowerMode(b) = "each" /\ loading.base = NoMemory
        BY <1>1, <1>2, <1>5 DEF LoadingOK
      <3> QED BY <1>2, <2>2, <3>1, <3>2 DEF LoadingOK, Tower
    <2>4. \A i \in DOMAIN Fusions : ~(i < loading'.next)
      BY <2>2 DEF Fusions
    <2> QED BY <1>1, <1>2, <1>4, <1>5, <2>1, <2>2, <2>3, <2>4, MovesOn
  <1>6. CASE ~(loading.mode = "each" /\ (env.fuseQkv \/ env.fuseGateUp))
    <2>1. Loaded
      BY <1>6 DEF EndLoad
    <2>2. ASSUME b = "text", NEW i \in DOMAIN Fusions PROVE ~Fusable(i)
      <3>1. loading.mode = "each"
        BY <1>1, <1>2, <2>2 DEF LoadingOK, Listing
      <3>2. Fusions[i][2] \in {"qkv", "gate_up"}
        BY DEF Fusions
      <3> QED BY <1>6, <3>1, <3>2 DEF Fusable, Wanted
    <2> QED BY <1>1, <1>2, <1>3, <1>4, <2>1, <2>2, LoadedInv
  <1> QED BY <1>5, <1>6

\* Every fusion has been tried.
LEMMA EndFusionsInv ==
  ASSUME LoaderInv, EndFusions
  PROVE  LoaderInv'
  <1> USE DEF LoaderInv
  <1>1. PICK b : b = loading.block
    OBVIOUS
  <1>2. /\ UNCHANGED <<fixed, tensors, heap>> /\ Loaded
        /\ loading.mode = "fuse" /\ b \in Blocks /\ Listing(b) /\ TowerMode(b) = "each"
        /\ loading.next \in Nat \ {0} /\ ~(loading.next <= Len(Fusions))
    BY <1>1 DEF EndFusions, Fusing, HasFusion, LoadingOK, Listing
  <1>3. \A i \in DOMAIN OfBlock(b) : Wants(b, i) => Present(Part(b, i))
    BY <1>2 DEF CompleteOK
  <1>4. ASSUME b = "text", ~file.fusionMayFail, NEW i \in DOMAIN Fusions PROVE ~Fusable(i)
    <2>1. i < loading.next
      <3>1. file.layers \in Nat
        BY TheFile DEF WellFormed
      <3>2. Len(Fusions) = 2 * file.layers /\ i \in 1 .. 2 * file.layers
        BY <3>1 DEF Fusions
      <3> QED BY <1>2, <3>1, <3>2
    <2> QED BY <1>2, <1>4, <2>1 DEF FusedOK
  <1>5. b = "vision" => ~file.tower
    BY <1>2 DEF TowerMode
  <1> QED BY <1>1, <1>2, <1>3, <1>4, <1>5, LoadedInv
-----------------------------------------------------------------------------
(* A tensor is registered.                                                  *)

\* The tensor a load has come to.
LEMMA TheEntry ==
  ASSUME LoaderInv, HasEntry, NEW b, b = loading.block, NEW i, i = loading.next, NEW n, n = Entry.name
  PROVE  /\ b \in Blocks /\ Listing(b) /\ ~blocks[b].loaded /\ i \in DOMAIN OfBlock(b) /\ i \in Nat \ {0}
         /\ n = Part(b, i) /\ Entry.offset = Offset(b, i)
         /\ n \in Names /\ n[2] \notin Reserved /\ n \in PartsOf(b) /\ n \notin Range(Buffers)
         /\ n # NoMemory /\ n # Tower /\ n # TowerWindow
         /\ loading.mode \in {"each", "mapped", "contiguous"}
         /\ loading.mode = "each" => TowerMode(b) = "each" /\ (b = "vision" => ~file.tower)
         /\ loading.mode # "each" => b = "vision" /\ file.tower
         /\ n \notin Of(IF b = "text" THEN "vision" ELSE "text")
  <1> USE DEF LoaderInv
  <1>1. loading.mode \in {"each", "mapped", "contiguous"}
    BY DEF HasEntry, Loading
  <1>2. b \in Blocks /\ Listing(b) /\ i \in Nat \ {0} /\ i <= Len(OfBlock(b))
    BY <1>1 DEF HasEntry, LoadingOK, Listing, Blocks
  <1>3. i \in DOMAIN OfBlock(b) /\ ~blocks[b].loaded
    BY <1>2, BlockSeq DEF BlocksOK
  <1>4. n = Part(b, i) /\ Entry.offset = Offset(b, i)
    BY DEF Entry, Part, Offset
  <1>5. n \in Names /\ n[2] \notin Reserved /\ n \in PartsOf(b)
    BY <1>2, <1>3, <1>4, AnEntry DEF PartsOf
  <1>6. n \notin Range(Buffers)
    BY <1>2, <1>3, <1>4, FilesAssumption DEF FixedOK, Part, OfBlock, Range
  <1>7. n # NoMemory /\ n # Tower /\ n # TowerWindow
    BY <1>5 DEF NoMemory, Tower, TowerWindow, TowerOf, WindowOf, Reserved
  <1>8. loading.mode = "each" => TowerMode(b) = "each" /\ (b = "vision" => ~file.tower)
    BY DEF LoadingOK, TowerMode
  <1>9. loading.mode # "each" => b = "vision" /\ file.tower
    BY <1>1 DEF LoadingOK, Listing
  <1>10. n \notin Of(IF b = "text" THEN "vision" ELSE "text")
    <2>1. CASE b = "text"
      BY <1>3, <1>4, <2>1, Distinct DEF NamesOK, PartsOf, Blocks
    <2>2. CASE b = "vision"
      <3>1. n \notin PartsOf("text")
        BY <1>3, <1>4, <2>2, Distinct DEF PartsOf, Blocks
      <3>2. n \notin FusedNames
        BY <1>5 DEF FusedNames, Fused, Reserved
      <3> QED BY <2>2, <3>1, <3>2 DEF NamesOK
    <2> QED BY <1>2, <2>1, <2>2 DEF Blocks
  <1> QED BY <1>1, <1>2, <1>3, <1>4, <1>5, <1>6, <1>7, <1>8, <1>9, <1>10

\* The names of one block change.
LEMMA NamesState ==
  ASSUME BlocksOK, NEW b \in Blocks, NEW names, blocks' = [blocks EXCEPT ![b].names = names]
  PROVE  /\ Of(b)' = names
         /\ \A c \in Blocks : c # b => Of(c)' = Of(c)
         /\ \A c \in Blocks : /\ blocks'[c].loaded = blocks[c].loaded /\ blocks'[c].staged = blocks[c].staged
                              /\ blocks'[c].window = blocks[c].window /\ blocks'[c].capacity = blocks[c].capacity
         /\ blocks' = [c \in Blocks |-> State(blocks'[c].loaded, blocks'[c].names, blocks'[c].staged,
                                              blocks'[c].window, blocks'[c].capacity)]
  <1>1. PICK l, s, w, k : l = blocks[b].loaded /\ s = blocks[b].staged /\ w = blocks[b].window /\ k = blocks[b].capacity
    OBVIOUS
  <1>2. blocks[b] = State(l, blocks[b].names, s, w, k)
    BY <1>1 DEF BlocksOK
  <1>3. blocks' = [c \in Blocks |-> blocks'[c]] /\ \A c \in Blocks : c # b => blocks'[c] = blocks[c]
    BY DEF BlocksOK
  <1>4. blocks'[b] = State(l, names, s, w, k)
    <2>1. blocks'[b] = [blocks[b] EXCEPT !.names = names]
      BY DEF BlocksOK
    <2> QED BY <1>2, <2>1 DEF State
  <1>5. /\ blocks'[b].loaded = l /\ blocks'[b].names = names /\ blocks'[b].staged = s
        /\ blocks'[b].window = w /\ blocks'[b].capacity = k
        /\ \A c \in Blocks : c # b => blocks'[c] = blocks[c]
        /\ blocks' = [c \in Blocks |-> State(blocks'[c].loaded, blocks'[c].names, blocks'[c].staged,
                                             blocks'[c].window, blocks'[c].capacity)]
    <2>1. /\ blocks'[b].loaded = l /\ blocks'[b].names = names /\ blocks'[b].staged = s
          /\ blocks'[b].window = w /\ blocks'[b].capacity = k
      BY <1>4 DEF State
    <2>2. ASSUME NEW c \in Blocks
          PROVE  blocks'[c] = State(blocks'[c].loaded, blocks'[c].names, blocks'[c].staged,
                                    blocks'[c].window, blocks'[c].capacity)
      <3>1. CASE c = b
        BY <1>4, <2>1, <3>1
      <3>2. CASE c # b
        BY <1>3, <3>2 DEF BlocksOK
      <3> QED BY <3>1, <3>2
    <2> QED BY <1>3, <2>1, <2>2, Zenon
  <1>6. ASSUME NEW c \in Blocks
        PROVE  /\ blocks'[c].loaded = blocks[c].loaded /\ blocks'[c].staged = blocks[c].staged
               /\ blocks'[c].window = blocks[c].window /\ blocks'[c].capacity = blocks[c].capacity
    <2>1. CASE c = b
      BY <1>1, <1>5, <2>1
    <2>2. CASE c # b
      BY <1>5, <2>2
    <2> QED BY <2>1, <2>2
  <1> QED BY <1>5, <1>6 DEF Of

\* The blocks are still what they should be while only names of a block being loaded change.
LEMMA NamesBlocks ==
  ASSUME BlocksOK, UNCHANGED fixed, NEW b \in Blocks, Listing(b), NEW names,
         blocks' = [blocks EXCEPT ![b].names = names], \A c : Listing(c)' <=> Listing(c)
  PROVE  BlocksOK'
  <1>1. /\ \A c \in Blocks : c # b => Of(c)' = Of(c)
        /\ \A c \in Blocks : /\ blocks'[c].loaded = blocks[c].loaded /\ blocks'[c].staged = blocks[c].staged
                             /\ blocks'[c].window = blocks[c].window /\ blocks'[c].capacity = blocks[c].capacity
        /\ blocks' = [c \in Blocks |-> State(blocks'[c].loaded, blocks'[c].names, blocks'[c].staged,
                                             blocks'[c].window, blocks'[c].capacity)]
    BY NamesState
  <1>2. \A c : OfBlock(c)' = OfBlock(c) /\ WindowOf(c)' = WindowOf(c)
    BY FixedSame DEF WindowOf
  <1>3. \A c \in Blocks : IsStaged(c)' <=> IsStaged(c)
    BY <1>1 DEF IsStaged
  <1>4. file' = file /\ env' = env
    BY FixedSame
  <1>5. \A c \in Blocks : ~blocks'[c].loaded /\ ~Listing(c)' => Of(c)' = {}
    BY <1>1 DEF BlocksOK
  <1>6. \A c \in Blocks : /\ blocks'[c].loaded \in BOOLEAN
                          /\ blocks'[c].capacity \in Nat
                          /\ blocks'[c].window \in {NoMemory, WindowOf(c)}
    BY <1>1 DEF BlocksOK
  <1>7. \A c \in Blocks : /\ Listing(c)' => ~blocks'[c].loaded
                          /\ blocks'[c].loaded \/ Listing(c)' => 1 \in DOMAIN OfBlock(c)
                          /\ IsStaged(c)' => blocks'[c].window # NoMemory
                          /\ blocks'[c].window # NoMemory => c = "vision" /\ blocks'[c].loaded /\ file.tower /\ env.visionMmap
    BY <1>1, <1>3 DEF BlocksOK
  <1> QED BY <1>1, <1>2, <1>4, <1>5, <1>6, <1>7 DEF BlocksOK

\* What every registration has in common.
LEMMA RegisterRest ==
  ASSUME LoaderInv, HasEntry, UNCHANGED fixed,
         NEW b, b = loading.block, NEW i, i = loading.next, NEW n, n = Entry.name,
         Registered(n), n \notin env.taken,
         DOMAIN tensors' = DOMAIN tensors \cup {n},
         \A m \in DOMAIN tensors : m # n => tensors'[m] = tensors[m]
  PROVE  /\ FixedOK' /\ LoadingOK' /\ BlocksOK' /\ RegistryOK' /\ NamesOK' /\ CompleteOK' /\ FusedOK'
         /\ Of(b)' = Of(b) \cup {n} /\ \A c \in Blocks : c # b => Of(c)' = Of(c)
         /\ \A c : Listing(c)' <=> Listing(c)
         /\ blocks'["vision"].loaded = blocks["vision"].loaded
         /\ blocks'["vision"].window = blocks["vision"].window
         /\ blocks'["vision"].staged = blocks["vision"].staged
  <1> USE DEF LoaderInv
  <1>1. /\ b \in Blocks /\ Listing(b) /\ ~blocks[b].loaded /\ i \in DOMAIN OfBlock(b) /\ i \in Nat \ {0}
        /\ n = Part(b, i) /\ n[2] \notin Reserved /\ n \in PartsOf(b) /\ n \notin Range(Buffers)
        /\ loading.mode \in {"each", "mapped", "contiguous"}
        /\ loading.mode = "each" => TowerMode(b) = "each" /\ (b = "vision" => ~file.tower)
        /\ loading.mode # "each" => b = "vision" /\ file.tower
    BY TheEntry
  <1>2. Blocks = {"text", "vision"}
    BY DEF Blocks
  <1>3. PICK names : names = Of(b) \cup {n}
    OBVIOUS
  <1>4. blocks' = [blocks EXCEPT ![b].names = names]
    BY <1>3 DEF Registered, Of
  <1>5. /\ Of(b)' = Of(b) \cup {n} /\ \A c \in Blocks : c # b => Of(c)' = Of(c)
        /\ \A c \in Blocks : /\ blocks'[c].loaded = blocks[c].loaded /\ blocks'[c].staged = blocks[c].staged
                             /\ blocks'[c].window = blocks[c].window
    BY <1>1, <1>3, <1>4, NamesState
  <1>6. loading' = [loading EXCEPT !.next = i + 1]
    BY DEF Registered
  <1>7. /\ loading'.block = b /\ loading'.mode = loading.mode /\ loading'.next = i + 1
        /\ loading'.base = loading.base
        /\ loading' \in [block : Blocks \cup {"none", "buffers"},
                         mode : {"none", "each", "mapped", "contiguous", "fuse", "buffers"},
                         next : Nat \ {0}, base : {NoMemory, Tower}]
    BY <1>1, <1>6 DEF LoadingOK
  <1>8. \A c : Listing(c)' <=> Listing(c)
    BY <1>7 DEF Listing
  <1>9. FixedOK'
    BY FixedSame DEF FixedOK
  <1>10. LoadingOK'
    <2>1. /\ TowerMode(b)' = TowerMode(b) /\ OfBlock(b)' = OfBlock(b) /\ Len(OfBlock(b)) \in Nat
          /\ TowerMode("vision")' = TowerMode("vision") /\ file' = file
      BY <1>1, FixedSame, BlockSeq
    <2>2. i + 1 <= Len(OfBlock(b)) + 1
      BY <1>1, AnEntry
    <2>3. loading.mode \in {"mapped", "contiguous"} => loading.mode = TowerMode("vision") /\ loading.base = Tower
      BY DEF LoadingOK
    <2>4. loading.mode = "each" => loading.base = NoMemory
      BY DEF LoadingOK
    <2> QED BY <1>1, <1>7, <1>8, <2>1, <2>2, <2>3, <2>4 DEF LoadingOK, Tower
  <1>11. BlocksOK'
    BY <1>1, <1>4, <1>8, NamesBlocks
  <1>12. RegistryOK'
    BY <1>1, <1>2, <1>5, <1>7, FixedSame DEF RegistryOK
  <1>13. NamesOK'
    <2>1. /\ \A c : PartsOf(c)' = PartsOf(c) /\ OfBlock(c)' = OfBlock(c) /\ \A j : Part(c, j)' = Part(c, j)
          /\ file' = file /\ env' = env
      BY FixedSame
    <2>2. Of("text")' \subseteq PartsOf("text") \cup FusedNames
      BY <1>1, <1>2, <1>5 DEF NamesOK
    <2>3. Of("vision")' \subseteq PartsOf("vision") /\ Of("vision")' \cap env.taken = {}
      BY <1>1, <1>2, <1>5 DEF NamesOK
    <2>4. ASSUME file.tower, NEW j \in DOMAIN OfBlock("vision")
          PROVE  Part("vision", j) \in Of("vision")' <=> blocks'["vision"].loaded \/ (Listing("vision")' /\ j < loading'.next)
      <3>1. CASE b = "vision"
        <4>1. j \in Nat
          BY <1>2, AnEntry
        <4>2. Part("vision", j) = n <=> j = i
          BY <1>1, <1>2, <3>1, Distinct
        <4>3. Part("vision", j) \in Of("vision") <=> j < i
          BY <1>1, <2>4, <3>1 DEF NamesOK
        <4>4. j < i + 1 <=> j < i \/ j = i
          BY <1>1, <4>1
        <4> QED BY <1>1, <1>2, <1>5, <1>7, <1>8, <3>1, <4>2, <4>3, <4>4
      <3>2. CASE b # "vision"
        <4>1. Of("vision")' = Of("vision") /\ ~Listing("vision")
          BY <1>1, <1>2, <1>5, <3>2 DEF Listing
        <4> QED BY <1>2, <1>5, <1>8, <2>4, <4>1 DEF NamesOK
      <3> QED BY <3>1, <3>2
    <2>5. FusedNames' = FusedNames
      BY DEF FusedNames, Fused
    <2> QED BY <2>1, <2>2, <2>3, <2>4, <2>5 DEF NamesOK
  <1>14. CompleteOK'
    <2>1. \A m : Present(m) => Present(m)'
      BY PresentSame
    <2>2. \A c, j : Present(Part(c, j)) => Present(Part(c, j))'
      <3>1. ASSUME NEW c, NEW j, Present(Part(c, j)) PROVE Present(Part(c, j))'
        <4>1. PICK m : m = Part(c, j)
          OBVIOUS
        <4>2. Part(c, j)' = m
          BY <4>1, FixedSame
        <4> QED BY <2>1, <3>1, <4>1, <4>2
      <3> QED BY <3>1
    <2>3. ASSUME loading'.mode = "each", NEW j \in DOMAIN OfBlock(b), j < loading'.next, Wants(b, j)
          PROVE  Present(Part(b, j))'
      <3>1. j \in Nat
        BY <1>1, <2>3, AnEntry
      <3>2. j < i \/ j = i
        BY <1>1, <1>7, <2>3, <3>1
      <3>3. CASE j < i
        BY <1>7, <2>2, <2>3, <3>3 DEF CompleteOK
      <3>4. CASE j = i
        <4>1. n \in DOMAIN tensors' /\ Part(b, j)' = n
          BY <1>1, <3>4, FixedSame
        <4> QED BY <4>1 DEF Present
      <3> QED BY <3>2, <3>3, <3>4
    <2>4. loading'.mode # "fuse"
      BY <1>1, <1>7
    <2> QED BY <1>5, <1>7, <2>2, <2>3, <2>4, CompleteFrame
  <1>15. FusedOK'
    <2>1. CASE b = "text"
      <3>1. ~blocks'["text"].loaded /\ loading'.mode # "fuse"
        BY <1>1, <1>5, <1>7, <2>1
      <3> QED BY <3>1, FusedFrame
    <2>2. CASE b = "vision"
      <3>1. n[2] \notin Weights \cup {"qkv"}
        BY <1>1, <2>2, AnEntry DEF Reserved
      <3>2. \A j \in DOMAIN Fusions : Fusable(j)' => Fusable(j)
        BY <3>1, FusableStays
      <3>3. loading'.mode # "fuse" /\ blocks'["text"].loaded = blocks["text"].loaded
        BY <1>1, <1>2, <1>5, <1>7
      <3> QED BY <3>2, <3>3, FusedFrame
    <2> QED BY <1>1, <1>2, <2>1, <2>2
  <1> QED BY <1>2, <1>5, <1>8, <1>9, <1>10, <1>11, <1>12, <1>13, <1>14, <1>15

\* A tensor with memory of its own is registered.
LEMMA RegisterAloneInv ==
  ASSUME LoaderInv, RegisterAlone
  PROVE  LoaderInv'
  <1> USE DEF LoaderInv
  <1>1. PICK b, i, n : b = loading.block /\ i = loading.next /\ n = Entry.name
    OBVIOUS
  <1>2. /\ HasEntry /\ UNCHANGED fixed /\ Registered(n) /\ loading.mode = "each"
        /\ \E k \in Storages(n) : Alone(n, k)
    BY <1>1 DEF RegisterAlone
  <1>3. PICK kind \in Storages(n) : Alone(n, kind)
    BY <1>2
  <1>4. /\ b \in Blocks /\ Listing(b) /\ ~blocks[b].loaded /\ i \in DOMAIN OfBlock(b)
        /\ n = Part(b, i) /\ n[2] \notin Reserved
        /\ n # NoMemory /\ n # Tower /\ n # TowerWindow
        /\ (b = "vision" => ~file.tower)
        /\ n \notin Of(IF b = "text" THEN "vision" ELSE "text")
    BY <1>1, <1>2, TheEntry
  <1>5. Blocks = {"text", "vision"}
    BY DEF Blocks
  <1>6. n \notin env.taken
    <2>1. CASE b = "text"
      BY <1>4, <2>1, FilesAssumption DEF FixedOK, Part, OfBlock
    <2>2. CASE b = "vision"
      BY <1>4, <2>2 DEF FixedOK
    <2> QED BY <1>4, <1>5, <2>1, <2>2
  <1>7. /\ DOMAIN tensors' = DOMAIN tensors \cup {n} /\ DOMAIN heap' = DOMAIN heap \cup {n}
        /\ \A m \in DOMAIN tensors : m # n => tensors'[m] = tensors[m]
        /\ \A a \in DOMAIN heap : a # n => heap'[a] = heap[a]
        /\ tensors'[n] = Info(n, 0, 1, n, kind)
    <2>1. PICK info : info = Info(n, 0, 1, n, kind)
      OBVIOUS
    <2>2. PICK memory : memory = [kind |-> kind, bytes |-> <<n>>]
      OBVIOUS
    <2>3. tensors' = With(tensors, n, info) /\ heap' = With(heap, n, memory)
      BY <1>3, <2>1, <2>2 DEF Alone
    <2> QED BY <2>1, <2>3 DEF With
  <1>8. heap'[n] = [kind |-> kind, bytes |-> <<n>>]
    BY <1>3 DEF Alone, With
  <1>9. /\ FixedOK' /\ LoadingOK' /\ BlocksOK' /\ RegistryOK' /\ NamesOK' /\ CompleteOK' /\ FusedOK'
        /\ Of(b)' = Of(b) \cup {n} /\ \A c \in Blocks : c # b => Of(c)' = Of(c)
        /\ \A c : Listing(c)' <=> Listing(c)
        /\ blocks'["vision"].loaded = blocks["vision"].loaded
        /\ blocks'["vision"].window = blocks["vision"].window
        /\ blocks'["vision"].staged = blocks["vision"].staged
    BY <1>1, <1>2, <1>6, <1>7, RegisterRest
  <1>10. /\ TowerThere' <=> TowerThere
         /\ TowerNames' = TowerNames /\ n \notin TowerNames
         /\ \A m : StagedName(m)' <=> StagedName(m)
    <2>1. file.tower => b = "text" /\ Of("vision")' = Of("vision") /\ n \notin Of("vision")
      BY <1>4, <1>5, <1>9
    <2> QED BY <1>2, <1>9, <2>1, FixedSame DEF TowerThere, TowerNames, StagedName
  <1>11. Single(n)'
    <2>1. Meant(n)' = <<n>> /\ Size(n)' = 1
      <3>1. n[2] \notin {"qkv", "gate_up"}
        BY <1>4 DEF Reserved
      <3> QED BY <1>2, <3>1, MeantAlone, FixedSame DEF Size
    <2>2. kind = "mmap" => EmbeddingIsLookupOnly(n)
      BY DEF Storages
    <2> QED BY <1>2, <1>7, <1>8, <2>1, <2>2, FixedSame DEF Single, Info
  <1>12. HeapOK'
    <2>1. DOMAIN heap' = (DOMAIN tensors' \ TowerNames') \cup ({blocks'["vision"].window} \ {NoMemory})
                          \cup (IF TowerThere' THEN {Tower} ELSE {})
      BY <1>7, <1>9, <1>10 DEF HeapOK
    <2>2. \A m \in DOMAIN tensors' \ TowerNames' :
            \/ Single(m)'
            \/ m \in DOMAIN tensors \ TowerNames /\ heap'[m] = heap[m] /\ tensors'[m] = tensors[m]
      BY <1>7, <1>10, <1>11 DEF HeapOK
    <2> QED BY <1>2, <2>1, <2>2, HeapFrame
  <1>13. TowerOK'
    <2>1. TowerThere => heap'[Tower] = heap[Tower]
      BY <1>4, <1>7 DEF HeapOK
    <2>2. ASSUME NEW m, file.tower, m \in Of("vision")'
          PROVE  m \in Of("vision") /\ tensors'[m] = tensors[m] /\ heap'[Tower] = heap[Tower]
      <3>1. m \in Of("vision") /\ m # n
        BY <1>4, <1>5, <1>9, <2>2
      <3>2. m \in DOMAIN tensors
        BY <3>1 DEF RegistryOK
      <3>3. TowerThere
        BY <2>2, <3>1, <1>5 DEF BlocksOK, TowerThere
      <3> QED BY <1>7, <2>1, <3>1, <3>2, <3>3
    <2> QED BY <1>2, <1>10, <2>1, <2>2, TowerFrame
  <1>14. StagedOK'
    <2>1. IsStaged("vision") => heap'[TowerWindow] = heap[TowerWindow]
      BY <1>4, <1>5, <1>7, TheWindow DEF BlocksOK, HeapOK
    <2>2. Of("vision") \subseteq Of("vision")'
      BY <1>4, <1>5, <1>9
    <2> QED BY <1>2, <1>9, <2>1, <2>2, StagedFrame
  <1> QED BY <1>9, <1>12, <1>13, <1>14

\* A view of the tower is registered.
LEMMA RegisterViewInv ==
  ASSUME LoaderInv, RegisterView
  PROVE  LoaderInv'
  <1> USE DEF LoaderInv
  <1>1. PICK b, i, n : b = loading.block /\ i = loading.next /\ n = Entry.name
    OBVIOUS
  <1>2. /\ HasEntry /\ UNCHANGED fixed /\ Registered(n) /\ loading.mode # "each" /\ n \notin DOMAIN tensors
    BY <1>1 DEF RegisterView
  <1>3. /\ b = "vision" /\ file.tower /\ Listing("vision") /\ ~blocks["vision"].loaded
        /\ i \in DOMAIN OfBlock("vision") /\ i \in Nat \ {0}
        /\ n = Part("vision", i) /\ Entry.offset = Offset("vision", i) /\ n \in Names
        /\ n # NoMemory /\ n # Tower /\ n # TowerWindow
    BY <1>1, <1>2, TheEntry
  <1>4. Blocks = {"text", "vision"}
    BY DEF Blocks
  <1>5. TowerThere /\ loading.base = Tower /\ Tower \in DOMAIN heap
    BY <1>3, TowerBase DEF TowerThere, HeapOK
  <1>6. PICK relative : relative = Offset("vision", i) - Start("vision")
    OBVIOUS
  <1>7. relative \in Nat /\ relative + 1 \in 1 .. Length("vision")
    BY <1>3, <1>4, <1>6, InBlock
  <1>8. PICK bytes : /\ heap[Tower] = [kind |-> TowerKind, bytes |-> bytes] /\ heap[Tower].bytes = bytes
                     /\ bytes \in Seq(Names) /\ Len(bytes) = Length("vision")
    BY <1>5 DEF TowerOK
  <1>9. PICK changed : changed = [bytes EXCEPT ![relative + 1] = n]
    OBVIOUS
  <1>10. /\ changed \in Seq(Names) /\ Len(changed) = Length("vision") /\ changed[relative + 1] = n
         /\ \A k \in 1 .. Length("vision") : k # relative + 1 => changed[k] = bytes[k]
    BY <1>3, <1>7, <1>8, <1>9
  <1>11. /\ DOMAIN heap' = DOMAIN heap /\ heap'[Tower] = [kind |-> TowerKind, bytes |-> changed]
         /\ \A a \in DOMAIN heap : a # Tower => heap'[a] = heap[a]
    <2>1. heap' = [heap EXCEPT ![Tower].bytes[relative + 1] = n]
      BY <1>1, <1>3, <1>5, <1>6 DEF RegisterView
    <2>2. DOMAIN heap' = DOMAIN heap /\ \A a \in DOMAIN heap : a # Tower => heap'[a] = heap[a]
      BY <2>1
    <2>3. heap'[Tower] = [heap[Tower] EXCEPT !.bytes = [@ EXCEPT ![relative + 1] = n]]
      BY <1>5, <2>1
    <2>4. heap'[Tower] = [heap[Tower] EXCEPT !.bytes = changed]
      BY <1>8, <1>9, <2>3
    <2>5. [heap[Tower] EXCEPT !.bytes = changed] = [kind |-> TowerKind, bytes |-> changed]
      BY <1>8
    <2> QED BY <2>2, <2>4, <2>5
  <1>12. /\ DOMAIN tensors' = DOMAIN tensors \cup {n} /\ tensors'[n] = Home(i)
         /\ \A m \in DOMAIN tensors : tensors'[m] = tensors[m]
    <2>1. PICK info : info = Info(Tower, relative, 1, Owner(i), TowerKind)
      OBVIOUS
    <2>2. info = Info(loading.base, Entry.offset - Start(loading.block), 1,
                      IF loading.next = 1 THEN loading.base ELSE NoMemory, heap[loading.base].kind)
      <3>1. heap[Tower].kind = TowerKind
        BY <1>8
      <3> QED BY <1>1, <1>3, <1>5, <1>6, <2>1, <3>1 DEF Owner
    <2>3. tensors' = With(tensors, n, info)
      BY <1>1, <2>2 DEF RegisterView
    <2>4. info = Home(i)
      BY <1>6, <2>1 DEF Home
    <2> QED BY <1>2, <2>3, <2>4 DEF With
  <1>13. n \notin env.taken /\ n \notin Of("vision") /\ ~StagedName(n)
    BY <1>2 DEF RegistryOK, StagedOK, StagedName
  <1>14. /\ FixedOK' /\ LoadingOK' /\ BlocksOK' /\ RegistryOK' /\ NamesOK' /\ CompleteOK' /\ FusedOK'
         /\ Of("vision")' = Of("vision") \cup {n}
         /\ \A c : Listing(c)' <=> Listing(c)
         /\ blocks'["vision"].loaded = blocks["vision"].loaded
         /\ blocks'["vision"].window = blocks["vision"].window
         /\ blocks'["vision"].staged = blocks["vision"].staged
    BY <1>1, <1>2, <1>3, <1>12, <1>13, RegisterRest
  <1>15. TowerThere' /\ TowerNames = Of("vision") /\ TowerNames' = Of("vision") \cup {n} /\ file' = file
    BY <1>2, <1>3, <1>14, FixedSame DEF TowerThere, TowerNames
  <1>16. HeapOK'
    <2>1. DOMAIN heap' = (DOMAIN tensors' \ TowerNames') \cup ({blocks'["vision"].window} \ {NoMemory})
                          \cup (IF TowerThere' THEN {Tower} ELSE {})
      <3>1. DOMAIN tensors' \ TowerNames' = DOMAIN tensors \ TowerNames
        BY <1>2, <1>12, <1>15
      <3> QED BY <1>5, <1>11, <1>14, <1>15, <3>1 DEF HeapOK
    <2>2. ASSUME NEW m \in DOMAIN tensors' \ TowerNames'
          PROVE  m \in DOMAIN tensors \ TowerNames /\ heap'[m] = heap[m] /\ tensors'[m] = tensors[m]
      <3>1. m \in DOMAIN tensors \ TowerNames
        BY <1>12, <1>15
      <3>2. m # Tower /\ m \in DOMAIN heap
        BY <3>1, NotMemory DEF HeapOK
      <3> QED BY <1>11, <1>12, <3>1, <3>2
    <2> QED BY <1>2, <2>1, <2>2, HeapFrame
  <1>17. TowerOK'
    <2>1. heap'[Tower].bytes = changed
      BY <1>11
    <2>2. heap'[Tower] = [kind |-> TowerKind', bytes |-> heap'[Tower].bytes]
      BY <1>2, <1>11, <2>1, FixedSame
    <2>3. heap'[Tower].bytes \in Seq(Names) /\ Len(heap'[Tower].bytes) = Length("vision")'
      BY <1>2, <1>10, <2>1, FixedSame
    <2>4. ASSUME NEW j \in DOMAIN OfBlock("vision"), Part("vision", j) \in Of("vision")'
          PROVE  /\ Holds(Tower, Offset("vision", j) - Start("vision"), Part("vision", j))'
                 /\ tensors'[Part("vision", j)'] = IF StagedName(Part("vision", j))' THEN InWindow(j)' ELSE Home(j)'
      <3>1. PICK m, offset : m = Part("vision", j) /\ offset = Offset("vision", j) - Start("vision")
        OBVIOUS
      <3>2. Part("vision", j)' = m /\ (Offset("vision", j) - Start("vision"))' = offset
        BY <1>2, <3>1, FixedSame
      <3>3. offset + 1 \in 1 .. Length("vision") /\ offset \in Nat
        BY <1>4, <3>1, InBlock
      <3>4. StagedName(m)' <=> StagedName(m)
        BY <1>14 DEF StagedName
      <3>5. CASE j = i
        <4>1. m = n /\ offset = relative
          BY <1>3, <1>6, <3>1, <3>5
        <4>2. Holds(Tower, offset, m)'
          BY <1>10, <2>1, <3>3, <4>1 DEF Holds, Tower
        <4>3. tensors'[m] = Home(j)' /\ ~StagedName(m)'
          BY <1>2, <1>12, <1>13, <3>4, <3>5, <4>1, PlacesSame
        <4> QED BY <3>2, <4>2, <4>3
      <3>6. CASE j # i
        <4>1. m # n /\ Offset("vision", j) # Offset("vision", i)
          BY <1>3, <1>4, <3>1, <3>6, Distinct
        <4>2. offset # relative
          <5>1. Offset("vision", j) \in Nat /\ Offset("vision", i) \in Nat /\ Start("vision") \in Nat
            BY <1>3, <1>4, AnEntry, InBlock
          <5> QED BY <1>6, <3>1, <4>1, <5>1
        <4>3. m \in Of("vision") /\ m \in DOMAIN tensors
          BY <1>14, <2>4, <3>1, <4>1 DEF RegistryOK
        <4>4. Holds(Tower, offset, m) /\ tensors[m] = IF StagedName(m) THEN InWindow(j) ELSE Home(j)
          BY <1>3, <3>1, <4>3 DEF TowerOK
        <4>5. bytes[offset + 1] = m
          BY <1>8, <4>4 DEF Holds
        <4>6. changed[offset + 1] = m
          BY <1>7, <1>10, <3>3, <4>2, <4>5
        <4>7. Holds(Tower, offset, m)'
          BY <1>10, <2>1, <3>3, <4>6 DEF Holds, Tower
        <4>8. tensors'[m] = IF StagedName(m)' THEN InWindow(j)' ELSE Home(j)'
          BY <1>2, <1>12, <3>4, <4>3, <4>4, PlacesSame
        <4> QED BY <3>2, <4>7, <4>8
      <3> QED BY <3>5, <3>6
    <2>5. OfBlock("vision")' = OfBlock("vision") /\ \A j : Part("vision", j)' = Part("vision", j)
      BY <1>2, FixedSame
    <2>6. Tower' = Tower
      BY DEF Tower
    <2> QED BY <1>15, <2>2, <2>3, <2>4, <2>5, <2>6 DEF TowerOK
  <1>18. StagedOK'
    <2>1. ~IsStaged("vision")
      BY <1>3, <1>4 DEF BlocksOK
    <2>2. DOMAIN blocks'["vision"].staged = {}
      BY <1>14, <2>1 DEF IsStaged
    <2> QED BY <1>2, <2>2, StagedFrame
  <1> QED BY <1>14, <1>16, <1>17, <1>18
-----------------------------------------------------------------------------
(* A block is removed.                                                      *)

\* Tensors with memory of their own own it.
LEMMA OwnedAlone ==
  ASSUME LoaderInv, NEW S, S \cap TowerNames = {}
  PROVE  Owned(S) = S \cap DOMAIN tensors
  <1> USE DEF LoaderInv
  <1>1. \A n \in S \cap DOMAIN tensors : tensors[n].own = n /\ n # NoMemory
    <2>1. ASSUME NEW n \in S \cap DOMAIN tensors PROVE tensors[n].own = n
      <3>1. Single(n)
        BY DEF HeapOK
      <3>2. tensors[n] = Info(n, 0, Size(n), n, heap[n].kind)
        BY <3>1 DEF Single
      <3> QED BY <3>2 DEF Info
    <2> QED BY <2>1, NotMemory
  <1> QED BY <1>1 DEF Owned

\* The first view of the tower owns it, the others own nothing.
LEMMA OwnedTower ==
  ASSUME LoaderInv, file.tower
  PROVE  /\ Owned(Of("vision")) \subseteq {Tower}
         /\ blocks["vision"].loaded => Owned(Of("vision")) = {Tower}
  <1> USE DEF LoaderInv
  <1>1. TowerNames = Of("vision") /\ Tower # NoMemory
    BY DEF TowerNames, Tower, TowerOf, NoMemory
  <1>2. ASSUME NEW n \in Of("vision") PROVE tensors[n].own \in {Tower, NoMemory}
    <2>1. \E i : tensors[n].own = Owner(i)
      BY <1>1, ViewTensor
    <2> QED BY <2>1 DEF Owner
  <1>3. Owned(Of("vision")) \subseteq {Tower}
    BY <1>2 DEF Owned
  <1>4. ASSUME blocks["vision"].loaded PROVE Tower \in Owned(Of("vision"))
    <2>1. 1 \in DOMAIN OfBlock("vision")
      BY <1>4 DEF BlocksOK, Blocks
    <2>2. PICK n : n = Part("vision", 1)
      OBVIOUS
    <2>3. n \in Of("vision") /\ n \in DOMAIN tensors
      BY <1>4, <2>1, <2>2 DEF NamesOK, RegistryOK
    <2>4. PICK i \in DOMAIN OfBlock("vision") : n = Part("vision", i) /\ tensors[n].own = Owner(i)
      BY <1>1, <2>3, ViewTensor
    <2>5. i = 1
      BY <2>1, <2>2, <2>4, Distinct DEF Blocks
    <2>6. tensors[n].own = Tower
      BY <2>4, <2>5 DEF Owner
    <2> QED BY <1>1, <2>3, <2>6 DEF Owned
  <1> QED BY <1>3, <1>4

\* The memory of the tensors of a block.
Mine(b) == IF b = "vision" /\ file.tower THEN {Tower} ELSE Of(b)

\* A block is unloaded, or its load given up: all it had is gone, nothing else is.
LEMMA BlockGone ==
  ASSUME LoaderInv, NEW b \in Blocks, UNCHANGED fixed, NEW gone,
         tensors' = Dropped(tensors, Of(b)), heap' = Dropped(heap, gone),
         gone \cup {NoMemory} = Mine(b) \cup {blocks[b].window, NoMemory},
         blocks' = [blocks EXCEPT ![b] = Unloaded], loading' = Rest,
         \A c \in Blocks : Listing(c) => c = b, loading.mode # "buffers"
  PROVE  LoaderInv'
  <1> USE DEF LoaderInv
  <1>1. Unloaded = State(FALSE, {}, NoneStaged, NoMemory, 0) /\ DOMAIN NoneStaged = {}
    BY DEF Unloaded, State, NoneStaged
  <1>2. Blocks = {"text", "vision"} /\ \A c \in Blocks : ~Listing(c)'
    BY DEF Blocks, Listing, Rest
  <1>3. /\ blocks'[b].loaded = FALSE /\ blocks'[b].names = {} /\ blocks'[b].staged = NoneStaged
        /\ blocks'[b].window = NoMemory /\ blocks'[b].capacity = 0
        /\ \A c \in Blocks : c # b => blocks'[c] = blocks[c]
        /\ blocks' = [c \in Blocks |-> State(blocks'[c].loaded, blocks'[c].names, blocks'[c].staged,
                                             blocks'[c].window, blocks'[c].capacity)]
    <2>1. blocks'[b] = Unloaded /\ \A c \in Blocks : c # b => blocks'[c] = blocks[c]
      BY DEF BlocksOK
    <2>2. /\ blocks'[b].loaded = FALSE /\ blocks'[b].names = {} /\ blocks'[b].staged = NoneStaged
          /\ blocks'[b].window = NoMemory /\ blocks'[b].capacity = 0
      BY <2>1 DEF Unloaded
    <2>3. \A c \in Blocks : blocks'[c] = State(blocks'[c].loaded, blocks'[c].names, blocks'[c].staged,
                                              blocks'[c].window, blocks'[c].capacity)
      <3>1. blocks'[b] = State(blocks'[b].loaded, blocks'[b].names, blocks'[b].staged, blocks'[b].window, blocks'[b].capacity)
        BY <2>1 DEF Unloaded, State
      <3>2. ASSUME NEW c \in Blocks, c # b
            PROVE  blocks'[c] = State(blocks'[c].loaded, blocks'[c].names, blocks'[c].staged,
                                      blocks'[c].window, blocks'[c].capacity)
        BY <2>1, <3>2 DEF BlocksOK
      <3> QED BY <3>1, <3>2
    <2>4. blocks' = [c \in Blocks |-> blocks'[c]]
      BY DEF BlocksOK
    <2> QED BY <2>1, <2>2, <2>3, <2>4, Zenon
  <1>4. Of(b)' = {} /\ \A c \in Blocks : c # b => Of(c)' = Of(c)
    BY <1>3 DEF Of
  <1>5. /\ DOMAIN tensors' = DOMAIN tensors \ Of(b) /\ \A n \in DOMAIN tensors' : tensors'[n] = tensors[n]
        /\ DOMAIN heap' = DOMAIN heap \ gone /\ \A a \in DOMAIN heap' : heap'[a] = heap[a]
    BY DEF Dropped
  <1>6. /\ Of("text") \cap Of("vision") = {} /\ Of(b) \cap env.taken = {}
        /\ Range(Buffers) \cap Of(b) = {}
    BY <1>2, Apart DEF NamesOK
  <1>7. \A n \in DOMAIN tensors : n # NoMemory /\ n # Tower /\ n # TowerWindow
    BY NotMemory
  <1>8. FixedOK'
    BY FixedSame DEF FixedOK
  <1>9. LoadingOK'
    BY DEF LoadingOK, Rest
  <1>10. BlocksOK'
    <2>1. \A c : OfBlock(c)' = OfBlock(c) /\ WindowOf(c)' = WindowOf(c)
      BY FixedSame DEF WindowOf
    <2>2. file' = file /\ env' = env
      BY FixedSame
    <2>3. ASSUME NEW c \in Blocks
          PROVE  /\ blocks'[c].loaded \in BOOLEAN
                 /\ blocks'[c].capacity \in Nat
                 /\ blocks'[c].window \in {NoMemory, WindowOf(c)}
                 /\ blocks'[c].loaded => 1 \in DOMAIN OfBlock(c)
                 /\ ~blocks'[c].loaded => Of(c)' = {}
                 /\ IsStaged(c)' => blocks'[c].window # NoMemory
                 /\ blocks'[c].window # NoMemory => c = "vision" /\ blocks'[c].loaded /\ file.tower /\ env.visionMmap
      <3>1. CASE c = b
        <4>1. blocks'[c].loaded = FALSE /\ blocks'[c].window = NoMemory /\ Of(c)' = {} /\ ~IsStaged(c)'
          BY <1>1, <1>3, <1>4, <3>1 DEF IsStaged
        <4>2. blocks'[c].loaded \in BOOLEAN
          BY <4>1, Zenon
        <4>3. blocks'[c].capacity \in Nat
          BY <1>3, <3>1
        <4> QED BY <4>1, <4>2, <4>3
      <3>2. CASE c # b
        <4>1. blocks'[c] = blocks[c] /\ Of(c)' = Of(c) /\ ~Listing(c)
          BY <1>3, <1>4, <3>2
        <4> QED BY <4>1 DEF BlocksOK, IsStaged
      <3> QED BY <3>1, <3>2
    <2> QED BY <1>2, <1>3, <2>1, <2>2, <2>3 DEF BlocksOK
  <1>11. RegistryOK'
    <2>1. env' = env /\ loading'.mode = "none"
      BY FixedSame DEF Rest
    <2> QED BY <1>2, <1>4, <1>5, <1>6, <2>1 DEF RegistryOK
  <1>12. NamesOK'
    <2>1. /\ \A c : PartsOf(c)' = PartsOf(c) /\ OfBlock(c)' = OfBlock(c) /\ \A j : Part(c, j)' = Part(c, j)
          /\ file' = file /\ env' = env /\ FusedNames' = FusedNames
      BY FixedSame DEF FusedNames, Fused
    <2>2. Of("text")' \subseteq Of("text") /\ Of("vision")' \subseteq Of("vision")
      BY <1>2, <1>4
    <2>3. ASSUME file.tower, NEW j \in DOMAIN OfBlock("vision")
          PROVE  Part("vision", j) \in Of("vision")' <=> blocks'["vision"].loaded
      <3>1. CASE b = "vision"
        BY <1>3, <1>4, <3>1
      <3>2. CASE b # "vision"
        BY <1>2, <1>3, <1>4, <2>3, <3>2 DEF NamesOK
      <3> QED BY <3>1, <3>2
    <2> QED BY <1>2, <2>1, <2>2, <2>3 DEF NamesOK
  <1>13. ASSUME b = "vision" /\ file.tower PROVE HeapOK' /\ TowerOK' /\ StagedOK'
    <2>1. TowerNames = Of("vision") /\ TowerNames' = {} /\ ~TowerThere'
      BY <1>2, <1>3, <1>4, <1>13, FixedSame DEF TowerNames, TowerThere
    <2>2. gone \cup {NoMemory} = {Tower, blocks["vision"].window, NoMemory}
      BY <1>13 DEF Mine
    <2>3. blocks["vision"].window \in {NoMemory, TowerWindow}
      BY <1>2, TheWindow
    <2>4. DOMAIN heap' = DOMAIN tensors' \ TowerNames'
      <3>1. TowerWindow # NoMemory /\ Tower # NoMemory /\ Tower # TowerWindow
        BY DEF Tower, TowerWindow, TowerOf, WindowOf, NoMemory
      <3>2. \A a \in DOMAIN heap : a \in DOMAIN tensors \ TowerNames \/ a = Tower \/ (a = blocks["vision"].window /\ a # NoMemory)
        BY DEF HeapOK
      <3>3. \A a \in DOMAIN tensors \ TowerNames : a \in DOMAIN heap /\ a \notin gone
        BY <1>7, <2>2, <2>3 DEF HeapOK
      <3>4. Tower \in gone /\ (blocks["vision"].window # NoMemory => blocks["vision"].window \in gone)
        BY <2>2, <3>1
      <3>5. DOMAIN heap' = DOMAIN tensors \ TowerNames
        BY <1>5, <3>2, <3>3, <3>4
      <3> QED BY <1>5, <1>13, <2>1, <3>5
    <2>5. DOMAIN heap' = (DOMAIN tensors' \ TowerNames') \cup ({blocks'["vision"].window} \ {NoMemory})
                          \cup (IF TowerThere' THEN {Tower} ELSE {})
      BY <1>3, <1>13, <2>1, <2>4
    <2>6. \A n \in DOMAIN tensors' \ TowerNames' :
            n \in DOMAIN tensors \ TowerNames /\ heap'[n] = heap[n] /\ tensors'[n] = tensors[n]
      BY <1>5, <1>13, <2>1, <2>4
    <2>7. HeapOK'
      BY <2>5, <2>6, HeapFrame
    <2>8. TowerOK'
      BY <1>4, <1>13, <2>1, TowerFrame
    <2>9. StagedOK'
      BY <1>1, <1>3, <1>13, StagedFrame
    <2> QED BY <1>13, <2>7, <2>8, <2>9
  <1>14. ASSUME ~(b = "vision" /\ file.tower) PROVE HeapOK' /\ TowerOK' /\ StagedOK'
    <2>1. /\ TowerNames' = TowerNames /\ TowerNames \cap Of(b) = {} /\ (TowerThere' <=> TowerThere)
          /\ file.tower => b = "text" /\ Of("vision")' = Of("vision")
      BY <1>2, <1>3, <1>4, <1>6, <1>14, FixedSame DEF TowerNames, TowerThere
    <2>2. blocks[b].window = NoMemory /\ blocks'["vision"].window = blocks["vision"].window
      BY <1>2, <1>3, <1>14 DEF BlocksOK
    <2>3. gone \cup {NoMemory} = Of(b) \cup {NoMemory}
      BY <1>14, <2>2 DEF Mine
    <2>4. Of(b) \subseteq DOMAIN tensors /\ NoMemory \notin DOMAIN heap
      <3>1. Tower # NoMemory
        BY DEF Tower, TowerOf, NoMemory
      <3> QED BY <1>2, <1>7, <3>1 DEF RegistryOK, HeapOK
    <2>5. DOMAIN heap' = DOMAIN heap \ Of(b)
      BY <1>5, <2>3, <2>4
    <2>6. blocks["vision"].window \in {NoMemory, TowerWindow}
      BY <1>2, TheWindow
    <2>7. DOMAIN heap' = (DOMAIN tensors' \ TowerNames') \cup ({blocks'["vision"].window} \ {NoMemory})
                          \cup (IF TowerThere' THEN {Tower} ELSE {})
      BY <1>5, <1>7, <2>1, <2>2, <2>4, <2>5, <2>6 DEF HeapOK
    <2>8. \A n \in DOMAIN tensors' \ TowerNames' :
            n \in DOMAIN tensors \ TowerNames /\ heap'[n] = heap[n] /\ tensors'[n] = tensors[n]
      BY <1>5, <2>1, <2>7
    <2>9. HeapOK'
      BY <2>7, <2>8, HeapFrame
    <2>10. TowerThere => heap'[Tower] = heap[Tower]
      BY <1>5, <1>7, <2>4, <2>5 DEF HeapOK
    <2>11. ASSUME NEW n, file.tower, n \in Of("vision")'
           PROVE  /\ n \in Of("vision") /\ tensors'[n] = tensors[n] /\ heap'[Tower] = heap[Tower]
                  /\ StagedName(n)' <=> StagedName(n)
      <3>1. n \in Of("vision") /\ blocks'["vision"] = blocks["vision"]
        BY <1>2, <1>3, <2>1, <2>11
      <3>2. n \in DOMAIN tensors /\ n \notin Of(b)
        BY <1>2, <1>6, <2>1, <2>11, <3>1 DEF RegistryOK
      <3>3. TowerThere
        BY <1>2, <2>11, <3>1 DEF BlocksOK, TowerThere
      <3> QED BY <1>5, <2>10, <3>1, <3>2, <3>3 DEF StagedName
    <2>12. TowerOK'
      BY <2>1, <2>10, <2>11, TowerFrame
    <2>13. StagedOK'
      <3>1. CASE b = "vision"
        BY <1>1, <1>3, <3>1, StagedFrame
      <3>2. CASE b = "text"
        <4>1. blocks'["vision"] = blocks["vision"]
          BY <1>2, <1>3, <3>2
        <4>2. IsStaged("vision") => heap'[TowerWindow] = heap[TowerWindow]
          <5>1. IsStaged("vision") => blocks["vision"].window = TowerWindow /\ TowerWindow # NoMemory
            BY <1>2, <2>6 DEF BlocksOK
          <5> QED BY <1>5, <1>7, <2>4, <2>5, <5>1 DEF HeapOK
        <4> QED BY <1>4, <1>2, <3>2, <4>1, <4>2, StagedFrame
      <3> QED BY <1>2, <3>1, <3>2
    <2> QED BY <2>9, <2>12, <2>13
  <1>15. CompleteOK'
    <2>1. loading'.mode = "none"
      BY DEF Rest
    <2>2. ASSUME NEW c \in Blocks, blocks'[c].loaded, NEW i \in DOMAIN OfBlock(c), Present(Part(c, i))
          PROVE  blocks[c].loaded /\ Present(Part(c, i))'
      <3>1. c # b /\ blocks[c].loaded
        BY <1>3, <2>2
      <3>2. Of(b) \subseteq Range(Buffers) \cup Of(IF c = "text" THEN "vision" ELSE "text")
        BY <1>2, <3>1
      <3>3. PICK names : names = Of(b)
        OBVIOUS
      <3>4. \A n \in DOMAIN tensors : n \notin names => n \in DOMAIN tensors'
        BY <1>5, <3>3
      <3>5. names \subseteq Range(Buffers) \cup Of(IF c = "text" THEN "vision" ELSE "text")
        BY <3>2, <3>3
      <3>6. Present(Part(c, i))'
        BY <2>2, <3>4, <3>5, PresentStays
      <3> QED BY <3>1, <3>6
    <2>3. \A c \in Blocks : blocks'[c].loaded =>
            /\ blocks[c].loaded
            /\ \A i \in DOMAIN OfBlock(c) : Present(Part(c, i)) => Present(Part(c, i))'
      <3>1. ASSUME NEW c \in Blocks, blocks'[c].loaded PROVE blocks[c].loaded
        BY <1>3, <3>1
      <3> QED BY <2>2, <3>1
    <2> QED BY <2>1, <2>3, CompleteFrame
  <1>16. FusedOK'
    <2>1. \A i \in DOMAIN Fusions : Fusable(i)' => Fusable(i)
      BY <1>5, FusableStays
    <2>2. blocks'["text"].loaded => blocks["text"].loaded
      BY <1>2, <1>3
    <2>3. loading'.mode = "none"
      BY DEF Rest
    <2> QED BY <2>1, <2>2, <2>3, FusedFrame
  <1> QED BY <1>8, <1>9, <1>10, <1>11, <1>12, <1>13, <1>14, <1>15, <1>16

\* What a block owns, with the memory of its load.
LEMMA OwnedMine ==
  ASSUME LoaderInv, NEW b \in Blocks
  PROVE  /\ ~(b = "vision" /\ file.tower) \/ blocks[b].loaded => Owned(Of(b)) = Mine(b)
         /\ b = "vision" /\ file.tower => Owned(Of(b)) \cup {Tower} = Mine(b)
  <1> USE DEF LoaderInv
  <1>1. CASE b = "vision" /\ file.tower
    BY <1>1, OwnedTower DEF Mine
  <1>2. CASE ~(b = "vision" /\ file.tower)
    <2>1. Of(b) \cap TowerNames = {} /\ Of(b) \subseteq DOMAIN tensors
      BY <1>2, Apart DEF TowerNames, RegistryOK, Blocks
    <2>2. Owned(Of(b)) = Of(b)
      BY <2>1, OwnedAlone
    <2> QED BY <1>2, <2>2 DEF Mine
  <1> QED BY <1>1, <1>2

\* A load is given up.
LEMMA RollBackInv ==
  ASSUME LoaderInv, RollBack
  PROVE  LoaderInv'
  <1> USE DEF LoaderInv
  <1>1. PICK b, i, n : b = loading.block /\ i = loading.next /\ n = Entry.name
    OBVIOUS
  <1>2. HasEntry /\ UNCHANGED fixed /\ loading' = Rest /\ blocks' = [blocks EXCEPT ![b] = Unloaded]
    BY <1>1 DEF RollBack, Abandoned
  <1>3. PICK gone : gone = Owned(Of(b)) \cup {loading.base}
    OBVIOUS
  <1>4. tensors' = Dropped(tensors, Of(b)) /\ heap' = Dropped(heap, gone)
    BY <1>1, <1>3 DEF RollBack, Of
  <1>5. b \in Blocks /\ Listing(b) /\ ~blocks[b].loaded /\ loading.mode \in {"each", "mapped", "contiguous"}
    BY <1>1, <1>2, TheEntry
  <1>6. blocks[b].window = NoMemory
    BY <1>5 DEF BlocksOK
  <1>7. gone \cup {NoMemory} = Mine(b) \cup {blocks[b].window, NoMemory}
    <2>1. CASE b = "vision" /\ file.tower
      <3>1. loading.base = Tower
        BY <1>5, <2>1, TowerBase
      <3> QED BY <1>3, <1>5, <1>6, <2>1, <3>1, OwnedMine
    <2>2. CASE ~(b = "vision" /\ file.tower)
      <3>1. loading.base = NoMemory
        BY <1>1, <1>5, <2>2, TowerBase DEF Listing
      <3> QED BY <1>3, <1>5, <1>6, <2>2, <3>1, OwnedMine
    <2> QED BY <2>1, <2>2
  <1>8. \A c \in Blocks : Listing(c) => c = b
    BY <1>1 DEF Listing
  <1> QED BY <1>2, <1>4, <1>5, <1>7, <1>8, BlockGone

\* A block is unloaded.
LEMMA UnloadInv ==
  ASSUME LoaderInv, NEW b \in Blocks, Unload(b)
  PROVE  LoaderInv'
  <1> USE DEF LoaderInv
  <1>1. UNCHANGED fixed /\ loading = Rest /\ loading' = Rest /\ blocks' = [blocks EXCEPT ![b] = Unloaded] /\ blocks[b].loaded
    BY DEF Unload, Idle
  <1>2. PICK gone : gone = Owned(Of(b)) \cup {blocks[b].window}
    OBVIOUS
  <1>3. tensors' = Dropped(tensors, Of(b)) /\ heap' = Dropped(heap, gone)
    BY <1>2 DEF Unload, Of
  <1>4. gone \cup {NoMemory} = Mine(b) \cup {blocks[b].window, NoMemory}
    BY <1>1, <1>2, OwnedMine
  <1>5. (\A c \in Blocks : Listing(c) => c = b) /\ loading.mode # "buffers"
    BY <1>1 DEF Listing, Rest, Blocks
  <1> QED BY <1>1, <1>3, <1>4, <1>5, BlockGone
-----------------------------------------------------------------------------
(* The buffers of the adapter.                                              *)

\* Only buffers come and go.
LEMMA OnlyBuffers ==
  ASSUME LoaderInv, UNCHANGED fixed, blocks' = blocks, LoadingOK', RegistryOK',
         loading.mode \in {"none", "buffers"}, loading'.mode \in {"none", "buffers"},
         \A n : n \notin Range(Buffers) => (n \in DOMAIN tensors' <=> n \in DOMAIN tensors),
         \A n \in DOMAIN tensors : n \notin Range(Buffers) => tensors'[n] = tensors[n],
         DOMAIN heap' = (DOMAIN heap \ Range(Buffers)) \cup (Range(Buffers) \cap DOMAIN tensors'),
         \A a \in DOMAIN heap : a \notin Range(Buffers) => heap'[a] = heap[a],
         \A n \in Range(Buffers) \cap DOMAIN tensors' : Single(n)'
  PROVE  LoaderInv'
  <1> USE DEF LoaderInv
  <1>1. Blocks = {"text", "vision"} /\ \A c \in Blocks : ~Listing(c) /\ ~Listing(c)'
    BY DEF Blocks, Listing, LoadingOK, Rest
  <1>2. \A c : Of(c)' = Of(c)
    BY DEF Of
  <1>3. /\ Range(Buffers) \cap (Of("text") \cup Of("vision") \cup env.taken) = {}
        /\ TowerNames' = TowerNames /\ TowerNames \subseteq Of("vision") /\ (TowerThere' <=> TowerThere)
        /\ \A n : StagedName(n)' <=> StagedName(n)
    BY <1>1, <1>2, Apart, FixedSame DEF TowerNames, TowerThere, StagedName
  <1>4. Tower \notin Range(Buffers) /\ TowerWindow \notin Range(Buffers)
    BY FilesAssumption DEF ForeignName, Reserved, Tower, TowerWindow, TowerOf, WindowOf, Range
  <1>5. FixedOK'
    BY FixedSame DEF FixedOK
  <1>6. BlocksOK'
    <2>1. \A c : OfBlock(c)' = OfBlock(c) /\ (IsStaged(c)' <=> IsStaged(c)) /\ WindowOf(c)' = WindowOf(c)
      BY FixedSame DEF IsStaged, WindowOf
    <2>2. file' = file /\ env' = env
      BY FixedSame
    <2> QED BY <1>1, <1>2, <2>1, <2>2 DEF BlocksOK
  <1>7. NamesOK'
    <2>1. /\ \A c : PartsOf(c)' = PartsOf(c) /\ OfBlock(c)' = OfBlock(c) /\ \A j : Part(c, j)' = Part(c, j)
          /\ file' = file /\ env' = env /\ FusedNames' = FusedNames
      BY FixedSame DEF FusedNames, Fused
    <2> QED BY <1>1, <1>2, <2>1 DEF NamesOK
  <1>8. HeapOK'
    <2>1. blocks["vision"].window \in {NoMemory, TowerWindow}
      BY <1>1, TheWindow
    <2>2. DOMAIN heap' = (DOMAIN tensors' \ TowerNames') \cup ({blocks'["vision"].window} \ {NoMemory})
                          \cup (IF TowerThere' THEN {Tower} ELSE {})
      <3>1. \A a : a \notin Range(Buffers) => (a \in DOMAIN heap' <=> a \in DOMAIN heap)
        OBVIOUS
      <3>2. \A a \in Range(Buffers) : a \in DOMAIN heap' <=> a \in DOMAIN tensors' \ TowerNames'
        BY <1>3
      <3>3. \A a \in Range(Buffers) : a # blocks["vision"].window \/ a = NoMemory
        BY <1>4, <2>1
      <3> QED BY <1>3, <1>4, <2>1, <3>1, <3>2, <3>3 DEF HeapOK
    <2>3. ASSUME NEW n \in DOMAIN tensors' \ TowerNames'
          PROVE  \/ Single(n)'
                 \/ n \in DOMAIN tensors \ TowerNames /\ heap'[n] = heap[n] /\ tensors'[n] = tensors[n]
      <3>1. CASE n \in Range(Buffers)
        BY <2>3, <3>1
      <3>2. CASE n \notin Range(Buffers)
        BY <1>3, <2>3, <3>2 DEF HeapOK
      <3> QED BY <3>1, <3>2
    <2> QED BY <2>2, <2>3, HeapFrame
  <1>9. TowerThere => heap'[Tower] = heap[Tower]
    BY <1>4 DEF HeapOK
  <1>10. TowerOK'
    <2>1. ASSUME NEW n, file.tower, n \in Of("vision")'
          PROVE  n \in Of("vision") /\ tensors'[n] = tensors[n] /\ heap'[Tower] = heap[Tower]
      <3>1. n \in Of("vision") /\ n \notin Range(Buffers) /\ n \in DOMAIN tensors
        BY <1>2, <1>3, <2>1 DEF RegistryOK
      <3>2. TowerThere
        BY <1>1, <2>1, <3>1 DEF BlocksOK, TowerThere
      <3> QED BY <1>9, <3>1, <3>2
    <2> QED BY <1>3, <1>9, <2>1, TowerFrame
  <1>11. StagedOK'
    <2>1. IsStaged("vision") => heap'[TowerWindow] = heap[TowerWindow]
      <3>1. IsStaged("vision") => TowerWindow \in DOMAIN heap
        BY <1>1, TheWindow DEF BlocksOK, HeapOK
      <3> QED BY <1>4, <3>1
    <2> QED BY <1>2, <2>1, StagedFrame
  <1>12. CompleteOK'
    <2>1. ASSUME NEW c \in Blocks, NEW i \in DOMAIN OfBlock(c), Present(Part(c, i))
          PROVE  Present(Part(c, i))'
      <3>1. PICK names : names = Range(Buffers)
        OBVIOUS
      <3>2. \A n \in DOMAIN tensors : n \notin names => n \in DOMAIN tensors'
        BY <3>1
      <3>3. names \subseteq Range(Buffers) \cup Of(IF c = "text" THEN "vision" ELSE "text")
        BY <3>1
      <3> QED BY <2>1, <3>2, <3>3, PresentStays
    <2>2. loading'.mode \notin {"each", "fuse"}
      OBVIOUS
    <2> QED BY <1>1, <2>1, <2>2, CompleteFrame
  <1>13. FusedOK'
    <2>1. ASSUME NEW n, n[2] \in Weights \cup {"qkv"}, n \in DOMAIN tensors'
          PROVE  n \in DOMAIN tensors /\ tensors'[n] = tensors[n]
      <3>1. n \notin Range(Buffers)
        BY <2>1, FilesAssumption DEF ForeignName, Reserved, Range
      <3> QED BY <2>1, <3>1
    <2>2. \A i \in DOMAIN Fusions : Fusable(i)' => Fusable(i)
      BY <2>1, FusableStays
    <2> QED BY <1>1, <2>2, FusedFrame DEF Blocks
  <1> QED BY <1>5, <1>6, <1>7, <1>8, <1>10, <1>11, <1>12, <1>13

\* The adapter asks for its buffers.
LEMMA BeginBuffersInv ==
  ASSUME LoaderInv, BeginBuffers
  PROVE  LoaderInv'
  <1> USE DEF LoaderInv
  <1>1. /\ UNCHANGED fixed /\ tensors' = tensors /\ heap' = heap /\ blocks' = blocks
        /\ loading.mode = "none"
        /\ loading' = [block |-> "buffers", mode |-> "buffers", next |-> 1, base |-> NoMemory]
    BY DEF BeginBuffers, Idle, Rest
  <1>2. Buffers \in Seq(Names) /\ Len(Buffers) \in Nat \ {0} /\ 1 \in DOMAIN Buffers
    <2>1. Buffers \in Seq(Names) /\ Buffers # <<>>
      BY FilesAssumption DEF BeginBuffers
    <2>2. Len(Buffers) \in Nat \ {0}
      BY <2>1, EmptySeq
    <2> QED BY <2>1, <2>2
  <1>3. LoadingOK'
    <2>1. loading' \in [block : Blocks \cup {"none", "buffers"},
                        mode : {"none", "each", "mapped", "contiguous", "fuse", "buffers"},
                        next : Nat \ {0}, base : {NoMemory, Tower}]
      BY <1>1
    <2>2. loading'.block = "buffers" /\ loading'.mode = "buffers" /\ loading'.next = 1 /\ loading'.base = NoMemory
      BY <1>1
    <2> QED BY <1>2, <2>1, <2>2 DEF LoadingOK, Listing, Tower
  <1>4. RegistryOK'
    <2>1. Range(Buffers) \cap DOMAIN tensors = {}
      <3>1. Buffers[1] \notin DOMAIN tensors /\ Buffers[1] \in Range(Buffers)
        BY <1>2 DEF BeginBuffers, HasBuffers, Range
      <3> QED BY <1>1, <3>1 DEF RegistryOK
    <2>2. \A i \in DOMAIN Buffers : Buffers[i] \notin DOMAIN tensors /\ ~(i < 1)
      BY <1>2, <2>1 DEF Range
    <2>3. loading'.mode = "buffers" /\ loading'.next = 1
      BY <1>1
    <2>4. Of("text")' = Of("text") /\ Of("vision")' = Of("vision")
      BY <1>1 DEF Of
    <2>5. env' = env /\ tensors' = tensors
      BY <1>1, FixedSame
    <2> QED BY <2>2, <2>3, <2>4, <2>5 DEF RegistryOK
  <1>5. \A n \in Range(Buffers) \cap DOMAIN tensors' : Single(n)'
    <2>1. Range(Buffers) \cap TowerNames = {}
      BY Apart DEF TowerNames
    <2>2. ASSUME NEW n \in Range(Buffers) \cap DOMAIN tensors PROVE Single(n)'
      <3>1. Single(n)
        BY <2>1 DEF HeapOK
      <3> QED BY <1>1, <3>1, SingleSame
    <2> QED BY <1>1, <2>2
  <1>6. DOMAIN heap' = (DOMAIN heap \ Range(Buffers)) \cup (Range(Buffers) \cap DOMAIN tensors')
    <2>1. Range(Buffers) \cap (TowerNames \cup {Tower, TowerWindow}) = {}
      <3>1. Range(Buffers) \cap TowerNames = {}
        BY Apart DEF TowerNames
      <3> QED BY <3>1, FilesAssumption DEF ForeignName, Reserved, Tower, TowerWindow, TowerOf, WindowOf, Range
    <2>2. blocks["vision"].window \in {NoMemory, TowerWindow}
      BY TheWindow DEF Blocks
    <2> QED BY <1>1, <2>1, <2>2 DEF HeapOK
  <1>7. loading'.mode = "buffers"
    BY <1>1
  <1> QED BY <1>1, <1>3, <1>4, <1>5, <1>6, <1>7, OnlyBuffers

\* The memory of the buffers is theirs.
LEMMA BufferMemory ==
  ASSUME LoaderInv
  PROVE  /\ Range(Buffers) \cap TowerNames = {}
         /\ Range(Buffers) \cap DOMAIN heap = Range(Buffers) \cap DOMAIN tensors
         /\ \A n \in Range(Buffers) \cap DOMAIN tensors : Single(n)
  <1> USE DEF LoaderInv
  <1>1. Range(Buffers) \cap TowerNames = {}
    BY Apart DEF TowerNames
  <1>2. Range(Buffers) \cap {NoMemory, Tower, TowerWindow} = {}
    BY FilesAssumption DEF ForeignName, Reserved, NoMemory, Tower, TowerWindow, TowerOf, WindowOf, Range
  <1>3. blocks["vision"].window \in {NoMemory, TowerWindow}
    BY TheWindow DEF Blocks
  <1> QED BY <1>1, <1>2, <1>3 DEF HeapOK

\* A buffer is allocated.
LEMMA AllocateBufferInv ==
  ASSUME LoaderInv, AllocateBuffer
  PROVE  LoaderInv'
  <1> USE DEF LoaderInv
  <1>1. PICK i, n : i = loading.next /\ n = Buffers[i]
    OBVIOUS
  <1>2. /\ UNCHANGED fixed /\ blocks' = blocks /\ loading.mode = "buffers" /\ i <= Len(Buffers)
        /\ i \in Nat \ {0} /\ Alone(n, "vram") /\ loading.block = "buffers" /\ loading.base = NoMemory
    BY <1>1 DEF AllocateBuffer, Buffering, LoadingOK, Listing
  <1>3. Buffers \in Seq(Names) /\ Len(Buffers) \in Nat /\ DOMAIN Buffers = 1 .. Len(Buffers) /\ i \in DOMAIN Buffers
    <2>1. Buffers \in Seq(Names)
      BY FilesAssumption
    <2> QED BY <1>2, <2>1
  <1>4. n \in Range(Buffers) /\ n[2] \notin Reserved /\ \A j \in DOMAIN Buffers : Buffers[j] = n <=> j = i
    BY <1>1, <1>3, FilesAssumption DEF ForeignName, Range
  <1>5. /\ DOMAIN tensors' = DOMAIN tensors \cup {n} /\ DOMAIN heap' = DOMAIN heap \cup {n}
        /\ \A m \in DOMAIN tensors : m # n => tensors'[m] = tensors[m]
        /\ \A a \in DOMAIN heap : a # n => heap'[a] = heap[a]
        /\ tensors'[n] = Info(n, 0, 1, n, "vram")
    <2>1. PICK info : info = Info(n, 0, 1, n, "vram")
      OBVIOUS
    <2>2. PICK memory : memory = [kind |-> "vram", bytes |-> <<n>>]
      OBVIOUS
    <2>3. tensors' = With(tensors, n, info) /\ heap' = With(heap, n, memory)
      BY <1>2, <2>1, <2>2 DEF Alone
    <2> QED BY <2>1, <2>3 DEF With
  <1>6. heap'[n] = [kind |-> "vram", bytes |-> <<n>>]
    BY <1>2 DEF Alone, With
  <1>7. \/ i = Len(Buffers) /\ loading' = Rest
        \/ i < Len(Buffers) /\ loading' = [loading EXCEPT !.next = i + 1]
    BY <1>1, <1>2, <1>3 DEF AllocateBuffer
  <1>8. i < Len(Buffers) /\ loading' = [loading EXCEPT !.next = i + 1] =>
          /\ loading'.block = "buffers" /\ loading'.mode = "buffers" /\ loading'.next = i + 1 /\ loading'.base = NoMemory
          /\ loading' \in [block : Blocks \cup {"none", "buffers"},
                           mode : {"none", "each", "mapped", "contiguous", "fuse", "buffers"},
                           next : Nat \ {0}, base : {NoMemory, Tower}]
    BY <1>2, <1>3 DEF LoadingOK
  <1>9. LoadingOK'
    <2>1. CASE loading' = Rest
      BY <2>1 DEF LoadingOK, Rest
    <2>2. CASE i < Len(Buffers) /\ loading' = [loading EXCEPT !.next = i + 1]
      <3>1. i + 1 <= Len(Buffers)
        BY <1>2, <1>3, <2>2
      <3> QED BY <1>8, <2>2, <3>1 DEF LoadingOK, Listing, Tower
    <2> QED BY <1>7, <2>1, <2>2
  <1>10. RegistryOK'
    <2>1. Of("text")' = Of("text") /\ Of("vision")' = Of("vision") /\ env' = env
      BY <1>2, FixedSame DEF Of
    <2>2. ASSUME NEW j \in DOMAIN Buffers PROVE Buffers[j] \in DOMAIN tensors' <=> j < i + 1
      <3>1. Buffers[j] \in DOMAIN tensors <=> j < i
        BY <1>1, <1>2 DEF RegistryOK
      <3>2. j < i + 1 <=> j < i \/ j = i
        BY <1>2, <1>3
      <3> QED BY <1>4, <1>5, <3>1, <3>2
    <2>3. i = Len(Buffers) => Range(Buffers) \subseteq DOMAIN tensors'
      <3>1. ASSUME i = Len(Buffers), NEW j \in DOMAIN Buffers PROVE j < i + 1
        BY <1>3, <3>1
      <3> QED BY <2>2, <3>1 DEF Range
    <2>4. /\ env.taken \cup Of("text") \cup Of("vision") \subseteq DOMAIN tensors'
          /\ DOMAIN tensors' \subseteq env.taken \cup Of("text") \cup Of("vision") \cup Range(Buffers)
      BY <1>4, <1>5 DEF RegistryOK
    <2>5. CASE i = Len(Buffers) /\ loading' = Rest
      <3>1. loading'.mode = "none"
        BY <2>5 DEF Rest
      <3> QED BY <2>1, <2>3, <2>4, <2>5, <3>1 DEF RegistryOK
    <2>6. CASE i < Len(Buffers) /\ loading' = [loading EXCEPT !.next = i + 1]
      BY <1>8, <2>1, <2>2, <2>4, <2>6 DEF RegistryOK
    <2> QED BY <1>7, <2>5, <2>6
  <1>11. Single(n)'
    <2>1. Meant(n)' = <<n>> /\ Size(n)' = 1
      <3>1. n[2] \notin {"qkv", "gate_up"}
        BY <1>4 DEF Reserved
      <3> QED BY <1>2, <3>1, MeantAlone, FixedSame DEF Size
    <2> QED BY <1>5, <1>6, <2>1 DEF Single, Info
  <1>12. \A m \in Range(Buffers) \cap DOMAIN tensors' : Single(m)'
    <2>1. ASSUME NEW m \in Range(Buffers) \cap DOMAIN tensors', m # n PROVE Single(m)'
      <3>1. m \in DOMAIN tensors /\ m \in DOMAIN heap /\ Single(m)
        BY <1>5, <2>1, BufferMemory
      <3> QED BY <1>2, <1>5, <2>1, <3>1, SingleSame
    <2> QED BY <1>11, <2>1
  <1>13. DOMAIN heap' = (DOMAIN heap \ Range(Buffers)) \cup (Range(Buffers) \cap DOMAIN tensors')
    BY <1>4, <1>5, BufferMemory
  <1>14. loading'.mode \in {"none", "buffers"}
    BY <1>7, <1>8 DEF Rest
  <1> QED BY <1>2, <1>4, <1>5, <1>9, <1>10, <1>12, <1>13, <1>14, OnlyBuffers

\* A buffer there is no memory for takes the others with it.
LEMMA BufferFailsInv ==
  ASSUME LoaderInv, BufferFails
  PROVE  LoaderInv'
  <1> USE DEF LoaderInv
  <1>1. /\ UNCHANGED fixed /\ blocks' = blocks /\ loading.mode = "buffers" /\ loading' = Rest
        /\ Deregister(Range(Buffers))
    BY DEF BufferFails, Buffering
  <1>2. Owned(Range(Buffers)) = Range(Buffers) \cap DOMAIN tensors
    BY BufferMemory, OwnedAlone
  <1>3. /\ DOMAIN tensors' = DOMAIN tensors \ Range(Buffers) /\ \A n \in DOMAIN tensors' : tensors'[n] = tensors[n]
        /\ DOMAIN heap' = DOMAIN heap \ Range(Buffers) /\ \A a \in DOMAIN heap' : heap'[a] = heap[a]
    <2>1. PICK freed : freed = Range(Buffers) \cap DOMAIN tensors
      OBVIOUS
    <2>2. tensors' = Dropped(tensors, Range(Buffers)) /\ heap' = Dropped(heap, freed)
      BY <1>1, <1>2, <2>1 DEF Deregister
    <2>3. DOMAIN heap \ freed = DOMAIN heap \ Range(Buffers)
      BY <2>1, BufferMemory
    <2> QED BY <2>2, <2>3 DEF Dropped
  <1>4. LoadingOK'
    BY <1>1 DEF LoadingOK, Rest
  <1>5. RegistryOK'
    <2>1. Of("text")' = Of("text") /\ Of("vision")' = Of("vision") /\ env' = env /\ loading'.mode = "none"
      BY <1>1, FixedSame DEF Of, Rest
    <2>2. Range(Buffers) \cap (Of("text") \cup Of("vision") \cup env.taken) = {}
      BY Apart
    <2> QED BY <1>3, <2>1, <2>2 DEF RegistryOK
  <1>6. loading'.mode = "none"
    BY <1>1 DEF Rest
  <1> QED BY <1>1, <1>3, <1>4, <1>5, <1>6, OnlyBuffers
-----------------------------------------------------------------------------
(* The window of the tower.                                                 *)

\* Only the tower is staged, when its memory is a mapping of the file: the
\* embedding may be one too, but not with the output projection of its group.
LEMMA StagedTower ==
  ASSUME LoaderInv, NEW b \in Blocks, NEW phase, CanStage(b, phase)
  PROVE  /\ b = "vision" /\ file.tower /\ env.visionMmap /\ blocks["vision"].loaded
         /\ loading = Rest /\ DOMAIN blocks["vision"].staged = {}
         /\ Selected(b, phase) # {}
  <1> USE DEF LoaderInv
  <1>1. PICK i \in Selected(b, phase) : Part(b, i) \in DOMAIN tensors /\ tensors[Part(b, i)].kind = "mmap"
    BY DEF CanStage
  <1>2. i \in DOMAIN OfBlock(b) /\ Part(b, i)[1] = phase
    BY DEF Selected
  <1>3. PICK n : n = Part(b, i)
    OBVIOUS
  <1>4. CASE n \in TowerNames
    <2>1. /\ TowerThere
          /\ \E j \in DOMAIN OfBlock("vision") : n = Part("vision", j) /\ tensors[n].kind = TowerKind
      BY <1>4, ViewTensor
    <2>2. b = "vision"
      BY <1>2, <1>3, <2>1, Distinct DEF Blocks
    <2> QED BY <1>1, <1>3, <2>1, <2>2 DEF TowerKind, TowerThere, CanStage, Idle, IsStaged
  <1>5. CASE n \notin TowerNames
    <2>1. EmbeddingIsLookupOnly(n)
      <3>1. Single(n)
        BY <1>1, <1>3, <1>5 DEF HeapOK
      <3>2. tensors[n] = Info(n, 0, Size(n), n, heap[n].kind) /\ tensors[n].kind = "mmap"
        BY <1>1, <1>3, <3>1 DEF Single
      <3>3. heap[n].kind = "mmap"
        BY <3>2 DEF Info
      <3> QED BY <3>1, <3>3 DEF Single
    <2>2. n[2] = "token_embedding" /\ n[1] = -1 /\ b = "text"
      <3>1. n[2] = "token_embedding"
        BY <2>1 DEF EmbeddingIsLookupOnly
      <3> QED BY <1>2, <1>3, <3>1, AnEntry DEF Blocks, Weights
    <2>3. PICK j \in DOMAIN OfBlock("text") : Part("text", j)[2] = "lm_head"
      BY <2>1 DEF EmbeddingIsLookupOnly
    <2>4. PICK m : m = Part("text", j)
      OBVIOUS
    <2>5. j \in Selected(b, phase)
      BY <1>2, <1>3, <2>2, <2>3, AnEntry DEF Selected, Blocks
    <2>6. m \in DOMAIN tensors /\ tensors[m].kind = "mmap"
      BY <2>2, <2>4, <2>5 DEF CanStage
    <2>7. m \notin TowerNames
      BY <2>4, Distinct DEF TowerNames, NamesOK, PartsOf, Blocks
    <2>8. EmbeddingIsLookupOnly(m)
      <3>1. Single(m)
        BY <2>6, <2>7 DEF HeapOK
      <3>2. tensors[m] = Info(m, 0, Size(m), m, heap[m].kind)
        BY <3>1 DEF Single
      <3>3. heap[m].kind = "mmap"
        BY <2>6, <3>2 DEF Info
      <3> QED BY <3>1, <3>3 DEF Single
    <2> QED BY <2>3, <2>4, <2>8 DEF EmbeddingIsLookupOnly
  <1> QED BY <1>4, <1>5

\* Staging changes one block.
LEMMA StagingState ==
  ASSUME BlocksOK, NEW staged, NEW window, NEW capacity, Staging("vision", window, staged, capacity)
  PROVE  /\ Of("vision")' = Of("vision") /\ blocks'["vision"].loaded = blocks["vision"].loaded
         /\ blocks'["vision"].staged = staged /\ blocks'["vision"].window = window
         /\ blocks'["vision"].capacity = capacity /\ blocks'["text"] = blocks["text"]
         /\ blocks' = [c \in Blocks |-> State(blocks'[c].loaded, blocks'[c].names, blocks'[c].staged,
                                              blocks'[c].window, blocks'[c].capacity)]
  <1>1. PICK l, n : l = blocks["vision"].loaded /\ n = blocks["vision"].names
    OBVIOUS
  <1>2. blocks' = [blocks EXCEPT !["vision"] = State(l, n, staged, window, capacity)]
    BY <1>1 DEF Staging, State
  <1>3. "vision" \in Blocks /\ "text" \in Blocks /\ "text" # "vision"
    BY DEF Blocks
  <1>4. /\ blocks'["vision"].loaded = l /\ blocks'["vision"].names = n /\ blocks'["vision"].staged = staged
        /\ blocks'["vision"].window = window /\ blocks'["vision"].capacity = capacity
        /\ \A c \in Blocks : c # "vision" => blocks'[c] = blocks[c]
        /\ blocks' = [c \in Blocks |-> State(blocks'[c].loaded, blocks'[c].names, blocks'[c].staged,
                                             blocks'[c].window, blocks'[c].capacity)]
    BY <1>2, <1>3, OneState
  <1> QED BY <1>1, <1>3, <1>4 DEF Of

\* Only the window of the tower and the pointers of its views change.
LEMMA OnlyWindow ==
  ASSUME LoaderInv, UNCHANGED fixed, loading = Rest, loading' = Rest,
         file.tower, env.visionMmap, blocks["vision"].loaded,
         NEW window \in {NoMemory, TowerWindow}, NEW staged, NEW capacity \in Nat,
         Staging("vision", window, staged, capacity),
         DOMAIN staged # {} => window # NoMemory,
         DOMAIN tensors' = DOMAIN tensors,
         \A n \in DOMAIN tensors : n \notin Of("vision") => tensors'[n] = tensors[n],
         DOMAIN heap' = (DOMAIN heap \ {TowerWindow}) \cup ({window} \ {NoMemory}),
         \A a \in DOMAIN heap : a # TowerWindow => heap'[a] = heap[a],
         \A i \in DOMAIN OfBlock("vision") :
           tensors'[Part("vision", i)] = IF Part("vision", i) \in DOMAIN staged THEN InWindow(i) ELSE Home(i),
         StagedOK'
  PROVE  LoaderInv'
  <1> USE DEF LoaderInv
  <1>1. Blocks = {"text", "vision"} /\ \A c \in Blocks : ~Listing(c) /\ ~Listing(c)'
    BY DEF Blocks, Listing, Rest
  <1>2. /\ Of("vision")' = Of("vision") /\ blocks'["vision"].loaded = blocks["vision"].loaded
        /\ blocks'["vision"].staged = staged /\ blocks'["vision"].window = window
        /\ blocks'["vision"].capacity = capacity /\ blocks'["text"] = blocks["text"]
        /\ blocks' = [c \in Blocks |-> State(blocks'[c].loaded, blocks'[c].names, blocks'[c].staged,
                                             blocks'[c].window, blocks'[c].capacity)]
    <2>1. BlocksOK
      OBVIOUS
    <2> QED BY <2>1, StagingState
  <1>3. Of("text")' = Of("text")
    BY <1>2 DEF Of
  <1>4. /\ TowerNames' = TowerNames /\ TowerNames = Of("vision") /\ TowerThere /\ TowerThere'
        /\ \A n : StagedName(n)' <=> n \in DOMAIN staged
    BY <1>2, FixedSame DEF TowerNames, TowerThere, StagedName
  <1>5. FixedOK'
    BY FixedSame DEF FixedOK
  <1>6. LoadingOK'
    BY DEF LoadingOK, Rest
  <1>7. BlocksOK'
    <2>1. \A c : OfBlock(c)' = OfBlock(c) /\ WindowOf(c)' = WindowOf(c)
      BY FixedSame DEF WindowOf
    <2>2. file' = file /\ env' = env
      BY FixedSame
    <2>3. ASSUME NEW c \in Blocks
          PROVE  /\ blocks'[c].loaded \in BOOLEAN
                 /\ blocks'[c].capacity \in Nat
                 /\ blocks'[c].window \in {NoMemory, WindowOf(c)}
                 /\ blocks'[c].loaded => 1 \in DOMAIN OfBlock(c)
                 /\ ~blocks'[c].loaded => Of(c)' = {}
                 /\ IsStaged(c)' => blocks'[c].window # NoMemory
                 /\ blocks'[c].window # NoMemory => c = "vision" /\ blocks'[c].loaded /\ file.tower /\ env.visionMmap
      <3>1. CASE c = "vision"
        BY <1>1, <1>2, <3>1 DEF BlocksOK, TowerWindow, IsStaged
      <3>2. CASE c = "text"
        BY <1>1, <1>2, <1>3, <3>2 DEF BlocksOK, IsStaged
      <3> QED BY <1>1, <3>1, <3>2
    <2> QED BY <1>1, <1>2, <2>1, <2>2, <2>3 DEF BlocksOK
  <1>8. RegistryOK'
    <2>1. env' = env /\ loading'.mode = "none" /\ loading.mode = "none"
      BY FixedSame DEF Rest
    <2> QED BY <1>2, <1>3, <2>1 DEF RegistryOK
  <1>9. NamesOK'
    <2>1. /\ \A c : PartsOf(c)' = PartsOf(c) /\ OfBlock(c)' = OfBlock(c) /\ \A j : Part(c, j)' = Part(c, j)
          /\ file' = file /\ env' = env /\ FusedNames' = FusedNames
      BY FixedSame DEF FusedNames, Fused
    <2> QED BY <1>1, <1>2, <1>3, <2>1 DEF NamesOK
  <1>10. \A n \in DOMAIN tensors : n # NoMemory /\ n # Tower /\ n # TowerWindow
    BY NotMemory
  <1>11. Tower # TowerWindow /\ Tower # NoMemory
    BY DEF Tower, TowerWindow, TowerOf, WindowOf, NoMemory
  <1>12. HeapOK'
    <2>1. blocks["vision"].window \in {NoMemory, TowerWindow}
      BY <1>1, TheWindow
    <2>2. DOMAIN heap' = (DOMAIN tensors' \ TowerNames') \cup ({blocks'["vision"].window} \ {NoMemory})
                          \cup (IF TowerThere' THEN {Tower} ELSE {})
      <3>1. DOMAIN heap \ {TowerWindow} = (DOMAIN tensors \ TowerNames) \cup {Tower}
        BY <1>4, <1>10, <1>11, <2>1 DEF HeapOK
      <3> QED BY <1>2, <1>4, <3>1
    <2>3. \A n \in DOMAIN tensors' \ TowerNames' :
            n \in DOMAIN tensors \ TowerNames /\ heap'[n] = heap[n] /\ tensors'[n] = tensors[n]
      BY <1>4, <1>10 DEF HeapOK
    <2> QED BY <2>2, <2>3, HeapFrame
  <1>13. TowerOK'
    <2>1. heap'[Tower] = heap[Tower]
      BY <1>4, <1>11 DEF HeapOK
    <2>2. /\ heap'[Tower] = [kind |-> TowerKind', bytes |-> heap'[Tower].bytes]
          /\ heap'[Tower].bytes \in Seq(Names) /\ Len(heap'[Tower].bytes) = Length("vision")'
      BY <1>4, <2>1, FixedSame DEF TowerOK
    <2>3. ASSUME NEW i \in DOMAIN OfBlock("vision"), Part("vision", i) \in Of("vision")
          PROVE  /\ Holds(Tower, Offset("vision", i) - Start("vision"), Part("vision", i))'
                 /\ tensors'[Part("vision", i)'] = IF StagedName(Part("vision", i))' THEN InWindow(i)' ELSE Home(i)'
      <3>1. PICK n, offset : n = Part("vision", i) /\ offset = Offset("vision", i) - Start("vision")
        OBVIOUS
      <3>2. Part("vision", i)' = n /\ (Offset("vision", i) - Start("vision"))' = offset
        BY <3>1, FixedSame
      <3>3. Holds(Tower, offset, n)
        BY <2>3, <3>1 DEF TowerOK
      <3>4. Holds(Tower, offset, n)'
        BY <2>1, <3>3 DEF Holds, Tower
      <3>5. tensors'[n] = IF StagedName(n)' THEN InWindow(i)' ELSE Home(i)'
        BY <1>4, <3>1, PlacesSame
      <3> QED BY <3>2, <3>4, <3>5
    <2>4. OfBlock("vision")' = OfBlock("vision") /\ \A i : Part("vision", i)' = Part("vision", i)
      BY FixedSame
    <2>5. Tower' = Tower
      BY DEF Tower
    <2> QED BY <1>2, <1>4, <2>2, <2>3, <2>4, <2>5 DEF TowerOK
  <1>14. CompleteOK'
    <2>1. \A n : Present(n) => Present(n)'
      BY PresentSame
    <2>2. \A c, i : Present(Part(c, i)) => Present(Part(c, i))'
      <3>1. ASSUME NEW c, NEW i, Present(Part(c, i)) PROVE Present(Part(c, i))'
        <4>1. PICK m : m = Part(c, i)
          OBVIOUS
        <4>2. Part(c, i)' = m
          BY <4>1, FixedSame
        <4> QED BY <2>1, <3>1, <4>1, <4>2
      <3> QED BY <3>1
    <2>3. loading'.mode = "none"
      BY DEF Rest
    <2>4. \A c \in Blocks : blocks'[c].loaded => blocks[c].loaded
      BY <1>1, <1>2
    <2> QED BY <2>2, <2>3, <2>4, CompleteFrame
  <1>15. FusedOK'
    <2>1. ASSUME NEW n, n[2] \in Weights \cup {"qkv"}, n \in DOMAIN tensors'
          PROVE  n \in DOMAIN tensors /\ tensors'[n] = tensors[n]
      <3>1. n \in Of("text")
        BY <2>1, RegisteredNames
      <3> QED BY <2>1, <3>1, Apart
    <2>2. \A i \in DOMAIN Fusions : Fusable(i)' => Fusable(i)
      BY <2>1, FusableStays
    <2>3. loading'.mode = "none" /\ blocks'["text"].loaded = blocks["text"].loaded
      BY <1>2 DEF Rest
    <2> QED BY <2>2, <2>3, FusedFrame
  <1> QED BY <1>5, <1>6, <1>7, <1>8, <1>9, <1>12, <1>13, <1>14, <1>15

\* Nothing staged: the views are where the tower is.
LEMMA AtHome ==
  ASSUME LoaderInv, file.tower, blocks["vision"].loaded, NEW i \in DOMAIN OfBlock("vision")
  PROVE  /\ Part("vision", i) \in Of("vision") /\ Part("vision", i) \in DOMAIN tensors
         /\ StagedName(Part("vision", i)) => blocks["vision"].staged[Part("vision", i)] = Home(i)
         /\ ~StagedName(Part("vision", i)) => tensors[Part("vision", i)] = Home(i)
  BY DEF LoaderInv, NamesOK, RegistryOK, TowerOK, StagedOK

\* The window in the heap.
LEMMA WindowInHeap ==
  ASSUME LoaderInv
  PROVE  /\ blocks["vision"].window \in {NoMemory, TowerWindow} /\ TowerWindow # NoMemory
         /\ TowerWindow \in DOMAIN heap <=> blocks["vision"].window = TowerWindow
         /\ NoMemory \notin DOMAIN heap
  <1> USE DEF LoaderInv
  <1>1. blocks["vision"].window \in {NoMemory, TowerWindow}
    BY TheWindow DEF Blocks
  <1>2. TowerWindow # NoMemory /\ Tower # NoMemory /\ Tower # TowerWindow
    BY DEF Tower, TowerWindow, TowerOf, WindowOf, NoMemory
  <1>3. \A n \in DOMAIN tensors : n # NoMemory /\ n # TowerWindow
    BY NotMemory
  <1> QED BY <1>1, <1>2, <1>3 DEF HeapOK

\* There is no memory for a window.
LEMMA StageFailsInv ==
  ASSUME LoaderInv, NEW b \in Blocks, NEW phase, StageFails(b, phase)
  PROVE  LoaderInv'
  <1>1. CanStage(b, phase)
    BY DEF StageFails
  <1>2. /\ b = "vision" /\ file.tower /\ env.visionMmap /\ blocks["vision"].loaded
        /\ loading = Rest /\ DOMAIN blocks["vision"].staged = {}
    BY <1>1, StagedTower
  <1>3. /\ UNCHANGED fixed /\ tensors' = tensors /\ loading' = Rest
        /\ heap' = Dropped(heap, {blocks["vision"].window})
    BY <1>2 DEF StageFails
  <1>4. PICK staged : staged = blocks["vision"].staged /\ DOMAIN staged = {}
    BY <1>2
  <1>5. Staging("vision", NoMemory, staged, 0)
    BY <1>2, <1>4 DEF StageFails
  <1>6. /\ DOMAIN heap' = (DOMAIN heap \ {TowerWindow}) \cup ({NoMemory} \ {NoMemory})
        /\ \A a \in DOMAIN heap : a # TowerWindow => heap'[a] = heap[a]
    BY <1>3, WindowInHeap DEF Dropped
  <1>7. StagedOK'
    <2>1. blocks'["vision"].staged = staged
      BY <1>5, StagingState DEF LoaderInv
    <2>2. StagedOK
      BY DEF LoaderInv
    <2> QED BY <1>3, <1>4, <2>1, <2>2, StagedFrame
  <1>8. \A i \in DOMAIN OfBlock("vision") :
          tensors'[Part("vision", i)] = IF Part("vision", i) \in DOMAIN staged THEN InWindow(i) ELSE Home(i)
    BY <1>2, <1>3, <1>4, AtHome DEF StagedName
  <1> QED BY <1>2, <1>3, <1>4, <1>5, <1>6, <1>7, <1>8, OnlyWindow

\* A window is made, or kept.
LEMMA NewWindow ==
  ASSUME LoaderInv, NEW b \in Blocks, NEW phase, CanStage(b, phase)
  PROVE  /\ Span("vision", phase) \in Nat /\ First("vision", phase) \in Nat
         /\ Capacity("vision", phase) \in Nat
         /\ Capacity("vision", phase) - Span("vision", phase) \in Nat
  <1>1. b = "vision" /\ Selected(b, phase) # {}
    BY StagedTower
  <1>2. Span("vision", phase) \in Nat /\ First("vision", phase) \in Nat
    BY <1>1, InPhase DEF LoaderInv
  <1>3. blocks["vision"].capacity \in Nat
    BY DEF LoaderInv, BlocksOK, Blocks
  <1> QED BY <1>2, <1>3 DEF Capacity, Grows

\* The copy is refused.
LEMMA CopyFailsInv ==
  ASSUME LoaderInv, NEW b \in Blocks, NEW phase, CopyFails(b, phase)
  PROVE  LoaderInv'
  <1>1. CanStage(b, phase)
    BY DEF CopyFails
  <1>2. /\ b = "vision" /\ file.tower /\ env.visionMmap /\ blocks["vision"].loaded
        /\ loading = Rest /\ DOMAIN blocks["vision"].staged = {}
    BY <1>1, StagedTower
  <1>3. PICK memory, capacity : memory = Window(Junk(Capacity("vision", phase))) /\ capacity = Capacity("vision", phase)
    OBVIOUS
  <1>4. /\ UNCHANGED fixed /\ tensors' = tensors /\ loading' = Rest
        /\ heap' = With(heap, TowerWindow, memory)
        /\ Staging("vision", TowerWindow, NoneStaged, capacity)
    BY <1>2, <1>3 DEF CopyFails, TowerWindow
  <1>5. capacity \in Nat
    BY <1>1, <1>3, NewWindow
  <1>6. /\ DOMAIN heap' = (DOMAIN heap \ {TowerWindow}) \cup ({TowerWindow} \ {NoMemory})
        /\ \A a \in DOMAIN heap : a # TowerWindow => heap'[a] = heap[a]
    BY <1>4, WindowInHeap DEF With
  <1>7. DOMAIN NoneStaged = {}
    BY DEF NoneStaged
  <1>8. StagedOK'
    <2>1. blocks'["vision"].staged = NoneStaged
      BY <1>4, StagingState DEF LoaderInv
    <2>2. StagedOK
      BY DEF LoaderInv
    <2> QED BY <1>4, <1>7, <2>1, <2>2, StagedFrame
  <1>9. \A i \in DOMAIN OfBlock("vision") :
          tensors'[Part("vision", i)] = IF Part("vision", i) \in DOMAIN NoneStaged THEN InWindow(i) ELSE Home(i)
    BY <1>2, <1>4, <1>7, AtHome DEF StagedName
  <1>10. PICK window : window = TowerWindow
    OBVIOUS
  <1> QED BY <1>2, <1>4, <1>5, <1>6, <1>7, <1>8, <1>9, OnlyWindow

\* A phase of the tower is copied into the window.
LEMMA StageMappedPrefixInv ==
  ASSUME LoaderInv, NEW b \in Blocks, NEW phase, StageMappedPrefix(b, phase)
  PROVE  LoaderInv'
  <1>1. CanStage(b, phase)
    BY DEF StageMappedPrefix
  <1>2. /\ b = "vision" /\ file.tower /\ env.visionMmap /\ blocks["vision"].loaded
        /\ loading = Rest /\ DOMAIN blocks["vision"].staged = {}
    BY <1>1, StagedTower
  <1>3. PICK names, staged, memory, capacity :
          /\ names = {Part("vision", i) : i \in Selected("vision", phase)}
          /\ staged = [n \in names |-> tensors[n]]
          /\ memory = Copied("vision", phase) /\ capacity = Capacity("vision", phase)
    OBVIOUS
  <1>4. /\ UNCHANGED fixed /\ loading' = Rest
        /\ heap' = With(heap, TowerWindow, memory)
        /\ tensors' = Moved("vision", phase, names)
        /\ Staging("vision", TowerWindow, staged, capacity)
    BY <1>2, <1>3 DEF StageMappedPrefix, TowerWindow
  <1>5. capacity \in Nat /\ DOMAIN staged = names
    BY <1>1, <1>3, NewWindow
  <1>6. /\ DOMAIN heap' = (DOMAIN heap \ {TowerWindow}) \cup ({TowerWindow} \ {NoMemory})
        /\ \A a \in DOMAIN heap : a # TowerWindow => heap'[a] = heap[a]
        /\ heap'[TowerWindow] = memory /\ TowerWindow # NoMemory
    BY <1>4, WindowInHeap DEF With
  <1>7. ASSUME NEW i \in DOMAIN OfBlock("vision")
        PROVE  /\ Part("vision", i) \in DOMAIN tensors /\ tensors[Part("vision", i)] = Home(i)
               /\ Part("vision", i) \in names <=> Part("vision", i)[1] = phase
    <2>1. Part("vision", i) \in DOMAIN tensors /\ tensors[Part("vision", i)] = Home(i)
      BY <1>2, AtHome DEF StagedName
    <2>2. Part("vision", i) \in names <=> Part("vision", i)[1] = phase
      BY <1>3 DEF Selected
    <2> QED BY <2>1, <2>2
  <1>8. ASSUME NEW i \in DOMAIN OfBlock("vision")
        PROVE  tensors'[Part("vision", i)] = IF Part("vision", i) \in DOMAIN staged THEN InWindow(i) ELSE Home(i)
    <2>1. PICK n : n = Part("vision", i)
      OBVIOUS
    <2>2. CASE n \in names
      <3>1. n \in DOMAIN tensors /\ tensors[n] = Home(i) /\ n[1] = phase
        BY <1>7, <2>1, <2>2
      <3>2. tensors'[n] = Info(TowerWindow, Start("vision") + tensors[n].at - First("vision", phase),
                               tensors[n].size, tensors[n].own, tensors[n].kind)
        BY <1>4, <2>2, <3>1 DEF Moved, TowerWindow
      <3>3. /\ tensors[n].at = Offset("vision", i) - Start("vision") /\ tensors[n].size = 1
            /\ tensors[n].own = Owner(i) /\ tensors[n].kind = TowerKind
        BY <3>1 DEF Home, Info
      <3>4. Start("vision") + (Offset("vision", i) - Start("vision")) - First("vision", phase)
              = Offset("vision", i) - First("vision", phase)
        <4>1. Offset("vision", i) \in Nat /\ Start("vision") \in Nat
          BY AnEntry, InBlock DEF LoaderInv, Blocks
        <4>2. First("vision", phase) \in Nat
          BY <1>1, NewWindow
        <4> QED BY <4>1, <4>2
      <3>5. tensors'[n] = InWindow(i)
        BY <2>1, <3>1, <3>2, <3>3, <3>4 DEF InWindow
      <3> QED BY <1>5, <2>1, <2>2, <3>5
    <2>3. CASE n \notin names
      <3>1. tensors'[n] = tensors[n] /\ tensors[n] = Home(i)
        BY <1>4, <1>7, <2>1, <2>3 DEF Moved
      <3> QED BY <1>5, <2>1, <2>3, <3>1
    <2> QED BY <2>2, <2>3
  <1>9. names \subseteq Of("vision")
    BY <1>2, <1>3, AtHome DEF Selected
  <1>10. /\ DOMAIN tensors' = DOMAIN tensors
         /\ \A n \in DOMAIN tensors : n \notin Of("vision") => tensors'[n] = tensors[n]
    BY <1>4, <1>9 DEF Moved
  <1>11. /\ Of("vision")' = Of("vision") /\ blocks'["vision"].staged = staged
    BY <1>4, StagingState DEF LoaderInv
  <1>12. StagedOK'
    <2>1. /\ OfBlock("vision")' = OfBlock("vision") /\ \A i : Part("vision", i)' = Part("vision", i)
          /\ \A n : StagedName(n)' <=> n \in names
      BY <1>4, <1>5, <1>11, FixedSame DEF StagedName
    <2>2. PICK slice, rest : /\ slice = Slice(First("vision", phase), Span("vision", phase))
                             /\ rest = Junk(Capacity("vision", phase) - Span("vision", phase))
      OBVIOUS
    <2>3. /\ slice \in Seq(Names) /\ Len(slice) = Span("vision", phase) /\ rest \in Seq(Names)
          /\ Span("vision", phase) \in Nat
          /\ \A c \in Blocks : \A i \in DOMAIN OfBlock(c) :
               Offset(c, i) - First("vision", phase) + 1 \in 1 .. Span("vision", phase)
                 => slice[Offset(c, i) - First("vision", phase) + 1] = Part(c, i)
      <3>1. /\ Span("vision", phase) \in Nat /\ First("vision", phase) \in Nat
            /\ Capacity("vision", phase) - Span("vision", phase) \in Nat
        BY <1>1, NewWindow
      <3>2. FixedOK
        BY DEF LoaderInv
      <3> QED BY <2>2, <3>1, <3>2, SliceHolds, JunkSeq
    <2>4. memory.bytes = slice \o rest
      BY <1>3, <2>2 DEF Copied, Window
    <2>5. ASSUME NEW i \in DOMAIN OfBlock("vision"), Part("vision", i) \in names
          PROVE  /\ staged[Part("vision", i)] = Home(i)'
                 /\ Holds(TowerWindow, Offset("vision", i) - First("vision", Part("vision", i)[1]), Part("vision", i))'
      <3>1. PICK n, offset : n = Part("vision", i) /\ offset = Offset("vision", i) - First("vision", phase)
        OBVIOUS
      <3>2. n[1] = phase /\ tensors[n] = Home(i) /\ i \in Selected("vision", phase)
        BY <1>7, <2>5, <3>1 DEF Selected
      <3>3. staged[n] = Home(i)'
        BY <1>3, <1>4, <2>5, <3>1, <3>2, PlacesSame
      <3>4. offset \in Nat /\ offset + 1 \in 1 .. Span("vision", phase)
        BY <3>1, <3>2, InPhase DEF LoaderInv, Blocks
      <3>5. slice[offset + 1] = n
        BY <2>3, <3>1, <3>4 DEF Blocks
      <3>6. Holds(TowerWindow, offset, n)'
        <4>1. slice \o rest \in Seq(Names) /\ offset + 1 \in 1 .. Len(slice \o rest)
          BY <2>3, <3>4
        <4>2. (slice \o rest)[offset + 1] = n
          BY <2>3, <3>4, <3>5
        <4>3. heap'[TowerWindow].bytes = slice \o rest /\ TowerWindow' = TowerWindow
          BY <1>6, <2>4 DEF TowerWindow
        <4> QED BY <4>1, <4>2, <4>3 DEF Holds, TowerWindow
      <3>7. Part("vision", i)' = n /\ (Offset("vision", i) - First("vision", Part("vision", i)[1]))' = offset
        <4>1. Part("vision", i)' = n /\ Offset("vision", i)' = Offset("vision", i)
          BY <1>4, <3>1, FixedSame
        <4>2. First("vision", phase)' = First("vision", phase)
          BY <1>4, PlacesSame
        <4> QED BY <3>1, <3>2, <4>1, <4>2
      <3> QED BY <3>1, <3>3, <3>6, <3>7
    <2> QED BY <1>5, <1>9, <1>11, <2>1, <2>5 DEF StagedOK
  <1> QED BY <1>2, <1>4, <1>5, <1>6, <1>8, <1>10, <1>12, OnlyWindow

\* What unstaging makes of the registry.
LEMMA BackHome ==
  ASSUME LoaderInv, file.tower, blocks["vision"].loaded, tensors' = Restored("vision")
  PROVE  /\ DOMAIN tensors' = DOMAIN tensors
         /\ \A n \in DOMAIN tensors : n \notin Of("vision") => tensors'[n] = tensors[n]
         /\ \A i \in DOMAIN OfBlock("vision") :
              tensors'[Part("vision", i)] = IF Part("vision", i) \in DOMAIN NoneStaged THEN InWindow(i) ELSE Home(i)
  <1>1. DOMAIN blocks["vision"].staged \subseteq Of("vision")
    BY DEF LoaderInv, StagedOK
  <1>2. DOMAIN NoneStaged = {}
    BY DEF NoneStaged
  <1>3. /\ DOMAIN tensors' = DOMAIN tensors
        /\ \A n \in DOMAIN tensors : tensors'[n] = IF StagedName(n) THEN blocks["vision"].staged[n] ELSE tensors[n]
    BY DEF Restored, StagedName
  <1>4. \A n \in DOMAIN tensors : n \notin Of("vision") => tensors'[n] = tensors[n]
    BY <1>1, <1>3 DEF StagedName
  <1>5. ASSUME NEW i \in DOMAIN OfBlock("vision") PROVE tensors'[Part("vision", i)] = Home(i)
    BY <1>3, AtHome
  <1> QED BY <1>2, <1>3, <1>4, <1>5

\* The pointers of the tower go back.
LEMMA UnstageMappedPrefixInv ==
  ASSUME LoaderInv, NEW b \in Blocks, UnstageMappedPrefix(b)
  PROVE  LoaderInv'
  <1> USE DEF LoaderInv
  <1>1. /\ b = "vision" /\ blocks["vision"].window = TowerWindow /\ TowerWindow # NoMemory
        /\ file.tower /\ env.visionMmap /\ blocks["vision"].loaded
    <2>1. IsStaged(b)
      BY DEF UnstageMappedPrefix
    <2> QED BY <2>1, WindowInHeap DEF BlocksOK
  <1>2. PICK capacity : capacity = blocks["vision"].capacity /\ capacity \in Nat
    BY DEF BlocksOK, Blocks
  <1>3. /\ UNCHANGED fixed /\ heap' = heap /\ loading = Rest /\ loading' = Rest
        /\ tensors' = Restored("vision") /\ Staging("vision", TowerWindow, NoneStaged, capacity)
    BY <1>1, <1>2 DEF UnstageMappedPrefix, Idle
  <1>4. DOMAIN NoneStaged = {}
    BY DEF NoneStaged
  <1>5. StagedOK'
    <2>1. blocks'["vision"].staged = NoneStaged
      BY <1>3, StagingState
    <2> QED BY <1>3, <1>4, <2>1, StagedFrame
  <1>6. DOMAIN heap' = (DOMAIN heap \ {TowerWindow}) \cup ({TowerWindow} \ {NoMemory})
    BY <1>1, <1>3, WindowInHeap
  <1>7. /\ DOMAIN tensors' = DOMAIN tensors
        /\ \A n \in DOMAIN tensors : n \notin Of("vision") => tensors'[n] = tensors[n]
        /\ \A i \in DOMAIN OfBlock("vision") :
             tensors'[Part("vision", i)] = IF Part("vision", i) \in DOMAIN NoneStaged THEN InWindow(i) ELSE Home(i)
    BY <1>1, <1>3, BackHome
  <1> QED BY <1>1, <1>2, <1>3, <1>4, <1>5, <1>6, <1>7, OnlyWindow

\* The window is given back.
LEMMA ReleaseMappedStagingInv ==
  ASSUME LoaderInv, NEW b \in Blocks, ReleaseMappedStaging(b)
  PROVE  LoaderInv'
  <1> USE DEF LoaderInv
  <1>1. /\ b = "vision" /\ blocks["vision"].window = TowerWindow
        /\ file.tower /\ env.visionMmap /\ blocks["vision"].loaded
    <2>1. blocks[b].window # NoMemory
      BY DEF ReleaseMappedStaging
    <2> QED BY <2>1, WindowInHeap DEF BlocksOK
  <1>2. /\ UNCHANGED fixed /\ loading = Rest /\ loading' = Rest /\ heap' = Dropped(heap, {TowerWindow})
        /\ tensors' = Restored("vision") /\ Staging("vision", NoMemory, NoneStaged, 0)
    BY <1>1 DEF ReleaseMappedStaging, Idle
  <1>3. DOMAIN NoneStaged = {}
    BY DEF NoneStaged
  <1>4. StagedOK'
    <2>1. blocks'["vision"].staged = NoneStaged
      BY <1>2, StagingState
    <2> QED BY <1>2, <1>3, <2>1, StagedFrame
  <1>5. /\ DOMAIN heap' = (DOMAIN heap \ {TowerWindow}) \cup ({NoMemory} \ {NoMemory})
        /\ \A a \in DOMAIN heap : a # TowerWindow => heap'[a] = heap[a]
    BY <1>2 DEF Dropped
  <1>6. /\ DOMAIN tensors' = DOMAIN tensors
        /\ \A n \in DOMAIN tensors : n \notin Of("vision") => tensors'[n] = tensors[n]
        /\ \A i \in DOMAIN OfBlock("vision") :
             tensors'[Part("vision", i)] = IF Part("vision", i) \in DOMAIN NoneStaged THEN InWindow(i) ELSE Home(i)
    BY <1>1, <1>2, BackHome
  <1> QED BY <1>1, <1>2, <1>3, <1>4, <1>5, <1>6, OnlyWindow
-----------------------------------------------------------------------------
(* Tensors are fused.                                                       *)

\* One after the other.
LEMMA Juxtaposed ==
  ASSUME NEW S, NEW a \in S, NEW b \in S, NEW c \in S
  PROVE  <<a>> \o <<b>> = <<a, b>> /\ <<a>> \o <<b>> \o <<c>> = <<a, b, c>>
  <1>1. PICK s, t, u, v, w : s = <<a>> /\ t = <<b>> /\ u = <<c>> /\ v = <<a, b>> /\ w = <<a, b, c>>
    OBVIOUS
  <1>2. /\ s \in Seq(S) /\ t \in Seq(S) /\ u \in Seq(S) /\ v \in Seq(S) /\ w \in Seq(S)
        /\ Len(s) = 1 /\ Len(t) = 1 /\ Len(u) = 1 /\ Len(v) = 2 /\ Len(w) = 3
        /\ s[1] = a /\ t[1] = b /\ u[1] = c /\ v[1] = a /\ v[2] = b /\ w[1] = a /\ w[2] = b /\ w[3] = c
    BY <1>1
  <1>3. s \o t = v
    <2>1. s \o t \in Seq(S) /\ Len(s \o t) = 2 /\ \A i \in 1 .. 2 : (s \o t)[i] = v[i]
      BY <1>2, ConcatProperties
    <2> QED BY <1>2, <2>1, SeqEqual
  <1>4. v \o u = w
    <2>1. v \o u \in Seq(S) /\ Len(v \o u) = 3 /\ \A i \in 1 .. 3 : (v \o u)[i] = w[i]
      <3>1. /\ v \o u \in Seq(S) /\ Len(v \o u) = 3
            /\ \A i \in 1 .. 3 : (v \o u)[i] = IF i <= 2 THEN v[i] ELSE u[i - 2]
        <4>1. v \in Seq(S) /\ u \in Seq(S)
          BY <1>2
        <4>2. /\ v \o u \in Seq(S) /\ Len(v \o u) = Len(v) + Len(u)
              /\ \A i \in 1 .. Len(v) + Len(u) : (v \o u)[i] = IF i <= Len(v) THEN v[i] ELSE u[i - Len(v)]
          BY <4>1, ConcatProperties, Zenon
        <4>3. Len(v) = 2 /\ Len(u) = 1 /\ Len(v) + Len(u) = 3
          BY <1>2
        <4> QED BY <4>2, <4>3, Zenon
      <3>2. (v \o u)[1] = w[1] /\ (v \o u)[2] = w[2] /\ (v \o u)[3] = w[3]
        BY <1>2, <3>1
      <3> QED BY <3>1, <3>2
    <2> QED BY <1>2, <2>1, SeqEqual
  <1> QED BY <1>1, <1>3, <1>4

\* The weights of a fusion are tensors of the text with memory of their own.
LEMMA FusedParts ==
  ASSUME LoaderInv, NEW l \in Int, NEW kind \in {"qkv", "gate_up"}, CanConcat(Parts(l, kind))
  PROVE  /\ \A p \in Range(Parts(l, kind)) :
              /\ p \in DOMAIN tensors /\ p \in Of("text") /\ p \in PartsOf("text") /\ p[2] \in Weights
              /\ p \notin TowerNames /\ p \in Names /\ Held(p) = <<p>> /\ Single(p)
         /\ Joined(Parts(l, kind)) = Meant(Fused(l, kind))
         /\ Parts(l, kind)[1] \in Range(Parts(l, kind))
  <1> USE DEF LoaderInv
  <1>1. ASSUME NEW p \in Range(Parts(l, kind))
        PROVE  /\ p \in DOMAIN tensors /\ p \in Of("text") /\ p \in PartsOf("text") /\ p[2] \in Weights
               /\ p \notin TowerNames /\ p \in Names /\ Held(p) = <<p>> /\ Single(p)
    <2>1. p \in DOMAIN tensors
      BY DEF CanConcat, Range
    <2>2. p[2] \in Weights
      BY DEF Parts, QkvParts, Q, K, V, Gate, Up, Range, Weights
    <2>3. p \in Names /\ p \in Of("text")
      BY <2>1, <2>2, RegisteredNames
    <2>4. p[2] \notin {"qkv", "gate_up"}
      BY <2>2 DEF Weights
    <2>5. p \in PartsOf("text")
      BY <2>3, <2>4 DEF NamesOK, FusedNames, Fused
    <2>6. p \notin TowerNames
      BY <2>3, Apart DEF TowerNames
    <2>7. Single(p)
      BY <2>1, <2>6 DEF HeapOK
    <2>8. Held(p) = <<p>>
      BY <2>3, <2>4, <2>7, SingleHolds, MeantAlone
    <2> QED BY <2>1, <2>2, <2>3, <2>5, <2>6, <2>7, <2>8
  <1>2. CASE kind = "qkv"
    <2>1. PICK v : v = IF l \in file.kEqV THEN K(l) ELSE V(l)
      OBVIOUS
    <2>2. Parts(l, kind) = <<Q(l), K(l), v>>
      BY <1>2, <2>1 DEF Parts, QkvParts
    <2>3. Q(l) \in Range(Parts(l, kind)) /\ K(l) \in Range(Parts(l, kind)) /\ v \in Range(Parts(l, kind))
      BY <2>2 DEF Range
    <2>4. Joined(Parts(l, kind)) = <<Q(l)>> \o <<K(l)>> \o <<v>>
      <3>1. PICK parts : parts = Parts(l, kind)
        OBVIOUS
      <3>2. Len(parts) = 3 /\ parts[1] = Q(l) /\ parts[2] = K(l) /\ parts[3] = v
        BY <2>2, <3>1
      <3>3. Joined(parts) = Held(parts[1]) \o Held(parts[2]) \o Held(parts[3])
        <4>1. Len(parts) # 2
          BY <3>2
        <4> QED BY <4>1, Zenon DEF Joined
      <3>4. Held(Q(l)) = <<Q(l)>> /\ Held(K(l)) = <<K(l)>> /\ Held(v) = <<v>>
        BY <1>1, <2>3
      <3> QED BY <3>1, <3>2, <3>3, <3>4
    <2>5. Joined(Parts(l, kind)) = <<Q(l), K(l), v>>
      <3>1. Q(l) \in Names /\ K(l) \in Names /\ v \in Names
        BY <1>1, <2>3
      <3> QED BY <2>4, <3>1, Juxtaposed
    <2>6. v = ValuesOf(l)
      <3>1. CASE l \in file.kEqV
        <4>1. ASSUME NEW i \in DOMAIN OfBlock("text"), Part("text", i) = V(l) PROVE FALSE
          BY <3>1, <4>1, AnEntry DEF V, Blocks
        <4> QED BY <2>1, <3>1, <4>1 DEF ValuesOf
      <3>2. CASE l \notin file.kEqV
        BY <1>1, <2>1, <2>3, <3>2 DEF ValuesOf, PartsOf
      <3> QED BY <3>1, <3>2
    <2>7. Meant(Fused(l, kind)) = <<Q(l), K(l), v>>
      BY <1>2, <2>6 DEF Meant, Fused
    <2> QED BY <1>1, <2>2, <2>3, <2>5, <2>7
  <1>3. CASE kind = "gate_up"
    <2>2. Parts(l, kind) = <<Gate(l), Up(l)>>
      BY <1>3 DEF Parts
    <2>3. Gate(l) \in Range(Parts(l, kind)) /\ Up(l) \in Range(Parts(l, kind))
      BY <2>2 DEF Range
    <2>4. Joined(Parts(l, kind)) = <<Gate(l)>> \o <<Up(l)>>
      BY <1>1, <2>2, <2>3 DEF Joined
    <2>5. Joined(Parts(l, kind)) = <<Gate(l), Up(l)>>
      BY <1>1, <2>3, <2>4, Juxtaposed
    <2>6. Meant(Fused(l, kind)) = <<Gate(l), Up(l)>>
      BY <1>3 DEF Meant, Fused
    <2> QED BY <1>1, <2>2, <2>3, <2>5, <2>6
  <1> QED BY <1>2, <1>3

\* One fusion: its parts go, the whole takes their place.
LEMMA FuseInv ==
  ASSUME LoaderInv, Fuse
  PROVE  LoaderInv'
  <1> USE DEF LoaderInv
  <1>1. PICK b, i, l, kind : b = loading.block /\ i = loading.next /\ l = Fusions[i][1] /\ kind = Fusions[i][2]
    OBVIOUS
  <1>2. /\ HasFusion /\ UNCHANGED fixed /\ Concat(l, kind) /\ loading' = [loading EXCEPT !.next = i + 1]
        /\ loading.mode = "fuse" /\ b \in Blocks /\ Listing(b) /\ TowerMode(b) = "each" /\ loading.base = NoMemory
        /\ i \in Nat \ {0}
    BY <1>1 DEF Fuse, NextFusion, HasFusion, Fusing, LoadingOK, Listing
  <1>3. i \in DOMAIN Fusions /\ l \in Int /\ kind \in {"qkv", "gate_up"}
    <2>1. file.layers \in Nat
      BY TheFile DEF WellFormed
    <2>2. Len(Fusions) = 2 * file.layers /\ DOMAIN Fusions = 1 .. 2 * file.layers
      BY <2>1 DEF Fusions
    <2>3. i \in 1 .. 2 * file.layers
      BY <1>1, <1>2, <2>1, <2>2 DEF HasFusion
    <2>4. Fusions[i] = <<(i - 1) \div 2, IF i % 2 = 1 THEN "qkv" ELSE "gate_up">>
      BY <2>3 DEF Fusions
    <2> QED BY <1>1, <2>1, <2>2, <2>3, <2>4
  <1>4. PICK parts, whole, gone, names :
          /\ parts = Parts(l, kind) /\ whole = Fused(l, kind) /\ gone = Range(parts)
          /\ names = (Of("text") \ gone) \cup {whole}
    OBVIOUS
  <1>5. Wanted(l, kind) /\ CanConcat(parts)
    BY <1>2, <1>4 DEF Concat
  <1>6. /\ \A p \in gone : /\ p \in DOMAIN tensors /\ p \in Of("text") /\ p[2] \in Weights /\ p \notin TowerNames
        /\ Joined(parts) = Meant(whole) /\ parts[1] \in gone
    BY <1>3, <1>4, <1>5, FusedParts
  <1>7. Blocks = {"text", "vision"}
    BY DEF Blocks
  <1>8. b = "text"
    <2>1. SUFFICES ASSUME b = "vision" PROVE FALSE
      BY <1>2, <1>7
    <2>2. ~file.tower
      BY <1>2, <2>1 DEF TowerMode
    <2>3. ~file.fusionMayFail
      BY <2>2, TheFile DEF WellFormed
    <2>4. ~Listing("text")
      BY <1>1, <1>2, <2>1 DEF Listing
    <2>5. blocks["text"].loaded
      BY <1>6, <1>7, <2>4 DEF BlocksOK
    <2>6. Fusable(i)
      BY <1>1, <1>4, <1>5 DEF Fusable
    <2> QED BY <1>3, <2>3, <2>5, <2>6 DEF FusedOK
  <1>9. /\ whole[2] \in Reserved /\ whole[2] \notin Weights /\ whole \in FusedNames /\ whole \in Names
        /\ whole # Tower /\ whole # TowerWindow /\ whole # NoMemory /\ whole \notin gone
        /\ whole = <<l, kind>>
    <2>1. whole = <<l, kind>> /\ whole[1] = l /\ whole[2] = kind
      BY <1>4 DEF Fused
    <2>2. whole[2] \in Reserved /\ whole[2] \notin Weights
      BY <1>3, <2>1 DEF Reserved, Weights
    <2>3. whole \in FusedNames
      BY <1>3, <1>4 DEF FusedNames
    <2>4. whole \in Names
      BY <1>3, <2>1, StringAssumption DEF Names, Reserved
    <2>5. whole # Tower /\ whole # TowerWindow /\ whole # NoMemory
      BY <1>3, <2>1 DEF Tower, TowerWindow, NoMemory, TowerOf, WindowOf
    <2> QED BY <1>6, <2>1, <2>2, <2>3, <2>4, <2>5
  <1>10. whole \notin Range(Buffers) /\ whole \notin env.taken /\ whole \notin Of("vision")
    <2>1. whole \notin Range(Buffers) /\ whole \notin env.taken
      BY <1>9, FilesAssumption DEF FixedOK, ForeignName, Range
    <2>2. whole \notin Of("vision")
      BY <1>7, <1>9, AnEntry DEF NamesOK, PartsOf
    <2> QED BY <2>1, <2>2
  <1>11. /\ gone \cap Of("vision") = {} /\ gone \cap env.taken = {} /\ gone \cap Range(Buffers) = {}
         /\ gone \cap TowerNames = {} /\ gone \subseteq DOMAIN tensors
    BY <1>6, Apart
  <1>12. Owned(gone) = gone
    <2>1. Owned(gone) = gone \cap DOMAIN tensors
      BY <1>11, OwnedAlone
    <2> QED BY <1>11, <2>1
  <1>13. /\ DOMAIN tensors' = (DOMAIN tensors \ gone) \cup {whole}
         /\ \A n \in DOMAIN tensors : n \notin gone /\ n # whole => tensors'[n] = tensors[n]
         /\ DOMAIN heap' = (DOMAIN heap \ gone) \cup {whole}
         /\ \A a \in DOMAIN heap : a \notin gone /\ a # whole => heap'[a] = heap[a]
         /\ tensors'[whole] = Info(whole, 0, Len(Meant(whole)), whole, "vram")
         /\ heap'[whole] = [kind |-> "vram", bytes |-> Meant(whole)]
    <2>1. PICK info, memory : /\ info = Info(whole, 0, Len(Meant(whole)), whole, "vram")
                              /\ memory = [kind |-> "vram", bytes |-> Meant(whole)]
      OBVIOUS
    <2>2. /\ heap' = With(Dropped(heap, gone), whole, memory)
          /\ tensors' = With(Dropped(tensors, gone), whole, info)
      BY <1>2, <1>4, <1>6, <1>12, <2>1 DEF Concat
    <2>3. /\ DOMAIN tensors' = (DOMAIN tensors \ gone) \cup {whole}
          /\ \A n \in DOMAIN tensors : n \notin gone /\ n # whole => tensors'[n] = tensors[n]
          /\ tensors'[whole] = info
      BY <2>2 DEF With, Dropped
    <2>4. /\ DOMAIN heap' = (DOMAIN heap \ gone) \cup {whole}
          /\ \A a \in DOMAIN heap : a \notin gone /\ a # whole => heap'[a] = heap[a]
          /\ heap'[whole] = memory
      BY <2>2 DEF With, Dropped
    <2> QED BY <2>1, <2>3, <2>4
  <1>14. blocks' = [blocks EXCEPT !["text"].names = names]
    BY <1>1, <1>2, <1>4, <1>8 DEF Concat, Of
  <1>15. /\ Of("text")' = names /\ Of("vision")' = Of("vision")
         /\ \A c \in Blocks : /\ blocks'[c].loaded = blocks[c].loaded /\ blocks'[c].staged = blocks[c].staged
                              /\ blocks'[c].window = blocks[c].window
    <2>1. BlocksOK
      OBVIOUS
    <2> QED BY <1>7, <1>14, <2>1, NamesState
  <1>16. /\ loading'.block = "text" /\ loading'.mode = "fuse" /\ loading'.next = i + 1 /\ loading'.base = NoMemory
         /\ loading' \in [block : Blocks \cup {"none", "buffers"},
                          mode : {"none", "each", "mapped", "contiguous", "fuse", "buffers"},
                          next : Nat \ {0}, base : {NoMemory, Tower}]
    <2>1. /\ loading \in [block : Blocks \cup {"none", "buffers"},
                         mode : {"none", "each", "mapped", "contiguous", "fuse", "buffers"},
                         next : Nat \ {0}, base : {NoMemory, Tower}]
          /\ loading.block = "text" /\ loading.mode = "fuse" /\ loading.base = NoMemory
      BY <1>1, <1>2, <1>8 DEF LoadingOK
    <2>2. i + 1 \in Nat \ {0} /\ loading' = [loading EXCEPT !.next = i + 1]
      BY <1>2
    <2> QED BY <2>1, <2>2
  <1>17. \A c : Listing(c)' <=> Listing(c)
    BY <1>1, <1>8, <1>16 DEF Listing
  <1>18. /\ TowerNames' = TowerNames /\ whole \notin TowerNames /\ (TowerThere' <=> TowerThere)
         /\ \A n : StagedName(n)' <=> StagedName(n)
    BY <1>2, <1>7, <1>10, <1>15, <1>17, FixedSame DEF TowerNames, TowerThere, StagedName
  <1>19. \A n \in DOMAIN tensors : n # NoMemory /\ n # Tower /\ n # TowerWindow
    BY NotMemory
  <1>20. FixedOK'
    BY <1>2, FixedSame DEF FixedOK
  <1>21. LoadingOK'
    <2>1. TowerMode("text")' = TowerMode("text")
      BY <1>2, FixedSame
    <2> QED BY <1>2, <1>7, <1>8, <1>16, <2>1 DEF LoadingOK, Tower
  <1>22. BlocksOK'
    <2>1. Listing("text")
      BY <1>2, <1>8
    <2>2. BlocksOK
      OBVIOUS
    <2> QED BY <1>2, <1>7, <1>14, <1>17, <2>1, <2>2, NamesBlocks
  <1>23. RegistryOK'
    <2>1. env' = env
      BY <1>2, FixedSame
    <2> QED BY <1>2, <1>4, <1>10, <1>11, <1>13, <1>15, <1>16, <2>1 DEF RegistryOK
  <1>24. NamesOK'
    <2>1. /\ \A c : PartsOf(c)' = PartsOf(c) /\ OfBlock(c)' = OfBlock(c) /\ \A j : Part(c, j)' = Part(c, j)
          /\ file' = file /\ env' = env /\ FusedNames' = FusedNames
      BY <1>2, FixedSame DEF FusedNames, Fused
    <2>2. names \subseteq PartsOf("text") \cup FusedNames
      BY <1>4, <1>9 DEF NamesOK
    <2>3. ~Listing("vision")
      BY <1>1, <1>8 DEF Listing
    <2> QED BY <1>7, <1>15, <1>17, <2>1, <2>2, <2>3 DEF NamesOK
  <1>25. Single(whole)'
    <2>1. Meant(whole)' = Meant(whole) /\ Len(Meant(whole)) = Size(whole) /\ Size(whole)' = Size(whole)
      BY <1>2, <1>9, MeantSeq, FixedSame DEF Size
    <2> QED BY <1>13, <2>1 DEF Single, Info
  <1>26. HeapOK'
    <2>1. blocks["vision"].window \in {NoMemory, TowerWindow} /\ blocks'["vision"].window = blocks["vision"].window
      BY <1>7, <1>15, TheWindow
    <2>2. DOMAIN heap' = (DOMAIN tensors' \ TowerNames') \cup ({blocks'["vision"].window} \ {NoMemory})
                          \cup (IF TowerThere' THEN {Tower} ELSE {})
      BY <1>11, <1>13, <1>18, <1>19, <2>1 DEF HeapOK
    <2>3. ASSUME NEW n \in DOMAIN tensors' \ TowerNames', n # whole
          PROVE  n \in DOMAIN tensors \ TowerNames /\ heap'[n] = heap[n] /\ tensors'[n] = tensors[n]
      <3>1. n \in DOMAIN tensors \ TowerNames /\ n \notin gone
        BY <1>13, <1>18, <2>3
      <3> QED BY <1>13, <2>3, <3>1 DEF HeapOK
    <2> QED BY <1>2, <1>25, <2>2, <2>3, HeapFrame
  <1>27. TowerOK'
    <2>1. TowerThere => heap'[Tower] = heap[Tower]
      BY <1>9, <1>11, <1>13, <1>19 DEF HeapOK
    <2>2. ASSUME NEW n, file.tower, n \in Of("vision")'
          PROVE  n \in Of("vision") /\ tensors'[n] = tensors[n] /\ heap'[Tower] = heap[Tower]
      <3>1. n \in Of("vision") /\ n # whole /\ n \notin gone /\ n \in DOMAIN tensors
        BY <1>10, <1>11, <1>15, <2>2 DEF RegistryOK
      <3>2. TowerThere
        BY <1>7, <2>2, <3>1 DEF BlocksOK, TowerThere
      <3> QED BY <1>13, <2>1, <3>1, <3>2
    <2> QED BY <1>2, <1>18, <2>1, <2>2, TowerFrame
  <1>28. StagedOK'
    <2>1. IsStaged("vision") => heap'[TowerWindow] = heap[TowerWindow]
      <3>1. IsStaged("vision") => TowerWindow \in DOMAIN heap
        BY <1>7, TheWindow DEF BlocksOK, HeapOK
      <3> QED BY <1>9, <1>11, <1>13, <1>19, <3>1
    <2> QED BY <1>2, <1>7, <1>15, <2>1, StagedFrame
  <1>29. CompleteOK'
    <2>1. ASSUME NEW n, Present(n) PROVE Present(n)'
      <3>1. \A m \in Int, k \in {"qkv", "gate_up"} : Fused(m, k) \notin gone
        BY <1>6 DEF Fused, Weights
      <3>2. \A m, k : Fused(m, k) \in DOMAIN tensors => Fused(m, k) \in DOMAIN tensors' \/ k \notin {"qkv", "gate_up"}
        BY <1>6, <1>13 DEF Fused, Weights
      <3>3. CASE n \in gone
        <4>1. whole \in DOMAIN tensors'
          BY <1>13
        <4>2. \/ kind = "qkv" /\ n \in {Q(l), K(l), V(l)}
              \/ kind = "gate_up" /\ n \in {Gate(l), Up(l)}
          BY <1>3, <1>4, <3>3 DEF Parts, QkvParts, Range
        <4>3. n[1] = l
          BY <4>2 DEF Q, K, V, Gate, Up
        <4> QED BY <1>4, <4>1, <4>2, <4>3 DEF Present, Q, K, V, Gate, Up, Fused
      <3>4. CASE n \notin gone
        BY <1>13, <2>1, <3>2, <3>4 DEF Present, Q, K, V, Gate, Up, Fused
      <3> QED BY <3>3, <3>4
    <2>2. \A c, j : Present(Part(c, j)) => Present(Part(c, j))'
      <3>1. ASSUME NEW c, NEW j, Present(Part(c, j)) PROVE Present(Part(c, j))'
        <4>1. PICK m : m = Part(c, j)
          OBVIOUS
        <4>2. Part(c, j)' = m
          BY <1>2, <4>1, FixedSame
        <4> QED BY <2>1, <3>1, <4>1, <4>2
      <3> QED BY <3>1
    <2>3. loading'.mode = "fuse" /\ \A c \in Blocks : Listing(c)' => Listing(c) /\ loading.mode = "fuse"
      BY <1>2, <1>16, <1>17
    <2> QED BY <1>2, <1>15, <2>2, <2>3, CompleteFrame
  <1>30. FusedOK'
    <2>1. ASSUME NEW j \in DOMAIN Fusions, Fusable(j)' PROVE Fusable(j) /\ j # i
      <3>0. PICK m, k : m = Fusions[j][1] /\ k = Fusions[j][2]
        OBVIOUS
      <3>1. /\ Fusions' = Fusions /\ file' = file /\ env' = env
            /\ Parts(m, k)' = Parts(m, k) /\ Parts(l, kind)' = Parts(l, kind)
        BY <1>2, FusionsSame, FixedSame
      <3>2. Wanted(m, k)' /\ CanConcat(Parts(m, k))'
        BY <2>1, <3>0, <3>1 DEF Fusable
      <3>3. \A p \in Range(Parts(m, k)) : p[2] \in Weights
        BY DEF Parts, QkvParts, Q, K, V, Gate, Up, Range, Weights
      <3>4. \A p : p[2] \in Weights /\ p \in DOMAIN tensors' =>
              p \in DOMAIN tensors /\ p \notin gone /\ tensors'[p] = tensors[p]
        BY <1>9, <1>13
      <3>5. CanConcat(Parts(m, k))
        BY <3>1, <3>2, <3>3, <3>4 DEF CanConcat, Range
      <3>6. Wanted(m, k)
        <4>1. Q(m) \in DOMAIN tensors' => Q(m) \in DOMAIN tensors
          BY <3>4 DEF Q, Weights
        <4>2. Gate(m) \in DOMAIN tensors' => Gate(m) \in DOMAIN tensors
          BY <3>4 DEF Gate, Weights
        <4>3. Fused(m, "qkv") \in DOMAIN tensors' => Fused(m, "qkv") \in DOMAIN tensors \/ Q(m) \in DOMAIN tensors
          <5>1. CASE Fused(m, "qkv") = whole
            <6>1. m = l /\ kind = "qkv"
              BY <1>9, <5>1 DEF Fused
            <6>2. parts[1] = Q(m)
              BY <1>4, <6>1 DEF Parts, QkvParts
            <6> QED BY <1>6, <6>2
          <5>2. CASE Fused(m, "qkv") # whole
            BY <1>13, <5>2
          <5> QED BY <5>1, <5>2
        <4> QED BY <3>1, <3>2, <4>1, <4>2, <4>3 DEF Wanted, Q, Gate, Fused
      <3>7. j # i
        <4>1. SUFFICES ASSUME j = i PROVE FALSE
          OBVIOUS
        <4>2. Parts(m, k) = parts
          BY <1>1, <1>4, <3>0, <4>1
        <4>3. parts[1] \in DOMAIN tensors'
          <5>1. 1 \in DOMAIN parts
            BY <1>4 DEF Parts, QkvParts
          <5> QED BY <3>1, <3>2, <4>2, <5>1 DEF CanConcat
        <4> QED BY <1>6, <1>9, <1>13, <4>3
      <3> QED BY <3>0, <3>5, <3>6, <3>7 DEF Fusable
    <2>2. ASSUME NEW j \in DOMAIN Fusions, j < i + 1 PROVE j < i \/ j = i
      <3>1. j \in Int
        BY DEF Fusions
      <3> QED BY <1>2, <2>2, <3>1
    <2>3. Listing("text") /\ ~blocks["text"].loaded /\ ~blocks'["text"].loaded
      BY <1>2, <1>7, <1>8, <1>15 DEF BlocksOK
    <2>4. ASSUME ~file.fusionMayFail, NEW j \in DOMAIN Fusions, j < i + 1
          PROVE  (loading.mode = "fuse" /\ j < loading.next /\ (Fusable(j)' => Fusable(j))) \/ ~Fusable(j)'
      BY <1>1, <1>2, <2>1, <2>2, <2>4
    <2> QED BY <1>2, <1>16, <2>3, <2>4, FusedFrame
  <1> QED BY <1>20, <1>21, <1>22, <1>23, <1>24, <1>26, <1>27, <1>28, <1>29, <1>30
-----------------------------------------------------------------------------
(* The theorems.                                                            *)

\* Nothing happens.
LEMMA StutterInv ==
  ASSUME LoaderInv, UNCHANGED loader
  PROVE  LoaderInv'
  <1> USE DEF LoaderInv
  <1>1. /\ UNCHANGED fixed /\ tensors' = tensors /\ heap' = heap /\ blocks' = blocks /\ loading' = loading
        /\ file' = file /\ env' = env
    BY DEF loader, fixed
  <1>2. \A c : (Of(c)' = Of(c)) /\ (Listing(c)' <=> Listing(c)) /\ (IsStaged(c)' <=> IsStaged(c))
    BY <1>1 DEF Of, Listing, IsStaged
  <1>3. /\ TowerNames' = TowerNames /\ (TowerThere' <=> TowerThere)
        /\ \A n : StagedName(n)' <=> StagedName(n)
    BY <1>1, <1>2 DEF TowerNames, TowerThere, StagedName
  <1>4. FixedOK'
    BY <1>1 DEF FixedOK
  <1>5. LoadingOK'
    <2>1. \A c : OfBlock(c)' = OfBlock(c) /\ TowerMode(c)' = TowerMode(c)
      BY <1>1, FixedSame
    <2> QED BY <1>1, <1>2, <2>1 DEF LoadingOK, Tower
  <1>6. BlocksOK'
    <2>1. \A c : OfBlock(c)' = OfBlock(c)
      BY <1>1, FixedSame
    <2> QED BY <1>1, <1>2, <2>1 DEF BlocksOK
  <1>7. RegistryOK'
    BY <1>1, <1>2 DEF RegistryOK
  <1>8. NamesOK'
    <2>1. \A c : PartsOf(c)' = PartsOf(c) /\ OfBlock(c)' = OfBlock(c) /\ \A j : Part(c, j)' = Part(c, j)
      BY <1>1, FixedSame
    <2> QED BY <1>1, <1>2, <2>1 DEF NamesOK
  <1>9. HeapOK'
    BY <1>1, <1>3, HeapFrame DEF HeapOK
  <1>10. TowerOK'
    BY <1>1, <1>2, <1>3, TowerFrame
  <1>11. StagedOK'
    BY <1>1, <1>2, StagedFrame
  <1>12. \A c, i : Present(Part(c, i)) => Present(Part(c, i))'
    <2>1. ASSUME NEW c, NEW i, Present(Part(c, i)) PROVE Present(Part(c, i))'
      <3>1. PICK m : m = Part(c, i)
        OBVIOUS
      <3>2. Part(c, i)' = m
        BY <1>1, <3>1, FixedSame
      <3> QED BY <1>1, <2>1, <3>1, <3>2, PresentSame
    <2> QED BY <2>1
  <1>13. CompleteOK'
    <2>1. PICK c : c = loading.block
      OBVIOUS
    <2>2. loading.mode = "each" => \A i \in DOMAIN OfBlock(c) : i < loading.next /\ Wants(c, i) => Present(Part(c, i))
      BY <2>1 DEF CompleteOK
    <2>3. loading'.mode = "each" => \A i \in DOMAIN OfBlock(c) : i < loading'.next /\ Wants(c, i) => Present(Part(c, i))'
      BY <1>1, <1>12, <2>2
    <2> QED BY <1>1, <1>2, <1>12, <2>1, <2>3, CompleteFrame
  <1>14. FusedOK'
    <2>1. \A i \in DOMAIN Fusions : Fusable(i)' => Fusable(i)
      BY <1>1, FusableStays
    <2> QED BY <1>1, <1>2, <2>1, FusedFrame
  <1> QED BY <1>4, <1>5, <1>6, <1>7, <1>8, <1>9, <1>10, <1>11, <1>13, <1>14

\* Every call of the loader, whole or failing, keeps the invariant.
LEMMA NextInv ==
  ASSUME LoaderInv, LoaderNext
  PROVE  LoaderInv'
  <1>1. CASE \E b \in Blocks : BeginEach(b) \/ BeginFails(b)
    BY <1>1, BeginEachInv
  <1>2. CASE \E b \in Blocks : BeginTower(b)
    BY <1>2, BeginTowerInv
  <1>3. CASE \E b \in Blocks : \E i \in DOMAIN OfBlock(b) :
               \/ StageMappedPrefix(b, Part(b, i)[1])
               \/ StageFails(b, Part(b, i)[1])
               \/ CopyFails(b, Part(b, i)[1])
    <2>1. PICK b \in Blocks : \E i \in DOMAIN OfBlock(b) :
            LET phase == Part(b, i)[1] IN
              StageMappedPrefix(b, phase) \/ StageFails(b, phase) \/ CopyFails(b, phase)
      BY <1>3
    <2>2. PICK phase : StageMappedPrefix(b, phase) \/ StageFails(b, phase) \/ CopyFails(b, phase)
      BY <2>1
    <2> QED BY <2>1, <2>2, StageMappedPrefixInv, StageFailsInv, CopyFailsInv
  <1>4. CASE \E b \in Blocks : UnstageMappedPrefix(b)
    BY <1>4, UnstageMappedPrefixInv
  <1>5. CASE \E b \in Blocks : ReleaseMappedStaging(b)
    BY <1>5, ReleaseMappedStagingInv
  <1>6. CASE \E b \in Blocks : Unload(b)
    BY <1>6, UnloadInv
  <1>7. CASE SkipEntry
    BY <1>7, SkipEntryInv
  <1>8. CASE RegisterAlone
    BY <1>8, RegisterAloneInv
  <1>9. CASE RegisterView
    BY <1>9, RegisterViewInv
  <1>10. CASE RollBack
    BY <1>10, RollBackInv
  <1>11. CASE EndLoad
    BY <1>11, EndLoadInv
  <1>12. CASE Fuse
    BY <1>12, FuseInv
  <1>13. CASE SkipFusion
    BY <1>13, SkipFusionInv
  <1>14. CASE EndFusions
    BY <1>14, EndFusionsInv
  <1>15. CASE BeginBuffers
    BY <1>15, BeginBuffersInv
  <1>16. CASE AllocateBuffer
    BY <1>16, AllocateBufferInv
  <1>17. CASE BufferFails
    BY <1>17, BufferFailsInv
  <1> QED BY <1>1, <1>2, <1>3, <1>4, <1>5, <1>6, <1>7, <1>8, <1>9, <1>10, <1>11, <1>12,
             <1>13, <1>14, <1>15, <1>16, <1>17 DEF LoaderNext

\* The inductive invariant holds: whatever is loaded, fails to load, is fused,
\* staged or unloaded, in any order and with any file and settings.
THEOREM LoaderInvariant == LoaderSpec => []LoaderInv
  <1>1. LoaderInit => LoaderInv
    BY InitInv
  <1>2. LoaderInv /\ [LoaderNext]_loader => LoaderInv'
    BY NextInv, StutterInv
  <1> QED BY <1>1, <1>2, PTL DEF LoaderSpec

\* A tensor of the registry points into live memory that holds its bytes, or
\* those of its parts in the order the graph splits them: after a partial load,
\* a fusion, a staging that failed and an unload in any order.
THEOREM TensorsHold == LoaderSpec => []TensorsHoldTheirData
  <1>1. LoaderInv => TensorsHoldTheirData
    BY InvHolds
  <1> QED BY <1>1, LoaderInvariant, PTL

\* Every allocation is owned once and freed by the means it was made with, and a
\* block is all there or has left nothing: no leak and no double free on any of
\* the loader's error paths.
THEOREM BlocksOwn == LoaderSpec => []BlocksOwnTheirMemory
  <1>1. LoaderInv => BlocksOwnTheirMemory
    BY InvOwns
  <1> QED BY <1>1, LoaderInvariant, PTL
=============================================================================
