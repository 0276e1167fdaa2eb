------------------------------- MODULE Placement -------------------------------
(***************************************************************************)
(* Where a Gemma 4 model goes: which layers of the text on which GPU, and  *)
(* the vision tower on one of them or nowhere.  Layers are filled into the *)
(* primary GPU in order; what does not fit goes to the secondary one.      *)
(***************************************************************************)
EXTENDS Integers, Functions

CONSTANT NumLayers

ASSUME LayersAssumption == NumLayers \in Nat

Layers == 0 .. NumLayers - 1

\* The layers, embedding and head of a model, its tower, and the free memory.
\* bytes counts the weights of a layer and its KV; splits is split_text.
Measured(m) ==
  /\ m.bytes \in [Layers -> Nat]
  /\ m.common \in Nat /\ m.vision \in Nat
  /\ m.primary \in Nat /\ m.secondary \in Nat
  /\ m.splits \in BOOLEAN

Load(bytes, S) == SumFunctionOnSet(bytes, S)
Text(m) == m.common + Load(m.bytes, Layers)

NoPlan == [boundary |-> -1, primary |-> 0, secondary |-> 0]

(* The loop stops at the first layer that does not fit, and never looks     *)
(* further: the layers of a GPU are a range.                                *)
Boundary(m) ==
  CHOOSE b \in 0 .. NumLayers :
    /\ \A i \in 0 .. b - 1 : m.common + Load(m.bytes, 0 .. i) <= m.primary
    /\ b < NumLayers => m.common + Load(m.bytes, 0 .. b) > m.primary

\* plan_gemma4_split, with what the tower leaves of the secondary GPU.
SplitPlan(m, budget) ==
  LET b == Boundary(m)
      rest == Load(m.bytes, b .. NumLayers - 1)
  IN  IF m.common > m.primary \/ rest > budget THEN NoPlan
      ELSE [boundary |-> b, primary |-> m.common + Load(m.bytes, 0 .. b - 1), secondary |-> rest]

\* The split of plan_gemma4_placement: only when the text is really split.
Splits(m, budget) ==
  m.splits /\ SplitPlan(m, budget) # NoPlan /\ SplitPlan(m, budget).boundary < NumLayers

Result(fit, boundary, vision, dropped, primary, secondary) ==
  [fit |-> fit, boundary |-> boundary, vision |-> vision, dropped |-> dropped,
   primary |-> primary, secondary |-> secondary]

Split(m, plan, vision, dropped) ==
  Result("split", plan.boundary, vision, dropped, plan.primary,
         plan.secondary + (IF vision = "secondary" THEN m.vision ELSE 0))

Together(m) == Text(m) <= m.primary /\ m.vision <= m.primary - Text(m)

\* Mutant of TowerApart: it waits for the text to leave the primary GPU too.
TowerApart_Never(m) == FALSE

TowerApart(m) == m.vision # 0 /\ Text(m) <= m.primary /\ m.vision <= m.secondary

TowerBudget(m) == m.secondary - m.vision
SplitWithTower(m) ==
  m.vision # 0 /\ m.vision <= m.secondary /\ Splits(m, TowerBudget(m))

plan_gemma4_placement(m) ==
  LET text == Text(m)
  IN  IF Together(m) THEN
        Result("single", 0, IF m.vision = 0 THEN "none" ELSE "primary", FALSE, text + m.vision, 0)
      ELSE IF TowerApart(m) THEN Result("single", 0, "secondary", FALSE, text, m.vision)
      ELSE IF SplitWithTower(m) THEN
        Split(m, SplitPlan(m, TowerBudget(m)), "secondary", FALSE)
      ELSE IF text <= m.primary THEN Result("single", 0, "none", m.vision # 0, text, 0)
      ELSE IF Splits(m, m.secondary) THEN
        Split(m, SplitPlan(m, m.secondary), "none", m.vision # 0)
      ELSE Result("nofit", 0, "none", m.vision # 0, 0, 0)
-----------------------------------------------------------------------------
(* The reference: what any placement with the layers in order could do.     *)

\* The text fits with layers 0 .. b - 1 here and the others there, and so much more there.
TextFits(m, b, more) ==
  /\ m.common + Load(m.bytes, 0 .. b - 1) <= m.primary
  /\ Load(m.bytes, b .. NumLayers - 1) + more <= m.secondary
  /\ b < NumLayers => m.splits

CanOpen(m) == \E b \in 0 .. NumLayers : TextFits(m, b, 0)
CanSee(m) == Text(m) + m.vision <= m.primary \/ \E b \in 0 .. NumLayers : TextFits(m, b, m.vision)
=============================================================================
