----------------------------- MODULE ModelSessions -----------------------------
(***************************************************************************)
(* A Gemma 4 model opened on one or two GPUs, and the sessions attached to *)
(* it.  The engines load the layers the placement gives them; a session    *)
(* allocates its KV engine by engine and registers views of it, under a    *)
(* prefix of its own, where the graph of the model finds them by name.     *)
(*                                                                         *)
(* The sessions other than the default one use its rings: their sliding    *)
(* layers point into its allocation.                                       *)
(***************************************************************************)
EXTENDS Placement, SessionNames, FiniteSets

CONSTANTS
  Models,        \* the models and machines to open: see Placement
  AllocMayFail,  \* whether cudaMalloc and the loads may fail
  MaxAttached    \* bound: attach calls

Gpus == {"primary", "secondary"}
Common == -1                      \* embedding, final norm and head
Tensors == Layers \cup {Common}
NoOwner == -1

\* A text is split only when no layer shares the KV of another one, which is
\* one of its kind.
ASSUME ModelsAssumption ==
  /\ \A m \in Models :
       /\ Measured(m)
       /\ m.global \subseteq Layers /\ m.shared \in 0 .. NumLayers - 1
       /\ m.splits => m.shared = 0
       /\ \A i \in NumLayers - m.shared .. NumLayers - 1 :
            \E j \in 0 .. NumLayers - m.shared - 1 : (j \in m.global) = (i \in m.global)
  /\ AllocMayFail \in BOOLEAN

\* In Gemma 4 the first layer slides (tests/test_gemma4_kv.cu:41).
ASSUME FirstLayerSlides == \A m \in Models : 0 \notin m.global

VARIABLES
  model,     \* layers, tower and free memory: fixed when the model is opened
  plan,      \* Model::Impl::placement
  stage,     \* how far Model::load has got, then "open" or "closed"
  loaded,    \* engine -> the text tensors it has registered
  tower,     \* the engine of the vision tower, or "none"
  sesiones,  \* attach calls so far: the number in the next prefix
  session,   \* session -> its cache: state, prefix, whether it is a short one
  memory,    \* the KV allocations, <<prefix, engine>>
  kvViews    \* the views registered: [engine, prefix, layer] -> an allocation

opening == <<model, plan, stage, loaded, tower, sesiones, session, memory, kvViews>>
kv == <<sesiones, session, memory, kvViews>>

NotYet == Result("single", 0, "none", FALSE, 0, 0)
Detached == [state |-> "none", prefix |-> NoOwner, short |-> FALSE]

OpeningInit ==
  /\ model \in Models
  /\ plan = NotYet
  /\ stage = "plan"
  /\ loaded = [e \in Gpus |-> {}]
  /\ tower = "none"
  /\ sesiones = 0
  /\ session = [s \in Sessions |-> Detached]
  /\ memory = {}
  /\ kvViews = <<>>
-----------------------------------------------------------------------------
(* Model::load.                                                             *)

IsSplit == plan.fit = "split"

Closed ==
  /\ stage' = "closed"
  /\ loaded' = [e \in Gpus |-> {}]
  /\ tower' = "none"

\* Mutant of InSpan: the layer at the boundary belongs to both.
InSpan_Overlaps(t, first, end, common) == IF t = Common THEN common ELSE t \in first .. end

\* gemma4_tensor_in_span.
InSpan(t, first, end, common) == IF t = Common THEN common ELSE t \in first .. end - 1

Plan ==
  /\ stage = "plan"
  /\ plan' = plan_gemma4_placement(model)
  /\ stage' = CASE plan'.fit = "nofit" -> "closed" [] plan'.fit = "split" -> "secondary"
                [] OTHER -> "primary"
  /\ UNCHANGED <<model, loaded, tower, kv>>

LoadSecondary ==
  /\ stage = "secondary"
  /\ loaded' = [loaded EXCEPT !["secondary"] =
                  {t \in Tensors : InSpan(t, plan.boundary, NumLayers, FALSE)}]
  /\ stage' = "primary"
  /\ UNCHANGED <<model, plan, tower, kv>>

\* Without a split no filter is set, and all the tensors are loaded.
LoadPrimary ==
  /\ stage = "primary"
  /\ loaded' = [loaded EXCEPT !["primary"] =
                  IF IsSplit THEN {t \in Tensors : InSpan(t, 0, plan.boundary, TRUE)} ELSE Tensors]
  /\ stage' = "tower"
  /\ UNCHANGED <<model, plan, tower, kv>>

LoadTower ==
  /\ stage = "tower"
  /\ tower' = plan.vision
  /\ stage' = "open"
  /\ UNCHANGED <<model, plan, loaded, kv>>

LoadFails ==
  /\ AllocMayFail
  /\ stage \in {"secondary", "primary", "tower"}
  /\ Closed
  /\ UNCHANGED <<model, plan, kv>>
-----------------------------------------------------------------------------
(* Gemma4KVCache::allocate, for the layers an engine hosts.                 *)

FirstShared == NumLayers - model.shared
Source(i) ==
  IF i < FirstShared THEN i
  ELSE CHOOSE j \in 0 .. FirstShared - 1 :
         /\ (j \in model.global) = (i \in model.global)
         /\ \A k \in j + 1 .. FirstShared - 1 : (k \in model.global) # (i \in model.global)

Hosted(e) ==
  IF ~IsSplit THEN IF e = "primary" THEN Layers ELSE {}
  ELSE IF e = "primary" THEN 0 .. plan.boundary - 1 ELSE plan.boundary .. NumLayers - 1

\* Mutant of Borrows: the primary cache is not given the owner of the rings.
Borrows_Secondary(s, e, i) ==
  /\ e = "secondary"
  /\ s # Default /\ ~session[s].short
  /\ Source(i) \notin model.global

\* matches_ring: the owner's sliding layers of the same size.  A session so
\* short that its ring is the whole context has no layer like the owner's.
Borrows(s, e, i) ==
  /\ s # Default /\ ~session[s].short
  /\ Source(i) \notin model.global

OwnLayers(s, e) == {i \in Hosted(e) : i < FirstShared /\ ~Borrows(s, e, i)}

\* total_elements == 0 and every cudaMalloc that fails.
AllocateFails(s, e) == OwnLayers(s, e) = {} \/ AllocMayFail

\* k_cache: the allocation a layer of the session is read from.
MemoryOf(s, e, i) == <<IF Borrows(s, e, i) THEN session[Default].prefix ELSE session[s].prefix, e>>

View(e, prefix, i) == [engine |-> e, prefix |-> prefix, layer |-> i]

Views(s, e) == {View(e, session[s].prefix, i) : i \in Hosted(e)}

\* register_tensors throws if the registry has a tensor of the same name.
Taken(s, e) == Views(s, e) \cap DOMAIN kvViews # {}

RegisterTensors(s, e) ==
  kvViews' = [v \in DOMAIN kvViews \cup Views(s, e) |->
              IF v \in DOMAIN kvViews THEN kvViews[v] ELSE MemoryOf(s, e, v.layer)]

NextPrefix == sesiones

\* attach: the prefix is taken before anything can fail.
Attach(s, short) ==
  /\ stage = "open" /\ session[s].state = "none" /\ sesiones < MaxAttached
  /\ \A t \in Sessions : session[t].state \in {"none", "attached"}
  /\ s # Default => session[Default].state = "attached"
  /\ s = Default => ~short
  /\ session' = [session EXCEPT ![s] = [state |-> "primary", prefix |-> NextPrefix, short |-> short]]
  /\ sesiones' = sesiones + 1
  /\ UNCHANGED <<model, plan, stage, loaded, tower, memory, kvViews>>

Allocate(s, e, next) ==
  /\ session[s].state = e
  /\ OwnLayers(s, e) # {}
  /\ memory' = memory \cup {<<session[s].prefix, e>>}
  /\ IF Taken(s, e) THEN UNCHANGED kvViews ELSE RegisterTensors(s, e)
  /\ session' = [session EXCEPT ![s].state = IF Taken(s, e) THEN "refused" ELSE next]
  /\ UNCHANGED <<model, plan, stage, loaded, tower, sesiones>>

AttachPrimary(s) == Allocate(s, "primary", IF IsSplit THEN "secondary" ELSE "attached")
AttachSecondary(s) == Allocate(s, "secondary", "attached")

\* The session that could not be attached is destroyed.
AttachFails(s) ==
  /\ session[s].state \in Gpus
  /\ AllocateFails(s, session[s].state)
  /\ session' = [session EXCEPT ![s].state = "refused"]
  /\ UNCHANGED <<model, plan, stage, loaded, tower, sesiones, memory, kvViews>>

\* session_close: never the default one.
CloseSession(s) ==
  /\ stage = "open" /\ s # Default
  /\ \A t \in Sessions : session[t].state \in {"none", "attached"}
  /\ session[s].state = "attached"
  /\ session' = [session EXCEPT ![s].state = "closing"]
  /\ UNCHANGED <<model, plan, stage, loaded, tower, sesiones, memory, kvViews>>

\* Where ~Impl looks for the views of a layer.
OwnerOf(i) == IF IsSplit /\ i >= plan.boundary THEN "secondary" ELSE "primary"

Without(gone) == [v \in DOMAIN kvViews \ gone |-> kvViews[v]]

\* Mutant of Unregister: only what the primary engine has.
Unregister_Primary(s) ==
  /\ session[s].state \in {"refused", "closing"}
  /\ kvViews' = Without({View("primary", session[s].prefix, i) : i \in Layers})
  /\ session' = [session EXCEPT ![s].state = "gone"]
  /\ UNCHANGED <<model, plan, stage, loaded, tower, sesiones, memory>>

\* ~Impl: the views must not outlive the allocation.
Unregister(s) ==
  /\ session[s].state \in {"refused", "closing"}
  /\ kvViews' = Without({View(OwnerOf(i), session[s].prefix, i) : i \in Layers})
  /\ session' = [session EXCEPT ![s].state = "gone"]
  /\ UNCHANGED <<model, plan, stage, loaded, tower, sesiones, memory>>

\* ~Gemma4KVCache.  Without its default session the process has nothing to serve.
FreeKv(s) ==
  /\ session[s].state = "gone"
  /\ memory' = {a \in memory : a[1] # session[s].prefix}
  /\ session' = [session EXCEPT ![s] = Detached]
  /\ IF s = Default THEN Closed ELSE UNCHANGED <<stage, loaded, tower>>
  /\ UNCHANGED <<model, plan, sesiones, kvViews>>

OpeningNext ==
  \/ Plan \/ LoadSecondary \/ LoadPrimary \/ LoadTower \/ LoadFails
  \/ \E s \in Sessions :
       \/ \E short \in BOOLEAN : Attach(s, short)
       \/ AttachPrimary(s) \/ AttachSecondary(s) \/ AttachFails(s)
       \/ CloseSession(s) \/ Unregister(s) \/ FreeKv(s)

OpeningSpec == OpeningInit /\ [][OpeningNext]_opening
-----------------------------------------------------------------------------
\* The plan and what was loaded are judged before the first session: neither
\* changes after that.

(* The plan finds a placement whenever there is one with the layers in      *)
(* order, keeps the tower whenever it has a place, and crosses to the other *)
(* GPU only when the text does not fit in the primary one.                  *)
PlacementIsBest ==
  stage # "plan" /\ sesiones = 0 =>
    /\ plan.fit # "nofit" <=> CanOpen(model)
    /\ plan.fit # "nofit" => (plan.vision # "none" <=> model.vision # 0 /\ CanSee(model))
    /\ IsSplit => Text(model) > model.primary

BytesOn(e) ==
  Load(model.bytes, loaded[e] \ {Common})
    + (IF Common \in loaded[e] THEN model.common ELSE 0) + (IF tower = e THEN model.vision ELSE 0)

(* Each tensor of an open model is on one engine, and what every engine     *)
(* loads, with its layers' KV and the tower, fits in its memory and is what *)
(* the plan accounted for.  The graph finds the KV of an attached session   *)
(* beside the weights of each layer, and what it finds is the session's     *)
(* own, or the rings of the owner for a sliding layer: two conversations    *)
(* never share a global layer.                                              *)
LoadedWhereItFits ==
  /\ stage = "open" /\ sesiones = 0 =>
       /\ \A t \in Tensors : Cardinality({e \in Gpus : t \in loaded[e]}) = 1
       /\ BytesOn("primary") = plan.primary /\ BytesOn("primary") <= model.primary
       /\ BytesOn("secondary") = plan.secondary /\ BytesOn("secondary") <= model.secondary
  /\ \A s \in Sessions : session[s].state = "attached" =>
       \A i \in Layers : \E e \in Gpus :
         /\ i \in loaded[e] /\ View(e, session[s].prefix, i) \in DOMAIN kvViews
         /\ LET holder == kvViews[View(e, session[s].prefix, i)]
            IN  \/ holder = <<session[s].prefix, e>>
                \/ holder = <<session[Default].prefix, e>> /\ i \notin model.global

(* No view of the registry points to KV that was freed, whatever attach     *)
(* failed half way and whatever session was closed.                         *)
ViewsPointToLiveKv == \A v \in DOMAIN kvViews : kvViews[v] \in memory

(* borrows_rings looks at the cache of the primary engine alone, and the    *)
(* runtime saves the owner's rings only when it says so: a session that     *)
(* writes into the owner's rings on any engine is seen there.               *)
BorrowsRings(s) == \E i \in Hosted("primary") : Borrows(s, "primary", i)

BorrowersAreSeen ==
  \A s \in Sessions \ {Default} : session[s].state = "attached" =>
    ((\E v \in DOMAIN kvViews :
        v.prefix = session[s].prefix /\ kvViews[v][1] = session[Default].prefix) => BorrowsRings(s))

(* tests/test_gemma4_split.cu:328 says that all the layers on the secondary *)
(* GPU is a valid split: if nothing fails, a model with a placement serves  *)
(* its default session.                                                     *)
PlannedModelServes == ~AllocMayFail => session[Default].state # "refused"
=============================================================================
