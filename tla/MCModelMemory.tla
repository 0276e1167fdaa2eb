--------------------------- MODULE MCModelMemory ------------------------------
(***************************************************************************)
(* A model and the sessions that share it: the placement of its layers on  *)
(* two GPUs and the sessions attached to it, the loader, the pipeline of   *)
(* the weights of its tower, and the turns its sessions take.              *)
(*                                                                         *)
(* The turns: the default session, one that borrows its rings and one with *)
(* rings of its own, on a model split over two engines.                    *)
(* The loader: a Gemma 4 file of two layers with a tower of two phases     *)
(* whose tensors are not contiguous, and a file whose vision block is      *)
(* loaded tensor by tensor.  The pipeline: a tower of six phases of        *)
(* different sizes, the fifth one resident, so that the chain of           *)
(* prefetches comes back to a slot in use, is cut, and starts again.       *)
(* The placement and the sessions: those of MCModelSessions.               *)
(*                                                                         *)
(* Images are run when both blocks are at rest, and the pipeline leaves    *)
(* the registry as it found it: neither moves while the other one does.    *)
(* Sessions have tensors of their own names and the placement is decided   *)
(* before anything is loaded, and a turn uses a model that is there, so    *)
(* they are followed apart.                                                *)
(***************************************************************************)
EXTENDS SharedModel, WeightPipeline, Loader, MCModelSessions

SecondaryFirst == <<"secondary", "primary">>

\* The tower: its fifth phase is resident, the first and the last one are smaller.
TowerMapped == 0 .. 5 \ {4}
TowerBytes == [p \in 0 .. 5 |-> IF p \in {0, 5} THEN 1 ELSE 2]

At(group, part, offset) == [name |-> <<group, part>>, offset |-> offset]

Gemma ==
  [entries |-> [text |-> << At(-1, "token_embedding", 1),
                  At(0, "q_proj", 2), At(0, "k_proj", 3), At(0, "v_proj", 4),
                  At(1, "q_proj", 5), At(1, "k_proj", 6),
                  At(1, "gate", 7), At(1, "up", 8), At(-1, "lm_head", 9) >>,
                vision |-> << At(0, "conv", 10), At(1, "norm", 11),
                  At(0, "clamp", 12), At(1, "proj", 13), At(1, "out", 14) >>],
   tower |-> TRUE, gemma |-> TRUE, layers |-> 2, firstShared |-> 2, kEqV |-> {1}, fusionMayFail |-> TRUE]

Plain ==
  [entries |-> [text |-> << At(-1, "token_embedding", 1),
                  At(0, "q_proj", 2), At(0, "k_proj", 3), At(0, "v_proj", 4),
                  At(0, "gate", 5), At(0, "up", 6) >>,
                vision |-> << At(0, "conv", 7), At(0, "clamp", 8) >>],
   tower |-> FALSE, gemma |-> FALSE, layers |-> 1, firstShared |-> 1, kEqV |-> {}, fusionMayFail |-> FALSE]

MCFiles == {Gemma, Plain}
AllNames == {e.name : e \in UNION {Range(f.entries[b]) : f \in MCFiles, b \in Blocks}}
SecondHalf == {n \in AllNames : n[1] = 1}

Setting(mapped, embed, qkv, gateUp, kept, taken) ==
  [visionMmap |-> mapped, embed |-> embed, fuseQkv |-> qkv, fuseGateUp |-> gateUp,
   kept |-> kept, taken |-> taken]

MCSettings ==
  {Setting(TRUE, "mmap", FALSE, FALSE, AllNames, {}),
   Setting(FALSE, "ram", FALSE, TRUE, AllNames, {}),
   Setting(TRUE, "vram", TRUE, TRUE, AllNames, {}),
   Setting(FALSE, "vram", TRUE, FALSE, SecondHalf, {}),
   Setting(FALSE, "vram", FALSE, FALSE, SecondHalf, {<<0, "clamp">>}),
   Setting(TRUE, "vram", FALSE, FALSE, SecondHalf, {<<1, "norm">>})}

MCBuffers == << <<-2, "tokens">>, <<-2, "ple_tokens">>, <<-2, "positions">> >>

SomeModel ==
  [bytes |-> [i \in 0 .. 2 |-> 1], common |-> 1, vision |-> 0, primary |-> 7, secondary |-> 0,
   global |-> {1}, shared |-> 0, splits |-> TRUE]

AtRest == host.images = 0 /\ compute = <<>> /\ copier = <<>>
AtStart == file = Gemma /\ env = Setting(TRUE, "mmap", FALSE, FALSE, AllNames, {})
            /\ Idle /\ heap = <<>>
Unplanned == stage = "plan" /\ model = SomeModel

\* The one state of the loader in which the images are run.
Ready ==
  /\ Idle /\ file = Gemma /\ env.embed = "mmap"
  /\ blocks["vision"].loaded /\ blocks["vision"].window = NoMemory
  /\ ~blocks["text"].loaded /\ Buffers[1] \in DOMAIN tensors

\* No turn has been taken.
Untaken == at = "idle" /\ \A s \in Sessions : forwards[s] = 0 /\ empty[s]

MCInit == Init /\ PipelineInit /\ LoaderInit /\ OpeningInit /\ (AtStart \/ Unplanned)
MCNext ==
  \/ AtStart /\ Unplanned /\ AtRest /\ Next /\ UNCHANGED <<pipeline, loader, opening>>
  \/ Untaken /\ Unplanned /\ Ready /\ PipelineNext /\ UNCHANGED <<vars, loader, opening>>
  \/ Untaken /\ Unplanned /\ AtRest /\ LoaderNext /\ UNCHANGED <<vars, pipeline, opening>>
  \/ Untaken /\ AtStart /\ AtRest /\ OpeningNext /\ UNCHANGED <<vars, pipeline, loader>>
MCSpec == MCInit /\ [][MCNext]_<<vars, pipeline, loader, opening>>
=============================================================================
