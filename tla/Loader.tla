-------------------------------- MODULE Loader --------------------------------
(***************************************************************************)
(* HnfLoader and the TensorRegistry of an engine: the blocks of a model    *)
(* file are loaded into device memory, mapped host memory or a mapping of  *)
(* the file, fused, staged through a window of device memory, and unloaded *)
(* again, while any allocation, read or copy may fail.                     *)
(*                                                                         *)
(* A tensor of the file is one unit of memory, and its bytes are its name. *)
(* An allocation is known by what it was made for: a tensor, the tower or  *)
(* the window of a block.                                                  *)
(***************************************************************************)
EXTENDS Integers, Sequences, FiniteSetsExt

CONSTANTS
  Files,      \* the model files: the directory of tensors and what the config says
  Settings,   \* the HELIOS_* variables, the tensor filter, the names others registered
  Buffers     \* the buffers of the multimodal adapter, in the order it registers them

Blocks == {"text", "vision"}
Names == Int \X STRING
NoMemory == <<-1, "none">>

\* Parts of names that no tensor of a file has: what is fused, the memory of a block.
Reserved == {"qkv", "gate_up", "none", "text", "vision"}
\* The parts of the text the loader knows by name.
Weights == {"q_proj", "k_proj", "v_proj", "gate", "up", "token_embedding", "lm_head"}

\* A file the converter writes: names and offsets are distinct, the weights are
\* those of the text, its embedding and its head belong to no layer.
WellFormed(f) ==
  /\ f.entries \in [Blocks -> Seq([name : Names, offset : Nat])]
  /\ \A b, c \in Blocks : \A i \in DOMAIN f.entries[b], j \in DOMAIN f.entries[c] :
        <<b, i>> # <<c, j>> => /\ f.entries[b][i].name # f.entries[c][j].name
                             /\ f.entries[b][i].offset # f.entries[c][j].offset
  /\ \A b \in Blocks : \A i \in DOMAIN f.entries[b] :
        LET name == f.entries[b][i].name IN
          /\ name[2] \notin Reserved
          /\ b = "vision" => name[2] \notin Weights
          /\ name[2] \in {"token_embedding", "lm_head"} => name[1] = -1
          /\ name[2] = "v_proj" => name[1] \notin f.kEqV
  /\ f.layers \in Nat
  /\ f.tower \in BOOLEAN
  /\ f.fusionMayFail => f.tower   \* else a fusion that failed is tried again with the tower

\* What others register is nobody's weight.
ForeignName(n) == n \in Names /\ n[2] \notin Reserved \cup Weights

\* Said for the provers, to which a literal is not yet a string.
ASSUME StringAssumption == Reserved \cup Weights \cup {"gap", "junk"} \subseteq STRING

ASSUME FilesAssumption ==
  /\ \A f \in Files : WellFormed(f)
  /\ \A e \in Settings : \A n \in e.taken :
        /\ ForeignName(n)
        /\ \A f \in Files : \A i \in DOMAIN f.entries["text"] : n # f.entries["text"][i].name
  /\ Buffers \in Seq(Names)
  /\ \A i \in DOMAIN Buffers :
        /\ ForeignName(Buffers[i])
        /\ \A e \in Settings : Buffers[i] \notin e.taken
        /\ \A f \in Files : \A b \in Blocks : \A j \in DOMAIN f.entries[b] :
              Buffers[i] # f.entries[b][j].name
        /\ \A j \in DOMAIN Buffers : i # j => Buffers[i] # Buffers[j]

VARIABLES
  file,      \* the file open, fixed
  env,       \* the settings, fixed
  tensors,   \* TensorRegistry::tensors_: name -> TensorInfo
  heap,      \* the live allocations: kind and bytes of each
  blocks,    \* block_states_
  loading    \* the load_block_tensors in progress: block, mode, next tensor, allocation

loader == <<file, env, tensors, heap, blocks, loading>>
fixed == <<file, env>>

\* BlockState, and the locals of load_block_tensors.
NoneStaged == [n \in {} |-> NoMemory]
Unloaded == [loaded |-> FALSE, names |-> {}, staged |-> NoneStaged, window |-> NoMemory, capacity |-> 0]
Rest == [block |-> "none", mode |-> "none", next |-> 1, base |-> NoMemory]

Dropped(f, S) == [x \in DOMAIN f \ S |-> f[x]]
With(f, x, v) == [y \in DOMAIN f \cup {x} |-> IF y = x THEN v ELSE f[y]]
TowerOf(b) == <<-1, b>>
WindowOf(b) == <<-2, b>>

\* A TensorInfo: where ptr points, the allocation_ptr it owns if it does, and
\* host_mapped and file_mapped as a kind.
Info(alloc, offset, size, own, kind) ==
  [alloc |-> alloc, at |-> offset, size |-> size, own |-> own, kind |-> kind]

Alone(name, kind) ==
  /\ heap' = With(heap, name, [kind |-> kind, bytes |-> <<name>>])
  /\ tensors' = With(tensors, name, Info(name, 0, 1, name, kind))

\* TensorRegistry::remove of several names: what they own is freed with them.
Owned(names) == {tensors[n].own : n \in names \cap DOMAIN tensors} \ {NoMemory}

Deregister(names) ==
  /\ tensors' = Dropped(tensors, names)
  /\ heap' = Dropped(heap, Owned(names))

LoaderInit ==
  /\ file \in Files /\ env \in Settings
  /\ env.taken # {} => file.tower    \* what is loaded one by one is loaded once
  /\ heap = [n \in env.taken |-> [kind |-> "vram", bytes |-> <<n>>]]
  /\ tensors = [n \in env.taken |-> Info(n, 0, 1, n, "vram")]
  /\ blocks = [b \in Blocks |-> Unloaded]
  /\ loading = Rest
-----------------------------------------------------------------------------
(* The directory: entries have a name <<group, part>>, a block and an       *)
(* offset.  A group is a layer, a phase of the tower or what is common.     *)

OfBlock(b) == file.entries[b]
Offset(b, i) == OfBlock(b)[i].offset
Part(b, i) == OfBlock(b)[i].name
Start(b) == Min({Offset(b, i) : i \in DOMAIN OfBlock(b)})
Length(b) == Max({Offset(b, i) : i \in DOMAIN OfBlock(b)}) + 1 - Start(b)

\* The bytes of a range of the file.
Entries == UNION {Range(OfBlock(b)) : b \in Blocks}
Slice(from, size) ==
  [i \in 1 .. size |->
     LET there == {e \in Entries : e.offset = from + i - 1}
     IN  IF there = {} THEN <<-1, "gap">> ELSE (CHOOSE e \in there : TRUE).name]

Junk(size) == [i \in 1 .. size |-> <<-1, "junk">>]

\* Whether the tower of a Gemma 4 file is loaded as one allocation, and which.
TowerMode(b) ==
  IF b # "vision" \/ ~file.tower THEN "each" ELSE IF env.visionMmap THEN "mapped" ELSE "contiguous"

\* embedding_is_lookup_only: the table is not also the output projection.
EmbeddingIsLookupOnly(name) ==
  name[2] = "token_embedding" /\ \E i \in DOMAIN OfBlock("text") : Part("text", i)[2] = "lm_head"

\* What load_tensor tries in turn to hold a tensor in.
Storages(name) ==
  IF ~EmbeddingIsLookupOnly(name) THEN {"vram"}
  ELSE CASE env.embed = "mmap" -> {"mmap", "host", "vram"}
         [] env.embed = "ram" -> {"host", "vram"}
         [] OTHER -> {"vram"}
-----------------------------------------------------------------------------
(* load_block and load_block_tensors.                                       *)

Idle == loading = Rest

Begin(b) ==
  /\ Idle /\ ~blocks[b].loaded /\ OfBlock(b) # <<>>
  /\ blocks' = [blocks EXCEPT ![b] = Unloaded]

BeginEach(b) ==
  /\ Begin(b) /\ TowerMode(b) = "each"
  /\ loading' = [block |-> b, mode |-> "each", next |-> 1, base |-> NoMemory]
  /\ UNCHANGED <<fixed, tensors, heap>>

\* The whole tower in one allocation: a mapping of the file has its bytes at
\* once, device memory gets them tensor by tensor.  The validator, the memory
\* check and the allocation may fail, and leave nothing.
BeginTower(b) ==
  /\ Begin(b) /\ TowerMode(b) # "each"
  /\ LET mapped == TowerMode(b) = "mapped" IN
       /\ heap' = With(heap, TowerOf(b), [kind |-> IF mapped THEN "mmap" ELSE "vram",
                                     bytes |-> IF mapped THEN Slice(Start(b), Length(b)) ELSE Junk(Length(b))])
       /\ loading' = [block |-> b, mode |-> TowerMode(b), next |-> 1, base |-> TowerOf(b)]
  /\ UNCHANGED <<fixed, tensors>>

BeginFails(b) ==
  /\ Begin(b) /\ TowerMode(b) # "each"
  /\ UNCHANGED <<fixed, tensors, heap, loading>>

Loading == ~Idle /\ loading.mode \in {"each", "mapped", "contiguous"}
HasEntry == Loading /\ loading.next <= Len(OfBlock(loading.block))
Entry == OfBlock(loading.block)[loading.next]
Kept == loading.mode = "each" => Entry.name \in env.kept

Registered(name) ==
  /\ blocks' = [blocks EXCEPT ![loading.block].names = @ \cup {name}]
  /\ loading' = [loading EXCEPT !.next = @ + 1]

\* The filter of a model split in two is only asked about single tensors.
SkipEntry ==
  /\ HasEntry /\ ~Kept
  /\ loading' = [loading EXCEPT !.next = @ + 1]
  /\ UNCHANGED <<fixed, tensors, heap, blocks>>

\* load_tensor, of a tensor of its own.
RegisterAlone ==
  /\ HasEntry /\ Kept /\ loading.mode = "each"
  /\ \E kind \in Storages(Entry.name) : Alone(Entry.name, kind)
  /\ Registered(Entry.name)
  /\ UNCHANGED fixed

\* A view of the tower.  The first one owns the allocation.
RegisterView ==
  /\ HasEntry /\ loading.mode # "each"
  /\ Entry.name \notin DOMAIN tensors
  /\ LET relative == Entry.offset - Start(loading.block)
         owner == IF loading.next = 1 THEN loading.base ELSE NoMemory
     IN  /\ heap' = [heap EXCEPT ![loading.base].bytes[relative + 1] = Entry.name]
         /\ tensors' = With(tensors, Entry.name,
                            Info(loading.base, relative, 1, owner, heap[loading.base].kind))
  /\ Registered(Entry.name)
  /\ UNCHANGED fixed

Abandoned ==
  /\ blocks' = [blocks EXCEPT ![loading.block] = Unloaded]
  /\ loading' = Rest
  /\ UNCHANGED fixed

\* Mutant of RollBack: what was registered is removed, and nothing else done.
RollBack_KeepsBase ==
  /\ HasEntry /\ Kept
  /\ Deregister(blocks[loading.block].names)
  /\ Abandoned

\* A read, an allocation, a copy or a tensor that is not what it should be.  The
\* allocation of the tower goes with its owner, or by itself when it has none.
RollBack ==
  /\ HasEntry /\ Kept
  /\ tensors' = Dropped(tensors, blocks[loading.block].names)
  /\ heap' = Dropped(heap, Owned(blocks[loading.block].names) \cup {loading.base})
  /\ Abandoned
-----------------------------------------------------------------------------
(* fuse_qkv_weights and fuse_gemma4_weights.                                *)

Q(l) == <<l, "q_proj">>
K(l) == <<l, "k_proj">>
V(l) == <<l, "v_proj">>
Gate(l) == <<l, "gate">>
Up(l) == <<l, "up">>

Fused(l, kind) == <<l, kind>>

\* Mutant of QkvParts: the value weights of a layer without them are left out.
QkvParts_NoV(l) == IF l \in file.kEqV THEN <<Q(l), K(l)>> ELSE <<Q(l), K(l), V(l)>>

\* A layer whose values are its keys has the key weights twice.
QkvParts(l) == <<Q(l), K(l), IF l \in file.kEqV THEN K(l) ELSE V(l)>>
Parts(l, kind) == IF kind = "qkv" THEN QkvParts(l) ELSE <<Gate(l), Up(l)>>

Fusions == [i \in 1 .. 2 * file.layers |-> <<(i - 1) \div 2, IF i % 2 = 1 THEN "qkv" ELSE "gate_up">>]

\* The generic loop stops at the first layer that is not there; the one for
\* Gemma 4 does not, and leaves out the layers that share their KV.
Wanted(l, kind) ==
  /\ IF file.gemma THEN kind = "qkv" => l < file.firstShared
     ELSE Q(l) \in DOMAIN tensors \/ Gate(l) \in DOMAIN tensors \/ Fused(l, "qkv") \in DOMAIN tensors
  /\ kind = "qkv" => env.fuseQkv
  /\ kind = "gate_up" => env.fuseGateUp

\* The parts fit together: matrices in device memory.
CanConcat(parts) ==
  \A i \in DOMAIN parts : parts[i] \in DOMAIN tensors /\ tensors[parts[i]].kind = "vram"

Held(n) == SubSeq(heap[tensors[n].alloc].bytes, tensors[n].at + 1, tensors[n].at + tensors[n].size)

Loaded ==
  /\ blocks' = [blocks EXCEPT ![loading.block].loaded = TRUE]
  /\ loading' = Rest

EndLoad ==
  /\ Loading /\ ~HasEntry
  /\ IF loading.mode = "each" /\ (env.fuseQkv \/ env.fuseGateUp)
     THEN loading' = [block |-> loading.block, mode |-> "fuse", next |-> 1, base |-> NoMemory] /\ UNCHANGED blocks
     ELSE Loaded
  /\ UNCHANGED <<fixed, tensors, heap>>

Fusing == ~Idle /\ loading.mode = "fuse"
HasFusion == Fusing /\ loading.next <= Len(Fusions)
NextFusion == loading' = [loading EXCEPT !.next = @ + 1]

\* concat_tensors: the bytes of the parts, one after the other.
Joined(parts) ==
  IF Len(parts) = 2 THEN Held(parts[1]) \o Held(parts[2])
  ELSE Held(parts[1]) \o Held(parts[2]) \o Held(parts[3])

Concat(l, kind) ==
  LET parts == Parts(l, kind)
      whole == Fused(l, kind)
      gone == Range(parts)
  IN  /\ Wanted(l, kind) /\ CanConcat(parts)
      /\ heap' = With(Dropped(heap, Owned(gone)), whole, [kind |-> "vram", bytes |-> Joined(parts)])
      /\ tensors' = With(Dropped(tensors, gone), whole, Info(whole, 0, Len(Joined(parts)), whole, "vram"))
      /\ blocks' = [blocks EXCEPT ![loading.block].names = (@ \ gone) \cup {whole}]

Fuse ==
  /\ HasFusion
  /\ Concat(Fusions[loading.next][1], Fusions[loading.next][2])
  /\ NextFusion
  /\ UNCHANGED fixed

\* Parts that do not fit, or no memory: the layer goes on unfused.
SkipFusion ==
  /\ HasFusion
  /\ LET l == Fusions[loading.next][1]
         kind == Fusions[loading.next][2]
     IN  file.fusionMayFail \/ ~Wanted(l, kind) \/ ~CanConcat(Parts(l, kind))
  /\ NextFusion
  /\ UNCHANGED <<fixed, tensors, heap, blocks>>

EndFusions ==
  /\ Fusing /\ ~HasFusion
  /\ Loaded
  /\ UNCHANGED <<fixed, tensors, heap>>
-----------------------------------------------------------------------------
(* The staging window of a mapped block.                                    *)

Selected(b, phase) == {i \in DOMAIN OfBlock(b) : Part(b, i)[1] = phase}
Offsets(b, phase) == {Offset(b, i) : i \in Selected(b, phase)}
First(b, phase) == Min(Offsets(b, phase))
Span(b, phase) == Max(Offsets(b, phase)) + 1 - First(b, phase)

IsStaged(b) == DOMAIN blocks[b].staged # {}

\* A block in device memory needs no staging.
CanStage(b, phase) ==
  /\ Idle /\ blocks[b].loaded /\ ~IsStaged(b)
  /\ Selected(b, phase) # {}
  /\ \A i \in Selected(b, phase) : Part(b, i) \in DOMAIN tensors /\ tensors[Part(b, i)].kind = "mmap"

Grows(b, phase) == Span(b, phase) > blocks[b].capacity

Staging(b, window, staged, capacity) ==
  blocks' = [blocks EXCEPT ![b] = [loaded |-> @.loaded, names |-> @.names, staged |-> staged,
                                   window |-> window, capacity |-> capacity]]

\* A window too small is freed before the new one is asked for.
StageFails(b, phase) ==
  /\ CanStage(b, phase) /\ Grows(b, phase)
  /\ heap' = Dropped(heap, {blocks[b].window})
  /\ Staging(b, NoMemory, blocks[b].staged, 0)
  /\ UNCHANGED <<fixed, tensors, loading>>

\* The window, grown if it has to, holds the bytes of the range at its start.
Capacity(b, phase) == IF Grows(b, phase) THEN Span(b, phase) ELSE blocks[b].capacity

Window(bytes) == [kind |-> "vram", bytes |-> bytes]

Copied(b, phase) ==
  Window(Slice(First(b, phase), Span(b, phase)) \o Junk(Capacity(b, phase) - Span(b, phase)))

\* The pointers of the tensors of the range, moved into the window.
Moved(b, phase, names) ==
  [n \in DOMAIN tensors |->
     IF n \in names
     THEN Info(WindowOf(b), Start(b) + tensors[n].at - First(b, phase),
               tensors[n].size, tensors[n].own, tensors[n].kind)
     ELSE tensors[n]]

\* One copy of the range, in the stream that will run the phase.
StageMappedPrefix(b, phase) ==
  /\ CanStage(b, phase)
  /\ LET names == {Part(b, i) : i \in Selected(b, phase)} IN
       /\ heap' = With(heap, WindowOf(b), Copied(b, phase))
       /\ tensors' = Moved(b, phase, names)
       /\ Staging(b, WindowOf(b), [n \in names |-> tensors[n]], Capacity(b, phase))
  /\ UNCHANGED <<fixed, loading>>

\* The copy is refused: the window is there, and nothing points into it.
CopyFails(b, phase) ==
  /\ CanStage(b, phase)
  /\ heap' = With(heap, WindowOf(b), Window(Junk(Capacity(b, phase))))
  /\ Staging(b, WindowOf(b), NoneStaged, Capacity(b, phase))
  /\ UNCHANGED <<fixed, tensors, loading>>

\* What unstage_mapped_prefix makes of the registry.
Restored(b) ==
  [n \in DOMAIN tensors |-> IF n \in DOMAIN blocks[b].staged THEN blocks[b].staged[n] ELSE tensors[n]]

UnstageMappedPrefix(b) ==
  /\ Idle /\ IsStaged(b)
  /\ tensors' = Restored(b)
  /\ Staging(b, blocks[b].window, NoneStaged, blocks[b].capacity)
  /\ UNCHANGED <<fixed, heap, loading>>

ReleaseMappedStaging(b) ==
  /\ Idle /\ blocks[b].window # NoMemory
  /\ tensors' = Restored(b)
  /\ heap' = Dropped(heap, {blocks[b].window})
  /\ Staging(b, NoMemory, NoneStaged, 0)
  /\ UNCHANGED <<fixed, loading>>

\* unload_block: unstaged, the window freed, and the names removed in reverse.
Unload(b) ==
  /\ Idle /\ blocks[b].loaded
  /\ tensors' = Dropped(tensors, blocks[b].names)
  /\ heap' = Dropped(heap, Owned(blocks[b].names) \cup {blocks[b].window})
  /\ blocks' = [blocks EXCEPT ![b] = Unloaded]
  /\ UNCHANGED <<fixed, loading>>
-----------------------------------------------------------------------------
(* ensure_buffers of the multimodal adapter: all of its buffers or none.    *)

HasBuffers == Buffers # <<>> /\ Buffers[1] \in DOMAIN tensors

BeginBuffers ==
  /\ Idle /\ ~HasBuffers /\ Buffers # <<>>
  /\ loading' = [block |-> "buffers", mode |-> "buffers", next |-> 1, base |-> NoMemory]
  /\ UNCHANGED <<fixed, tensors, heap, blocks>>

Buffering == ~Idle /\ loading.mode = "buffers"

AllocateBuffer ==
  /\ Buffering /\ loading.next <= Len(Buffers)
  /\ Alone(Buffers[loading.next], "vram")
  /\ loading' = IF loading.next = Len(Buffers) THEN Rest ELSE [loading EXCEPT !.next = @ + 1]
  /\ UNCHANGED <<fixed, blocks>>

BufferFails ==
  /\ Buffering
  /\ Deregister(Range(Buffers))
  /\ loading' = Rest
  /\ UNCHANGED <<fixed, blocks>>
-----------------------------------------------------------------------------
LoaderNext ==
  \/ \E b \in Blocks :
       \/ BeginEach(b) \/ BeginTower(b) \/ BeginFails(b)
       \/ \E i \in DOMAIN OfBlock(b) : LET phase == Part(b, i)[1] IN
            StageMappedPrefix(b, phase) \/ StageFails(b, phase) \/ CopyFails(b, phase)
       \/ UnstageMappedPrefix(b) \/ ReleaseMappedStaging(b) \/ Unload(b)
  \/ SkipEntry \/ RegisterAlone \/ RegisterView \/ RollBack
  \/ EndLoad \/ Fuse \/ SkipFusion \/ EndFusions
  \/ BeginBuffers \/ AllocateBuffer \/ BufferFails

LoaderSpec == LoaderInit /\ [][LoaderNext]_loader
-----------------------------------------------------------------------------
(* Whatever a tensor of the registry points into is live, and holds the     *)
(* bytes of that tensor: of its parts, in the order the graph splits them,  *)
(* when it is a fused one.                                                  *)
ValuesOf(l) == IF \E i \in DOMAIN OfBlock("text") : Part("text", i) = V(l) THEN V(l) ELSE K(l)
Meant(n) ==
  CASE n[2] = "qkv" -> <<Q(n[1]), K(n[1]), ValuesOf(n[1])>>
    [] n[2] = "gate_up" -> <<Gate(n[1]), Up(n[1])>>
    [] OTHER -> <<n>>

TensorsHoldTheirData ==
  \A n \in DOMAIN tensors : tensors[n].alloc \in DOMAIN heap /\ Held(n) = Meant(n)

(* Every live allocation has one owner that will free it, by the means it   *)
(* was allocated with, and nothing owns memory already freed: one tensor,   *)
(* the window of a block, or a tower that has not registered anything yet.  *)
(* Between two calls a block is all there, every tensor by itself or within *)
(* a fused one, or has left nothing in the registry; so have the buffers.   *)
Owners(a) ==
  {n \in DOMAIN tensors : tensors[n].own = a}
    \cup {<<-1, b>> : b \in {c \in Blocks : blocks[c].window = a}}
    \cup {<<-2, l.block>> : l \in {k \in {loading} : k.base = a /\ k.next = 1}}

Listed(b) ==
  {n \in {Part(b, i) : i \in DOMAIN OfBlock(b)} : TowerMode(b) = "each" => n \in env.kept}

Present(n) ==
  \/ n \in DOMAIN tensors
  \/ n \in {Q(n[1]), K(n[1]), V(n[1])} /\ Fused(n[1], "qkv") \in DOMAIN tensors
  \/ n \in {Gate(n[1]), Up(n[1])} /\ Fused(n[1], "gate_up") \in DOMAIN tensors

BlocksOwnTheirMemory ==
  /\ \A a \in DOMAIN heap : Cardinality(Owners(a)) = 1
  /\ \A n \in DOMAIN tensors : tensors[n].own # NoMemory =>
        tensors[n].own \in DOMAIN heap /\ heap[tensors[n].own].kind = tensors[n].kind
  /\ \A b \in Blocks : blocks[b].window \in DOMAIN heap \cup {NoMemory}
  /\ Idle =>
       /\ \A b \in Blocks :
            IF blocks[b].loaded THEN \A n \in Listed(b) : Present(n)
            ELSE \A n \in Listed(b) \ env.taken : ~Present(n)
       /\ Range(Buffers) \subseteq DOMAIN tensors \/ Range(Buffers) \cap DOMAIN tensors = {}
=============================================================================
