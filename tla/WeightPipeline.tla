---------------------------- MODULE WeightPipeline ----------------------------
(***************************************************************************)
(* MappedWeightPipeline with its double buffer, driven by the vision       *)
(* runner.  The weights of an image tower stay in mapped host memory and   *)
(* are brought phase by phase into one of two slots of VRAM: phase p is    *)
(* computed from one slot while phase p + 1 is copied into the other.      *)
(*                                                                         *)
(* The host only enqueues.  Two CUDA streams execute what they were given, *)
(* each in order and each at its own pace, and the only order between them *)
(* is that of the ready and released events of the slots.                  *)
(***************************************************************************)
EXTENDS Integers, Sequences

CONSTANTS
  Last,      \* the phases are 0 .. Last: patch embedder, layers, projector
  Mapped,    \* the phases whose tensors are file_mapped
  Bytes,     \* phase -> bytes of its range
  Kernels,   \* bound: kernels of a phase
  Images,    \* bound: images run, each through a pipeline of its own
  File       \* where a tensor points when no slot holds it

Phases == 0 .. Last
Slots == {0, 1}
None == -1

ASSUME PipelineAssumption ==
  /\ Last \in Nat /\ Mapped \subseteq Phases
  /\ Bytes \in [Phases -> Nat]
  /\ Kernels \in Nat /\ Images \in Nat
  /\ File \notin Slots

VARIABLES
  host,       \* the runner: what it does next, with which phase, images begun
  active,     \* phase_active_, phase_is_mapped_, active_slot_, active_release_recorded_
  prefetched, \* prefetched_ and prefetched_slot_
  slots,      \* capacity and has_release of each slot; capacity 0 without memory
  registry,   \* where the tensors of each phase point, in the TensorRegistry
  events,     \* of each event: records enqueued and records executed
  compute,    \* compute_stream_: what it has still to execute
  copier,     \* copy_stream_: the same
  content     \* the phase whose bytes are in each slot

pipeline == <<host, active, prefetched, slots, registry, events, compute, copier, content>>
gpu == <<events, compute, copier, content>>

Inactive == [phase |-> None, slot |-> None, released |-> FALSE]
Nothing == [phase |-> None, slot |-> None]

\* What a stream executes.  The ticket of a record is its number among those
\* of its event, the one a wait enqueued after it asks for.
Copy(p, s) == [op |-> "copy", phase |-> p, slot |-> s, event |-> "none", ticket |-> 0]
Kernel(p, where) == [op |-> "kernel", phase |-> p, slot |-> where, event |-> "none", ticket |-> 0]
Record(e, s) == [op |-> "record", phase |-> None, slot |-> s, event |-> e, ticket |-> events[<<e, s>>].made + 1]
(* cudaStreamWaitEvent waits for the last record enqueued when it is called. *)
Wait(e, s) == [op |-> "wait", phase |-> None, slot |-> s, event |-> e, ticket |-> events[<<e, s>>].made]

Events == {"ready", "released"} \X Slots
Made(e, s) == events' = [events EXCEPT ![<<e, s>>].made = @ + 1]
Reached(e, s) == events[<<e, s>>].done = events[<<e, s>>].made

PipelineInit ==
  /\ host = [at |-> "idle", phase |-> 0, left |-> 0, images |-> 0]
  /\ active = Inactive
  /\ prefetched = Nothing
  /\ slots = [s \in Slots |-> [capacity |-> 0, hasRelease |-> FALSE]]
  /\ registry = [p \in Phases |-> File]
  /\ events = [e \in Events |-> [made |-> 0, done |-> 0]]
  /\ compute = <<>> /\ copier = <<>>
  /\ content = [s \in Slots |-> None]
-----------------------------------------------------------------------------
(* The streams.  A step reads or writes a whole slot: whatever two streams  *)
(* could do to it at the same time, they may do here in either order.       *)

Execute(op) ==
  /\ op.op = "wait" => events[<<op.event, op.slot>>].done >= op.ticket
  /\ content' = IF op.op = "copy" THEN [content EXCEPT ![op.slot] = op.phase] ELSE content
  /\ events' = IF op.op = "record" THEN [events EXCEPT ![<<op.event, op.slot>>].done = @ + 1]
               ELSE events

ComputeStep ==
  /\ compute # <<>>
  /\ Execute(Head(compute))
  /\ compute' = Tail(compute)
  /\ UNCHANGED <<host, active, prefetched, slots, registry, copier>>

CopyStep ==
  /\ copier # <<>>
  /\ Execute(Head(copier))
  /\ copier' = Tail(copier)
  /\ UNCHANGED <<host, active, prefetched, slots, registry, compute>>
-----------------------------------------------------------------------------
(* ensure_slot.  A slot too small is freed and allocated again, once its    *)
(* last release has been reached; the allocation may fail.                  *)

Fits(s, p) == slots[s].capacity >= Bytes[p]

Free(s) == slots[s].hasRelease => Reached("released", s)

Grown(s, p) ==
  IF Fits(s, p) THEN slots
  ELSE [slots EXCEPT ![s] = [capacity |-> Bytes[p], hasRelease |-> FALSE]]

EnsureSlot(s, p) == Fits(s, p) \/ Free(s)
EnsureFails(s, p) ==
  /\ ~Fits(s, p) /\ Free(s)
  /\ slots' = [slots EXCEPT ![s].capacity = 0]

\* The runner gives up the image; its phase guard has nothing to close.
AbandonImage == host' = [host EXCEPT !.at = "done", !.phase = 0]

\* The phase is active: its kernels are next.
Opened(p, s) ==
  /\ active' = [phase |-> p, slot |-> s, released |-> FALSE]
  /\ registry' = IF s = None THEN registry ELSE [registry EXCEPT ![p] = s]
  /\ host' = [host EXCEPT !.at = "launch", !.left = Kernels]

Begins(p) == host.at = "begin" /\ host.phase = p /\ active.phase = None

\* A resident phase needs no work, and asks nothing of a prefetched one.
BeginResident(p) ==
  /\ Begins(p) /\ p \notin Mapped
  /\ Opened(p, None)
  /\ UNCHANGED <<prefetched, slots, gpu>>

\* The compute stream waits for the copy of the phase, the host does not.
BeginPrefetched(p) ==
  /\ Begins(p) /\ p \in Mapped /\ prefetched.phase = p
  /\ compute' = Append(compute, Wait("ready", prefetched.slot))
  /\ Opened(p, prefetched.slot)
  /\ prefetched' = Nothing
  /\ UNCHANGED <<slots, events, copier, content>>

\* The first phase is copied by the compute stream itself, into slot 0.  A phase
\* that is not the prefetched one is refused: PrefetchedIsNext, there is none.
BeginCopying(p) ==
  /\ Begins(p) /\ p \in Mapped /\ prefetched.slot = None
  /\ \/ /\ EnsureSlot(0, p)
        /\ slots' = Grown(0, p)
        /\ compute' = Append(compute, Copy(p, 0))
        /\ Opened(p, 0)
        /\ UNCHANGED <<events, copier, content>>
     \/ /\ EnsureFails(0, p)
        /\ AbandonImage
        /\ UNCHANGED <<active, registry, gpu>>
  /\ UNCHANGED prefetched

\* A kernel is given the pointer the registry has when it is launched.
Launch ==
  /\ host.at = "launch" /\ host.left > 0
  /\ compute' = Append(compute, Kernel(active.phase, registry[active.phase]))
  /\ host' = [host EXCEPT !.left = @ - 1]
  /\ UNCHANGED <<active, prefetched, slots, registry, events, copier, content>>
-----------------------------------------------------------------------------
(* record_active_release: only once for each phase.                         *)
Releases == active.slot # None /\ ~active.released

RecordRelease ==
  IF Releases
  THEN compute' = Append(compute, Record("released", active.slot)) /\ Made("released", active.slot)
  ELSE UNCHANGED <<compute, events>>

Released(state) ==
  IF Releases THEN [state EXCEPT ![active.slot].hasRelease = TRUE] ELSE state

\* The registry gets its pointers back; a release that is missing is recorded.
EndPhase ==
  /\ RecordRelease
  /\ slots' = Released(slots)
  /\ registry' = [p \in Phases |-> IF p = active.phase THEN File ELSE registry[p]]
  /\ active' = Inactive

Close ==
  /\ \/ host.at = "close"
     \/ host.at = "launch" /\ host.left = 0 /\ host.phase = Last
  /\ EndPhase
  /\ host' = IF host.phase = Last THEN [host EXCEPT !.at = "done", !.phase = 0]
             ELSE [host EXCEPT !.at = "begin", !.phase = @ + 1]
  /\ UNCHANGED <<prefetched, copier, content>>

\* Mutant of LayerFails: an early return without the guard.
LayerFails_Unguarded ==
  /\ host.at = "launch"
  /\ RecordRelease
  /\ slots' = Released(slots)
  /\ active' = Inactive
  /\ AbandonImage
  /\ UNCHANGED <<prefetched, registry, copier, content>>

\* A layer fails after some of its kernels: the guard closes the phase.
LayerFails ==
  /\ host.at = "launch"
  /\ EndPhase
  /\ AbandonImage
  /\ UNCHANGED <<prefetched, copier, content>>

\* The runner fails between two phases: the pooler, scratch of the next layer.
BetweenPhases ==
  /\ host.at = "begin" /\ host.phase > 0
  /\ AbandonImage
  /\ UNCHANGED <<active, prefetched, slots, registry, gpu>>

(* prefetch_phase, after the last kernel of the phase.                      *)
Prefetching(next) ==
  host.at = "launch" /\ host.left = 0 /\ host.phase < Last /\ next = host.phase + 1

Other == 1 - active.slot

PrefetchNothing(next) ==
  /\ Prefetching(next)
  /\ active.slot = None \/ next \notin Mapped
  /\ RecordRelease
  /\ slots' = Released(slots)
  /\ host' = [host EXCEPT !.at = "close"]
  /\ active' = [active EXCEPT !.released = Releases]
  /\ UNCHANGED <<prefetched, registry, copier, content>>

(* The active slot is released before the copy of the next phase is         *)
(* enqueued, after what that copy has to wait for.                          *)
PrefetchAfter(next, waits) ==
  /\ Prefetching(next)
  /\ active.slot # None /\ prefetched.slot = None
  /\ EnsureSlot(Other, next)
  /\ slots' = Released(Grown(Other, next))
  /\ compute' = Append(compute, Record("released", active.slot))
  /\ copier' = copier \o waits \o <<Copy(next, Other), Record("ready", Other)>>
  /\ events' = [events EXCEPT ![<<"released", active.slot>>].made = @ + 1, ![<<"ready", Other>>].made = @ + 1]
  /\ prefetched' = [phase |-> next, slot |-> Other]
  /\ active' = [active EXCEPT !.released = TRUE]
  /\ host' = [host EXCEPT !.at = "close"]
  /\ UNCHANGED <<registry, content>>

\* Memory just allocated has nothing to wait for.
LastRelease(next) ==
  IF Grown(Other, next)[Other].hasRelease THEN <<Wait("released", Other)>> ELSE <<>>

\* Mutant of Prefetch: the other slot is overwritten without waiting.
Prefetch_Unreleased(next) == next \in Mapped /\ PrefetchAfter(next, <<>>)

Prefetch(next) == next \in Mapped /\ PrefetchAfter(next, LastRelease(next))

\* The phase guard records the release when the slot could not be allocated.
PrefetchFails(next) ==
  /\ Prefetching(next)
  /\ active.slot # None /\ next \in Mapped
  /\ ~Fits(Other, next) /\ Free(Other)
  /\ RecordRelease
  /\ slots' = [Released(slots) EXCEPT ![Other].capacity = 0]
  /\ registry' = [registry EXCEPT ![active.phase] = File]
  /\ active' = Inactive
  /\ AbandonImage
  /\ UNCHANGED <<prefetched, copier, content>>
-----------------------------------------------------------------------------
NewImage ==
  /\ host.at = "idle" /\ host.images < Images
  /\ host' = [host EXCEPT !.at = "begin", !.images = @ + 1]
  /\ UNCHANGED <<active, prefetched, slots, registry, gpu>>

\* Mutant of Release: the copies are over, but a phase may still be computing.
Release_CopiesOnly ==
  /\ host.at = "done" /\ copier = <<>>
  /\ slots' = [s \in Slots |-> [capacity |-> 0, hasRelease |-> FALSE]]
  /\ prefetched' = Nothing
  /\ host' = [host EXCEPT !.at = "idle"]
  /\ UNCHANGED <<active, registry, gpu>>

\* release: the copy stream is drained and the last releases are reached.  The
\* runner, and its pipeline, live for one image.
Release ==
  /\ host.at = "done" /\ copier = <<>>
  /\ \A s \in Slots : Free(s)
  /\ slots' = [s \in Slots |-> [capacity |-> 0, hasRelease |-> FALSE]]
  /\ prefetched' = Nothing
  /\ host' = [host EXCEPT !.at = "idle"]
  /\ UNCHANGED <<active, registry, gpu>>

PipelineNext ==
  \/ ComputeStep \/ CopyStep
  \/ \E p \in Phases : BeginResident(p) \/ BeginPrefetched(p) \/ BeginCopying(p)
  \/ Launch
  \/ \E next \in Phases : PrefetchNothing(next) \/ Prefetch(next) \/ PrefetchFails(next)
  \/ Close \/ LayerFails \/ BetweenPhases
  \/ NewImage \/ Release

PipelineSpec == PipelineInit /\ [][PipelineNext]_pipeline
-----------------------------------------------------------------------------
Queued == {compute[i] : i \in DOMAIN compute} \cup {copier[i] : i \in DOMAIN copier}

PipelineTypeOK ==
  /\ host.at \in {"idle", "begin", "launch", "close", "done"}
  /\ host.phase \in Phases /\ host.left \in 0 .. Kernels /\ host.images \in 0 .. Images
  /\ active.phase \in Phases \cup {None} /\ active.slot \in Slots \cup {None}
  /\ prefetched.phase \in Mapped \cup {None} /\ prefetched.slot \in Slots \cup {None}
  /\ content \in [Slots -> Mapped \cup {None}]
  /\ registry \in [Phases -> Slots \cup {File}]

(* A kernel reads the weights of its own phase: the slot it was given holds *)
(* them when the kernel runs, whatever the copy stream is doing.            *)
KernelsReadTheirWeights ==
  compute # <<>> /\ Head(compute).op = "kernel" /\ Head(compute).slot # File
    => content[Head(compute).slot] = Head(compute).phase

(* The memory of a slot is freed, to grow or at the end, only when neither  *)
(* stream has anything left that reads it or writes it.                     *)
SlotsFreedWhenIdle ==
  [][ \A s \in Slots : slots'[s].capacity # slots[s].capacity =>
        \A op \in Queued : op.op \in {"copy", "kernel"} => op.slot # s ]_pipeline

(* Whatever way the runner leaves a phase, the registry points to the file  *)
(* again: no tensor keeps pointing to a slot another phase will fill.       *)
PointersRestored ==
  \A p \in Phases : registry[p] # File => active.phase = p /\ registry[p] = active.slot

(* What is prefetched is the phase the runner begins next, so that no phase *)
(* is refused for being out of order.  An image left half way may leave a   *)
(* phase that nothing takes back before the pipeline is released.           *)
PrefetchedIsNext ==
  prefetched.slot # None =>
    \/ host.at = "close" /\ prefetched.phase = host.phase + 1
    \/ host.at = "begin" /\ prefetched.phase = host.phase
    \/ host.at = "done"

(* However a phase is left, its tensors point to the file again, and what is *)
(* prefetched is the phase that is begun next.                              *)
RegistryRestored == PointersRestored /\ PrefetchedIsNext
=============================================================================
