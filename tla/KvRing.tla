------------------------------- MODULE KvRing -------------------------------
(***************************************************************************)
(* The KV memory of one Gemma 4 conversation: Gemma4KVCache                *)
(* (src/src/gemma4_kv_cache.hpp) driven by InferenceSession::Impl.         *)
(*                                                                         *)
(* A sliding layer keeps a ring of window + batch slots instead of the     *)
(* whole sequence.  Two numbers, position_ and written_until_, decide      *)
(* whether the conversation can be taken back to an earlier position.      *)
(* The module keeps both numbers next to the memory they speak about: what *)
(* each slot of each layer physically holds, a forward that writes layer   *)
(* after layer and may fail between two of them, and the conversation the  *)
(* rows are supposed to hold.                                              *)
(***************************************************************************)
EXTENDS Ranges

CONSTANTS
  NumLayers,    \* first_shared_layer_: the layers that own K/V memory
  Window,       \* windows_: per layer, 0 for a global layer
  MaxSeq,       \* max_seq_len_
  MaxPrefill,   \* max_prefill ("tanda"): the largest batch pushed at once
  Chunk,        \* kPrefillChunk: the largest batch of text
  Tokens,       \* what a row can be computed from
  NoToken       \* content of memory no forward has written

Layers == 0 .. NumLayers - 1

\* kPrefillChunk <= kScratchTokens, and attach() passes one of them as the batch.
ASSUME KvAssumption ==
  /\ NumLayers \in Nat
  /\ Window \in [Layers -> Nat]
  /\ MaxSeq \in Nat \ {0}
  /\ MaxPrefill \in Nat \ {0}
  /\ Chunk \in 1 .. MaxPrefill
  /\ NoToken \notin Tokens

VARIABLES
  position,     \* position_
  writtenUntil, \* written_until_
  ring,         \* K/V memory: ring[layer][slot] is the row <<position, token>>
  context,      \* the token each position of the conversation stands for
  forward       \* the forward in flight

vars == <<position, writtenUntil, ring, context, forward>>

\* ranuras: the ring of a layer, or the whole sequence when it has no window.
Slots(l) ==
  IF Window[l] = 0 THEN MaxSeq ELSE Smaller(Window[l] + MaxPrefill, MaxSeq)

Rows == (0 .. MaxSeq - 1) \X (Tokens \cup {NoToken})
Unwritten == <<0, NoToken>>

Kinds == {"text", "visual"}
Idle == [kind |-> "text", tokens |-> <<>>, layer |-> 0]
InFlight == forward.tokens # <<>>
BatchSize == Len(forward.tokens)
Batch == position .. position + BatchSize - 1

\* The first position a query at q still attends to in layer l.
Needed(l, q) == IF Window[l] = 0 \/ q < Window[l] THEN 0 ELSE q - Window[l] + 1

\* The oldest position the bookkeeping still believes to be in the ring of l.
Oldest(l) == IF writtenUntil > Slots(l) THEN writtenUntil - Slots(l) ELSE 0

\* Mutant of CanRewindTo: the query at p does not count itself in its window.
CanRewindTo_OffByOne(p) ==
  /\ p <= position
  /\ \A l \in Layers : Window[l] # 0 => Needed(l, p) + 1 >= Oldest(l)

\* can_rewind_to: only sliding layers can have lost anything.
CanRewindTo(p) ==
  /\ p <= position
  /\ \A l \in Layers : Window[l] # 0 => Needed(l, p) >= Oldest(l)

Clear ==
  /\ position' = 0
  /\ writtenUntil' = 0
  /\ context' = [p \in 0 .. MaxSeq - 1 |-> NoToken]

\* note_write_end: a high-water mark that only reset lowers.
NotedWriteEnd(end) ==
  IF end > writtenUntil THEN Smaller(end, MaxSeq) ELSE writtenUntil

\* The two guards of build_gemma4_layer_cached that a batch has to pass.
GraphAccepts ==
  /\ BatchSize <= MaxSeq - position
  /\ \A l \in Layers :
       Window[l] # 0 /\ Slots(l) < MaxSeq => Slots(l) >= Window[l] + BatchSize
-----------------------------------------------------------------------------
Init ==
  /\ position = 0
  /\ writtenUntil = 0
  /\ ring = [l \in Layers |-> [s \in 0 .. Slots(l) - 1 |-> Unwritten]]
  /\ context = [p \in 0 .. MaxSeq - 1 |-> NoToken]
  /\ forward = Idle

\* Mutant of BeginText: nothing is noted until the forward has succeeded.
BeginText_Unnoted(tokens) ==
  /\ ~InFlight
  /\ forward' = [kind |-> "text", tokens |-> tokens, layer |-> 0]
  /\ UNCHANGED <<position, writtenUntil, ring, context>>

(* forward_one and forward_batch: the end of the batch is noted before      *)
(* anything is dispatched, because a forward that fails has overwritten     *)
(* rows without moving the position.                                        *)
BeginText(tokens) ==
  /\ ~InFlight
  /\ forward' = [kind |-> "text", tokens |-> tokens, layer |-> 0]
  /\ writtenUntil' = NotedWriteEnd(position + Len(tokens))
  /\ UNCHANGED <<position, ring, context>>

(* The visual prefill goes through the adapter, which notes nothing; the    *)
(* session empties the cache if it fails.                                   *)
BeginVisual(tokens) ==
  /\ ~InFlight
  /\ forward' = [kind |-> "visual", tokens |-> tokens, layer |-> 0]
  /\ UNCHANGED <<position, writtenUntil, ring, context>>

(* What the ring of l holds once the batch is written: position p goes to   *)
(* slot p % slots.                                                          *)
Written(l) ==
  [s \in 0 .. Slots(l) - 1 |->
     IF \E p \in Batch : p % Slots(l) = s
     THEN LET p == CHOOSE p \in Batch : p % Slots(l) = s
          IN  <<p, forward.tokens[p - position + 1]>>
     ELSE ring[l][s]]

(* One layer of the forward: kv_cache_update writes the batch, then the     *)
(* attention of the same layer reads it back with the window before it.     *)
WriteLayer ==
  /\ InFlight
  /\ GraphAccepts
  /\ forward.layer \in Layers
  /\ ring' = [ring EXCEPT ![forward.layer] = Written(forward.layer)]
  /\ forward' = [forward EXCEPT !.layer = @ + 1]
  /\ UNCHANGED <<position, writtenUntil, context>>

(* All layers ran: advance() moves the position and the high-water mark.    *)
Complete ==
  /\ InFlight
  /\ GraphAccepts
  /\ forward.layer = NumLayers
  /\ position' = Smaller(position + BatchSize, MaxSeq)
  /\ writtenUntil' = NotedWriteEnd(position')
  /\ context' = [p \in 0 .. MaxSeq - 1 |->
                   IF p \in Batch THEN forward.tokens[p - position + 1] ELSE context[p]]
  /\ forward' = Idle
  /\ UNCHANGED ring

(* The graph is refused, or a kernel or a sync throws after any number of   *)
(* layers.  Text leaves the position where it was; a visual turn is cleared. *)
Fail ==
  /\ InFlight
  /\ forward' = Idle
  /\ UNCHANGED ring
  /\ \/ /\ forward.kind = "text"
        /\ UNCHANGED <<position, writtenUntil, context>>
     \/ /\ forward.kind = "visual"
        /\ Clear

\* Mutant of Rewind: the target is taken whether or not its rows are there.
Rewind_Unchecked(p) ==
  /\ ~InFlight
  /\ position' = p
  /\ context' = [q \in 0 .. MaxSeq - 1 |-> IF q < p THEN context[q] ELSE NoToken]
  /\ UNCHANGED <<writtenUntil, ring, forward>>

(* Impl::rewind: back to p if the rows it needs are still there, else empty. *)
Rewind(p) ==
  /\ ~InFlight
  /\ IF CanRewindTo(p)
     THEN /\ position' = p
          /\ context' = [q \in 0 .. MaxSeq - 1 |-> IF q < p THEN context[q] ELSE NoToken]
          /\ UNCHANGED writtenUntil
     ELSE Clear
  /\ UNCHANGED <<ring, forward>>

Reset ==
  /\ ~InFlight
  /\ Clear
  /\ UNCHANGED <<ring, forward>>

Batches(n) == UNION {[1 .. k -> Tokens] : k \in 1 .. n}

Next ==
  \/ \E tokens \in Batches(Chunk) : BeginText(tokens)
  \/ \E tokens \in Batches(MaxPrefill) : BeginVisual(tokens)
  \/ WriteLayer
  \/ Complete
  \/ Fail
  \/ \E p \in 0 .. position : Rewind(p)
  \/ Reset

Spec == Init /\ [][Next]_vars
-----------------------------------------------------------------------------
TypeOK ==
  /\ position \in 0 .. MaxSeq
  /\ writtenUntil \in 0 .. MaxSeq
  /\ DOMAIN ring = Layers
  /\ \A l \in Layers : ring[l] \in [0 .. Slots(l) - 1 -> Rows]
  /\ context \in [0 .. MaxSeq - 1 -> Tokens \cup {NoToken}]
  /\ forward \in [kind : Kinds, tokens : Seq(Tokens), layer : 0 .. NumLayers]

\* The row of position p that layer l holds is the one of the conversation.
Resident(l, p) == ring[l][p % Slots(l)] = <<p, context[p]>>

(* Between forwards, a position the cache agrees to go back to still has, in every layer, all *)
(* the rows its next query attends to, whatever failed or was overwritten   *)
(* since: the promise of can_rewind_to.                                     *)
RewindKeepsWindow ==
  ~InFlight => \A p \in 0 .. position : CanRewindTo(p) =>
    \A l \in Layers : \A q \in Needed(l, p) .. p - 1 : Resident(l, q)

(* The conversation can always continue from where it stands: no sequence   *)
(* of failed, cancelled and repeated forwards makes the cache disown the    *)
(* current position.                                                        *)
CanAlwaysContinue == CanRewindTo(position)

(* While a layer runs, every query of the batch finds, in that layer, the   *)
(* rows of its window with the content of this conversation: the batch does *)
(* not overwrite itself or the window before it.  An image block also       *)
(* attends forward within its batch.                                        *)
TokenAt(p) == IF p < position THEN context[p] ELSE forward.tokens[p - position + 1]

AttentionReadsConversation ==
  [][ \A l \in Layers : (forward.layer = l /\ forward'.layer = l + 1) =>
        \A q \in Batch :
          \A p \in Needed(l, q) .. (IF forward.kind = "visual" THEN position + BatchSize - 1 ELSE q) :
            ring'[l][p % Slots(l)] = <<p, TokenAt(p)>> ]_vars
-----------------------------------------------------------------------------
(* The inductive invariant behind the properties above.                     *)

\* The highest position any slot may hold a row of, one past.
HighWater ==
  IF InFlight
  THEN Larger(writtenUntil, Smaller(position + BatchSize, MaxSeq))
  ELSE writtenUntil

NotedBeforeDispatch ==
  InFlight /\ forward.kind = "text" => HighWater = writtenUntil

BatchFits ==
  /\ BatchSize <= MaxPrefill
  /\ forward.layer > 0 => InFlight /\ GraphAccepts

NotOverwritten ==
  \A l \in Layers : \A p \in 0 .. position - 1 :
    p + Slots(l) >= HighWater => Resident(l, p)

BatchWritten ==
  \A l \in Layers : l < forward.layer => \A p \in Batch :
    ring[l][p % Slots(l)] = <<p, forward.tokens[p - position + 1]>>

IInv ==
  /\ TypeOK
  /\ NotedBeforeDispatch
  /\ BatchFits
  /\ NotOverwritten
  /\ BatchWritten
  /\ CanAlwaysContinue
=============================================================================
