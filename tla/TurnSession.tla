---------------------------- MODULE TurnSession ----------------------------
(***************************************************************************)
(* InferenceSession::run_turn (src/src/inference_session.cpp): one turn    *)
(* after another over the KV of one conversation.                          *)
(*                                                                         *)
(* A step is what happens between two reads of the cancellation flag, or   *)
(* one forward of the model, which may fail.  The KV is the sequence of    *)
(* the tokens its positions stand for (what its memory holds is KvRing);   *)
(* position() is its length.                                               *)
(***************************************************************************)
EXTENDS Integers, Sequences, SequencesExt

CONSTANTS
  Tokens,       \* the vocabulary
  Requests,     \* the turns a caller may ask for
  MaxSeq,       \* kv_config.max_seq_len
  Window,       \* of the sliding layers, 0 if the model has none
  Slots,        \* of their ring
  Chunk,        \* kPrefillChunk
  Soft,         \* soft tokens an attachment expands to
  MaxPrefill,   \* most tokens the adapter accepts
  Adapters,     \* prefix_is_text() of the adapters a session may have: only the marker is its own
  IsGemma4,     \* is_gemma4
  Sampled,      \* tokens the sampler may return
  MaxVisible, MaxThinking, Slack,   \* hard_cap is their sum; Slack is the 64
  MaxTurns      \* bound: turns and resets of one behaviour

(* Tokens with a meaning for run_turn; any other is text.                   *)
Bos == "bos"
Marker == "img"
SoftToken == "soft"
TurnEnd == "end"
NewLine == "nl"
StopToken == "stop"
ThinkOpen == "open"
ThinkClose == "close"
Special == {Bos, Marker, SoftToken, TurnEnd, NewLine, StopToken, ThinkOpen, ThinkClose}

ASSUME SessionAssumption ==
  /\ {MaxSeq, Slots, Chunk, Soft, MaxPrefill, MaxVisible} \subseteq Nat \ {0}
  /\ {Window, MaxThinking, Slack, MaxTurns} \subseteq Nat
  /\ Adapters \subseteq BOOLEAN /\ Adapters # {}
  /\ IsGemma4 \in BOOLEAN
  /\ ~IsGemma4 => Window = 0
  /\ Requests # {}
  /\ Requests \subseteq [ids : Seq(Tokens) \ {<<>>, <<Bos>>}, preformatted : BOOLEAN, reuse : BOOLEAN,
                         image : BOOLEAN, close : BOOLEAN]
  /\ Sampled \subseteq Tokens /\ Special \subseteq Tokens

HardCap == MaxVisible + MaxThinking + Slack

VARIABLES
  rows,          \* the conversation in the KV, one token per position
  writtenUntil,  \* written_until_ of the cache
  kvTokens,      \* kv_tokens
  kvTracked,     \* kv_tracked
  published,     \* published_position
  cancel,        \* cancel_flag of the turn
  at,            \* where run_turn is
  turn,          \* its locals
  answer,        \* what the last turn returned
  turns          \* bound: how many were asked for

kv == <<rows, writtenUntil, kvTokens, kvTracked, published>>
vars == <<kv, cancel, at, turn, answer, turns>>

Smaller(a, b) == IF a < b THEN a ELSE b
Larger(a, b) == IF a > b THEN a ELSE b
Prefix(s, n) == SubSeq(s, 1, n)
Without(s, n) == SubSeq(s, n + 1, Len(s))
Position == Len(rows)

NoAnswer == [ok |-> TRUE, code |-> "", reason |-> "eos", position |-> 0]
-----------------------------------------------------------------------------
(* The KV of the session.                                                   *)

NotedUntil(end) == Larger(writtenUntil, Smaller(end, MaxSeq))

\* can_rewind, given how far the ring has been written.
CanRewind(p, written) ==
  /\ p <= Position
  /\ Window # 0 =>
       (IF p < Window THEN 0 ELSE p - Window + 1) >= (IF written > Slots THEN written - Slots ELSE 0)

\* Mutant of Clear: the list of tokens outlives the KV it describes.
Clear_KeepsTokens ==
  /\ rows' = <<>> /\ writtenUntil' = 0
  /\ kvTracked' = TRUE /\ published' = 0
  /\ UNCHANGED kvTokens

Clear ==
  /\ rows' = <<>> /\ writtenUntil' = 0
  /\ kvTokens' = <<>> /\ kvTracked' = TRUE /\ published' = 0

\* rewind: to p if its window is still there, else to nothing.
Rewind(p, written) ==
  IF CanRewind(p, written)
  THEN /\ rows' = Prefix(rows, p)
       /\ writtenUntil' = written
       /\ kvTokens' = Prefix(kvTokens, Smaller(p, Len(kvTokens)))
       /\ published' = p
       /\ UNCHANGED kvTracked
  ELSE Clear

\* A text forward that succeeds: note_write_end, advance, kv_tokens.
Push(tokens) ==
  /\ rows' = rows \o tokens
  /\ writtenUntil' = NotedUntil(Position + Len(tokens))
  /\ kvTokens' = IF kvTracked THEN kvTokens \o tokens ELSE kvTokens
  /\ published' = Position + Len(tokens)
  /\ UNCHANGED kvTracked

\* The adapter succeeded: advance, then untrack.
PushUntracked(tokens) ==
  /\ rows' = rows \o tokens
  /\ writtenUntil' = NotedUntil(Position + Len(tokens))
  /\ kvTokens' = <<>> /\ kvTracked' = FALSE
  /\ published' = Position + Len(tokens)
-----------------------------------------------------------------------------
NewTurn(req, around) ==
  [req |-> req, around |-> around, before |-> rows, tracked |-> kvTracked, antes |-> 0, base |-> 0, reused |-> 0,
   left |-> <<>>, stage |-> "text", processed |-> 0, head |-> <<>>, headTokens |-> 0,
   after |-> <<>>, sequence |-> 0, cancelled |-> FALSE, prefillTokens |-> 0, events |-> 0,
   generated |-> 0, thinking |-> 0, inThink |-> FALSE, thinkCut |-> FALSE, natural |-> FALSE,
   visible |-> 0, prompted |-> <<>>, out |-> <<>>, reason |-> "eos", closing |-> <<>>]

Init ==
  /\ rows = <<>> /\ writtenUntil = 0
  /\ kvTokens = <<>> /\ kvTracked = TRUE /\ published = 0
  /\ cancel = FALSE
  /\ at = "idle"
  /\ \E around \in Adapters : turn = NewTurn(CHOOSE r \in Requests : TRUE, around)
  /\ answer = NoAnswer
  /\ turns = 0

Goes(where, locals) == at' = where /\ turn' = locals /\ UNCHANGED <<cancel, answer, turns>>
Return(ok, code, reason, position, locals) ==
  /\ at' = "idle"
  /\ turn' = locals
  /\ answer' = [ok |-> ok, code |-> code, reason |-> reason, position |-> position]
  /\ UNCHANGED <<cancel, turns>>
Refuse(code, position) == Return(FALSE, code, turn.reason, position, turn)
ReturnCancelled(position) == Return(TRUE, "", "cancelled", position, turn)

Ask(req) ==
  /\ at = "idle" /\ turns < MaxTurns
  /\ at' = "wait" /\ turn' = NewTurn(req, turn.around) /\ cancel' = FALSE /\ turns' = turns + 1
  /\ UNCHANGED <<kv, answer>>

\* The caller, another thread or a callback raises the flag at any moment.
Cancel ==
  /\ at # "idle" /\ ~cancel
  /\ cancel' = TRUE
  /\ UNCHANGED <<kv, at, turn, answer, turns>>

Reset ==
  /\ at = "idle" /\ turns < MaxTurns
  /\ turns' = turns + 1
  /\ Clear
  /\ turn' = NewTurn(turn.req, turn.around) /\ answer' = NoAnswer
  /\ UNCHANGED <<cancel, at>>

\* Waiting for the model in slices of 5 ms, with a look at the flag before each.
GiveUpWaiting ==
  /\ at = "wait" /\ cancel
  /\ ReturnCancelled(published)
  /\ UNCHANGED kv

Lock ==
  /\ at = "wait"
  /\ IF cancel
     THEN ReturnCancelled(Position)
     ELSE Goes("encode", [turn EXCEPT !.antes = Position])
  /\ UNCHANGED kv

\* Stop tokens, prompt shape, attachments: everything refused with the KV untouched.
RefuseRequest ==
  /\ at = "encode"
  /\ Refuse("invalid_request", turn.antes)
  /\ UNCHANGED kv

\* A template puts its BOS only where the conversation starts.
Encoded(req) ==
  IF ~req.preformatted /\ Position > 0 /\ Head(req.ids) = Bos THEN Tail(req.ids) ELSE req.ids

Encode ==
  /\ at = "encode"
  /\ Goes("reuse", [turn EXCEPT !.left = Encoded(turn.req)])
  /\ UNCHANGED kv

PrefixUsable == kvTracked /\ Len(kvTokens) = Position
Reuses == turn.req.preformatted /\ turn.req.reuse /\ ~turn.req.image /\ PrefixUsable

\* The length of the common prefix of kv_tokens and the prompt, as a singleton.
Common ==
  LET most == Smaller(Len(kvTokens), Len(turn.left))
  IN  {n \in 0 .. most : /\ Prefix(kvTokens, n) = Prefix(turn.left, n)
                         /\ n = most \/ kvTokens[n + 1] # turn.left[n + 1]}

\* One token is always left for the forward that has to produce the logits.
Target(common) == IF common = Len(turn.left) /\ common > 0 THEN common - 1 ELSE common

\* Mutant of Kept: the prefix is kept without asking the ring for it.
Kept_Unasked(common) == IF Reuses THEN Target(common) ELSE 0

\* The positions kept of a KV that the prompt resends.
Kept(common) ==
  IF Reuses /\ CanRewind(Target(common), writtenUntil) THEN Target(common) ELSE 0

ReusePrefix ==
  /\ at = "reuse" /\ ~cancel
  /\ \E common \in Common :
       LET kept == Kept(common)
           left == Without(turn.left, kept)
           locals == [turn EXCEPT !.left = left, !.base = Len(rows'), !.reused = kept]
       IN  /\ IF ~Reuses THEN UNCHANGED kv
              ELSE IF kept > 0 THEN Rewind(kept, writtenUntil) ELSE Clear
           /\ IF Len(rows') + Len(left) + 8 >= MaxSeq
              THEN Return(FALSE, "context_full", "eos", Len(rows'), locals)
              ELSE Goes("prefill", locals)

CancelBeforePrefill ==
  /\ at = "reuse" /\ cancel
  /\ ReturnCancelled(turn.antes)
  /\ UNCHANGED kv
-----------------------------------------------------------------------------
(* A forward throws after note_write_end.  What the client has not seen is  *)
(* taken back; what it has seen stays as far as it was processed.           *)
Threw(written, locals) ==
  /\ IF locals.req.image THEN Clear
     ELSE IF locals.visible = 0 THEN Rewind(locals.base, written)
     ELSE writtenUntil' = written /\ UNCHANGED <<rows, kvTokens, kvTracked, published>>
  /\ Return(FALSE, "engine_failure", locals.reason, Len(rows'), locals)

\* Where the attachment goes: a singleton, or empty without a marker.
MarkerAt ==
  {i \in DOMAIN turn.left : turn.left[i] = Marker /\ \A j \in 1 .. i - 1 : turn.left[j] # Marker}

PrefillText ==
  /\ at = "prefill"
  /\ cancel \/ ~turn.req.image
  /\ IF cancel THEN Goes("prefilled", [turn EXCEPT !.cancelled = TRUE]) ELSE Goes("batch", turn)
  /\ UNCHANGED kv

\* The text around an attachment may use the ordinary prefill.
PrefillImage ==
  /\ at = "prefill" /\ ~cancel /\ turn.req.image
  /\ \/ /\ ~turn.around
        /\ Goes("image", [turn EXCEPT !.sequence = Len(turn.left) + Soft - 1])
     \/ /\ turn.around /\ MarkerAt = {}
        /\ Refuse("image_marker_mismatch", turn.base)
     \/ /\ turn.around
        /\ \E i \in MarkerAt :
             LET head == Prefix(turn.left, i - 1)
             IN  Goes(IF head = <<>> THEN "image" ELSE "batch",
                      [turn EXCEPT !.stage = "head", !.left = head, !.head = head,
                         !.after = Without(turn.left, i), !.sequence = Soft])
  /\ UNCHANGED kv

\* forward_batch: the flag is read before each chunk and after the last.
Batch ==
  /\ at = "batch" /\ ~cancel /\ turn.left # <<>>
  /\ LET n == Smaller(Chunk, Len(turn.left))
     IN  \/ /\ Position + n <= MaxSeq
            /\ Push(Prefix(turn.left, n))
            /\ Goes("batch", [turn EXCEPT !.left = Without(@, n), !.processed = @ + n])
         \/ Threw(NotedUntil(Position + n), turn)

EndBatch ==
  /\ at = "batch" /\ (cancel \/ turn.left = <<>>)
  /\ LET ended == [turn EXCEPT !.cancelled = cancel, !.processed = 0]
     IN  IF turn.stage = "head"
         THEN Goes("image", [ended EXCEPT !.headTokens = turn.processed])
         ELSE Goes("prefilled", [ended EXCEPT !.prefillTokens =
                                   turn.headTokens + turn.sequence + turn.processed])
  /\ UNCHANGED kv

\* What the adapter writes: the attachment, and the text if it is not causal.
SoftRows == [i \in 1 .. Soft |-> SoftToken]
Expansions ==
  IF turn.around THEN {SoftRows}
  ELSE {Prefix(turn.left, i - 1) \o SoftRows \o Without(turn.left, i) : i \in MarkerAt}

\* The attachment is not valid: the head is taken back, the statistics stay.
InvalidAttachment ==
  /\ at = "image"
  /\ IF turn.head # <<>> THEN Rewind(turn.base, writtenUntil) ELSE UNCHANGED kv
  /\ Refuse("invalid_attachment", turn.base)

\* Mutant of AdapterFails: the position reported is the one from before the image.
AdapterFails_Stale ==
  /\ at = "image" /\ ~turn.cancelled
  /\ Clear
  /\ Refuse("attachment_prefill_failed", turn.base)

AdapterFails ==
  /\ at = "image" /\ ~turn.cancelled
  /\ Clear
  /\ Refuse("attachment_prefill_failed", 0)

AdapterPrefills ==
  /\ at = "image" /\ ~turn.cancelled
  /\ turn.sequence <= MaxPrefill /\ turn.sequence <= MaxSeq - Position
  /\ \E expanded \in Expansions : PushUntracked(expanded)
  /\ IF turn.after = <<>>
     THEN Goes("prefilled", [turn EXCEPT !.left = <<>>,
                               !.prefillTokens = turn.headTokens + turn.sequence])
     ELSE Goes("batch", [turn EXCEPT !.stage = "after", !.left = turn.after])

SkipAdapter ==
  /\ at = "image" /\ turn.cancelled
  /\ Goes("prefilled", turn)
  /\ UNCHANGED kv

\* Mutant of Prefilled: a cancelled prompt stays in the KV as far as it got.
Prefilled_Kept ==
  /\ at = "prefilled"
  /\ LET locals == [turn EXCEPT !.events = @ + 1]
     IN  IF turn.cancelled \/ cancel
         THEN Return(TRUE, "", "cancelled", Position, locals)
         ELSE Goes("decode", [locals EXCEPT !.prompted = rows])
  /\ UNCHANGED kv

\* on_prefill is called however the prefill ended.
Prefilled ==
  /\ at = "prefilled"
  /\ LET locals == [turn EXCEPT !.events = @ + 1]
     IN  IF turn.cancelled \/ cancel
         THEN /\ Rewind(turn.base, writtenUntil)
              /\ Return(TRUE, "", "cancelled", Len(rows'), locals)
         ELSE Goes("decode", [locals EXCEPT !.prompted = rows]) /\ UNCHANGED kv
-----------------------------------------------------------------------------
(* One iteration of the decode loop: why it stops, or the token it adds.    *)

\* Mutant of Full: no room is kept, and the comparison is off by one.
Full_Late == Position > MaxSeq

Full == Position + 4 >= MaxSeq

Stops(next) ==
  CASE turn.generated >= HardCap -> "max_tokens"
    [] turn.generated < HardCap /\ cancel -> "cancelled"
    [] turn.generated < HardCap /\ ~cancel /\ next = TurnEnd -> "eos"
    [] turn.generated < HardCap /\ ~cancel /\ next = StopToken -> "stop"
    [] turn.generated < HardCap /\ ~cancel /\ next \notin {TurnEnd, StopToken} /\ Full -> "context_full"
    [] OTHER -> "goes on"

StopDecode(next) ==
  /\ at = "decode" /\ Stops(next) # "goes on"
  /\ Goes("ending", [turn EXCEPT !.reason = Stops(next), !.natural = Stops(next) = "eos"])
  /\ UNCHANGED kv

\* What the loop has counted and shown when it gives a token to the model.
Counted(next) ==
  LET inside == turn.inThink \/ next = ThinkOpen
      counted == [turn EXCEPT !.generated = @ + 1, !.out = Append(@, next)]
  IN  IF inside THEN [counted EXCEPT !.inThink = next # ThinkClose, !.thinking = @ + 1]
      ELSE [counted EXCEPT !.visible = @ + 1]

CutsThinking(next) ==
  Counted(next).inThink /\ Counted(next).thinking >= MaxThinking

\* A thought over its budget is closed in the KV, instead of its last token.
CutThought(next) ==
  [Counted(next) EXCEPT !.inThink = FALSE, !.thinkCut = TRUE, !.out = Append(turn.out, ThinkClose)]

\* Mutant of Decode: the budget is checked before the token enters the KV.
Decode_BudgetFirst(next) ==
  /\ at = "decode" /\ Stops(next) = "goes on"
  /\ IF CutsThinking(next)
     THEN Push(<<ThinkClose>>) /\ Goes("decode", CutThought(next))
     ELSE IF Counted(next).visible >= MaxVisible
     THEN Goes("ending", [Counted(next) EXCEPT !.reason = "max_tokens"]) /\ UNCHANGED kv
     ELSE Push(<<next>>) /\ Goes("decode", Counted(next))

(* Any other token enters the KV, even when it is the last one of the       *)
(* budget.                                                                  *)
Decode(next) ==
  /\ at = "decode" /\ Stops(next) = "goes on"
  /\ IF CutsThinking(next)
     THEN Push(<<ThinkClose>>) /\ Goes("decode", CutThought(next))
     ELSE /\ Push(<<next>>)
          /\ Goes(IF Counted(next).visible >= MaxVisible THEN "ending" ELSE "decode",
                  [Counted(next) EXCEPT !.reason =
                     IF Counted(next).visible >= MaxVisible THEN "max_tokens" ELSE @])

\* The token was shown before its forward, which fails.
DecodeThrows(next) ==
  /\ at = "decode" /\ Stops(next) = "goes on"
  /\ Threw(NotedUntil(Position + 1),
           IF CutsThinking(next) THEN [CutThought(next) EXCEPT !.generated = turn.generated]
           ELSE Counted(next))

\* Mutant of NeedsClosing: the terminal the model sampled is taken to be in the KV.
NeedsClosing_OnlyForced == turn.req.close /\ (turn.reason # "eos" \/ turn.thinkCut)

\* Gemma 4 always closes; ChatML only what the runtime cut.
NeedsClosing ==
  turn.req.close /\ ((IsGemma4 /\ turn.natural) \/ turn.reason # "eos" \/ turn.thinkCut)

EndDecode ==
  /\ at = "ending"
  /\ IF turn.reason = "cancelled" /\ turn.generated = 0
     THEN /\ Rewind(turn.base, writtenUntil)
          /\ Return(TRUE, "", "cancelled", Len(rows'), turn)
     ELSE /\ Goes("closing", [turn EXCEPT !.closing =
                                IF NeedsClosing THEN <<TurnEnd, NewLine>> ELSE <<>>])
          /\ UNCHANGED kv

CloseTurn ==
  /\ at = "closing"
  /\ IF turn.closing = <<>> \/ Position + 2 >= MaxSeq
     THEN Return(TRUE, "", turn.reason, Position, turn) /\ UNCHANGED kv
     ELSE \/ /\ Push(<<Head(turn.closing)>>)
             /\ Goes("closing", [turn EXCEPT !.closing = Tail(@)])
          \/ Threw(NotedUntil(Position + 1), turn)
-----------------------------------------------------------------------------
Next ==
  \/ \E req \in Requests : Ask(req)
  \/ Cancel \/ Reset \/ GiveUpWaiting \/ Lock \/ RefuseRequest \/ Encode
  \/ ReusePrefix \/ CancelBeforePrefill
  \/ PrefillText \/ PrefillImage \/ Batch \/ EndBatch
  \/ InvalidAttachment \/ AdapterFails \/ AdapterPrefills \/ SkipAdapter \/ Prefilled
  \/ \E next \in Sampled : StopDecode(next) \/ Decode(next) \/ DecodeThrows(next)
  \/ EndDecode \/ CloseTurn

Spec == Init /\ [][Next]_vars
-----------------------------------------------------------------------------
Places == {"idle", "wait", "encode", "reuse", "prefill", "batch", "image", "prefilled",
           "decode", "ending", "closing"}
Reasons ==
  {"eos", "stop", "max_tokens", "context_full", "cancelled"}

Codes ==
  {"", "invalid_request", "context_full", "image_marker_mismatch", "invalid_attachment",
   "attachment_prefill_failed", "engine_failure"}

TokenSeqs == Seq(Tokens)
Turn ==
  [req : Requests, around : Adapters, before : TokenSeqs, tracked : BOOLEAN, antes : Nat, base : Nat, reused : Nat,
   left : TokenSeqs, stage : {"text", "head", "after"}, processed : Nat, head : TokenSeqs,
   headTokens : Nat, after : TokenSeqs, sequence : Nat, cancelled : BOOLEAN, prefillTokens : Nat,
   events : Nat, generated : Nat, thinking : Nat, inThink : BOOLEAN, thinkCut : BOOLEAN,
   natural : BOOLEAN, visible : Nat, prompted : TokenSeqs, out : TokenSeqs, reason : Reasons,
   closing : TokenSeqs]

TypeOK ==
  /\ rows \in TokenSeqs /\ kvTokens \in TokenSeqs
  /\ writtenUntil \in Nat /\ published \in Nat /\ turns \in Nat
  /\ kvTracked \in BOOLEAN /\ cancel \in BOOLEAN
  /\ at \in Places
  /\ turn \in Turn
  /\ answer \in [ok : BOOLEAN, code : Codes, reason : Reasons, position : Nat]

(* kv_tokens says what is in the KV, or says nothing: whatever was          *)
(* cancelled, failed, rewound or lost, a tracked list is the conversation.  *)
TrackedListIsTheKv == IF kvTracked THEN kvTokens = rows ELSE kvTokens = <<>>

(* With a reused prefix, what the KV holds and what is left to process make *)
(* up the prompt, at every moment of the prefill.                           *)
PrefillCompletesPrompt ==
  /\ at \in {"prefill", "batch"}
  /\ turn.req.preformatted /\ turn.req.reuse /\ ~turn.req.image /\ turn.tracked
  => rows \o turn.left = turn.req.ids

(* A turn that ends before the client has seen anything of it leaves no     *)
(* part of itself: the KV is an initial part of what it was, or empty.      *)
Returned == at = "idle" /\ turns > 0
SawNothing ==
  \/ ~answer.ok /\ turn.visible = 0
  \/ answer.reason = "cancelled" /\ turn.generated = 0

InterruptedTurnLeavesNoTrace ==
  Returned /\ SawNothing => IsPrefix(rows, turn.before)

(* What the client read is what the next turn remembers: after a turn that  *)
(* ended well, the KV is the prompt, every token generated in order, and at *)
(* most the marks that close the turn.                                      *)
EmittedIsRemembered ==
  Returned /\ answer.ok /\ turn.generated > 0 =>
    /\ IsPrefix(turn.prompted \o turn.out, rows)
    /\ IsPrefix(Without(rows, Len(turn.prompted \o turn.out)), <<TurnEnd, NewLine>>)

(* A text turn asked to close leaves the KV at a turn boundary, so that the *)
(* next message does not continue an open turn: the margins of the capacity *)
(* checks always leave room for it.                                         *)
TurnsEndAtBoundary ==
  (/\ Returned /\ answer.ok /\ turn.req.close /\ ~turn.req.image
   /\ IsGemma4 \/ answer.reason # "eos"
   /\ turn.events > 0 /\ ~SawNothing)
  => IsSuffix(<<TurnEnd, NewLine>>, rows)

(* No forward is given a position the KV does not have: nothing but the     *)
(* loop's own check stands between a replayed graph and the end of the KV.  *)
NeverPastCapacity == Position <= MaxSeq

(* The position a turn reports, and the snapshot that a turn waiting for    *)
(* the model reports instead, are the one the session is at; but for an     *)
(* invalid attachment, whose rewind is made after its statistics.           *)
ReportsItsPosition ==
  /\ published = Position
  /\ Returned /\ answer.code # "invalid_attachment" => answer.position = Position
-----------------------------------------------------------------------------
(* The inductive invariant behind TrackedListIsTheKv, ReportsItsPosition    *)
(* and InterruptedTurnLeavesNoTrace.                                        *)

\* Until the prefill begins the KV is what the turn found.
Untouched == at \in {"wait", "encode", "reuse"} => rows = turn.before
PositionTaken == at \in {"encode", "reuse"} => turn.antes = Position

\* From there on it has grown from base, an initial part of what the turn found.
FromBase ==
  at \in Places \ {"idle", "wait", "encode", "reuse"} =>
    /\ turn.base <= Position /\ turn.base <= Len(turn.before)
    /\ Prefix(rows, turn.base) = Prefix(turn.before, turn.base)

\* Nothing is in the KV yet before the first batch, or the image, of the turn.
AtBase == at = "prefill" \/ (at = "image" /\ turn.head = <<>>) => Position = turn.base

\* The text before an attachment is processed as a batch only if there is some.
HeadFirst ==
  at \in {"wait", "encode", "reuse", "prefill", "batch"} /\ turn.stage = "head" => turn.head # <<>>

\* A turn is left as cancelled in decode only after it generated something.
CancelledInDecode ==
  at # "idle" /\ turn.reason = "cancelled" =>
    at = "ending" \/ (at = "closing" /\ turn.generated > 0)

IInv ==
  /\ TypeOK
  /\ TrackedListIsTheKv /\ ReportsItsPosition /\ InterruptedTurnLeavesNoTrace
  /\ Untouched /\ PositionTaken /\ FromBase /\ AtBase /\ HeadFirst /\ CancelledInDecode
-----------------------------------------------------------------------------
(* A statement of the documentation that the code does not keep.            *)

(* tools/RUNTIME_PROTOCOL.md on reuse_prefix: "se reutiliza solo la parte   *)
(* válida que coincide con el KV".  A resent prompt is never appended to a  *)
(* conversation that already contains it.                                   *)
ResentPromptIsNotAppended ==
  /\ at \in {"prefill", "batch"}
  /\ turn.req.preformatted /\ turn.req.reuse /\ ~turn.req.image
  => rows \o turn.left = turn.req.ids
=============================================================================
