-------------------------- MODULE TurnSessionProofs --------------------------
(***************************************************************************)
(* Proofs about TurnSession for every model, ring, chunk and budget.       *)
(***************************************************************************)
EXTENDS TurnSession, SequenceTheorems, TLAPS

-----------------------------------------------------------------------------
(* Sequences of tokens.                                                     *)

\* A prefix has the length asked of it, and its prefixes are those of the sequence.
LEMMA PrefixOf ==
  ASSUME NEW s \in TokenSeqs, NEW n \in 0 .. Len(s)
  PROVE  /\ Prefix(s, n) \in TokenSeqs
         /\ Len(Prefix(s, n)) = n
         /\ \A m \in 0 .. n : Prefix(Prefix(s, n), m) = Prefix(s, m)
  <1>1. Prefix(s, n) \in TokenSeqs /\ Len(Prefix(s, n)) = n
    BY SubSeqProperties DEF Prefix, TokenSeqs
  <1>2. ASSUME NEW m \in 0 .. n
        PROVE  Prefix(Prefix(s, n), m) = Prefix(s, m)
    BY SubSeqOfSubSeq DEF Prefix, TokenSeqs
  <1> QED BY <1>1, <1>2

\* The longest prefix is the sequence.
LEMMA PrefixWhole ==
  ASSUME NEW s \in TokenSeqs
  PROVE  Prefix(s, Len(s)) = s
  BY SubSeqFull DEF Prefix, TokenSeqs

\* What is appended leaves the earlier prefixes alone.
LEMMA PrefixOfConcat ==
  ASSUME NEW s \in TokenSeqs, NEW t \in TokenSeqs
  PROVE  /\ s \o t \in TokenSeqs
         /\ Len(s \o t) = Len(s) + Len(t)
         /\ Len(s) \in Nat /\ Len(t) \in Nat
         /\ \A n \in 0 .. Len(s) : Prefix(s \o t, n) = Prefix(s, n)
  <1>1. s \o t \in TokenSeqs /\ Len(s \o t) = Len(s) + Len(t) /\ Len(s) \in Nat /\ Len(t) \in Nat
    BY ConcatProperties, LenProperties DEF TokenSeqs
  <1>2. ASSUME NEW n \in 0 .. Len(s)
        PROVE  Prefix(s \o t, n) = Prefix(s, n)
    BY SubSeqOfConcat1 DEF Prefix, TokenSeqs
  <1> QED BY <1>1, <1>2

\* What is left after a number of tokens is a sequence of tokens.
LEMMA WithoutIn ==
  ASSUME NEW s \in TokenSeqs, NEW n \in Nat
  PROVE  Without(s, n) \in TokenSeqs
  BY SubSeqProperties, LenProperties DEF Without, TokenSeqs

\* The empty sequence is a sequence of tokens.
LEMMA EmptyIn == <<>> \in TokenSeqs /\ Len(<<>>) = 0
  BY EmptySeq DEF TokenSeqs

\* A sequence of one element.
LEMMA Singleton ==
  ASSUME NEW S, NEW x \in S
  PROVE  <<x>> \in Seq(S) /\ Len(<<x>>) = 1
  OBVIOUS

\* A sequence of two elements.
LEMMA PairIn ==
  ASSUME NEW S, NEW x \in S, NEW y \in S
  PROVE  <<x, y>> \in Seq(S)
  OBVIOUS

\* A sequence of one token.
LEMMA SingletonIn ==
  ASSUME NEW x \in Tokens
  PROVE  <<x>> \in TokenSeqs /\ Len(<<x>>) = 1
  <1>1. <<x>> \in Seq(Tokens) /\ Len(<<x>>) = 1
    BY Singleton
  <1> QED BY <1>1 DEF TokenSeqs

-----------------------------------------------------------------------------
(* The operations on the KV keep the list, the snapshot and the KV together. *)

KvOK ==
  /\ rows \in TokenSeqs /\ kvTokens \in TokenSeqs
  /\ writtenUntil \in Nat /\ published = Position
  /\ kvTracked \in BOOLEAN
  /\ TrackedListIsTheKv

\* How far the ring is noted as written is a position.
LEMMA NotedIn ==
  ASSUME writtenUntil \in Nat, NEW end \in Nat
  PROVE  NotedUntil(end) \in Nat
  BY SessionAssumption DEF NotedUntil, Larger, Smaller

\* KVCache::clear leaves an empty, well-formed KV.
LEMMA ClearKeepsKv ==
  ASSUME Clear
  PROVE  KvOK' /\ rows' = <<>>
  <1>1. rows' = <<>> /\ kvTokens' = <<>> /\ writtenUntil' = 0 /\ published' = 0 /\ kvTracked' = TRUE
    BY DEF Clear
  <1> QED BY <1>1, EmptyIn DEF KvOK, TrackedListIsTheKv, Position

\* KVCache::rewind keeps the rows below the position asked, and what was noted of them.
LEMMA RewindKeepsKv ==
  ASSUME KvOK, NEW p \in Nat, NEW written \in Nat, Rewind(p, written)
  PROVE  /\ KvOK'
         /\ rows' = <<>> \/ (p <= Position /\ rows' = Prefix(rows, p))
  <1>1. CASE ~CanRewind(p, written)
    BY <1>1, ClearKeepsKv DEF Rewind
  <1>2. CASE CanRewind(p, written)
    <2>1. /\ rows' = Prefix(rows, p) /\ writtenUntil' = written
          /\ kvTokens' = Prefix(kvTokens, Smaller(p, Len(kvTokens)))
          /\ published' = p /\ kvTracked' = kvTracked
      BY <1>2 DEF Rewind
    <2>2. p \in 0 .. Len(rows) /\ Len(rows) \in Nat /\ Len(kvTokens) \in Nat
      BY <1>2, LenProperties DEF CanRewind, Position, KvOK, TokenSeqs
    <2>3. rows' \in TokenSeqs /\ Len(rows') = p
      BY <2>1, <2>2, PrefixOf DEF KvOK
    <2>4. CASE kvTracked
      <3>1. kvTokens = rows
        BY <2>4 DEF KvOK, TrackedListIsTheKv
      <3>2. Smaller(p, Len(kvTokens)) = p
        BY <3>1, <2>2 DEF Smaller
      <3>3. kvTokens' = rows'
        BY <2>1, <3>1, <3>2
      <3> QED BY <2>1, <2>3, <2>4, <2>2, <3>3 DEF KvOK, TrackedListIsTheKv, Position
    <2>5. CASE ~kvTracked
      <3>1. kvTokens = <<>>
        BY <2>5 DEF KvOK, TrackedListIsTheKv
      <3>2. Smaller(p, Len(kvTokens)) = 0
        BY <3>1, <2>2, EmptyIn DEF Smaller
      <3>3. kvTokens' = <<>>
        BY <2>1, <3>1, <3>2, PrefixWhole, EmptyIn
      <3> QED BY <2>1, <2>3, <2>5, <2>2, <3>3, EmptyIn DEF KvOK, TrackedListIsTheKv, Position
    <2> QED BY <2>1, <2>2, <2>4, <2>5 DEF KvOK, Position
  <1> QED BY <1>1, <1>2

\* A push that is tracked appends rows and notes them.
LEMMA PushKeepsKv ==
  ASSUME KvOK, NEW tokens \in TokenSeqs, Push(tokens)
  PROVE  KvOK' /\ rows' = rows \o tokens
  <1>1. /\ rows' = rows \o tokens
        /\ writtenUntil' = NotedUntil(Position + Len(tokens))
        /\ kvTokens' = IF kvTracked THEN kvTokens \o tokens ELSE kvTokens
        /\ published' = Position + Len(tokens) /\ kvTracked' = kvTracked
    BY DEF Push
  <1>2. /\ rows' \in TokenSeqs /\ Len(rows') = Position + Len(tokens)
        /\ Position \in Nat /\ Len(tokens) \in Nat
    BY <1>1, PrefixOfConcat DEF KvOK, Position
  <1>3. writtenUntil' \in Nat
    BY <1>1, <1>2, NotedIn DEF KvOK
  <1>4. kvTokens' \in TokenSeqs
    BY <1>1, PrefixOfConcat DEF KvOK
  <1>5. TrackedListIsTheKv'
    BY <1>1 DEF KvOK, TrackedListIsTheKv
  <1> QED BY <1>1, <1>2, <1>3, <1>4, <1>5 DEF KvOK, Position

\* A push of soft tokens appends rows nobody can compare later.
LEMMA PushUntrackedKeepsKv ==
  ASSUME KvOK, NEW tokens \in TokenSeqs, PushUntracked(tokens)
  PROVE  KvOK' /\ rows' = rows \o tokens
  <1>1. /\ rows' = rows \o tokens
        /\ writtenUntil' = NotedUntil(Position + Len(tokens))
        /\ kvTokens' = <<>> /\ kvTracked' = FALSE
        /\ published' = Position + Len(tokens)
    BY DEF PushUntracked
  <1>2. /\ rows' \in TokenSeqs /\ Len(rows') = Position + Len(tokens)
        /\ Position \in Nat /\ Len(tokens) \in Nat
    BY <1>1, PrefixOfConcat DEF KvOK, Position
  <1>3. writtenUntil' \in Nat
    BY <1>1, <1>2, NotedIn DEF KvOK
  <1> QED BY <1>1, <1>2, <1>3, EmptyIn DEF KvOK, Position, TrackedListIsTheKv
-----------------------------------------------------------------------------
(* Steps inside a turn, and steps that end it.                              *)

\* A sequence, the empty one and its own prefixes are prefixes of it.
LEMMA InitialParts ==
  ASSUME NEW s \in TokenSeqs
  PROVE  /\ IsPrefix(s, s) /\ IsPrefix(<<>>, s)
         /\ \A n \in 0 .. Len(s) : IsPrefix(Prefix(s, n), s)
  <1>1. Len(s) \in Nat
    BY LenProperties DEF TokenSeqs
  <1>2. IsPrefix(s, s)
    BY <1>1 DEF IsPrefix
  <1>3. IsPrefix(<<>>, s)
    <2>1. SubSeq(s, 1, 0) = <<>> /\ SubSeq(<<>>, 1, 0) = <<>>
      BY SubSeqEmpty
    <2> QED BY <1>1, <2>1, EmptyIn DEF IsPrefix
  <1>4. ASSUME NEW n \in 0 .. Len(s)
        PROVE  IsPrefix(Prefix(s, n), s)
    <2>1. Prefix(s, n) \in TokenSeqs /\ Len(Prefix(s, n)) = n
      BY PrefixOf
    <2>2. SubSeq(Prefix(s, n), 1, n) = Prefix(s, n)
      BY <2>1, PrefixWhole DEF Prefix
    <2> QED BY <1>1, <2>1, <2>2 DEF IsPrefix, Prefix
  <1> QED BY <1>2, <1>3, <1>4

\* What the invariant says of the KV alone.
LEMMA KvFromInv ==
  ASSUME IInv
  PROVE  KvOK /\ Position \in Nat
  BY LenProperties DEF IInv, TypeOK, ReportsItsPosition, KvOK, Position, TokenSeqs

\* A step that leaves the KV alone leaves its part of the invariant alone.
LEMMA KvStays ==
  ASSUME KvOK, UNCHANGED kv
  PROVE  KvOK' /\ rows' = rows
  BY DEF KvOK, kv, Position, TrackedListIsTheKv

\* What holds of a turn that is still running, given the KV.
Running(where, locals, held) ==
  /\ where \in {"wait", "encode", "reuse"} => held = locals.before
  /\ where \in {"encode", "reuse"} => locals.antes = Len(held)
  /\ where \notin {"wait", "encode", "reuse"} =>
       /\ locals.base <= Len(held) /\ locals.base <= Len(locals.before)
       /\ Prefix(held, locals.base) = Prefix(locals.before, locals.base)
  /\ where = "prefill" \/ (where = "image" /\ locals.head = <<>>) => Len(held) = locals.base
  /\ where \in {"wait", "encode", "reuse", "prefill", "batch"} /\ locals.stage = "head"
       => locals.head # <<>>
  /\ locals.reason = "cancelled" =>
       where = "ending" \/ (where = "closing" /\ locals.generated > 0)

\* What the invariant says of the turn that runs.
LEMMA RunningFromInv ==
  ASSUME IInv, at # "idle"
  PROVE  Running(at, turn, rows)
  BY DEF IInv, TypeOK, Running, Untouched, PositionTaken, FromBase, AtBase, HeadFirst, CancelledInDecode, Position

\* A step inside run_turn that keeps the KV keeps the invariant.
LEMMA StaysInside ==
  ASSUME IInv, KvOK', NEW where \in Places \ {"idle"}, NEW locals \in Turn,
         Goes(where, locals), Running(where, locals, rows')
  PROVE  IInv'
  <1>1. at' = where /\ turn' = locals /\ cancel' = cancel /\ answer' = answer /\ turns' = turns
    BY DEF Goes
  <1>2. TypeOK'
    <2>1. published' \in Nat
      BY LenProperties DEF KvOK, Position, TokenSeqs
    <2> QED BY <1>1, <2>1 DEF IInv, TypeOK, KvOK
  <1>3. TrackedListIsTheKv'
    BY DEF KvOK
  <1>4. ReportsItsPosition' /\ InterruptedTurnLeavesNoTrace'
    BY <1>1 DEF KvOK, ReportsItsPosition, InterruptedTurnLeavesNoTrace, Returned
  <1>5. Untouched' /\ PositionTaken' /\ FromBase' /\ AtBase' /\ HeadFirst' /\ CancelledInDecode'
    BY <1>1 DEF Running, Untouched, PositionTaken, FromBase, AtBase, HeadFirst, CancelledInDecode, Position
  <1> QED BY <1>2, <1>3, <1>4, <1>5 DEF IInv

\* A step that returns from run_turn keeps the invariant.
LEMMA Leaves ==
  ASSUME IInv, KvOK', NEW ok \in BOOLEAN, NEW code \in Codes, NEW reason \in Reasons,
         NEW position \in Nat, NEW locals \in Turn, Return(ok, code, reason, position, locals),
         code # "invalid_attachment" => position = Len(rows'),
         (~ok /\ locals.visible = 0) \/ (reason = "cancelled" /\ locals.generated = 0)
           => IsPrefix(rows', locals.before)
  PROVE  IInv'
  <1>1. /\ at' = "idle" /\ turn' = locals /\ cancel' = cancel /\ turns' = turns
        /\ answer' = [ok |-> ok, code |-> code, reason |-> reason, position |-> position]
    BY DEF Return
  <1>2. TypeOK'
    <2>1. published' \in Nat
      BY LenProperties DEF KvOK, Position, TokenSeqs
    <2>2. answer' \in [ok : BOOLEAN, code : Codes, reason : Reasons, position : Nat]
      BY <1>1
    <2> QED BY <1>1, <2>1, <2>2 DEF IInv, TypeOK, KvOK, Places
  <1>3. TrackedListIsTheKv'
    BY DEF KvOK
  <1>4. ReportsItsPosition'
    BY <1>1 DEF KvOK, ReportsItsPosition, Position
  <1>5. InterruptedTurnLeavesNoTrace'
    BY <1>1 DEF InterruptedTurnLeavesNoTrace, SawNothing
  <1>6. Untouched' /\ PositionTaken' /\ FromBase' /\ AtBase' /\ HeadFirst' /\ CancelledInDecode'
    BY <1>1 DEF Untouched, PositionTaken, FromBase, AtBase, HeadFirst, CancelledInDecode
  <1> QED BY <1>2, <1>3, <1>4, <1>5, <1>6 DEF IInv
-----------------------------------------------------------------------------
(* One lemma per action.                                                    *)

\* The locals of a new turn have their types.
LEMMA NewTurnType ==
  ASSUME IInv, NEW req \in Requests, NEW around \in Adapters
  PROVE  /\ NewTurn(req, around) \in Turn
         /\ NewTurn(req, around).before = rows /\ NewTurn(req, around).reason = "eos"
         /\ NewTurn(req, around).stage = "text"
  <1>1. rows \in TokenSeqs /\ kvTracked \in BOOLEAN
    BY DEF IInv, TypeOK
  <1> QED BY <1>1, EmptyIn DEF NewTurn, Turn, Reasons

\* A request keeps the invariant.
LEMMA AskStep ==
  ASSUME IInv, NEW req \in Requests, Ask(req)
  PROVE  IInv'
  <1>0. turn.around \in Adapters
    BY DEF IInv, TypeOK, Turn
  <1>1. /\ at' = "wait" /\ turn' = NewTurn(req, turn.around) /\ cancel' = FALSE /\ turns' = turns + 1
        /\ answer' = answer /\ UNCHANGED kv
    BY DEF Ask
  <1>2. KvOK' /\ rows' = rows
    BY <1>1, KvFromInv, KvStays
  <1>3. TypeOK'
    <2>1. rows' \in TokenSeqs /\ kvTokens' \in TokenSeqs /\ writtenUntil' \in Nat /\ kvTracked' \in BOOLEAN
      BY <1>2 DEF KvOK
    <2>2. published' \in Nat /\ turns' \in Nat /\ cancel' \in BOOLEAN /\ at' \in Places
      <3>1. published \in Nat /\ turns \in Nat
        BY DEF IInv, TypeOK
      <3>2. turns + 1 \in Nat
        BY <3>1
      <3> QED BY <1>1, <3>1, <3>2 DEF Places, kv
    <2>3. turn' \in Turn /\ answer' \in [ok : BOOLEAN, code : Codes, reason : Reasons, position : Nat]
      BY <1>0, <1>1, NewTurnType DEF IInv, TypeOK
    <2> QED BY <2>1, <2>2, <2>3 DEF TypeOK
  <1>4. ReportsItsPosition' /\ InterruptedTurnLeavesNoTrace' /\ TrackedListIsTheKv'
    BY <1>1, <1>2 DEF KvOK, ReportsItsPosition, InterruptedTurnLeavesNoTrace, Returned
  <1>5. Untouched' /\ PositionTaken' /\ FromBase' /\ AtBase' /\ HeadFirst' /\ CancelledInDecode'
    BY <1>0, <1>1, <1>2, NewTurnType DEF Untouched, PositionTaken, FromBase, AtBase, HeadFirst, CancelledInDecode
  <1> QED BY <1>3, <1>4, <1>5 DEF IInv

\* A reset keeps the invariant.
LEMMA ResetStep ==
  ASSUME IInv, Reset
  PROVE  IInv'
  <1>1. /\ at = "idle" /\ at' = "idle" /\ turn' = NewTurn(turn.req, turn.around) /\ cancel' = cancel
        /\ turns' = turns + 1 /\ answer' = NoAnswer /\ Clear
    BY DEF Reset
  <1>2. KvOK' /\ rows' = <<>>
    BY <1>1, ClearKeepsKv
  <1>3. turn.req \in Requests /\ turn.around \in Adapters
    BY DEF IInv, TypeOK, Turn
  <1>4. published' = 0 /\ Len(rows') = 0
    BY <1>2, EmptyIn DEF KvOK, Position
  <1>5. TypeOK'
    <2>1. NoAnswer \in [ok : BOOLEAN, code : Codes, reason : Reasons, position : Nat]
      BY DEF NoAnswer, Reasons, Codes
    <2> QED BY <1>1, <1>2, <1>3, <1>4, <2>1, NewTurnType DEF IInv, TypeOK, KvOK, Places
  <1>6. ReportsItsPosition' /\ InterruptedTurnLeavesNoTrace' /\ TrackedListIsTheKv'
    BY <1>1, <1>2, <1>4
    DEF KvOK, ReportsItsPosition, InterruptedTurnLeavesNoTrace, SawNothing, NoAnswer, Position
  <1>7. Untouched' /\ PositionTaken' /\ FromBase' /\ AtBase' /\ HeadFirst' /\ CancelledInDecode'
    BY <1>1 DEF Untouched, PositionTaken, FromBase, AtBase, HeadFirst, CancelledInDecode
  <1> QED BY <1>5, <1>6, <1>7 DEF IInv

\* A cancel keeps the invariant.
LEMMA CancelStep ==
  ASSUME IInv, Cancel
  PROVE  IInv'
  <1>1. UNCHANGED <<rows, writtenUntil, kvTokens, kvTracked, published, at, turn, answer, turns>> /\ cancel' = TRUE
    BY DEF Cancel, kv
  <1> QED
    BY <1>1 DEF IInv, TypeOK, TrackedListIsTheKv, ReportsItsPosition, InterruptedTurnLeavesNoTrace,
                Returned, SawNothing, Untouched, PositionTaken, FromBase, AtBase, HeadFirst, CancelledInDecode, Position

\* Waiting for the engine keeps the invariant.
LEMMA WaitSteps ==
  ASSUME IInv, GiveUpWaiting \/ Lock
  PROVE  IInv'
  <1>1. at = "wait" /\ UNCHANGED kv
    BY DEF GiveUpWaiting, Lock
  <1>2. KvOK' /\ rows' = rows /\ rows = turn.before /\ published = Position /\ Position \in Nat
    BY <1>1, KvFromInv, KvStays DEF IInv, Untouched, ReportsItsPosition
  <1>3. turn \in Turn /\ turn.before \in TokenSeqs /\ IsPrefix(rows', turn.before)
    BY <1>2, InitialParts DEF IInv, TypeOK, Turn
  <1>4. CASE ReturnCancelled(Position)
    <2>1. Return(TRUE, "", "cancelled", Position, turn)
      BY <1>4 DEF ReturnCancelled
    <2>2. Position = Len(rows')
      BY <1>2 DEF Position
    <2>3. "" \in Codes /\ "cancelled" \in Reasons
      BY DEF Codes, Reasons
    <2> QED BY <1>2, <1>3, <2>1, <2>2, <2>3, Leaves
  <1>5. CASE Goes("encode", [turn EXCEPT !.antes = Position])
    <2> DEFINE locals == [turn EXCEPT !.antes = Position]
    <2>1. locals \in Turn
      BY <1>2, <1>3 DEF Turn
    <2>2. /\ locals.before = turn.before /\ locals.antes = Len(rows') /\ locals.reason = turn.reason
          /\ locals.generated = turn.generated /\ locals.stage = turn.stage /\ locals.head = turn.head
      BY <1>2, <1>3 DEF Turn, Position
    <2>3. Running("encode", locals, rows')
      BY <1>1, <1>2, <2>2 DEF Running, IInv, CancelledInDecode, HeadFirst
    <2> HIDE DEF locals
    <2>4. Goes("encode", locals)
      BY <1>5 DEF locals
    <2> QED BY <1>2, <2>1, <2>3, <2>4, StaysInside DEF Places
  <1>6. ReturnCancelled(Position) \/ Goes("encode", [turn EXCEPT !.antes = Position])
    BY <1>2 DEF GiveUpWaiting, Lock
  <1> QED BY <1>4, <1>5, <1>6

\* Encoding the prompt, refusing it and the last cancel before the KV is touched keep the invariant.
LEMMA EncodeSteps ==
  ASSUME IInv, RefuseRequest \/ Encode \/ CancelBeforePrefill
  PROVE  IInv'
  <1>1. at \in {"encode", "reuse"} /\ UNCHANGED kv
    BY DEF RefuseRequest, Encode, CancelBeforePrefill
  <1>2. /\ KvOK' /\ rows' = rows /\ rows = turn.before /\ turn.antes = Len(rows')
        /\ turn.antes \in Nat
    BY <1>1, KvFromInv, KvStays DEF IInv, Untouched, PositionTaken, Position
  <1>3. turn \in Turn /\ IsPrefix(rows', turn.before)
    BY <1>2, InitialParts DEF IInv, TypeOK, Turn
  <1>4. CASE RefuseRequest
    <2>1. Return(FALSE, "invalid_request", turn.reason, turn.antes, turn)
      BY <1>4 DEF RefuseRequest, Refuse
    <2>2. "invalid_request" \in Codes /\ turn.reason \in Reasons
      BY <1>3 DEF Codes, Turn
    <2> QED BY <1>2, <1>3, <2>1, <2>2, Leaves
  <1>5. CASE CancelBeforePrefill
    <2>1. Return(TRUE, "", "cancelled", turn.antes, turn)
      BY <1>5 DEF CancelBeforePrefill, ReturnCancelled
    <2>2. "" \in Codes /\ "cancelled" \in Reasons
      BY DEF Codes, Reasons
    <2> QED BY <1>2, <1>3, <2>1, <2>2, Leaves
  <1>6. CASE Encode
    <2> DEFINE locals == [turn EXCEPT !.left = Encoded(turn.req)]
    <2>1. Encoded(turn.req) \in TokenSeqs
      <3>1. turn.req.ids \in TokenSeqs /\ turn.req.ids # <<>>
        BY <1>3, SessionAssumption DEF Turn, TokenSeqs
      <3>2. Tail(turn.req.ids) \in TokenSeqs
        BY <3>1, HeadTailProperties DEF TokenSeqs
      <3> QED BY <3>1, <3>2 DEF Encoded
    <2>2. locals \in Turn
      BY <1>3, <2>1 DEF Turn
    <2>3. /\ locals.before = turn.before /\ locals.antes = turn.antes /\ locals.reason = turn.reason
          /\ locals.generated = turn.generated /\ locals.stage = turn.stage /\ locals.head = turn.head
      BY <1>3 DEF Turn
    <2>4. Running("reuse", locals, rows')
      BY <1>1, <1>2, <2>3 DEF Running, IInv, CancelledInDecode, HeadFirst
    <2> HIDE DEF locals
    <2>5. Goes("reuse", locals)
      BY <1>6 DEF Encode, locals
    <2> QED BY <1>2, <2>2, <2>4, <2>5, StaysInside DEF Places
  <1> QED BY <1>4, <1>5, <1>6

(***************************************************************************)
(* Once the prefill has begun.                                             *)
(***************************************************************************)
Begun == at \in Places \ {"idle", "wait", "encode", "reuse"}

\* What is left of a conversation after taking back its end, or all of it.
CutBack(held, before) == held = <<>> \/ \E p \in 0 .. Len(before) : held = Prefix(before, p)

\* Rows that were cut back are a prefix of those before.
LEMMA CutBackIsPrefix ==
  ASSUME NEW held, NEW before \in TokenSeqs, CutBack(held, before)
  PROVE  /\ held \in TokenSeqs /\ IsPrefix(held, before)
         /\ Len(held) \in Nat /\ Len(held) <= Len(before)
         /\ Prefix(held, Len(held)) = Prefix(before, Len(held))
  <1>1. Len(before) \in Nat
    BY LenProperties DEF TokenSeqs
  <1>2. CASE held = <<>>
    <2>1. Prefix(before, 0) = <<>> /\ Prefix(held, 0) = <<>>
      BY <1>2, SubSeqEmpty DEF Prefix
    <2> QED BY <1>1, <1>2, <2>1, EmptyIn, InitialParts
  <1>3. ASSUME NEW p \in 0 .. Len(before), held = Prefix(before, p)
        PROVE  /\ held \in TokenSeqs /\ IsPrefix(held, before)
               /\ Len(held) \in Nat /\ Len(held) <= Len(before)
               /\ Prefix(held, Len(held)) = Prefix(before, Len(held))
    <2>1. held \in TokenSeqs /\ Len(held) = p
      BY <1>3, PrefixOf
    <2>2. Prefix(held, p) = held
      BY <2>1, PrefixWhole
    <2> QED BY <1>1, <1>3, <2>1, <2>2, InitialParts
  <1> QED BY <1>2, <1>3 DEF CutBack

\* What the invariant says of a turn that has begun to prefill.
LEMMA BegunFacts ==
  ASSUME IInv, Begun
  PROVE  /\ turn \in Turn /\ turn.before \in TokenSeqs /\ turn.base \in Nat /\ turn.left \in TokenSeqs
         /\ KvOK /\ rows \in TokenSeqs /\ Position \in Nat /\ writtenUntil \in Nat
         /\ turn.base <= Position /\ turn.base <= Len(turn.before) /\ Len(turn.before) \in Nat
         /\ Prefix(rows, turn.base) = Prefix(turn.before, turn.base)
  <1>1. turn \in Turn
    BY DEF IInv, TypeOK
  <1>2. turn.before \in TokenSeqs /\ turn.base \in Nat /\ turn.left \in TokenSeqs
    BY <1>1 DEF Turn
  <1> QED BY <1>1, <1>2, KvFromInv, LenProperties DEF IInv, TypeOK, FromBase, Begun, TokenSeqs

\* After the KV is taken back to where the turn began it is a prefix of what the turn found.
LEMMA Rewound ==
  ASSUME IInv, Begun, NEW written \in Nat, Rewind(turn.base, written)
  PROVE  KvOK' /\ IsPrefix(rows', turn.before) /\ Len(rows') \in Nat
  <1>1. KvOK' /\ (rows' = <<>> \/ rows' = Prefix(rows, turn.base))
    BY BegunFacts, RewindKeepsKv
  <1>2. CutBack(rows', turn.before)
    BY <1>1, BegunFacts DEF CutBack
  <1> QED BY <1>1, <1>2, BegunFacts, CutBackIsPrefix

\* What is pushed after the turn began leaves the prefix it reused.
LEMMA Grown ==
  ASSUME IInv, Begun, NEW tokens \in TokenSeqs, Push(tokens) \/ PushUntracked(tokens)
  PROVE  /\ KvOK' /\ turn.base <= Len(rows')
         /\ Prefix(rows', turn.base) = Prefix(turn.before, turn.base)
  <1>1. KvOK' /\ rows' = rows \o tokens
    BY BegunFacts, PushKeepsKv, PushUntrackedKeepsKv
  <1>2. Len(rows') = Position + Len(tokens) /\ Len(tokens) \in Nat
    BY <1>1, BegunFacts, PrefixOfConcat DEF Position
  <1>3. Prefix(rows', turn.base) = Prefix(rows, turn.base)
    <2>1. turn.base \in 0 .. Len(rows) /\ rows \in TokenSeqs
      BY BegunFacts DEF Position
    <2> QED BY <1>1, <2>1, PrefixOfConcat
  <1> QED BY <1>1, <1>2, <1>3, BegunFacts

\* A later part of the turn: its locals may change, but not where it started.
LEMMA GoesOn ==
  ASSUME IInv, Begun, KvOK', NEW where \in Places \ {"idle", "wait", "encode", "reuse"},
         NEW locals \in Turn, Goes(where, locals),
         locals.base = turn.base, locals.before = turn.before,
         turn.base <= Len(rows'), Prefix(rows', turn.base) = Prefix(turn.before, turn.base),
         where = "prefill" \/ (where = "image" /\ locals.head = <<>>) => Len(rows') = turn.base,
         where \in {"prefill", "batch"} /\ locals.stage = "head" => locals.head # <<>>,
         locals.reason = "cancelled" =>
           where = "ending" \/ (where = "closing" /\ locals.generated > 0)
  PROVE  IInv'
  <1>1. Running(where, locals, rows')
    BY BegunFacts DEF Running
  <1> QED BY <1>1, StaysInside

\* An exception inside run_turn keeps the invariant.
LEMMA ThrewStep ==
  ASSUME IInv, Begun, NEW written \in Nat, NEW locals \in Turn, Threw(written, locals),
         locals.base = turn.base, locals.before = turn.before,
         locals.reason = "cancelled" => locals.generated > 0
  PROVE  IInv'
  <1>1. Return(FALSE, "engine_failure", locals.reason, Len(rows'), locals)
    BY DEF Threw
  <1>2. "engine_failure" \in Codes /\ locals.reason \in Reasons /\ locals.generated \in Nat
    BY DEF Codes, Turn
  <1>3. CASE Clear
    <2>1. KvOK' /\ Len(rows') \in Nat /\ IsPrefix(rows', turn.before)
      BY <1>3, ClearKeepsKv, EmptyIn, BegunFacts, InitialParts
    <2> QED BY <1>1, <1>2, <2>1, Leaves
  <1>4. CASE Rewind(turn.base, written)
    BY <1>1, <1>2, <1>4, Rewound, Leaves
  <1>5. CASE /\ locals.visible # 0 /\ writtenUntil' = written
             /\ UNCHANGED <<rows, kvTokens, kvTracked, published>>
    <2>1. KvOK' /\ Len(rows') \in Nat
      BY <1>5, BegunFacts DEF KvOK, TrackedListIsTheKv, Position
    <2>2. ~(~FALSE /\ locals.visible = 0) /\ ~(locals.reason = "cancelled" /\ locals.generated = 0)
      BY <1>2, <1>5
    <2> QED BY <1>1, <1>2, <2>1, <2>2, Leaves
  <1>6. \/ Clear
        \/ Rewind(turn.base, written)
        \/ /\ locals.visible # 0 /\ writtenUntil' = written
           /\ UNCHANGED <<rows, kvTokens, kvTracked, published>>
    BY DEF Threw
  <1> QED BY <1>3, <1>4, <1>5, <1>6

\* Reusing a prefix of the KV keeps the invariant.
LEMMA ReusePrefixStep ==
  ASSUME IInv, ReusePrefix
  PROVE  IInv'
  <1>1. at = "reuse"
    BY DEF ReusePrefix
  <1>2. /\ rows = turn.before /\ turn \in Turn /\ KvOK /\ Position \in Nat /\ writtenUntil \in Nat
        /\ rows \in TokenSeqs /\ turn.left \in TokenSeqs /\ turn.reason # "cancelled"
        /\ (turn.stage = "head" => turn.head # <<>>)
    BY <1>1, KvFromInv DEF IInv, TypeOK, Turn, Untouched, CancelledInDecode, HeadFirst
  <1> DEFINE left(common) == Without(turn.left, Kept(common))
             locals(common) == [turn EXCEPT !.left = left(common), !.base = Len(rows'),
                                            !.reused = Kept(common)]
  <1>3. PICK common \in Common :
          /\ IF ~Reuses THEN UNCHANGED kv
             ELSE IF Kept(common) > 0 THEN Rewind(Kept(common), writtenUntil) ELSE Clear
          /\ IF Len(rows') + Len(left(common)) + 8 >= MaxSeq
             THEN Return(FALSE, "context_full", "eos", Len(rows'), locals(common))
             ELSE Goes("prefill", locals(common))
    BY DEF ReusePrefix
  <1>4. Kept(common) \in Nat
    <2>1. common \in Nat
      <3>1. Len(kvTokens) \in Nat /\ Len(turn.left) \in Nat
        BY <1>2, LenProperties DEF KvOK, TokenSeqs
      <3> QED BY <3>1 DEF Common, Smaller
    <2>2. Target(common) \in Nat
      BY <2>1 DEF Target
    <2> QED BY <2>2 DEF Kept
  <1>5. KvOK' /\ CutBack(rows', turn.before)
    <2>1. CASE UNCHANGED kv
      BY <1>2, <2>1, KvStays, PrefixWhole DEF CutBack, Position
    <2>2. CASE Rewind(Kept(common), writtenUntil)
      BY <1>2, <1>4, <2>2, RewindKeepsKv DEF CutBack, Position
    <2>3. CASE Clear
      BY <2>3, ClearKeepsKv DEF CutBack
    <2> QED BY <1>3, <2>1, <2>2, <2>3
  <1>6. /\ IsPrefix(rows', turn.before) /\ Len(rows') \in Nat /\ Len(rows') <= Len(turn.before)
        /\ Prefix(rows', Len(rows')) = Prefix(turn.before, Len(rows'))
    BY <1>2, <1>5, CutBackIsPrefix
  <1>7. left(common) \in TokenSeqs
    BY <1>2, <1>4, WithoutIn
  <1>8. /\ locals(common) \in Turn
        /\ locals(common).before = turn.before /\ locals(common).base = Len(rows')
        /\ locals(common).reason = turn.reason
        /\ locals(common).stage = turn.stage /\ locals(common).head = turn.head
    BY <1>2, <1>4, <1>6, <1>7 DEF Turn
  <1> HIDE DEF left, locals
  <1>9. CASE Return(FALSE, "context_full", "eos", Len(rows'), locals(common))
    <2>1. "context_full" \in Codes /\ "eos" \in Reasons
      BY DEF Codes, Reasons
    <2> QED BY <1>5, <1>6, <1>8, <1>9, <2>1, Leaves
  <1>10. CASE Goes("prefill", locals(common))
    <2>1. Running("prefill", locals(common), rows')
      BY <1>2, <1>6, <1>8 DEF Running
    <2>2. "prefill" \in Places \ {"idle"}
      BY DEF Places
    <2> QED BY <1>5, <1>8, <1>10, <2>1, <2>2, StaysInside
  <1> QED BY <1>3, <1>9, <1>10

\* Choosing between the text and the attachment keeps the invariant.
LEMMA PrefillStep ==
  ASSUME IInv, PrefillText \/ PrefillImage
  PROVE  IInv'
  <1>1. at = "prefill" /\ Begun /\ UNCHANGED kv
    BY DEF PrefillText, PrefillImage, Begun, Places
  <1>2. KvOK' /\ rows' = rows /\ Position = turn.base /\ turn.reason # "cancelled"
        /\ (turn.stage = "head" => turn.head # <<>>)
    BY <1>1, BegunFacts, KvStays DEF IInv, AtBase, HeadFirst, CancelledInDecode
  <1>3. /\ turn \in Turn /\ turn.left \in TokenSeqs /\ turn.before \in TokenSeqs /\ turn.base \in Nat
        /\ turn.base = Len(rows') /\ Prefix(rows', turn.base) = Prefix(turn.before, turn.base)
        /\ IsPrefix(rows', turn.before) /\ Soft \in Nat \ {0}
    <2>1. IsPrefix(rows, turn.before)
      <3>1. Prefix(rows, Len(rows)) = rows
        BY BegunFacts, <1>1, PrefixWhole
      <3> QED BY <1>1, <1>2, <3>1, BegunFacts, InitialParts DEF Position
    <2> QED BY <1>1, <1>2, <2>1, BegunFacts, SessionAssumption DEF Position
  <1>4. ASSUME NEW where \in {"prefilled", "batch", "image"}, NEW locals \in Turn, Goes(where, locals),
               locals.base = turn.base, locals.before = turn.before, locals.reason = turn.reason,
               where = "batch" /\ locals.stage = "head" => locals.head # <<>>
        PROVE  IInv'
    <2>1. where \in Places \ {"idle", "wait", "encode", "reuse"}
      BY DEF Places
    <2> QED BY <1>1, <1>2, <1>3, <1>4, <2>1, GoesOn
  <1>5. CASE PrefillText
    <2> DEFINE locals == [turn EXCEPT !.cancelled = TRUE]
    <2>1. /\ locals \in Turn
          /\ locals.base = turn.base /\ locals.before = turn.before /\ locals.reason = turn.reason
          /\ locals.stage = turn.stage /\ locals.head = turn.head
      BY <1>3 DEF Turn
    <2>2. Goes("prefilled", locals) \/ Goes("batch", turn)
      BY <1>5 DEF PrefillText
    <2> HIDE DEF locals
    <2> QED BY <1>2, <1>3, <1>4, <2>1, <2>2
  <1>6. CASE PrefillImage
    <2>1. CASE Goes("image", [turn EXCEPT !.sequence = Len(turn.left) + Soft - 1])
      <3> DEFINE locals == [turn EXCEPT !.sequence = Len(turn.left) + Soft - 1]
      <3>1. Len(turn.left) + Soft - 1 \in Nat
        BY <1>3, LenProperties DEF TokenSeqs
      <3>2. /\ locals \in Turn
            /\ locals.base = turn.base /\ locals.before = turn.before /\ locals.reason = turn.reason
        BY <1>3, <3>1 DEF Turn
      <3>3. Goes("image", locals)
        BY <2>1
      <3> HIDE DEF locals
      <3> QED BY <1>4, <3>2, <3>3
    <2>2. CASE Refuse("image_marker_mismatch", turn.base)
      <3>1. Return(FALSE, "image_marker_mismatch", turn.reason, turn.base, turn)
        BY <2>2 DEF Refuse
      <3>2. "image_marker_mismatch" \in Codes /\ turn.reason \in Reasons
        BY <1>3 DEF Codes, Turn
      <3> QED BY <1>2, <1>3, <3>1, <3>2, Leaves
    <2>3. ASSUME NEW i \in MarkerAt, NEW where \in {"image", "batch"},
                 where = "batch" => Prefix(turn.left, i - 1) # <<>>,
                 Goes(where, [turn EXCEPT !.stage = "head", !.left = Prefix(turn.left, i - 1),
                                          !.head = Prefix(turn.left, i - 1),
                                          !.after = Without(turn.left, i), !.sequence = Soft])
          PROVE  IInv'
      <3> DEFINE locals == [turn EXCEPT !.stage = "head", !.left = Prefix(turn.left, i - 1),
                                        !.head = Prefix(turn.left, i - 1),
                                        !.after = Without(turn.left, i), !.sequence = Soft]
      <3>1. i \in 1 .. Len(turn.left) /\ Len(turn.left) \in Nat
        BY <1>3, LenProperties DEF MarkerAt, TokenSeqs
      <3>2. Prefix(turn.left, i - 1) \in TokenSeqs /\ Without(turn.left, i) \in TokenSeqs
        BY <1>3, <3>1, PrefixOf, WithoutIn
      <3>3. /\ locals \in Turn
            /\ locals.base = turn.base /\ locals.before = turn.before /\ locals.reason = turn.reason
            /\ locals.head = Prefix(turn.left, i - 1)
        BY <1>3, <3>2 DEF Turn
      <3>4. Goes(where, locals)
        BY <2>3
      <3> HIDE DEF locals
      <3> QED BY <1>4, <2>3, <3>3, <3>4
    <2>4. \/ Goes("image", [turn EXCEPT !.sequence = Len(turn.left) + Soft - 1])
          \/ Refuse("image_marker_mismatch", turn.base)
          \/ \E i \in MarkerAt, where \in {"image", "batch"} :
             /\ where = "batch" => Prefix(turn.left, i - 1) # <<>>
             /\ Goes(where, [turn EXCEPT !.stage = "head", !.left = Prefix(turn.left, i - 1),
                                        !.head = Prefix(turn.left, i - 1),
                                        !.after = Without(turn.left, i), !.sequence = Soft])
      BY <1>6 DEF PrefillImage
    <2> QED BY <2>1, <2>2, <2>3, <2>4
  <1> QED BY <1>5, <1>6

\* A batch, and one that throws, keep the invariant.
LEMMA BatchStep ==
  ASSUME IInv, Batch
  PROVE  IInv'
  <1>1. /\ at = "batch" /\ Begun /\ turn.reason # "cancelled"
        /\ (turn.stage = "head" => turn.head # <<>>)
    BY DEF Batch, Begun, Places, IInv, CancelledInDecode, HeadFirst
  <1> DEFINE n == Smaller(Chunk, Len(turn.left))
             locals == [turn EXCEPT !.left = Without(@, n), !.processed = @ + n]
  <1>2. n \in 0 .. Len(turn.left) /\ n \in Nat
    <2>1. Len(turn.left) \in Nat /\ Chunk \in Nat
      BY <1>1, BegunFacts, LenProperties, SessionAssumption DEF TokenSeqs
    <2> QED BY <2>1 DEF Smaller
  <1>3. CASE Threw(NotedUntil(Position + n), turn)
    <2>1. NotedUntil(Position + n) \in Nat
      BY <1>1, <1>2, BegunFacts, NotedIn
    <2> QED BY <1>1, <1>3, <2>1, BegunFacts, ThrewStep
  <1>4. CASE Push(Prefix(turn.left, n)) /\ Goes("batch", locals)
    <2>1. Prefix(turn.left, n) \in TokenSeqs /\ Without(turn.left, n) \in TokenSeqs
      BY <1>1, <1>2, BegunFacts, PrefixOf, WithoutIn
    <2>2. KvOK' /\ turn.base <= Len(rows') /\ Prefix(rows', turn.base) = Prefix(turn.before, turn.base)
      BY <1>1, <1>4, <2>1, Grown
    <2>3. /\ locals \in Turn
          /\ locals.base = turn.base /\ locals.before = turn.before /\ locals.reason = turn.reason
          /\ locals.stage = turn.stage /\ locals.head = turn.head
      <3>1. turn \in Turn /\ turn.processed + n \in Nat
        BY <1>1, <1>2, BegunFacts DEF Turn
      <3> HIDE DEF n
      <3> QED BY <2>1, <3>1 DEF Turn
    <2> HIDE DEF locals
    <2>4. "batch" \in Places \ {"idle", "wait", "encode", "reuse"}
      BY DEF Places
    <2> QED BY <1>1, <1>4, <2>2, <2>3, <2>4, GoesOn
  <1> QED BY <1>3, <1>4 DEF Batch

\* The end of forward_batch keeps the invariant.
LEMMA EndBatchStep ==
  ASSUME IInv, EndBatch
  PROVE  IInv'
  <1>1. /\ at = "batch" /\ Begun /\ turn.reason # "cancelled" /\ UNCHANGED kv
        /\ (turn.stage = "head" => turn.head # <<>>)
    BY DEF EndBatch, Begun, Places, IInv, CancelledInDecode, HeadFirst
  <1>2. /\ KvOK' /\ rows' = rows /\ turn \in Turn /\ turn.base <= Len(rows')
        /\ Prefix(rows', turn.base) = Prefix(turn.before, turn.base) /\ cancel \in BOOLEAN
    BY <1>1, BegunFacts, KvStays DEF Position, IInv, TypeOK
  <1>3. turn.processed \in Nat /\ turn.headTokens + turn.sequence + turn.processed \in Nat
    BY <1>2 DEF Turn
  <1> DEFINE ended == [turn EXCEPT !.cancelled = cancel, !.processed = 0]
             headDone == [ended EXCEPT !.headTokens = turn.processed]
             allDone == [ended EXCEPT !.prefillTokens =
                           turn.headTokens + turn.sequence + turn.processed]
  <1>4. /\ headDone \in Turn /\ headDone.base = turn.base /\ headDone.before = turn.before
        /\ headDone.reason = turn.reason /\ headDone.head = turn.head
    BY <1>2, <1>3 DEF Turn
  <1>5. /\ allDone \in Turn /\ allDone.base = turn.base /\ allDone.before = turn.before
        /\ allDone.reason = turn.reason
    BY <1>2, <1>3 DEF Turn
  <1>6. (Goes("image", headDone) /\ turn.stage = "head") \/ Goes("prefilled", allDone)
    BY DEF EndBatch
  <1> HIDE DEF headDone, allDone
  <1>7. CASE Goes("prefilled", allDone)
    <2>1. "prefilled" \in Places \ {"idle", "wait", "encode", "reuse"}
      BY DEF Places
    <2> QED BY <1>1, <1>2, <1>5, <1>7, <2>1, GoesOn
  <1>8. CASE Goes("image", headDone) /\ turn.stage = "head"
    <2>1. "image" \in Places \ {"idle", "wait", "encode", "reuse"}
      BY DEF Places
    <2> QED BY <1>1, <1>2, <1>4, <1>8, <2>1, GoesOn
  <1> QED BY <1>6, <1>7, <1>8

\* An attachment that fails keeps the invariant.
LEMMA ImageFails ==
  ASSUME IInv, InvalidAttachment \/ AdapterFails
  PROVE  IInv'
  <1>1. at = "image" /\ Begun
    BY DEF InvalidAttachment, AdapterFails, Begun, Places
  <1>2. turn \in Turn /\ turn.reason \in Reasons /\ turn.reason # "cancelled" /\ turn.base \in Nat
    BY <1>1, BegunFacts DEF Turn, IInv, CancelledInDecode
  <1>3. CASE InvalidAttachment
    <2>1. Return(FALSE, "invalid_attachment", turn.reason, turn.base, turn)
      BY <1>3 DEF InvalidAttachment, Refuse
    <2>2. "invalid_attachment" \in Codes
      BY DEF Codes
    <2>3. KvOK' /\ IsPrefix(rows', turn.before)
      <3>1. CASE turn.head # <<>>
        BY <1>1, <1>3, <3>1, BegunFacts, Rewound DEF InvalidAttachment
      <3>2. CASE turn.head = <<>>
        <4>1. UNCHANGED kv /\ Position = turn.base
          BY <1>1, <1>3, <3>2 DEF InvalidAttachment, IInv, AtBase
        <4>2. KvOK' /\ rows' = rows
          BY <1>1, <4>1, BegunFacts, KvStays
        <4>3. rows = Prefix(turn.before, turn.base)
          BY <1>1, <4>1, BegunFacts, PrefixWhole DEF Position
        <4> QED BY <1>1, <4>2, <4>3, BegunFacts, InitialParts
      <3> QED BY <3>1, <3>2
    <2>4. "invalid_attachment" # "invalid_attachment" => turn.base = Len(rows')
      OBVIOUS
    <2> QED BY <1>1, <1>2, <2>1, <2>2, <2>3, <2>4, BegunFacts, Leaves
  <1>4. CASE AdapterFails
    <2>1. Return(FALSE, "attachment_prefill_failed", turn.reason, 0, turn) /\ Clear
      BY <1>4 DEF AdapterFails, Refuse
    <2>2. "attachment_prefill_failed" \in Codes
      BY DEF Codes
    <2>3. KvOK' /\ 0 \in Nat /\ 0 = Len(rows') /\ IsPrefix(rows', turn.before)
      BY <1>1, <2>1, ClearKeepsKv, EmptyIn, BegunFacts, InitialParts
    <2>4. (~FALSE /\ turn.visible = 0) \/ (turn.reason = "cancelled" /\ turn.generated = 0)
            => IsPrefix(rows', turn.before)
      BY <2>3
    <2> QED BY <1>2, <2>1, <2>2, <2>3, <2>4, Leaves
  <1> QED BY <1>3, <1>4

\* A run of one token is a sequence of tokens.
LEMMA RepeatedIn ==
  ASSUME NEW S, NEW n \in Nat, NEW x \in S
  PROVE  [i \in 1 .. n |-> x] \in Seq(S)
  OBVIOUS

\* An attachment expands to sequences of tokens.
LEMMA ExpansionsIn ==
  ASSUME turn.left \in TokenSeqs
  PROVE  Expansions \subseteq TokenSeqs
  <1>1. SoftRows \in TokenSeqs
    <2>1. Soft \in Nat
      BY SessionAssumption
    <2>2. SoftToken \in Tokens
      BY SessionAssumption DEF Special
    <2> QED BY <2>1, <2>2, RepeatedIn DEF SoftRows, TokenSeqs
  <1>2. ASSUME NEW i \in MarkerAt
        PROVE  Prefix(turn.left, i - 1) \o SoftRows \o Without(turn.left, i) \in TokenSeqs
    <2>1. i \in 1 .. Len(turn.left) /\ Len(turn.left) \in Nat
      BY LenProperties DEF MarkerAt, TokenSeqs
    <2>2. Prefix(turn.left, i - 1) \in TokenSeqs /\ Without(turn.left, i) \in TokenSeqs
      BY <2>1, PrefixOf, WithoutIn
    <2>3. Prefix(turn.left, i - 1) \o SoftRows \in TokenSeqs
      BY <1>1, <2>2, PrefixOfConcat
    <2> QED BY <2>2, <2>3, PrefixOfConcat
  <1> QED BY <1>1, <1>2 DEF Expansions

\* Pushing an attachment keeps the invariant.
LEMMA ImageStep ==
  ASSUME IInv, AdapterPrefills \/ SkipAdapter
  PROVE  IInv'
  <1>1. at = "image" /\ Begun /\ turn.reason # "cancelled"
    BY DEF AdapterPrefills, SkipAdapter, Begun, Places, IInv, CancelledInDecode
  <1>2. {"prefilled", "batch"} \subseteq Places \ {"idle", "wait", "encode", "reuse"}
    BY DEF Places
  <1>3. CASE SkipAdapter
    <2>1. Goes("prefilled", turn) /\ UNCHANGED kv
      BY <1>3 DEF SkipAdapter
    <2>2. KvOK' /\ rows' = rows
      BY <1>1, <2>1, BegunFacts, KvStays
    <2> QED BY <1>1, <1>2, <2>1, <2>2, BegunFacts, GoesOn DEF Position
  <1>4. CASE AdapterPrefills
    <2>1. PICK expanded \in Expansions : PushUntracked(expanded)
      BY <1>4 DEF AdapterPrefills
    <2>2. KvOK' /\ turn.base <= Len(rows') /\ Prefix(rows', turn.base) = Prefix(turn.before, turn.base)
      <3>1. expanded \in TokenSeqs
        BY <1>1, BegunFacts, ExpansionsIn
      <3> QED BY <1>1, <2>1, <3>1, Grown
    <2> DEFINE done == [turn EXCEPT !.left = <<>>, !.prefillTokens = turn.headTokens + turn.sequence]
               text == [turn EXCEPT !.stage = "after", !.left = turn.after]
    <2>3. turn \in Turn /\ turn.headTokens + turn.sequence \in Nat /\ turn.after \in TokenSeqs
      BY <1>1, BegunFacts DEF Turn
    <2>4. /\ done \in Turn /\ done.base = turn.base /\ done.before = turn.before
          /\ done.reason = turn.reason
      BY <2>3, EmptyIn DEF Turn
    <2>5. /\ text \in Turn /\ text.base = turn.base /\ text.before = turn.before
          /\ text.reason = turn.reason /\ text.stage = "after"
      BY <2>3 DEF Turn
    <2>6. Goes("prefilled", done) \/ Goes("batch", text)
      BY <1>4 DEF AdapterPrefills
    <2> HIDE DEF done, text
    <2> QED BY <1>1, <1>2, <2>2, <2>4, <2>5, <2>6, GoesOn
  <1> QED BY <1>3, <1>4

\* Leaving the prefill keeps the invariant.
LEMMA PrefilledStep ==
  ASSUME IInv, Prefilled
  PROVE  IInv'
  <1>1. at = "prefilled" /\ Begun /\ turn.reason # "cancelled"
    BY DEF Prefilled, Begun, Places, IInv, CancelledInDecode
  <1> DEFINE told == [turn EXCEPT !.events = @ + 1]
             ready == [told EXCEPT !.prompted = rows]
  <1>2. turn \in Turn /\ turn.events + 1 \in Nat /\ rows \in TokenSeqs
    BY <1>1, BegunFacts DEF Turn
  <1>3. told \in Turn /\ told.before = turn.before
    BY <1>2 DEF Turn
  <1>4. /\ ready \in Turn /\ ready.base = turn.base /\ ready.before = turn.before
        /\ ready.reason = turn.reason
    BY <1>2 DEF Turn
  <1>5. \/ Rewind(turn.base, writtenUntil) /\ Return(TRUE, "", "cancelled", Len(rows'), told)
        \/ Goes("decode", ready) /\ UNCHANGED kv
    BY DEF Prefilled
  <1> HIDE DEF told, ready
  <1>6. CASE Rewind(turn.base, writtenUntil) /\ Return(TRUE, "", "cancelled", Len(rows'), told)
    <2>1. KvOK' /\ IsPrefix(rows', turn.before) /\ Len(rows') \in Nat
      BY <1>1, <1>6, BegunFacts, Rewound
    <2>2. "" \in Codes /\ "cancelled" \in Reasons
      BY DEF Codes, Reasons
    <2> QED BY <1>3, <1>6, <2>1, <2>2, Leaves
  <1>7. CASE Goes("decode", ready) /\ UNCHANGED kv
    <2>1. KvOK' /\ rows' = rows
      BY <1>1, <1>7, BegunFacts, KvStays
    <2>2. "decode" \in Places \ {"idle", "wait", "encode", "reuse"}
      BY DEF Places
    <2> QED BY <1>1, <1>4, <1>7, <2>1, <2>2, BegunFacts, GoesOn DEF Position
  <1> QED BY <1>5, <1>6, <1>7

\* Stopping the decode loop keeps the invariant.
LEMMA StopStep ==
  ASSUME IInv, NEW next \in Sampled, StopDecode(next)
  PROVE  IInv'
  <1>1. at = "decode" /\ Begun /\ UNCHANGED kv
    BY DEF StopDecode, Begun, Places
  <1> DEFINE locals == [turn EXCEPT !.reason = Stops(next), !.natural = Stops(next) = "eos"]
  <1>2. KvOK' /\ rows' = rows /\ turn \in Turn
    BY <1>1, BegunFacts, KvStays
  <1>3. Stops(next) \in Reasons
    BY DEF StopDecode, Stops, Reasons
  <1>4. locals \in Turn /\ locals.base = turn.base /\ locals.before = turn.before
    <2>1. (Stops(next) = "eos") \in BOOLEAN
      OBVIOUS
    <2> HIDE DEF Stops
    <2> QED BY <1>2, <1>3, <2>1 DEF Turn
  <1>5. Goes("ending", locals)
    BY DEF StopDecode
  <1> HIDE DEF locals
  <1>6. "ending" \in Places \ {"idle", "wait", "encode", "reuse"}
    BY DEF Places
  <1> QED BY <1>1, <1>2, <1>4, <1>5, <1>6, BegunFacts, GoesOn DEF Position

\* What the decode loop writes in its locals keeps the start of the turn.
LEMMA CountedIn ==
  ASSUME IInv, turn \in Turn, NEW next \in Tokens
  PROVE  /\ Counted(next) \in Turn /\ Counted(next).base = turn.base
         /\ Counted(next).before = turn.before /\ Counted(next).reason = turn.reason
         /\ Counted(next).generated = turn.generated + 1
  <1>1. /\ turn.generated + 1 \in Nat /\ turn.thinking + 1 \in Nat /\ turn.visible + 1 \in Nat
        /\ (next # ThinkClose) \in BOOLEAN
    BY DEF Turn
  <1>2. Append(turn.out, next) \in TokenSeqs
    BY AppendProperties DEF Turn, TokenSeqs
  <1> DEFINE counted == [turn EXCEPT !.generated = @ + 1, !.out = Append(@, next)]
             thought == [counted EXCEPT !.inThink = next # ThinkClose, !.thinking = @ + 1]
             shown == [counted EXCEPT !.visible = @ + 1]
  <1>3. /\ thought \in Turn /\ thought.base = turn.base
        /\ thought.before = turn.before /\ thought.reason = turn.reason
        /\ thought.generated = turn.generated + 1
    BY <1>1, <1>2 DEF Turn
  <1>4. /\ shown \in Turn /\ shown.base = turn.base
        /\ shown.before = turn.before /\ shown.reason = turn.reason
        /\ shown.generated = turn.generated + 1
    BY <1>1, <1>2 DEF Turn
  <1>5. Counted(next) = thought \/ Counted(next) = shown
    BY DEF Counted
  <1> HIDE DEF thought, shown
  <1> QED BY <1>3, <1>4, <1>5

\* The locals of a thought cut short have their types.
LEMMA CutThoughtIn ==
  ASSUME IInv, turn \in Turn, NEW next \in Tokens
  PROVE  /\ CutThought(next) \in Turn /\ CutThought(next).base = turn.base
         /\ CutThought(next).before = turn.before /\ CutThought(next).reason = turn.reason
  <1>1. Append(turn.out, ThinkClose) \in TokenSeqs
    BY AppendProperties, SessionAssumption DEF Turn, TokenSeqs, Special
  <1>2. /\ Counted(next) \in Turn /\ Counted(next).base = turn.base
        /\ Counted(next).before = turn.before /\ Counted(next).reason = turn.reason
    BY CountedIn
  <1> QED BY <1>1, <1>2 DEF CutThought, Turn

\* A decoded token keeps the invariant.
LEMMA DecodeStep ==
  ASSUME IInv, NEW next \in Sampled, Decode(next)
  PROVE  IInv'
  <1>1. at = "decode" /\ Begun /\ turn.reason # "cancelled" /\ next \in Tokens
    BY SessionAssumption DEF Decode, Begun, Places, IInv, CancelledInDecode
  <1>2. turn \in Turn
    BY <1>1, BegunFacts
  <1>3. {"decode", "ending"} \subseteq Places \ {"idle", "wait", "encode", "reuse"}
    BY DEF Places
  <1>4. ASSUME NEW token \in Tokens, Push(<<token>>)
        PROVE  /\ KvOK' /\ turn.base <= Len(rows')
               /\ Prefix(rows', turn.base) = Prefix(turn.before, turn.base)
    BY <1>1, <1>4, SingletonIn, Grown
  <1>5. CASE CutsThinking(next)
    <2>1. Push(<<ThinkClose>>) /\ Goes("decode", CutThought(next)) /\ ThinkClose \in Tokens
      BY <1>5, SessionAssumption DEF Decode, Special
    <2>2. /\ CutThought(next) \in Turn /\ CutThought(next).base = turn.base
          /\ CutThought(next).before = turn.before /\ CutThought(next).reason = turn.reason
      BY <1>1, <1>2, CutThoughtIn
    <2> QED BY <1>1, <1>3, <1>4, <2>1, <2>2, GoesOn
  <1>6. CASE ~CutsThinking(next)
    <2> DEFINE spent == Counted(next).visible >= MaxVisible
               locals == [Counted(next) EXCEPT !.reason = IF spent THEN "max_tokens" ELSE @]
    <2>1. Push(<<next>>) /\ Goes(IF spent THEN "ending" ELSE "decode", locals)
      BY <1>6 DEF Decode
    <2>2. /\ Counted(next) \in Turn /\ Counted(next).base = turn.base
          /\ Counted(next).before = turn.before /\ Counted(next).reason = turn.reason
      BY <1>1, <1>2, CountedIn
    <2>3. /\ locals \in Turn /\ locals.base = turn.base /\ locals.before = turn.before
          /\ locals.reason # "cancelled"
      <3>1. "max_tokens" \in Reasons
        BY DEF Reasons
      <3> HIDE DEF spent
      <3> QED BY <1>1, <2>2, <3>1 DEF Turn
    <2> HIDE DEF spent, locals
    <2>4. (IF spent THEN "ending" ELSE "decode") \in {"decode", "ending"}
      OBVIOUS
    <2> QED BY <1>1, <1>3, <1>4, <2>1, <2>3, <2>4, GoesOn
  <1> QED BY <1>5, <1>6

\* A decode that throws keeps the invariant.
LEMMA DecodeThrowsStep ==
  ASSUME IInv, NEW next \in Sampled, DecodeThrows(next)
  PROVE  IInv'
  <1>1. at = "decode" /\ Begun /\ turn.reason # "cancelled" /\ next \in Tokens
    BY SessionAssumption DEF DecodeThrows, Begun, Places, IInv, CancelledInDecode
  <1>2. turn \in Turn /\ NotedUntil(Position + 1) \in Nat /\ turn.generated \in Nat
    <2>1. turn \in Turn /\ NotedUntil(Position + 1) \in Nat
      <3>1. turn \in Turn /\ writtenUntil \in Nat /\ Position \in Nat
        BY <1>1, BegunFacts
      <3>2. Position + 1 \in Nat
        BY <3>1
      <3> QED BY <3>1, <3>2, NotedIn
    <2> QED BY <2>1 DEF Turn
  <1> DEFINE cut == [CutThought(next) EXCEPT !.generated = turn.generated]
  <1>3. /\ CutThought(next) \in Turn /\ CutThought(next).base = turn.base
        /\ CutThought(next).before = turn.before /\ CutThought(next).reason = turn.reason
    BY <1>1, <1>2, CutThoughtIn
  <1>4. cut \in Turn /\ cut.base = turn.base /\ cut.before = turn.before /\ cut.reason = turn.reason
    BY <1>2, <1>3 DEF Turn
  <1>5. /\ Counted(next) \in Turn /\ Counted(next).base = turn.base
        /\ Counted(next).before = turn.before /\ Counted(next).reason = turn.reason
    BY <1>1, <1>2, CountedIn
  <1>6. Threw(NotedUntil(Position + 1), cut) \/ Threw(NotedUntil(Position + 1), Counted(next))
    BY DEF DecodeThrows
  <1> HIDE DEF cut
  <1> QED BY <1>1, <1>2, <1>4, <1>5, <1>6, ThrewStep

\* The end of the reply keeps the invariant.
LEMMA EndDecodeStep ==
  ASSUME IInv, EndDecode
  PROVE  IInv'
  <1>1. at = "ending" /\ Begun
    BY DEF EndDecode, Begun, Places
  <1>2. turn \in Turn /\ turn.generated \in Nat
    BY <1>1, BegunFacts DEF Turn
  <1>3. CASE turn.reason = "cancelled" /\ turn.generated = 0
    <2>1. Rewind(turn.base, writtenUntil) /\ Return(TRUE, "", "cancelled", Len(rows'), turn)
      BY <1>3 DEF EndDecode
    <2>2. KvOK' /\ IsPrefix(rows', turn.before) /\ Len(rows') \in Nat
      BY <1>1, <2>1, BegunFacts, Rewound
    <2>3. "" \in Codes /\ "cancelled" \in Reasons
      BY DEF Codes, Reasons
    <2> QED BY <1>2, <2>1, <2>2, <2>3, Leaves
  <1>4. CASE ~(turn.reason = "cancelled" /\ turn.generated = 0)
    <2> DEFINE marks == IF NeedsClosing THEN <<TurnEnd, NewLine>> ELSE <<>>
               locals == [turn EXCEPT !.closing = marks]
    <2>1. Goes("closing", locals) /\ UNCHANGED kv
      BY <1>4 DEF EndDecode
    <2>2. KvOK' /\ rows' = rows
      BY <1>1, <2>1, BegunFacts, KvStays
    <2>3. marks \in TokenSeqs
      <3>1. TurnEnd \in Tokens /\ NewLine \in Tokens
        BY SessionAssumption DEF Special
      <3>2. <<TurnEnd, NewLine>> \in TokenSeqs
        BY <3>1, PairIn DEF TokenSeqs
      <3> QED BY <3>2, EmptyIn
    <2>4. /\ locals \in Turn /\ locals.base = turn.base /\ locals.before = turn.before
          /\ locals.reason = turn.reason /\ locals.generated = turn.generated
      <3> HIDE DEF marks
      <3> QED BY <1>2, <2>3 DEF Turn
    <2> HIDE DEF locals
    <2>5. "closing" \in Places \ {"idle", "wait", "encode", "reuse"}
      BY DEF Places
    <2> QED BY <1>1, <1>2, <1>4, <2>1, <2>2, <2>4, <2>5, BegunFacts, GoesOn DEF Position
  <1> QED BY <1>3, <1>4

\* Closing the turn keeps the invariant.
LEMMA CloseTurnStep ==
  ASSUME IInv, CloseTurn
  PROVE  IInv'
  <1>1. at = "closing" /\ Begun /\ (turn.reason = "cancelled" => turn.generated > 0)
    BY DEF CloseTurn, Begun, Places, IInv, CancelledInDecode
  <1>2. turn \in Turn /\ turn.generated \in Nat /\ turn.reason \in Reasons /\ turn.closing \in TokenSeqs
    BY <1>1, BegunFacts DEF Turn
  <1>3. CASE Return(TRUE, "", turn.reason, Position, turn) /\ UNCHANGED kv
    <2>1. KvOK' /\ rows' = rows /\ Position = Len(rows') /\ Position \in Nat
      BY <1>1, <1>3, BegunFacts, KvStays DEF Position
    <2>2. "" \in Codes /\ ~(~TRUE /\ turn.visible = 0)
          /\ ~(turn.reason = "cancelled" /\ turn.generated = 0)
      BY <1>1, <1>2 DEF Codes
    <2> QED BY <1>2, <1>3, <2>1, <2>2, Leaves
  <1>4. CASE Threw(NotedUntil(Position + 1), turn)
    <2>1. writtenUntil \in Nat /\ Position + 1 \in Nat
      BY <1>1, BegunFacts
    <2>2. NotedUntil(Position + 1) \in Nat
      BY <2>1, NotedIn
    <2> QED BY <1>1, <1>2, <1>4, <2>2, ThrewStep
  <1>5. CASE turn.closing # <<>> /\ Push(<<Head(turn.closing)>>)
             /\ Goes("closing", [turn EXCEPT !.closing = Tail(@)])
    <2> DEFINE locals == [turn EXCEPT !.closing = Tail(@)]
    <2>1. Head(turn.closing) \in Tokens /\ Tail(turn.closing) \in TokenSeqs
      BY <1>2, <1>5, HeadTailProperties DEF TokenSeqs
    <2>2. KvOK' /\ turn.base <= Len(rows') /\ Prefix(rows', turn.base) = Prefix(turn.before, turn.base)
      BY <1>1, <1>5, <2>1, SingletonIn, Grown
    <2>3. /\ locals \in Turn /\ locals.base = turn.base /\ locals.before = turn.before
          /\ locals.reason = turn.reason /\ locals.generated = turn.generated
      BY <1>2, <2>1 DEF Turn
    <2>4. Goes("closing", locals)
      BY <1>5
    <2> HIDE DEF locals
    <2>5. "closing" \in Places \ {"idle", "wait", "encode", "reuse"}
      BY DEF Places
    <2> QED BY <1>1, <2>2, <2>3, <2>4, <2>5, GoesOn
  <1> QED BY <1>3, <1>4, <1>5 DEF CloseTurn
-----------------------------------------------------------------------------
(* The theorems.                                                            *)

\* The invariant holds of a new session.
LEMMA InitInv ==
  ASSUME Init
  PROVE  IInv
  <1>1. (CHOOSE r \in Requests : TRUE) \in Requests
    BY SessionAssumption
  <1>2. turn \in Turn
    <2>1. ASSUME NEW around \in Adapters
          PROVE  NewTurn(CHOOSE r \in Requests : TRUE, around) \in Turn
      BY <1>1, EmptyIn DEF Init, NewTurn, Turn, Reasons
    <2> QED BY <2>1 DEF Init
  <1>3. /\ rows = <<>> /\ kvTokens = <<>> /\ kvTracked = TRUE /\ at = "idle" /\ turns = 0
        /\ published = 0 /\ writtenUntil = 0 /\ cancel = FALSE /\ answer = NoAnswer
    BY DEF Init
  <1>4. TypeOK
    <2>1. NoAnswer \in [ok : BOOLEAN, code : Codes, reason : Reasons, position : Nat]
      BY DEF NoAnswer, Reasons, Codes
    <2> QED BY <1>2, <1>3, <2>1, EmptyIn DEF TypeOK, Places
  <1>5. TrackedListIsTheKv /\ ReportsItsPosition /\ InterruptedTurnLeavesNoTrace
    BY <1>3, EmptyIn
    DEF TrackedListIsTheKv, ReportsItsPosition, InterruptedTurnLeavesNoTrace, Returned, Position
  <1>6. Untouched /\ PositionTaken /\ FromBase /\ AtBase /\ HeadFirst /\ CancelledInDecode
    BY <1>3 DEF Untouched, PositionTaken, FromBase, AtBase, HeadFirst, CancelledInDecode
  <1> QED BY <1>4, <1>5, <1>6 DEF IInv

\* A stuttering step keeps the invariant.
LEMMA StutterStep ==
  ASSUME IInv, UNCHANGED vars
  PROVE  IInv'
  <1>1. UNCHANGED <<rows, writtenUntil, kvTokens, kvTracked, published, cancel, at, turn, answer, turns>>
    BY DEF vars, kv
  <1> QED
    BY <1>1 DEF IInv, TypeOK, TrackedListIsTheKv, ReportsItsPosition, InterruptedTurnLeavesNoTrace,
                Returned, SawNothing, Untouched, PositionTaken, FromBase, AtBase, HeadFirst,
                CancelledInDecode, Position

(* Whatever is asked, cancelled or fails, and wherever: the inductive       *)
(* invariant of run_turn holds in every reachable state.                    *)
THEOREM Invariant == Spec => []IInv
  <1>1. Init => IInv
    BY InitInv
  <1>2. IInv /\ [Next]_vars => IInv'
    <2> SUFFICES ASSUME IInv, [Next]_vars
                 PROVE  IInv'
      OBVIOUS
    <2>1. CASE UNCHANGED vars
      BY <2>1, StutterStep
    <2>2. ASSUME NEW req \in Requests, Ask(req)
          PROVE  IInv'
      BY <2>2, AskStep
    <2>3. CASE Cancel \/ Reset \/ GiveUpWaiting \/ Lock \/ RefuseRequest \/ Encode
               \/ CancelBeforePrefill
      BY <2>3, CancelStep, ResetStep, WaitSteps, EncodeSteps
    <2>4. CASE ReusePrefix \/ PrefillText \/ PrefillImage \/ Batch \/ EndBatch
      BY <2>4, ReusePrefixStep, PrefillStep, BatchStep, EndBatchStep
    <2>5. CASE InvalidAttachment \/ AdapterFails \/ AdapterPrefills \/ SkipAdapter \/ Prefilled
      BY <2>5, ImageFails, ImageStep, PrefilledStep
    <2>6. ASSUME NEW next \in Sampled, StopDecode(next) \/ Decode(next) \/ DecodeThrows(next)
          PROVE  IInv'
      BY <2>6, StopStep, DecodeStep, DecodeThrowsStep
    <2>7. CASE EndDecode \/ CloseTurn
      BY <2>7, EndDecodeStep, CloseTurnStep
    <2> QED BY <2>1, <2>2, <2>3, <2>4, <2>5, <2>6, <2>7 DEF Next
  <1> QED BY <1>1, <1>2, PTL DEF Spec

(* What the session believes is in the KV is what is there: the list it     *)
(* compares a resent prompt with, kept by rewind, clear, untrack and every  *)
(* forward, is the conversation or is given up.                             *)
THEOREM TrackedListCorrect == Spec => []TrackedListIsTheKv
  BY Invariant, PTL DEF IInv

(* The position a turn reports and the snapshot a waiting turn would report *)
(* are the session's, on every exit of run_turn but the one of an invalid   *)
(* attachment.                                                              *)
THEOREM PositionCorrect == Spec => []ReportsItsPosition
  BY Invariant, PTL DEF IInv

(* A turn cancelled or failed before the client saw anything leaves nothing *)
(* of itself in the KV, wherever it stopped.                                *)
THEOREM NoTrace == Spec => []InterruptedTurnLeavesNoTrace
  BY Invariant, PTL DEF IInv
-----------------------------------------------------------------------------
(* Sequences put together again.                                            *)

\* A sequence is its prefix and what is left.
LEMMA SplitAt ==
  ASSUME NEW s \in TokenSeqs, NEW n \in 0 .. Len(s)
  PROVE  Prefix(s, n) \o Without(s, n) = s /\ Len(Without(s, n)) = Len(s) - n
  <1>1. Len(s) \in Nat /\ s \in Seq(Tokens)
    BY LenProperties DEF TokenSeqs
  <1>2. SubSeq(s, 1, n) \o SubSeq(s, n + 1, Len(s)) = SubSeq(s, 1, Len(s))
    <2>1. 1 \in 1 .. Len(s) + 1 /\ n \in 1 - 1 .. Len(s) /\ Len(s) \in n .. Len(s)
      BY <1>1
    <2> QED BY <1>1, <2>1, ConcatAdjacentSubSeq
  <1>3. Len(Without(s, n)) = Len(s) - n
    <2>1. \A i \in n + 1 .. Len(s) : s[i] \in Tokens
      BY <1>1, LenProperties
    <2> QED BY <1>1, <2>1, SubSeqProperties DEF Without
  <1> QED BY <1>1, <1>2, <1>3, SubSeqFull DEF Prefix, Without

\* Concatenation is associative.
LEMMA JoinedTwice ==
  ASSUME NEW s \in TokenSeqs, NEW t \in TokenSeqs, NEW u \in TokenSeqs
  PROVE  (s \o t) \o u = s \o (t \o u)
  BY ConcatAssociative DEF TokenSeqs

\* Moving the next part of what is left into the KV keeps the whole.
LEMMA PartMoved ==
  ASSUME NEW s \in TokenSeqs, NEW t \in TokenSeqs, NEW n \in 0 .. Len(t)
  PROVE  (s \o Prefix(t, n)) \o Without(t, n) = s \o t
  <1>1. Len(t) \in Nat /\ Prefix(t, n) \in TokenSeqs
    BY LenProperties, PrefixOf DEF TokenSeqs
  <1>2. Without(t, n) \in TokenSeqs
    BY <1>1, WithoutIn
  <1> DEFINE u == Prefix(t, n)
             v == Without(t, n)
  <1>3. u \o v = t
    BY SplitAt
  <1> HIDE DEF u, v
  <1>4. (s \o u) \o v = s \o (u \o v)
    BY <1>1, <1>2, JoinedTwice DEF u, v
  <1> QED BY <1>3, <1>4 DEF u, v

\* Appending to what follows is appending to the whole.
LEMMA AppendMoved ==
  ASSUME NEW s \in TokenSeqs, NEW t \in TokenSeqs, NEW x \in Tokens
  PROVE  s \o Append(t, x) = (s \o t) \o <<x>>
  <1>1. Append(t, x) = t \o <<x>> /\ <<x>> \in TokenSeqs
    BY AppendIsConcat, SingletonIn DEF TokenSeqs
  <1> QED BY <1>1, ConcatAssociative DEF TokenSeqs

\* Nothing appended changes nothing.
LEMMA ConcatEmpty ==
  ASSUME NEW s \in TokenSeqs
  PROVE  <<>> \o s = s /\ s \o <<>> = s
  BY ConcatEmptySeq DEF TokenSeqs

\* What was joined to a sequence is what is found past it.
LEMMA JoinedIsFound ==
  ASSUME NEW s \in TokenSeqs, NEW t \in TokenSeqs
  PROVE  IsPrefix(s, s \o t) /\ Without(s \o t, Len(s)) = t
  <1>1. /\ s \o t \in TokenSeqs /\ Len(s \o t) = Len(s) + Len(t) /\ Len(s) \in Nat /\ Len(t) \in Nat
        /\ Prefix(s \o t, Len(s)) = Prefix(s, Len(s))
    BY PrefixOfConcat DEF TokenSeqs
  <1>2. IsPrefix(s, s \o t)
    BY <1>1 DEF IsPrefix, Prefix
  <1>3. CASE t = <<>>
    <2>1. SubSeq(s, Len(s) + 1, Len(s)) = <<>>
      BY <1>1, SubSeqEmpty
    <2> QED BY <1>1, <1>2, <1>3, <2>1, ConcatEmpty DEF Without
  <1>4. CASE t # <<>>
    <2>1. Len(t) > 0
      BY <1>1, <1>4, EmptySeq DEF TokenSeqs
    <2>2. SubSeq(s \o t, Len(s) + 1, Len(s) + Len(t)) = SubSeq(t, 1, Len(t))
      <3>1. Len(s) + 1 \in Len(s) + 1 .. Len(s) + Len(t) /\ Len(s) + Len(t) \in Len(s) + 1 .. Len(s) + Len(t)
        BY <1>1, <2>1
      <3>2. SubSeq(s \o t, Len(s) + 1, Len(s) + Len(t))
              = SubSeq(t, Len(s) + 1 - Len(s), Len(s) + Len(t) - Len(s))
        BY <3>1, SubSeqOfConcat2 DEF TokenSeqs
      <3>3. Len(s) + 1 - Len(s) = 1 /\ Len(s) + Len(t) - Len(s) = Len(t)
        BY <1>1
      <3> QED BY <3>2, <3>3
    <2> QED BY <1>1, <1>2, <2>2, SubSeqFull DEF Without, TokenSeqs
  <1> QED BY <1>3, <1>4

\* Two marks appended one by one.
LEMMA JoinedPair ==
  ASSUME NEW S, NEW x \in S, NEW y \in S
  PROVE  <<x>> \o <<y>> = <<x, y>>
  <1>1. /\ <<x>> \in Seq(S) /\ <<y>> \in Seq(S) /\ <<x, y>> \in Seq(S)
        /\ Len(<<x>>) = 1 /\ Len(<<y>>) = 1 /\ Len(<<x, y>>) = 2
        /\ <<x>>[1] = x /\ <<y>>[1] = y /\ <<x, y>>[1] = x /\ <<x, y>>[2] = y
    OBVIOUS
  <1> DEFINE a == <<x>>
             b == <<y>>
             c == <<x, y>>
  <1> HIDE DEF a, b, c
  <1>2. /\ a \in Seq(S) /\ b \in Seq(S) /\ c \in Seq(S)
        /\ Len(a) = 1 /\ Len(b) = 1 /\ Len(c) = 2 /\ a[1] = x /\ b[1] = y /\ c[1] = x /\ c[2] = y
    BY <1>1 DEF a, b, c
  <1>3. a \o b \in Seq(S) /\ Len(a \o b) = 2 /\ (a \o b)[1] = x /\ (a \o b)[2] = y
    <2>1. a \o b \in Seq(S) /\ Len(a \o b) = Len(a) + Len(b)
          /\ \A i \in 1 .. Len(a) + Len(b) : (a \o b)[i] = IF i <= Len(a) THEN a[i] ELSE b[i - Len(a)]
      BY <1>2, ConcatProperties
    <2> QED BY <1>2, <2>1
  <1>4. \A i \in 1 .. Len(a \o b) : (a \o b)[i] = c[i]
    BY <1>2, <1>3
  <1>5. a \o b = c
    BY <1>2, <1>3, <1>4, SeqEqual
  <1> QED BY <1>5 DEF a, b, c

\* Reading a sequence backwards gives a sequence as long.
LEMMA ReversedIn ==
  ASSUME NEW S, NEW s, NEW n \in Nat, \A i \in 1 .. n : s[(n - i) + 1] \in S
  PROVE  /\ [i \in 1 .. n |-> s[(n - i) + 1]] \in Seq(S)
         /\ Len([i \in 1 .. n |-> s[(n - i) + 1]]) = n
  OBVIOUS

\* The marks that close a turn, in order.
LEMMA MarksFound ==
  ASSUME NEW s \in TokenSeqs
  PROVE  /\ (s \o <<TurnEnd>>) \o <<NewLine>> = s \o <<TurnEnd, NewLine>>
         /\ IsSuffix(<<TurnEnd, NewLine>>, (s \o <<TurnEnd>>) \o <<NewLine>>)
         /\ IsPrefix(<<>>, <<TurnEnd, NewLine>>) /\ IsPrefix(<<TurnEnd>>, <<TurnEnd, NewLine>>)
         /\ IsPrefix(<<TurnEnd, NewLine>>, <<TurnEnd, NewLine>>)
         /\ <<TurnEnd>> \in TokenSeqs /\ <<NewLine>> \in TokenSeqs /\ <<TurnEnd, NewLine>> \in TokenSeqs
  <1> DEFINE a == TurnEnd
             b == NewLine
             whole == (s \o <<a>>) \o <<b>>
             marks == <<a, b>>
  <1>1. a \in Tokens /\ b \in Tokens
    BY SessionAssumption DEF Special
  <1> HIDE DEF a, b
  <1>2. <<a>> \in TokenSeqs /\ <<b>> \in TokenSeqs /\ Len(<<a>>) = 1 /\ Len(<<b>>) = 1
    BY <1>1, SingletonIn
  <1>3. marks \in TokenSeqs /\ Len(marks) = 2 /\ marks[1] = a /\ marks[2] = b
    BY <1>1, PairIn DEF TokenSeqs
  <1>4. /\ s \o <<a>> \in TokenSeqs /\ Len(s \o <<a>>) = Len(s) + 1 /\ Len(s) \in Nat
        /\ \A i \in 1 .. Len(s) + 1 : (s \o <<a>>)[i] = IF i <= Len(s) THEN s[i] ELSE <<a>>[i - Len(s)]
    BY <1>2, ConcatProperties, LenProperties DEF TokenSeqs
  <1>5. /\ whole \in TokenSeqs /\ Len(whole) = Len(s) + 2
        /\ \A i \in 1 .. Len(s) + 2 :
             whole[i] = IF i <= Len(s) + 1 THEN (s \o <<a>>)[i] ELSE <<b>>[i - (Len(s) + 1)]
    BY <1>2, <1>4, ConcatProperties DEF TokenSeqs
  <1>6. whole[Len(s) + 1] = a /\ whole[Len(s) + 2] = b
    <2>1. (s \o <<a>>)[Len(s) + 1] = a
      <3>1. Len(s) + 1 - Len(s) = 1 /\ Len(s) + 1 \in 1 .. Len(s) + 1 /\ ~(Len(s) + 1 <= Len(s))
        BY <1>4
      <3>2. <<a>>[1] = a
        OBVIOUS
      <3> QED BY <1>4, <3>1, <3>2
    <2>2. /\ Len(s) + 2 - (Len(s) + 1) = 1 /\ Len(s) + 2 \in 1 .. Len(s) + 2
          /\ ~(Len(s) + 2 <= Len(s) + 1) /\ Len(s) + 1 \in 1 .. Len(s) + 2
      BY <1>4
    <2>3. <<b>>[1] = b
      OBVIOUS
    <2> QED BY <1>4, <1>5, <2>1, <2>2, <2>3
  <1>7. whole = s \o marks
    <2>1. <<a>> \o <<b>> = marks
      BY <1>1, JoinedPair
    <2>2. whole = s \o (<<a>> \o <<b>>)
      BY <1>2, ConcatAssociative DEF TokenSeqs
    <2> QED BY <2>1, <2>2
  <1>8. IsSuffix(marks, whole)
    <2> HIDE DEF whole, marks
    <2>1. /\ Reverse(marks) \in Seq(Tokens) /\ Len(Reverse(marks)) = 2
          /\ Reverse(marks)[1] = b /\ Reverse(marks)[2] = a
      <3>1. Reverse(marks) = [i \in 1 .. 2 |-> marks[(2 - i) + 1]]
        BY <1>3 DEF Reverse
      <3>2. (2 - 1) + 1 = 2 /\ (2 - 2) + 1 = 1
        OBVIOUS
      <3>3. Reverse(marks) = [i \in 1 .. 2 |-> IF i = 1 THEN b ELSE a]
        <4>1. \A i \in 1 .. 2 : marks[(2 - i) + 1] = IF i = 1 THEN b ELSE a
          BY <1>3, <3>2
        <4> QED BY <3>1, <4>1
      <3> QED BY <1>1, <3>3
    <2>2. /\ Reverse(whole) \in Seq(Tokens) /\ Len(Reverse(whole)) = Len(s) + 2
          /\ Reverse(whole)[1] = b /\ Reverse(whole)[2] = a
      <3>1. Reverse(whole) = [i \in 1 .. Len(s) + 2 |-> whole[(Len(s) + 2 - i) + 1]]
        BY <1>5 DEF Reverse
      <3>2. \A i \in 1 .. Len(s) + 2 : (Len(s) + 2 - i) + 1 \in 1 .. Len(s) + 2
        BY <1>4
      <3>3. \A i \in 1 .. Len(s) + 2 : whole[(Len(s) + 2 - i) + 1] \in Tokens
        <4>1. \A i \in 1 .. Len(s) + 2 : whole[i] \in Tokens
          BY <1>5, ElementOfSeq DEF TokenSeqs
        <4> QED BY <3>2, <4>1
      <3>4. Reverse(whole) \in Seq(Tokens) /\ Len(Reverse(whole)) = Len(s) + 2
        BY <1>4, <3>1, <3>3, ReversedIn
      <3>5. 1 \in 1 .. Len(s) + 2 /\ 2 \in 1 .. Len(s) + 2
            /\ (Len(s) + 2 - 1) + 1 = Len(s) + 2 /\ (Len(s) + 2 - 2) + 1 = Len(s) + 1
        BY <1>4
      <3> QED BY <1>6, <3>1, <3>4, <3>5
    <2>3. SubSeq(Reverse(marks), 1, 2) = SubSeq(Reverse(whole), 1, 2)
      <3> DEFINE r == Reverse(marks)
                 w == Reverse(whole)
      <3>1. \A i \in 1 .. 2 : r[i] \in Tokens /\ w[i] \in Tokens /\ r[i] = w[i]
        BY <1>1, <2>1, <2>2
      <3> HIDE DEF r, w
      <3>2. /\ SubSeq(r, 1, 2) \in Seq(Tokens) /\ Len(SubSeq(r, 1, 2)) = 2
            /\ \A i \in 1 .. 2 : SubSeq(r, 1, 2)[i] = r[i]
        BY <3>1, SubSeqProperties
      <3>3. /\ SubSeq(w, 1, 2) \in Seq(Tokens) /\ Len(SubSeq(w, 1, 2)) = 2
            /\ \A i \in 1 .. 2 : SubSeq(w, 1, 2)[i] = w[i]
        BY <3>1, SubSeqProperties
      <3>4. SubSeq(r, 1, 2) = SubSeq(w, 1, 2)
        <4>1. \A i \in 1 .. Len(SubSeq(r, 1, 2)) : SubSeq(r, 1, 2)[i] = SubSeq(w, 1, 2)[i]
          BY <3>1, <3>2, <3>3
        <4> QED BY <3>2, <3>3, <4>1, SeqEqual
      <3> QED BY <3>4 DEF r, w
    <2> QED BY <1>4, <2>1, <2>2, <2>3 DEF IsSuffix, IsPrefix
  <1>9. IsPrefix(<<>>, marks) /\ IsPrefix(marks, marks)
    BY <1>3, InitialParts
  <1>10. IsPrefix(<<a>>, marks)
    <2>1. <<a>> \o <<b>> = marks
      BY <1>1, JoinedPair
    <2> QED BY <1>2, <2>1, JoinedIsFound
  <1> QED BY <1>2, <1>3, <1>7, <1>8, <1>9, <1>10 DEF a, b

-----------------------------------------------------------------------------
(***************************************************************************)
(* The second invariant: what is left to write always fits, a resent       *)
(* prompt is completed by what was kept of it, and the KV is what was read *)
(* and said.  Each part is about where run_turn goes with its locals, and  *)
(* what the KV holds then.                                                 *)
(***************************************************************************)

\* Before decode: the margin of the capacity check, and what an attachment takes.
Fits(where, locals, n) ==
  /\ n <= MaxSeq
  /\ where \in {"wait", "encode", "reuse", "prefill"} => locals.stage = "text"
  /\ where = "batch" /\ locals.stage = "head" => locals.around /\ locals.sequence = Soft
  /\ where = "image" =>
       locals.sequence = IF locals.around THEN Soft ELSE Len(locals.left) + Soft - 1
  /\ ~locals.req.image =>
       /\ where # "image"
       /\ where = "batch" => locals.stage = "text"
       /\ where \in {"prefill", "batch"} => n + Len(locals.left) + 8 < MaxSeq
       /\ where = "prefilled" => n + 8 < MaxSeq
       /\ where \in {"decode", "ending"} => n + 4 <= MaxSeq
       /\ where = "closing" => n + Len(locals.closing) + 2 <= MaxSeq

\* A prompt that is resent is compared with the KV it finds, whole.
Resends(req) == req.preformatted /\ req.reuse /\ ~req.image
Completes(where, locals, held, tracked) ==
  /\ where \in {"wait", "encode", "reuse"} /\ locals.tracked => tracked
  /\ where = "reuse" /\ locals.req.preformatted => locals.left = locals.req.ids
  /\ where \in {"prefill", "batch"} /\ Resends(locals.req) /\ locals.tracked
       => held \o locals.left = locals.req.ids

\* A reply that has to be closed, whatever the model sampled.
MustClose(locals) == locals.req.close /\ (IsGemma4 \/ locals.reason # "eos")
Spoken(locals) == locals.prompted \o locals.out

\* The KV is the prompt and the reply, and then the marks that close the turn.
Speaks(where, locals, held) ==
  /\ where \notin {"decode", "ending", "closing"} => locals.generated = 0 /\ locals.out = <<>>
  /\ where \in {"decode", "ending"} => held = Spoken(locals)
  /\ where = "ending" /\ locals.reason = "eos" => locals.natural
  /\ where = "closing" =>
       \/ locals.closing = <<TurnEnd, NewLine>> /\ held = Spoken(locals)
       \/ locals.closing = <<NewLine>> /\ held = Spoken(locals) \o <<TurnEnd>>
       \/ locals.closing = <<>> /\ held = (Spoken(locals) \o <<TurnEnd>>) \o <<NewLine>>
       \/ locals.closing = <<>> /\ held = Spoken(locals) /\ ~MustClose(locals)

SecondInv ==
  /\ at # "idle" =>
       Fits(at, turn, Position) /\ Completes(at, turn, rows, kvTracked) /\ Speaks(at, turn, rows)
  /\ NeverPastCapacity /\ EmittedIsRemembered /\ TurnsEndAtBoundary
-----------------------------------------------------------------------------
\* A step that stays inside run_turn needs the three parts of where it goes.
LEMMA SecondStays ==
  ASSUME NEW where \in Places \ {"idle"}, NEW locals, Goes(where, locals),
         Fits(where, locals, Len(rows')), Completes(where, locals, rows', kvTracked'),
         Speaks(where, locals, rows')
  PROVE  SecondInv'
  <1>1. at' = where /\ turn' = locals /\ at' # "idle"
    BY DEF Goes
  <1>2. NeverPastCapacity'
    BY DEF Fits, NeverPastCapacity, Position
  <1>3. EmittedIsRemembered' /\ TurnsEndAtBoundary'
    BY <1>1 DEF EmittedIsRemembered, TurnsEndAtBoundary, Returned
  <1> QED BY <1>1, <1>2, <1>3 DEF SecondInv, Position

\* A turn that fails, or is cancelled before it said anything, promises nothing.
LEMMA SecondLeaves ==
  ASSUME NEW ok, NEW code, NEW reason, NEW position, NEW locals, Return(ok, code, reason, position, locals),
         Len(rows') <= MaxSeq, locals.generated \in Nat,
         ok = FALSE \/ (reason = "cancelled" /\ locals.generated = 0)
  PROVE  SecondInv'
  <1>1. /\ at' = "idle" /\ turn' = locals
        /\ answer' = [ok |-> ok, code |-> code, reason |-> reason, position |-> position]
    BY DEF Return
  <1>2. answer'.ok = ok /\ answer'.reason = reason
    BY <1>1
  <1>3. EmittedIsRemembered'
    BY <1>1, <1>2 DEF EmittedIsRemembered
  <1>4. TurnsEndAtBoundary'
    BY <1>1, <1>2 DEF TurnsEndAtBoundary, SawNothing
  <1> QED BY <1>1, <1>3, <1>4 DEF SecondInv, NeverPastCapacity, Position

\* What both invariants give of a turn that runs.
LEMMA SecondFacts ==
  ASSUME IInv, SecondInv, at # "idle"
  PROVE  /\ Fits(at, turn, Position) /\ Completes(at, turn, rows, kvTracked) /\ Speaks(at, turn, rows)
         /\ Position <= MaxSeq /\ MaxSeq \in Nat /\ Position \in Nat /\ Position = Len(rows)
         /\ turn \in Turn /\ turn.generated \in Nat /\ rows \in TokenSeqs /\ KvOK
         /\ turn.left \in TokenSeqs /\ Len(turn.left) \in Nat /\ turn.base \in Nat /\ writtenUntil \in Nat
  <1>1. turn \in Turn /\ KvOK /\ Position \in Nat /\ rows \in TokenSeqs /\ writtenUntil \in Nat
    BY KvFromInv DEF IInv, TypeOK
  <1>2. turn.generated \in Nat /\ turn.left \in TokenSeqs /\ turn.base \in Nat
    BY <1>1 DEF Turn
  <1>3. Len(turn.left) \in Nat
    BY <1>2, LenProperties DEF TokenSeqs
  <1> QED BY <1>1, <1>2, <1>3, SessionAssumption DEF SecondInv, NeverPastCapacity, Position

\* Taking back the end of the conversation, or all of it, makes room.
LEMMA RewindShrinks ==
  ASSUME KvOK, NEW p \in Nat, NEW written \in Nat, Rewind(p, written)
  PROVE  Len(rows') \in Nat /\ Len(rows') <= Len(rows)
  <1>1. rows \in TokenSeqs /\ Len(rows) \in Nat
    BY LenProperties DEF KvOK, TokenSeqs
  <1>2. CASE rows' = <<>>
    BY <1>1, <1>2, EmptyIn
  <1>3. CASE p <= Position /\ rows' = Prefix(rows, p)
    <2>1. p \in 0 .. Len(rows)
      BY <1>1, <1>3 DEF Position
    <2> QED BY <1>1, <1>3, <2>1, PrefixOf
  <1> QED BY <1>2, <1>3, RewindKeepsKv

\* An exception keeps the second invariant.
LEMMA SecondThrew ==
  ASSUME IInv, SecondInv, at # "idle", NEW written \in Nat, NEW locals \in Turn, Threw(written, locals),
         locals.base = turn.base
  PROVE  SecondInv'
  <1>1. Return(FALSE, "engine_failure", locals.reason, Len(rows'), locals)
    BY DEF Threw
  <1>2. rows' = <<>> \/ rows' = rows \/ Rewind(turn.base, written)
    BY DEF Threw, Clear
  <1>3. Len(rows') <= MaxSeq
    BY <1>2, SecondFacts, RewindShrinks, EmptyIn
  <1>4. locals.generated \in Nat
    BY DEF Turn
  <1> QED BY <1>1, <1>3, <1>4, SecondLeaves

\* A request keeps the second invariant.
LEMMA SecondAsk ==
  ASSUME IInv, SecondInv, NEW req \in Requests, Ask(req)
  PROVE  SecondInv'
  <1> DEFINE locals == NewTurn(req, turn.around)
  <1>1. at' = "wait" /\ turn' = locals /\ rows' = rows /\ kvTracked' = kvTracked
    BY DEF Ask, kv
  <1>2. locals.stage = "text" /\ locals.tracked = kvTracked /\ locals.generated = 0 /\ locals.out = <<>>
    BY DEF NewTurn
  <1> HIDE DEF locals
  <1>3. Len(rows) <= MaxSeq
    BY DEF SecondInv, NeverPastCapacity, Position
  <1>4. Fits("wait", locals, Len(rows)) /\ Completes("wait", locals, rows, kvTracked) /\ Speaks("wait", locals, rows)
    BY <1>2, <1>3 DEF Fits, Completes, Speaks
  <1>5. NeverPastCapacity' /\ EmittedIsRemembered' /\ TurnsEndAtBoundary'
    BY <1>1, <1>3 DEF EmittedIsRemembered, TurnsEndAtBoundary, Returned, NeverPastCapacity, Position
  <1> QED BY <1>1, <1>4, <1>5 DEF SecondInv, Position

\* A reset keeps the second invariant.
LEMMA SecondReset ==
  ASSUME IInv, SecondInv, Reset
  PROVE  SecondInv'
  <1>1. at' = "idle" /\ turn' = NewTurn(turn.req, turn.around) /\ answer' = NoAnswer /\ rows' = <<>>
    BY DEF Reset, Clear
  <1>2. turn'.generated = 0 /\ turn'.events = 0
    BY <1>1 DEF NewTurn
  <1>3. Len(rows') = 0 /\ MaxSeq \in Nat
    BY <1>1, EmptyIn, SessionAssumption
  <1> QED BY <1>1, <1>2, <1>3 DEF SecondInv, NeverPastCapacity, EmittedIsRemembered, TurnsEndAtBoundary, Position

\* A step that changes nothing the second invariant reads keeps it.
LEMMA SecondUnchanged ==
  ASSUME SecondInv, UNCHANGED <<rows, kvTracked, at, turn, answer, turns>>
  PROVE  SecondInv'
  BY DEF SecondInv, NeverPastCapacity, EmittedIsRemembered, TurnsEndAtBoundary, Returned, SawNothing, Position

\* The steps before the KV is touched keep the second invariant.
LEMMA SecondWaits ==
  ASSUME IInv, SecondInv, GiveUpWaiting \/ Lock \/ RefuseRequest \/ CancelBeforePrefill
  PROVE  SecondInv'
  <1>1. at \in {"wait", "encode", "reuse"} /\ rows' = rows /\ kvTracked' = kvTracked
    BY DEF GiveUpWaiting, Lock, RefuseRequest, CancelBeforePrefill, kv
  <1>2. turn.generated = 0 /\ turn.out = <<>> /\ Len(rows') <= MaxSeq /\ turn \in Turn
    BY <1>1, SecondFacts DEF Speaks
  <1>3. CASE \E ok, code, reason, position :
               /\ Return(ok, code, reason, position, turn)
               /\ ok = FALSE \/ reason = "cancelled"
    <2>1. PICK ok, code, reason, position :
            /\ Return(ok, code, reason, position, turn)
            /\ ok = FALSE \/ reason = "cancelled"
      BY <1>3
    <2>2. turn.generated \in Nat
      BY <1>2
    <2> QED BY <1>2, <2>1, <2>2, SecondLeaves
  <1>4. CASE Goes("encode", [turn EXCEPT !.antes = Position]) /\ at = "wait"
    <2> DEFINE locals == [turn EXCEPT !.antes = Position]
    <2>1. /\ locals.stage = turn.stage /\ locals.tracked = turn.tracked /\ locals.generated = turn.generated /\ locals.out = turn.out
          /\ locals.req = turn.req
      BY <1>2 DEF Turn
    <2>2. Goes("encode", locals)
      BY <1>4
    <2> HIDE DEF locals
    <2>3. Fits("encode", locals, Len(rows')) /\ Completes("encode", locals, rows', kvTracked')
          /\ Speaks("encode", locals, rows')
      BY <1>1, <1>2, <1>4, <2>1, SecondFacts DEF Fits, Completes, Speaks
    <2>4. "encode" \in Places \ {"idle"}
      BY DEF Places
    <2> QED BY <2>2, <2>3, <2>4, SecondStays
  <1> QED BY <1>3, <1>4 DEF GiveUpWaiting, Lock, RefuseRequest, CancelBeforePrefill, Refuse, ReturnCancelled

\* Encoding leaves the whole prompt to read: a resent one as it was sent.
LEMMA SecondEncode ==
  ASSUME IInv, SecondInv, Encode
  PROVE  SecondInv'
  <1> DEFINE locals == [turn EXCEPT !.left = Encoded(turn.req)]
  <1>1. at = "encode" /\ rows' = rows /\ kvTracked' = kvTracked /\ Goes("reuse", locals)
    BY DEF Encode, kv
  <1>2. turn \in Turn
    BY <1>1, SecondFacts
  <1>3. /\ locals.stage = turn.stage /\ locals.tracked = turn.tracked /\ locals.generated = turn.generated /\ locals.out = turn.out
        /\ locals.req = turn.req /\ locals.left = Encoded(turn.req)
    BY <1>2 DEF Turn
  <1> HIDE DEF locals
  <1>4. turn.req.preformatted => locals.left = turn.req.ids
    BY <1>3 DEF Encoded
  <1>5. Fits("reuse", locals, Len(rows'))
    BY <1>1, <1>3, SecondFacts DEF Fits
  <1>6. Completes("reuse", locals, rows', kvTracked') /\ Speaks("reuse", locals, rows')
    BY <1>1, <1>3, <1>4, SecondFacts DEF Completes, Speaks
  <1>7. "reuse" \in Places \ {"idle"}
    BY DEF Places
  <1> QED BY <1>1, <1>5, <1>6, <1>7, SecondStays

(* What was kept of the KV is the beginning of the prompt, so that with     *)
(* what is left to process it makes up the prompt.                          *)
LEMMA KeptIsThePrompt ==
  ASSUME KvOK, NEW prompt \in TokenSeqs, turn.left = prompt, Reuses, NEW common \in Common,
         IF Kept(common) > 0 THEN Rewind(Kept(common), writtenUntil) ELSE Clear
  PROVE  rows' \o Without(prompt, Kept(common)) = prompt
  <1>1. kvTokens = rows /\ rows \in TokenSeqs
    BY DEF Reuses, PrefixUsable, KvOK, TrackedListIsTheKv
  <1>2. Len(rows) \in Nat /\ Len(prompt) \in Nat
    BY <1>1, LenProperties DEF TokenSeqs
  <1>3. common \in Nat /\ common <= Len(rows) /\ common <= Len(prompt)
        /\ Prefix(rows, common) = Prefix(prompt, common)
    BY <1>1, <1>2 DEF Common, Smaller
  <1>4. Target(common) \in Nat /\ Target(common) <= common
    BY <1>2, <1>3 DEF Target
  <1>5. CASE Kept(common) > 0
    <2> DEFINE n == Kept(common)
    <2>1. n = Target(common) /\ CanRewind(n, writtenUntil)
      BY <1>5 DEF Kept
    <2>2. rows' = Prefix(rows, n)
      BY <1>5, <2>1 DEF Rewind
    <2>3. n \in 0 .. common /\ common \in 0 .. Len(rows) /\ common \in 0 .. Len(prompt) /\ n \in 0 .. Len(prompt)
      BY <1>2, <1>3, <1>4, <2>1
    <2> HIDE DEF n
    <2>4. Prefix(rows, n) = Prefix(prompt, n)
      <3>1. Prefix(Prefix(rows, common), n) = Prefix(rows, n)
        BY <1>1, <2>3, PrefixOf
      <3>2. Prefix(Prefix(prompt, common), n) = Prefix(prompt, n)
        BY <2>3, PrefixOf
      <3> QED BY <1>3, <3>1, <3>2
    <2>5. rows' \o Without(prompt, n) = prompt
      BY <2>2, <2>3, <2>4, SplitAt
    <2> QED BY <2>5 DEF n
  <1>6. CASE ~(Kept(common) > 0)
    <2>1. Kept(common) = 0
      BY <1>4, <1>6 DEF Kept
    <2>2. rows' = <<>>
      BY <1>6 DEF Clear
    <2>3. Prefix(prompt, 0) = <<>>
      BY SubSeqEmpty DEF Prefix
    <2>4. 0 \in 0 .. Len(prompt)
      BY <1>2
    <2> QED BY <2>1, <2>2, <2>3, <2>4, SplitAt
  <1> QED BY <1>5, <1>6

\* What reuse keeps of a resent prompt, and what it leaves to read, are the prompt.
LEMMA SecondReuse ==
  ASSUME IInv, SecondInv, ReusePrefix
  PROVE  SecondInv'
  <1>1. at = "reuse"
    BY DEF ReusePrefix
  <1>2. /\ turn \in Turn /\ KvOK /\ turn.left \in TokenSeqs /\ Len(turn.left) \in Nat /\ turn.generated = 0 /\ turn.out = <<>>
        /\ turn.stage = "text" /\ MaxSeq \in Nat /\ Len(rows) \in Nat /\ Len(rows) <= MaxSeq /\ writtenUntil \in Nat
        /\ turn.req \in Requests /\ turn.tracked \in BOOLEAN
    BY <1>1, SecondFacts DEF Speaks, Fits, Turn
  <1> DEFINE left(common) == Without(turn.left, Kept(common))
             locals(common) == [turn EXCEPT !.left = left(common), !.base = Len(rows'),
                                            !.reused = Kept(common)]
  <1>3. PICK common \in Common :
          /\ IF ~Reuses THEN UNCHANGED kv
             ELSE IF Kept(common) > 0 THEN Rewind(Kept(common), writtenUntil) ELSE Clear
          /\ IF Len(rows') + Len(left(common)) + 8 >= MaxSeq
             THEN Return(FALSE, "context_full", "eos", Len(rows'), locals(common))
             ELSE Goes("prefill", locals(common))
    BY DEF ReusePrefix
  <1>4. Kept(common) \in Nat
    <2>1. common \in Nat
      <3>1. Len(kvTokens) \in Nat
        BY <1>2, LenProperties DEF KvOK, TokenSeqs
      <3> QED BY <1>2, <3>1 DEF Common, Smaller
    <2>2. Target(common) \in Nat
      BY <2>1 DEF Target
    <2> QED BY <2>2 DEF Kept
  <1>5. Len(rows') \in Nat /\ Len(rows') <= MaxSeq
    <2>1. CASE UNCHANGED kv
      BY <1>2, <2>1 DEF kv
    <2>2. CASE Rewind(Kept(common), writtenUntil)
      BY <1>2, <1>4, <2>2, RewindShrinks
    <2>3. CASE Clear
      BY <1>2, <2>3, EmptyIn DEF Clear
    <2> QED BY <1>3, <2>1, <2>2, <2>3
  <1>6. left(common) \in TokenSeqs /\ Len(left(common)) \in Nat
    <2>1. left(common) \in TokenSeqs
      BY <1>2, <1>4, WithoutIn
    <2> QED BY <2>1, LenProperties DEF TokenSeqs
  <1>7. Resends(turn.req) /\ turn.tracked => rows' \o left(common) = turn.req.ids
    <2> SUFFICES ASSUME Resends(turn.req), turn.tracked
                 PROVE  rows' \o left(common) = turn.req.ids
      OBVIOUS
    <2>1. kvTracked /\ turn.left = turn.req.ids
      BY <1>1, SecondFacts DEF Completes, Resends
    <2>2. Reuses
      BY <1>2, <2>1 DEF Reuses, Resends, PrefixUsable, KvOK, TrackedListIsTheKv, Position
    <2> QED BY <1>2, <1>3, <2>1, <2>2, KeptIsThePrompt
  <1>8. /\ locals(common).stage = "text" /\ locals(common).req = turn.req /\ locals(common).left = left(common)
        /\ locals(common).generated = 0 /\ locals(common).out = <<>> /\ locals(common).tracked = turn.tracked
    BY <1>2 DEF Turn
  <1> HIDE DEF left, locals
  <1>9. CASE Return(FALSE, "context_full", "eos", Len(rows'), locals(common))
    <2>1. locals(common).generated \in Nat
      BY <1>8
    <2> QED BY <1>5, <1>9, <2>1, SecondLeaves
  <1>10. CASE Goes("prefill", locals(common)) /\ ~(Len(rows') + Len(left(common)) + 8 >= MaxSeq)
    <2>1. Fits("prefill", locals(common), Len(rows'))
      BY <1>2, <1>5, <1>6, <1>8, <1>10 DEF Fits
    <2>2. Completes("prefill", locals(common), rows', kvTracked') /\ Speaks("prefill", locals(common), rows')
      BY <1>7, <1>8 DEF Completes, Speaks
    <2>3. "prefill" \in Places \ {"idle"}
      BY DEF Places
    <2> QED BY <1>10, <2>1, <2>2, <2>3, SecondStays
  <1> QED BY <1>3, <1>9, <1>10


\* Choosing between the text and the attachment keeps the second invariant.
LEMMA SecondPrefill ==
  ASSUME IInv, SecondInv, PrefillText \/ PrefillImage
  PROVE  SecondInv'
  <1>1. at = "prefill" /\ rows' = rows /\ kvTracked' = kvTracked
    BY DEF PrefillText, PrefillImage, kv
  <1>2. /\ turn \in Turn /\ turn.left \in TokenSeqs /\ Len(turn.left) \in Nat /\ turn.generated = 0 /\ turn.out = <<>>
        /\ turn.stage = "text" /\ MaxSeq \in Nat /\ Len(rows) \in Nat /\ Len(rows) <= MaxSeq /\ Soft \in Nat
        /\ ~turn.req.image => Len(rows) + Len(turn.left) + 8 < MaxSeq
    BY <1>1, SecondFacts, SessionAssumption DEF Speaks, Fits
  <1>3. {"prefilled", "batch", "image"} \subseteq Places \ {"idle"}
    BY DEF Places
  <1>4. CASE PrefillText
    <2> DEFINE locals == [turn EXCEPT !.cancelled = TRUE]
    <2>1. /\ locals.stage = turn.stage /\ locals.tracked = turn.tracked /\ locals.generated = turn.generated /\ locals.out = turn.out
          /\ locals.req = turn.req /\ locals.left = turn.left
      BY <1>2 DEF Turn
    <2>2. Goes("prefilled", locals) \/ Goes("batch", turn)
      BY <1>4 DEF PrefillText
    <2> HIDE DEF locals
    <2>3. Fits("prefilled", locals, Len(rows')) /\ Fits("batch", turn, Len(rows'))
      BY <1>1, <1>2, <2>1 DEF Fits
    <2>4. Completes("prefilled", locals, rows', kvTracked') /\ Speaks("prefilled", locals, rows')
      BY <1>2, <2>1 DEF Completes, Speaks
    <2>5. Completes("batch", turn, rows', kvTracked') /\ Speaks("batch", turn, rows')
      BY <1>1, <1>2, SecondFacts DEF Completes, Speaks
    <2> QED BY <1>3, <2>2, <2>3, <2>4, <2>5, SecondStays
  <1>5. CASE PrefillImage
    <2>0. turn.req.image
      BY <1>5 DEF PrefillImage
    <2>1. CASE ~turn.around /\ Goes("image", [turn EXCEPT !.sequence = Len(turn.left) + Soft - 1])
      <3> DEFINE locals == [turn EXCEPT !.sequence = Len(turn.left) + Soft - 1]
      <3>1. /\ locals.sequence = Len(turn.left) + Soft - 1 /\ locals.around = turn.around
            /\ locals.left = turn.left /\ locals.req = turn.req /\ locals.generated = turn.generated /\ locals.out = turn.out
        BY <1>2 DEF Turn
      <3>2. Goes("image", locals)
        BY <2>1
      <3> HIDE DEF locals
      <3>3. Fits("image", locals, Len(rows'))
        BY <1>1, <1>2, <2>0, <2>1, <3>1 DEF Fits
      <3>4. Completes("image", locals, rows', kvTracked') /\ Speaks("image", locals, rows')
        BY <1>2, <3>1 DEF Completes, Speaks
      <3> QED BY <1>3, <3>2, <3>3, <3>4, SecondStays
    <2>2. CASE Refuse("image_marker_mismatch", turn.base)
      <3>1. Return(FALSE, "image_marker_mismatch", turn.reason, turn.base, turn)
        BY <2>2 DEF Refuse
      <3>2. turn.generated \in Nat
        BY <1>2
      <3> QED BY <1>1, <1>2, <3>1, <3>2, SecondLeaves
    <2>3. ASSUME turn.around, NEW i \in MarkerAt, NEW where \in {"image", "batch"},
                 Goes(where, [turn EXCEPT !.stage = "head", !.left = Prefix(turn.left, i - 1),
                                          !.head = Prefix(turn.left, i - 1),
                                          !.after = Without(turn.left, i), !.sequence = Soft])
          PROVE  SecondInv'
      <3> DEFINE locals == [turn EXCEPT !.stage = "head", !.left = Prefix(turn.left, i - 1),
                                        !.head = Prefix(turn.left, i - 1),
                                        !.after = Without(turn.left, i), !.sequence = Soft]
      <3>1. /\ locals.sequence = Soft /\ locals.around = turn.around
            /\ locals.req = turn.req /\ locals.generated = turn.generated /\ locals.out = turn.out
        BY <1>2 DEF Turn
      <3>2. Goes(where, locals)
        BY <2>3
      <3> HIDE DEF locals
      <3>3. Fits(where, locals, Len(rows'))
        BY <1>1, <1>2, <2>0, <2>3, <3>1 DEF Fits
      <3>4. Completes(where, locals, rows', kvTracked') /\ Speaks(where, locals, rows')
        BY <1>2, <2>0, <3>1 DEF Completes, Speaks, Resends
      <3> QED BY <1>3, <3>2, <3>3, <3>4, SecondStays
    <2>4. \/ ~turn.around /\ Goes("image", [turn EXCEPT !.sequence = Len(turn.left) + Soft - 1])
          \/ Refuse("image_marker_mismatch", turn.base)
          \/ turn.around /\ \E i \in MarkerAt, where \in {"image", "batch"} :
                Goes(where, [turn EXCEPT !.stage = "head", !.left = Prefix(turn.left, i - 1),
                                        !.head = Prefix(turn.left, i - 1),
                                        !.after = Without(turn.left, i), !.sequence = Soft])
      BY <1>5 DEF PrefillImage
    <2> QED BY <2>1, <2>2, <2>3, <2>4
  <1> QED BY <1>4, <1>5

\* The length of the conversation after a forward.
LEMMA PushGrows ==
  ASSUME KvOK, NEW tokens \in TokenSeqs, Push(tokens) \/ PushUntracked(tokens)
  PROVE  rows' = rows \o tokens /\ Len(rows') = Len(rows) + Len(tokens) /\ Len(tokens) \in Nat
  <1>1. rows' = rows \o tokens
    BY DEF Push, PushUntracked
  <1> QED BY <1>1, PrefixOfConcat DEF KvOK

\* A batch moves its tokens from what is left to the KV.
LEMMA SecondBatch ==
  ASSUME IInv, SecondInv, Batch
  PROVE  SecondInv'
  <1>1. at = "batch"
    BY DEF Batch
  <1>2. /\ turn \in Turn /\ turn.left \in TokenSeqs /\ Len(turn.left) \in Nat /\ turn.generated = 0 /\ turn.out = <<>> /\ KvOK
        /\ MaxSeq \in Nat /\ Len(rows) \in Nat /\ Len(rows) <= MaxSeq /\ rows \in TokenSeqs /\ Chunk \in Nat
        /\ Position = Len(rows) /\ writtenUntil \in Nat /\ turn.processed \in Nat
    BY <1>1, SecondFacts, SessionAssumption DEF Speaks, Turn
  <1> DEFINE n == Smaller(Chunk, Len(turn.left))
             locals == [turn EXCEPT !.left = Without(@, n), !.processed = @ + n]
  <1>3. n \in 0 .. Len(turn.left) /\ n \in Nat
    BY <1>2 DEF Smaller
  <1>4. CASE Threw(NotedUntil(Position + n), turn)
    <2>1. Position + n \in Nat
      BY <1>2, <1>3
    <2>2. NotedUntil(Position + n) \in Nat
      BY <1>2, <2>1, NotedIn
    <2> QED BY <1>1, <1>2, <1>4, <2>2, SecondThrew
  <1>5. CASE Position + n <= MaxSeq /\ Push(Prefix(turn.left, n)) /\ Goes("batch", locals)
    <2>1. /\ locals.stage = turn.stage /\ locals.around = turn.around /\ locals.sequence = turn.sequence
          /\ locals.left = Without(turn.left, n) /\ locals.req = turn.req /\ locals.generated = 0 /\ locals.out = <<>>
          /\ locals.tracked = turn.tracked
      <3> HIDE DEF n
      <3> QED BY <1>2 DEF Turn
    <2>2. Goes("batch", locals) /\ kvTracked' = kvTracked
      BY <1>5 DEF Push
    <2> HIDE DEF locals
    <2>3. Prefix(turn.left, n) \in TokenSeqs /\ Len(Prefix(turn.left, n)) = n
          /\ Len(Without(turn.left, n)) = Len(turn.left) - n
      BY <1>2, <1>3, PrefixOf, SplitAt
    <2>4. rows' = rows \o Prefix(turn.left, n) /\ Len(rows') = Len(rows) + n
      BY <1>2, <1>5, <2>3, PushGrows
    <2>5. rows' \o locals.left = rows \o turn.left
      BY <1>2, <1>3, <2>1, <2>4, PartMoved
    <2>6. Fits("batch", locals, Len(rows'))
      <3> HIDE DEF n
      <3>1. Fits("batch", turn, Len(rows))
        BY <1>1, <1>2, SecondFacts
      <3>2. Len(rows) + n <= MaxSeq /\ Len(locals.left) = Len(turn.left) - n
        BY <1>2, <1>5, <2>1, <2>3
      <3>3. Len(rows') <= MaxSeq
        BY <2>4, <3>2
      <3>4. Len(rows') + Len(locals.left) = Len(rows) + Len(turn.left)
        <4>1. \A k, m, p \in Int : k + p + (m - p) = k + m
          OBVIOUS
        <4>2. Len(rows) \in Int /\ Len(turn.left) \in Int /\ n \in Int
          BY <1>2, <1>3
        <4>3. Len(rows') = Len(rows) + n
          BY <2>4
        <4>4. Len(rows') + Len(locals.left) = (Len(rows) + n) + (Len(turn.left) - n)
          BY <3>2, <4>3
        <4> QED BY <4>1, <4>2, <4>4
      <3> QED BY <2>1, <3>1, <3>3, <3>4 DEF Fits
    <2>7. Completes("batch", locals, rows', kvTracked')
      BY <1>1, <2>1, <2>5, SecondFacts DEF Completes
    <2>8. Speaks("batch", locals, rows') /\ "batch" \in Places \ {"idle"}
      BY <2>1 DEF Speaks, Places
    <2> QED BY <2>2, <2>6, <2>7, <2>8, SecondStays
  <1> QED BY <1>4, <1>5 DEF Batch

\* The end of forward_batch keeps the second invariant.
LEMMA SecondEndBatch ==
  ASSUME IInv, SecondInv, EndBatch
  PROVE  SecondInv'
  <1>1. at = "batch" /\ rows' = rows /\ kvTracked' = kvTracked
    BY DEF EndBatch, kv
  <1>2. /\ turn \in Turn /\ Len(turn.left) \in Nat /\ turn.generated = 0 /\ turn.out = <<>> /\ MaxSeq \in Nat /\ Len(rows) \in Nat
        /\ Fits("batch", turn, Len(rows))
    BY <1>1, SecondFacts DEF Speaks
  <1> DEFINE ended == [turn EXCEPT !.cancelled = cancel, !.processed = 0]
             headDone == [ended EXCEPT !.headTokens = turn.processed]
             allDone == [ended EXCEPT !.prefillTokens =
                           turn.headTokens + turn.sequence + turn.processed]
  <1>3. /\ headDone.around = turn.around /\ headDone.sequence = turn.sequence /\ headDone.req = turn.req
        /\ headDone.generated = 0 /\ headDone.out = <<>> /\ allDone.req = turn.req /\ allDone.generated = 0 /\ allDone.out = <<>>
    BY <1>2 DEF Turn
  <1>4. (Goes("image", headDone) /\ turn.stage = "head") \/ Goes("prefilled", allDone)
    BY DEF EndBatch
  <1> HIDE DEF headDone, allDone
  <1>5. {"prefilled", "image"} \subseteq Places \ {"idle"}
    BY DEF Places
  <1>6. CASE Goes("image", headDone) /\ turn.stage = "head"
    <2>1. Fits("image", headDone, Len(rows'))
      BY <1>1, <1>2, <1>3, <1>6 DEF Fits
    <2>2. Completes("image", headDone, rows', kvTracked') /\ Speaks("image", headDone, rows')
      BY <1>3 DEF Completes, Speaks
    <2> QED BY <1>5, <1>6, <2>1, <2>2, SecondStays
  <1>7. CASE Goes("prefilled", allDone)
    <2>1. Fits("prefilled", allDone, Len(rows'))
      BY <1>1, <1>2, <1>3 DEF Fits
    <2>2. Completes("prefilled", allDone, rows', kvTracked') /\ Speaks("prefilled", allDone, rows')
      BY <1>3 DEF Completes, Speaks
    <2> QED BY <1>5, <1>7, <2>1, <2>2, SecondStays
  <1> QED BY <1>4, <1>6, <1>7

\* An attachment that fails keeps the second invariant.
LEMMA SecondImageFails ==
  ASSUME IInv, SecondInv, InvalidAttachment \/ AdapterFails
  PROVE  SecondInv'
  <1>1. at = "image"
    BY DEF InvalidAttachment, AdapterFails
  <1>2. turn.generated \in Nat
    BY <1>1, SecondFacts
  <1>3. PICK code, position : Return(FALSE, code, turn.reason, position, turn)
    BY DEF InvalidAttachment, AdapterFails, Refuse
  <1>4. Rewind(turn.base, writtenUntil) \/ rows' = rows \/ rows' = <<>>
    BY DEF InvalidAttachment, AdapterFails, Clear, kv
  <1>5. Len(rows') <= MaxSeq
    BY <1>1, <1>4, SecondFacts, RewindShrinks, EmptyIn
  <1> QED BY <1>2, <1>3, <1>5, SecondLeaves

\* An attachment takes the room its adapter asked for.
LEMMA ExpandedLength ==
  ASSUME turn.left \in TokenSeqs, NEW expanded \in Expansions
  PROVE  /\ expanded \in TokenSeqs
         /\ Len(expanded) = IF turn.around THEN Soft ELSE Len(turn.left) + Soft - 1
  <1>1. expanded \in TokenSeqs
    BY ExpansionsIn
  <1>2. SoftRows \in TokenSeqs /\ Len(SoftRows) = Soft
    <2>1. Soft \in Nat /\ SoftToken \in Tokens
      BY SessionAssumption DEF Special
    <2>2. SoftRows \in Seq(Tokens) /\ DOMAIN SoftRows = 1 .. Soft
      BY <2>1, RepeatedIn DEF SoftRows
    <2>3. 1 .. Len(SoftRows) = 1 .. Soft /\ Len(SoftRows) \in Nat
      BY <2>2, LenProperties
    <2> QED BY <2>1, <2>2, <2>3 DEF TokenSeqs
  <1>3. CASE turn.around
    BY <1>1, <1>2, <1>3 DEF Expansions
  <1>4. CASE ~turn.around
    <2>1. PICK i \in MarkerAt : expanded = (Prefix(turn.left, i - 1) \o SoftRows) \o Without(turn.left, i)
      BY <1>4 DEF Expansions
    <2>2. i \in 1 .. Len(turn.left) /\ Len(turn.left) \in Nat
      BY LenProperties DEF MarkerAt, TokenSeqs
    <2>3. /\ Prefix(turn.left, i - 1) \in TokenSeqs /\ Len(Prefix(turn.left, i - 1)) = i - 1
          /\ Without(turn.left, i) \in TokenSeqs /\ Len(Without(turn.left, i)) = Len(turn.left) - i
      <3>1. i \in Nat /\ i \in 0 .. Len(turn.left) /\ i - 1 \in 0 .. Len(turn.left)
        BY <2>2
      <3> QED BY <3>1, PrefixOf, WithoutIn, SplitAt
    <2>4. /\ Prefix(turn.left, i - 1) \o SoftRows \in TokenSeqs
          /\ Len(Prefix(turn.left, i - 1) \o SoftRows) = i - 1 + Soft
      BY <1>2, <2>3, PrefixOfConcat
    <2>5. Len(expanded) = i - 1 + Soft + (Len(turn.left) - i)
      BY <2>1, <2>3, <2>4, PrefixOfConcat
    <2>6. Soft \in Nat
      BY SessionAssumption
    <2>7. \A k, m, p \in Int : k - 1 + p + (m - k) = m + p - 1
      OBVIOUS
    <2>8. i \in Int /\ Len(turn.left) \in Int /\ Soft \in Int
      BY <2>2, <2>6
    <2>9. Len(expanded) = Len(turn.left) + Soft - 1
      BY <2>5, <2>7, <2>8
    <2> QED BY <1>1, <1>4, <2>9
  <1> QED BY <1>3, <1>4

\* An attachment is pushed only where it fits.
LEMMA SecondImage ==
  ASSUME IInv, SecondInv, AdapterPrefills \/ SkipAdapter
  PROVE  SecondInv'
  <1>1. at = "image"
    BY DEF AdapterPrefills, SkipAdapter
  <1>2. /\ turn \in Turn /\ turn.left \in TokenSeqs /\ turn.generated = 0 /\ turn.out = <<>> /\ KvOK /\ MaxSeq \in Nat
        /\ Len(rows) \in Nat /\ Position = Len(rows) /\ Len(rows) <= MaxSeq /\ turn.req.image
        /\ turn.sequence = IF turn.around THEN Soft ELSE Len(turn.left) + Soft - 1
    BY <1>1, SecondFacts DEF Speaks, Fits
  <1>3. {"prefilled", "batch"} \subseteq Places \ {"idle"}
    BY DEF Places
  <1>4. CASE SkipAdapter
    <2>1. Goes("prefilled", turn) /\ rows' = rows
      BY <1>4 DEF SkipAdapter, kv
    <2>2. Fits("prefilled", turn, Len(rows'))
      BY <1>2, <2>1 DEF Fits
    <2>3. Completes("prefilled", turn, rows', kvTracked') /\ Speaks("prefilled", turn, rows')
      BY <1>2 DEF Completes, Speaks
    <2> QED BY <1>3, <2>1, <2>2, <2>3, SecondStays
  <1>5. CASE AdapterPrefills
    <2>1. PICK expanded \in Expansions : PushUntracked(expanded)
      BY <1>5 DEF AdapterPrefills
    <2>2. turn.sequence <= MaxSeq - Position
      BY <1>5 DEF AdapterPrefills
    <2>3. expanded \in TokenSeqs /\ Len(expanded) = turn.sequence
      BY <1>2, ExpandedLength
    <2>4. Len(rows') <= MaxSeq
      <3>1. Len(rows') = Len(rows) + Len(expanded) /\ Len(expanded) \in Nat
        BY <1>2, <2>1, <2>3, PushGrows
      <3> QED BY <1>2, <2>2, <2>3, <3>1
    <2> DEFINE done == [turn EXCEPT !.left = <<>>, !.prefillTokens = turn.headTokens + turn.sequence]
               text == [turn EXCEPT !.stage = "after", !.left = turn.after]
    <2>5. /\ done.req = turn.req /\ done.generated = 0 /\ done.out = <<>>
          /\ text.req = turn.req /\ text.generated = 0 /\ text.out = <<>> /\ text.stage = "after"
      BY <1>2 DEF Turn
    <2>6. Goes("prefilled", done) \/ Goes("batch", text)
      BY <1>5 DEF AdapterPrefills
    <2> HIDE DEF done, text
    <2>7. Fits("prefilled", done, Len(rows')) /\ Fits("batch", text, Len(rows'))
      BY <1>2, <2>4, <2>5 DEF Fits
    <2>8. Completes("prefilled", done, rows', kvTracked') /\ Speaks("prefilled", done, rows')
      BY <2>5 DEF Completes, Speaks
    <2>9. Completes("batch", text, rows', kvTracked') /\ Speaks("batch", text, rows')
      BY <1>2, <2>5 DEF Completes, Speaks, Resends
    <2> QED BY <1>3, <2>6, <2>7, <2>8, <2>9, SecondStays
  <1> QED BY <1>4, <1>5

\* Decoding starts with the prompt in the KV and nothing said.
LEMMA SecondPrefilled ==
  ASSUME IInv, SecondInv, Prefilled
  PROVE  SecondInv'
  <1>1. at = "prefilled"
    BY DEF Prefilled
  <1>2. /\ turn \in Turn /\ turn.generated = 0 /\ turn.out = <<>> /\ KvOK /\ MaxSeq \in Nat /\ Len(rows) \in Nat /\ Len(rows) <= MaxSeq
        /\ turn.base \in Nat /\ writtenUntil \in Nat /\ turn.out \in TokenSeqs /\ rows \in TokenSeqs
        /\ Fits("prefilled", turn, Len(rows))
    BY <1>1, SecondFacts DEF Speaks, Turn
  <1> DEFINE told == [turn EXCEPT !.events = @ + 1]
             ready == [told EXCEPT !.prompted = rows]
  <1>3. told.generated = 0 /\ ready.generated = 0 /\ ready.req = turn.req /\ ready.prompted = rows
        /\ ready.out = turn.out
    BY <1>2 DEF Turn
  <1>4. \/ Rewind(turn.base, writtenUntil) /\ Return(TRUE, "", "cancelled", Len(rows'), told)
        \/ Goes("decode", ready) /\ UNCHANGED kv
    BY DEF Prefilled
  <1> HIDE DEF told, ready
  <1>5. CASE Rewind(turn.base, writtenUntil) /\ Return(TRUE, "", "cancelled", Len(rows'), told)
    <2>1. Len(rows') \in Nat /\ Len(rows') <= Len(rows)
      BY <1>2, <1>5, RewindShrinks
    <2>2. Len(rows') <= MaxSeq /\ told.generated \in Nat
      BY <1>2, <1>3, <2>1
    <2> QED BY <1>3, <1>5, <2>2, SecondLeaves
  <1>6. CASE Goes("decode", ready) /\ UNCHANGED kv
    <2>1. rows' = rows
      BY <1>6 DEF kv
    <2>2. Fits("decode", ready, Len(rows'))
      BY <1>2, <1>3, <2>1 DEF Fits
    <2>3. turn.out = <<>>
      BY <1>1, SecondFacts DEF Speaks
    <2>4. Completes("decode", ready, rows', kvTracked') /\ Speaks("decode", ready, rows')
      BY <1>2, <1>3, <2>1, <2>3, ConcatEmpty DEF Completes, Speaks, Spoken
    <2>5. "decode" \in Places \ {"idle"}
      BY DEF Places
    <2> QED BY <1>6, <2>2, <2>4, <2>5, SecondStays
  <1> QED BY <1>4, <1>5, <1>6


\* Stopping keeps what was said in the KV.
LEMMA SecondStop ==
  ASSUME IInv, SecondInv, NEW next \in Sampled, StopDecode(next)
  PROVE  SecondInv'
  <1>1. at = "decode" /\ rows' = rows
    BY DEF StopDecode, kv
  <1>2. turn \in Turn /\ Fits("decode", turn, Len(rows)) /\ rows = Spoken(turn)
    BY <1>1, SecondFacts DEF Speaks
  <1> DEFINE locals == [turn EXCEPT !.reason = Stops(next), !.natural = Stops(next) = "eos"]
  <1>3. /\ locals.req = turn.req /\ locals.prompted = turn.prompted /\ locals.out = turn.out
        /\ locals.reason = Stops(next) /\ locals.natural = (Stops(next) = "eos")
    <2> HIDE DEF Stops
    <2> QED BY <1>2 DEF Turn
  <1>4. Goes("ending", locals)
    BY DEF StopDecode
  <1> HIDE DEF locals
  <1>5. Fits("ending", locals, Len(rows'))
    BY <1>1, <1>2, <1>3 DEF Fits
  <1>6. Completes("ending", locals, rows', kvTracked')
    BY DEF Completes
  <1>7. Speaks("ending", locals, rows')
    BY <1>1, <1>2, <1>3 DEF Speaks, Spoken
  <1>8. "ending" \in Places \ {"idle"}
    BY DEF Places
  <1> QED BY <1>4, <1>5, <1>6, <1>7, <1>8, SecondStays

\* What the loop counts says what it gave to the model.
LEMMA CountedSays ==
  ASSUME turn \in Turn, NEW next \in Tokens
  PROVE  /\ Counted(next).out = Append(turn.out, next) /\ Counted(next).prompted = turn.prompted
         /\ Counted(next).req = turn.req
         /\ CutThought(next).out = Append(turn.out, ThinkClose) /\ CutThought(next).prompted = turn.prompted
         /\ CutThought(next).req = turn.req
         /\ Counted(next) \in Turn
  <1> DEFINE counted == [turn EXCEPT !.generated = @ + 1, !.out = Append(@, next)]
             thought == [counted EXCEPT !.inThink = next # ThinkClose, !.thinking = @ + 1]
             shown == [counted EXCEPT !.visible = @ + 1]
  <1>1. /\ turn.generated + 1 \in Nat /\ turn.thinking + 1 \in Nat /\ turn.visible + 1 \in Nat
        /\ (next # ThinkClose) \in BOOLEAN
    BY DEF Turn
  <1>2. Append(turn.out, next) \in TokenSeqs
    BY AppendProperties DEF Turn, TokenSeqs
  <1>3. /\ thought \in Turn /\ thought.out = Append(turn.out, next) /\ thought.prompted = turn.prompted
        /\ thought.req = turn.req
    BY <1>1, <1>2 DEF Turn
  <1>4. /\ shown \in Turn /\ shown.out = Append(turn.out, next) /\ shown.prompted = turn.prompted
        /\ shown.req = turn.req
    BY <1>1, <1>2 DEF Turn
  <1>5. Counted(next) = thought \/ Counted(next) = shown
    BY DEF Counted
  <1> HIDE DEF thought, shown
  <1>6. /\ Counted(next) \in Turn /\ Counted(next).out = Append(turn.out, next)
        /\ Counted(next).prompted = turn.prompted /\ Counted(next).req = turn.req
    BY <1>3, <1>4, <1>5
  <1>7. /\ CutThought(next).out = Append(turn.out, ThinkClose) /\ CutThought(next).prompted = turn.prompted
        /\ CutThought(next).req = turn.req
    BY <1>6 DEF CutThought, Turn
  <1> QED BY <1>6, <1>7

\* A decoded token is said and enters the KV, below the margin.
LEMMA SecondDecode ==
  ASSUME IInv, SecondInv, NEW next \in Sampled, Decode(next)
  PROVE  SecondInv'
  <1>1. at = "decode" /\ Stops(next) = "goes on" /\ next \in Tokens /\ ThinkClose \in Tokens
    BY SessionAssumption DEF Decode, Special
  <1>2. /\ turn \in Turn /\ rows = Spoken(turn) /\ KvOK /\ rows \in TokenSeqs /\ MaxSeq \in Nat /\ Len(rows) \in Nat
        /\ Position = Len(rows) /\ turn.prompted \in TokenSeqs /\ turn.out \in TokenSeqs
    BY <1>1, SecondFacts DEF Speaks, Turn
  <1>3. Len(rows) + 1 + 4 <= MaxSeq
    <2>0. turn.generated \in Nat /\ HardCap \in Nat
      <3>1. turn.generated \in Nat
        BY <1>1, SecondFacts
      <3>2. MaxVisible \in Nat /\ MaxThinking \in Nat /\ Slack \in Nat
        BY SessionAssumption
      <3> QED BY <3>1, <3>2 DEF HardCap
    <2>1. ~Full
      BY <1>1, <2>0 DEF Stops
    <2> QED BY <1>2, <2>1 DEF Full
  <1>4. ASSUME NEW token \in Tokens, Push(<<token>>)
        PROVE  rows' = turn.prompted \o Append(turn.out, token) /\ Len(rows') + 4 <= MaxSeq
    <2>1. <<token>> \in TokenSeqs /\ Len(<<token>>) = 1
      BY SingletonIn
    <2>2. rows' = rows \o <<token>> /\ Len(rows') = Len(rows) + 1
      BY <1>2, <1>4, <2>1, PushGrows
    <2>3. rows' = turn.prompted \o Append(turn.out, token)
      BY <1>2, <2>2, AppendMoved DEF Spoken
    <2> QED BY <1>2, <1>3, <2>2, <2>3
  <1>5. ASSUME NEW where \in {"decode", "ending"}, NEW token \in Tokens, NEW locals, Push(<<token>>),
               Goes(where, locals), locals.out = Append(turn.out, token),
               locals.prompted = turn.prompted, where = "ending" => locals.reason = "max_tokens"
        PROVE  SecondInv'
    <2>1. rows' = Spoken(locals) /\ Len(rows') + 4 <= MaxSeq /\ Len(rows') \in Nat
      <3>1. rows' = Spoken(locals) /\ Len(rows') + 4 <= MaxSeq
        BY <1>4, <1>5 DEF Spoken
      <3>2. <<token>> \in TokenSeqs /\ Len(<<token>>) = 1
        BY SingletonIn
      <3>3. Len(rows') = Len(rows) + 1
        BY <1>2, <1>5, <3>2, PushGrows
      <3> QED BY <1>2, <3>1, <3>3
    <2>2. Fits(where, locals, Len(rows'))
      BY <1>2, <2>1 DEF Fits
    <2>3. Completes(where, locals, rows', kvTracked') /\ Speaks(where, locals, rows')
      BY <1>5, <2>1 DEF Completes, Speaks
    <2>4. where \in Places \ {"idle"}
      BY DEF Places
    <2> QED BY <1>5, <2>2, <2>3, <2>4, SecondStays
  <1>6. CASE CutsThinking(next)
    <2>1. Push(<<ThinkClose>>) /\ Goes("decode", CutThought(next))
      BY <1>6 DEF Decode
    <2> QED BY <1>1, <1>2, <1>5, <2>1, CountedSays
  <1>7. CASE ~CutsThinking(next)
    <2> DEFINE spent == Counted(next).visible >= MaxVisible
               locals == [Counted(next) EXCEPT !.reason = IF spent THEN "max_tokens" ELSE @]
    <2>1. Push(<<next>>) /\ Goes(IF spent THEN "ending" ELSE "decode", locals)
      BY <1>7 DEF Decode
    <2>2. /\ locals.out = Append(turn.out, next) /\ locals.prompted = turn.prompted
          /\ spent => locals.reason = "max_tokens"
      <3> HIDE DEF spent
      <3> QED BY <1>1, <1>2, CountedSays DEF Turn
    <2> HIDE DEF spent, locals
    <2>3. CASE spent
      BY <1>1, <1>5, <2>1, <2>2, <2>3
    <2>4. CASE ~spent
      BY <1>1, <1>5, <2>1, <2>2, <2>4
    <2> QED BY <2>3, <2>4
  <1> QED BY <1>6, <1>7

\* A decode that throws keeps the second invariant.
LEMMA SecondDecodeThrows ==
  ASSUME IInv, SecondInv, NEW next \in Sampled, DecodeThrows(next)
  PROVE  SecondInv'
  <1>1. at = "decode" /\ next \in Tokens
    BY SessionAssumption DEF DecodeThrows
  <1>2. turn \in Turn /\ Position \in Nat /\ turn.generated \in Nat /\ writtenUntil \in Nat
    BY <1>1, SecondFacts
  <1>3. NotedUntil(Position + 1) \in Nat
    <2>1. Position + 1 \in Nat
      BY <1>2
    <2> QED BY <1>2, <2>1, NotedIn
  <1> DEFINE cut == [CutThought(next) EXCEPT !.generated = turn.generated]
  <1>4. CutThought(next) \in Turn /\ CutThought(next).base = turn.base
    BY <1>1, <1>2, CutThoughtIn
  <1>5. cut \in Turn /\ cut.base = turn.base
    BY <1>2, <1>4 DEF Turn
  <1>6. Counted(next) \in Turn /\ Counted(next).base = turn.base
    BY <1>1, <1>2, CountedIn
  <1>7. Threw(NotedUntil(Position + 1), cut) \/ Threw(NotedUntil(Position + 1), Counted(next))
    BY DEF DecodeThrows
  <1> HIDE DEF cut
  <1> QED BY <1>1, <1>3, <1>5, <1>6, <1>7, SecondThrew

\* The marks to write are those the reply still lacks, and they fit.
LEMMA SecondEndDecode ==
  ASSUME IInv, SecondInv, EndDecode
  PROVE  SecondInv'
  <1>1. at = "ending"
    BY DEF EndDecode
  <1>2. /\ turn \in Turn /\ rows = Spoken(turn) /\ KvOK /\ MaxSeq \in Nat /\ Len(rows) \in Nat /\ Len(rows) <= MaxSeq
        /\ turn.generated \in Nat /\ turn.base \in Nat /\ writtenUntil \in Nat
        /\ ~turn.req.image => Len(rows) + 4 <= MaxSeq
        /\ turn.reason = "eos" => turn.natural
    BY <1>1, SecondFacts DEF Speaks, Fits
  <1>3. CASE turn.reason = "cancelled" /\ turn.generated = 0
    <2>1. Rewind(turn.base, writtenUntil) /\ Return(TRUE, "", "cancelled", Len(rows'), turn)
      BY <1>3 DEF EndDecode
    <2>2. Len(rows') \in Nat /\ Len(rows') <= Len(rows)
      BY <1>2, <2>1, RewindShrinks
    <2>3. Len(rows') <= MaxSeq
      BY <1>2, <2>2
    <2> QED BY <1>2, <1>3, <2>1, <2>3, SecondLeaves
  <1>4. CASE ~(turn.reason = "cancelled" /\ turn.generated = 0)
    <2> DEFINE marks == IF NeedsClosing THEN <<TurnEnd, NewLine>> ELSE <<>>
               locals == [turn EXCEPT !.closing = marks]
    <2>1. Goes("closing", locals) /\ rows' = rows
      BY <1>4 DEF EndDecode, kv
    <2>2. /\ locals.closing = marks /\ locals.req = turn.req /\ locals.reason = turn.reason
          /\ locals.prompted = turn.prompted /\ locals.out = turn.out
      <3> HIDE DEF marks
      <3> QED BY <1>2 DEF Turn
    <2>3. Len(marks) \in Nat /\ Len(marks) <= 2
      <3>1. Len(<<TurnEnd, NewLine>>) = 2 /\ Len(<<>>) = 0
        OBVIOUS
      <3> QED BY <3>1
    <2>4. ~NeedsClosing => ~MustClose(locals)
      <3>1. MustClose(locals) = MustClose(turn)
        BY <2>2 DEF MustClose
      <3> QED BY <1>2, <3>1 DEF MustClose, NeedsClosing
    <2> HIDE DEF locals
    <2>5. Fits("closing", locals, Len(rows'))
      <3> HIDE DEF marks
      <3> QED BY <1>2, <2>1, <2>2, <2>3 DEF Fits
    <2>6. Completes("closing", locals, rows', kvTracked') /\ Speaks("closing", locals, rows')
      BY <1>2, <2>1, <2>2, <2>4 DEF Completes, Speaks, Spoken
    <2>7. "closing" \in Places \ {"idle"}
      BY DEF Places
    <2> QED BY <2>1, <2>5, <2>6, <2>7, SecondStays
  <1> QED BY <1>3, <1>4

\* No mark fits above the two places a turn keeps free.
LEMMA NoRoomForMarks ==
  ASSUME NEW p \in Nat, NEW c \in Nat, NEW m \in Nat, c # 0, p + c + 2 <= m, p + 2 >= m
  PROVE  FALSE
  OBVIOUS

\* Why a turn that ends well keeps its two promises.
LEMMA ClosedKeepsPromises ==
  ASSUME IInv, SecondInv, at = "closing", turn.closing = <<>> \/ Position + 2 >= MaxSeq,
         Return(TRUE, "", turn.reason, Position, turn), rows' = rows
  PROVE  EmittedIsRemembered' /\ TurnsEndAtBoundary'
  <1>1. /\ turn \in Turn /\ rows \in TokenSeqs /\ MaxSeq \in Nat /\ Len(rows) \in Nat /\ Position = Len(rows)
        /\ turn.prompted \in TokenSeqs /\ turn.out \in TokenSeqs
        /\ ~turn.req.image => Len(rows) + Len(turn.closing) + 2 <= MaxSeq
    BY SecondFacts DEF Fits, Turn
  <1> DEFINE s == Spoken(turn)
             te == <<TurnEnd>>
             nl == <<NewLine>>
             marks == <<TurnEnd, NewLine>>
  <1>2. s \in TokenSeqs
    BY <1>1, PrefixOfConcat DEF Spoken
  <1>3. \/ turn.closing = marks /\ rows = s
        \/ turn.closing = nl /\ rows = s \o te
        \/ turn.closing = <<>> /\ rows = (s \o te) \o nl
        \/ turn.closing = <<>> /\ rows = s /\ ~MustClose(turn)
    BY SecondFacts DEF Speaks
  <1>4. /\ at' = "idle" /\ turn' = turn
        /\ answer' = [ok |-> TRUE, code |-> "", reason |-> turn.reason, position |-> Position]
    BY DEF Return
  <1>5. IsPrefix(s, rows) /\ IsPrefix(Without(rows, Len(s)), marks)
    <2>1. /\ te \in TokenSeqs /\ nl \in TokenSeqs /\ marks \in TokenSeqs /\ (s \o te) \o nl = s \o marks
          /\ IsPrefix(<<>>, marks) /\ IsPrefix(te, marks) /\ IsPrefix(marks, marks)
      BY <1>2, MarksFound
    <2>2. s \o <<>> = s /\ <<>> \in TokenSeqs
      BY <1>2, ConcatEmpty, EmptyIn
    <2>3. \A t \in TokenSeqs : IsPrefix(s, s \o t) /\ Without(s \o t, Len(s)) = t
      BY <1>2, JoinedIsFound
    <2> HIDE DEF te, nl, marks, s
    <2>4. PICK t \in {<<>>, te, marks} : rows = s \o t
      BY <1>3, <2>1, <2>2
    <2> QED BY <2>1, <2>2, <2>3, <2>4
  <1>6. EmittedIsRemembered'
    BY <1>4, <1>5 DEF EmittedIsRemembered, Spoken
  <1>7. ~turn.req.image => turn.closing = <<>>
    <2> SUFFICES ASSUME ~turn.req.image, turn.closing # <<>>
                 PROVE  FALSE
      OBVIOUS
    <2>1. turn.closing \in Seq(Tokens)
      BY <1>1 DEF Turn, TokenSeqs
    <2>2. Len(turn.closing) \in Nat \ {0}
      BY <2>1, EmptySeq
    <2>3. Len(rows) + Len(turn.closing) + 2 <= MaxSeq /\ Len(rows) + 2 >= MaxSeq
      BY <1>1
    <2>4. Len(turn.closing) \in Nat /\ Len(turn.closing) # 0
      BY <2>2
    <2> QED BY <1>1, <2>3, <2>4, NoRoomForMarks
  <1>8. ~turn.req.image /\ MustClose(turn) => IsSuffix(marks, rows)
    <2>1. marks # <<>> /\ nl # <<>>
      OBVIOUS
    <2>2. ~turn.req.image /\ MustClose(turn) => rows = (s \o te) \o nl
      BY <1>3, <1>7, <2>1
    <2> QED BY <1>2, <2>2, MarksFound
  <1>9. TurnsEndAtBoundary'
    BY <1>4, <1>8 DEF TurnsEndAtBoundary, MustClose
  <1> QED BY <1>6, <1>9

\* A mark that is written was the next one.
LEMMA SecondCloseTurn ==
  ASSUME IInv, SecondInv, CloseTurn
  PROVE  SecondInv'
  <1>1. at = "closing"
    BY DEF CloseTurn
  <1>2. /\ turn \in Turn /\ KvOK /\ MaxSeq \in Nat /\ Len(rows) \in Nat /\ Len(rows) <= MaxSeq /\ Position = Len(rows)
        /\ Position \in Nat /\ turn.closing \in TokenSeqs /\ writtenUntil \in Nat
        /\ ~turn.req.image => Len(rows) + Len(turn.closing) + 2 <= MaxSeq
    BY <1>1, SecondFacts DEF Fits, Turn
  <1>3. CASE /\ turn.closing = <<>> \/ Position + 2 >= MaxSeq
             /\ Return(TRUE, "", turn.reason, Position, turn) /\ UNCHANGED kv
    <2>1. rows' = rows /\ at' = "idle"
      BY <1>3 DEF kv, Return
    <2>2. EmittedIsRemembered' /\ TurnsEndAtBoundary'
      BY <1>1, <1>3, <2>1, ClosedKeepsPromises
    <2> QED BY <1>2, <2>1, <2>2 DEF SecondInv, NeverPastCapacity, Position
  <1>4. CASE Threw(NotedUntil(Position + 1), turn)
    <2>1. Position + 1 \in Nat
      BY <1>2
    <2>2. NotedUntil(Position + 1) \in Nat
      BY <1>2, <2>1, NotedIn
    <2> QED BY <1>1, <1>2, <1>4, <2>2, SecondThrew
  <1>5. CASE turn.closing # <<>> /\ ~(Position + 2 >= MaxSeq) /\ Push(<<Head(turn.closing)>>)
             /\ Goes("closing", [turn EXCEPT !.closing = Tail(@)])
    <2> DEFINE locals == [turn EXCEPT !.closing = Tail(@)]
    <2>1. /\ Head(turn.closing) \in Tokens /\ Tail(turn.closing) \in TokenSeqs
          /\ Len(Tail(turn.closing)) = Len(turn.closing) - 1 /\ Len(turn.closing) \in Nat
      BY <1>2, <1>5, HeadTailProperties, LenProperties DEF TokenSeqs
    <2>2. /\ locals.closing = Tail(turn.closing) /\ locals.req = turn.req /\ locals.reason = turn.reason
          /\ locals.prompted = turn.prompted /\ locals.out = turn.out
      BY <1>2 DEF Turn
    <2>3. Goes("closing", locals)
      BY <1>5
    <2> HIDE DEF locals
    <2>4. rows' = rows \o <<Head(turn.closing)>> /\ Len(rows') = Len(rows) + 1
      <3>1. <<Head(turn.closing)>> \in TokenSeqs /\ Len(<<Head(turn.closing)>>) = 1
        BY <2>1, SingletonIn
      <3> QED BY <1>2, <1>5, <3>1, PushGrows
    <2>5. Fits("closing", locals, Len(rows'))
      <3>1. Len(rows') <= MaxSeq
        BY <1>2, <1>5, <2>4
      <3>2. ~turn.req.image => Len(rows') + Len(locals.closing) + 2 <= MaxSeq
        <4> DEFINE p == Len(rows)
                   c == Len(turn.closing)
        <4>1. Len(locals.closing) = c - 1 /\ Len(rows') = p + 1 /\ p \in Int /\ c \in Int /\ MaxSeq \in Int
          BY <1>2, <2>1, <2>2, <2>4
        <4>2. ~turn.req.image => p + c + 2 <= MaxSeq
          BY <1>2
        <4> HIDE DEF p, c
        <4>3. p + c + 2 <= MaxSeq => (p + 1) + (c - 1) + 2 <= MaxSeq
          BY <4>1
        <4> QED BY <4>1, <4>2, <4>3
      <3> QED BY <2>2, <3>1, <3>2 DEF Fits
    <2>6. Speaks("closing", locals, rows')
      <3>1. Spoken(locals) = Spoken(turn)
        BY <2>2 DEF Spoken
      <3>2. \/ turn.closing = <<TurnEnd, NewLine>> /\ rows = Spoken(turn)
            \/ turn.closing = <<NewLine>> /\ rows = Spoken(turn) \o <<TurnEnd>>
        BY <1>1, <1>5, SecondFacts DEF Speaks
      <3>3. /\ Head(<<TurnEnd, NewLine>>) = TurnEnd /\ Tail(<<TurnEnd, NewLine>>) = <<NewLine>>
            /\ Head(<<NewLine>>) = NewLine /\ Tail(<<NewLine>>) = <<>>
        OBVIOUS
      <3> QED BY <2>2, <2>4, <3>1, <3>2, <3>3 DEF Speaks
    <2>7. Completes("closing", locals, rows', kvTracked') /\ "closing" \in Places \ {"idle"}
      BY DEF Completes, Places
    <2> QED BY <2>3, <2>5, <2>6, <2>7, SecondStays
  <1> QED BY <1>3, <1>4, <1>5 DEF CloseTurn
-----------------------------------------------------------------------------
(* The theorems that rest on the second invariant.                          *)

(* However a turn goes on, both invariants hold.                            *)
THEOREM SecondInvariant == Spec => [](IInv /\ SecondInv)
  <1>1. Init => SecondInv
    <2> SUFFICES ASSUME Init
                 PROVE  SecondInv
      OBVIOUS
    <2>1. at = "idle" /\ rows = <<>> /\ turns = 0
      BY DEF Init
    <2>2. Len(rows) = 0 /\ MaxSeq \in Nat
      BY <2>1, EmptyIn, SessionAssumption
    <2> QED BY <2>1, <2>2
        DEF SecondInv, NeverPastCapacity, EmittedIsRemembered, TurnsEndAtBoundary, Returned, Position
  <1>2. IInv /\ SecondInv /\ [Next]_vars => SecondInv'
    <2> SUFFICES ASSUME IInv, SecondInv, [Next]_vars
                 PROVE  SecondInv'
      OBVIOUS
    <2>1. CASE UNCHANGED vars
      BY <2>1, SecondUnchanged DEF vars, kv
    <2>2. CASE Cancel
      BY <2>2, SecondUnchanged DEF Cancel, kv
    <2>3. ASSUME NEW req \in Requests, Ask(req)
          PROVE  SecondInv'
      BY <2>3, SecondAsk
    <2>4. CASE Reset \/ GiveUpWaiting \/ Lock \/ RefuseRequest \/ Encode \/ CancelBeforePrefill
      BY <2>4, SecondReset, SecondWaits, SecondEncode
    <2>5. CASE ReusePrefix \/ PrefillText \/ PrefillImage \/ Batch \/ EndBatch
      BY <2>5, SecondReuse, SecondPrefill, SecondBatch, SecondEndBatch
    <2>6. CASE InvalidAttachment \/ AdapterFails \/ AdapterPrefills \/ SkipAdapter \/ Prefilled
      BY <2>6, SecondImageFails, SecondImage, SecondPrefilled
    <2>7. ASSUME NEW next \in Sampled, StopDecode(next) \/ Decode(next) \/ DecodeThrows(next)
          PROVE  SecondInv'
      BY <2>7, SecondStop, SecondDecode, SecondDecodeThrows
    <2>8. CASE EndDecode \/ CloseTurn
      BY <2>8, SecondEndDecode, SecondCloseTurn
    <2> QED BY <2>1, <2>2, <2>3, <2>4, <2>5, <2>6, <2>7, <2>8 DEF Next
  <1> QED BY <1>1, <1>2, Invariant, PTL DEF Spec

(* No forward is given a position past the end of the KV: every check of    *)
(* capacity, with its own margin, comes before the write it is for.         *)
THEOREM CapacityRespected == Spec => []NeverPastCapacity
  <1>1. SecondInv => NeverPastCapacity
    BY DEF SecondInv
  <1> QED BY <1>1, SecondInvariant, PTL

(* A resent prompt is completed, never repeated: what was kept of the KV    *)
(* and what is left to process make it up at every moment of the prefill.   *)
THEOREM PromptCompleted == Spec => []PrefillCompletesPrompt
  <1>1. IInv /\ SecondInv => PrefillCompletesPrompt
    BY DEF SecondInv, Completes, Resends, PrefillCompletesPrompt
  <1> QED BY <1>1, SecondInvariant, PTL

(* What the client read is what the next turn remembers.                    *)
THEOREM ReplyRemembered == Spec => []EmittedIsRemembered
  <1>1. SecondInv => EmittedIsRemembered
    BY DEF SecondInv
  <1> QED BY <1>1, SecondInvariant, PTL

(* The margins of the checks before the prefill and before each token leave *)
(* room for the marks that close a text turn, so they are always written.   *)
THEOREM BoundaryReached == Spec => []TurnsEndAtBoundary
  <1>1. SecondInv => TurnsEndAtBoundary
    BY DEF SecondInv
  <1> QED BY <1>1, SecondInvariant, PTL
=============================================================================
