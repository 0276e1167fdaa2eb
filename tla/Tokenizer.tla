------------------------------ MODULE Tokenizer ------------------------------
(***************************************************************************)
(* Text and tokens: the tokenizer a model file carries, the prompts a       *)
(* session makes of messages, and the text it streams from the tokens.      *)
(*                                                                          *)
(* A text is a sequence of bytes, as in the code.  A file is what its       *)
(* parser sees: domains with their entry, configuration, added tokens,      *)
(* vocabulary and merges, and the part where the data of the domain ends;   *)
(* offsets, padding and the syntax of JSON are left out.  The Unicode       *)
(* tables are constants.                                                    *)
(***************************************************************************)
EXTENDS Integers, FiniteSets, SequencesExt, FiniteSetsExt, TLC

CONSTANTS
  Files,        \* HTF blocks: [name, version, gemma, domains]
  Wanted,       \* domains asked for, by file
  Texts,        \* texts to encode, by file
  Samples,      \* sequences of tokens a turn may sample, by file
  Dialogues,    \* conversations: [first, answer, second, marked]
  Letters, Numbers, Spaces,   \* \p{L}, \p{N}, White_Space
  Class,        \* combining class of the marks
  Composed,     \* composition of <<starter, mark>>
  Said          \* the strings of the templates, as bytes

VARIABLES
  opened,       \* the file of the loader
  tokenizers,   \* tokenizers_, by domain
  result        \* the last text and its tokens, the last tokens sampled, or the last conversation

vars == <<opened, tokenizers, result>>

Space == 32
Metaspace == <<226, 150, 129>>
Replacement == <<239, 191, 189>>
MaxMatch == 50
Nothing == [kind |-> "nothing"]
-----------------------------------------------------------------------------
(* UTF-8 and Unicode.                                                       *)

\* Length the first byte of a character announces.
Announced(b) == IF b \div 32 = 6 THEN 2 ELSE IF b \div 16 = 14 THEN 3 ELSE IF b \div 8 = 30 THEN 4 ELSE 1

RECURSIVE Characters(_)
Characters(s) ==
  IF s = <<>> THEN <<>>
  ELSE LET n == Min({Announced(Head(s)), Len(s)})
       IN  <<SubSeq(s, 1, n)>> \o Characters(SubSeq(s, n + 1, Len(s)))

CodepointOf(c) ==
  FoldLeft(LAMBDA v, b : (v * 64) + (b % 64), IF Len(c) = 1 THEN Head(c) ELSE Head(c) % 2^(7 - Len(c)), Tail(c))

\* The first byte of a character that the text cuts is one by itself.
RECURSIVE DecodeUtf8(_)
DecodeUtf8(s) ==
  IF s = <<>> THEN <<>>
  ELSE LET n == IF Announced(Head(s)) <= Len(s) THEN Announced(Head(s)) ELSE 1
       IN  <<CodepointOf(SubSeq(s, 1, n))>> \o DecodeUtf8(SubSeq(s, n + 1, Len(s)))

AppendUtf8(v) ==
  IF v < 128 THEN <<v>>
  ELSE IF v < 2048 THEN <<192 + (v \div 64), 128 + (v % 64)>>
  ELSE IF v < 65536 THEN <<224 + (v \div 4096), 128 + ((v \div 64) % 64), 128 + (v % 64)>>
  ELSE <<240 + (v \div 262144), 128 + ((v \div 4096) % 64), 128 + ((v \div 64) % 64), 128 + (v % 64)>>

Utf8(cps) == FlattenSeq([i \in DOMAIN cps |-> AppendUtf8(cps[i])])

CombiningClass(v) == IF v \in DOMAIN Class THEN Class[v] ELSE 0

\* A mark joins the last starter when nothing between them blocks it.
Nfc(s) ==
  LET join(d, v) ==
        LET c == CombiningClass(v)
            near == d.starter > 0 /\ (d.starter = Len(d.out) \/ (d.last # 0 /\ d.last < c))
        IN  IF near /\ <<d.out[d.starter], v>> \in DOMAIN Composed
              THEN [d EXCEPT !.out[d.starter] = Composed[<<d.out[d.starter], v>>]]
              ELSE [out |-> Append(d.out, v), last |-> c, starter |-> IF c = 0 THEN Len(d.out) + 1 ELSE d.starter]
  IN  IF \A i \in DOMAIN s : s[i] < 128 THEN s
      ELSE Utf8(FoldLeft(join, [out |-> <<>>, last |-> 0, starter |-> 0], DecodeUtf8(s)).out)

\* GPT-2: the bytes that cannot be seen take the code points from 256 on.
ByteEncoder(b) ==
  CASE b <= 32 -> 256 + b
    [] b \in 127 .. 160 -> 289 + (b - 127)
    [] b = 173 -> 323
    [] OTHER -> b
ByteDecoder(v) ==
  CASE v \in 256 .. 288 -> v - 256
    [] v \in 289 .. 322 -> 127 + (v - 289)
    [] v = 323 -> 173
    [] OTHER -> v % 256
BytesToUnicode(s) == Utf8([i \in DOMAIN s |-> ByteEncoder(s[i])])
UnicodeToBytes(s) == LET cps == DecodeUtf8(s) IN [i \in DOMAIN cps |-> ByteDecoder(cps[i])]
-----------------------------------------------------------------------------
(* The pieces of a byte-level vocabulary: the split of Qwen.                *)

Newlines == {10, 13}
Plain == Spaces \cup Letters \cup Numbers
Lower(v) == IF v \in 65 .. 90 THEN v + 32 ELSE v

\* First position from i on that is not, and that is, in a set.
While(cps, i, set) == Min({j \in i .. Len(cps) : cps[j] \notin set} \cup {Len(cps) + 1})
Until(cps, i, set) == Min({j \in i .. Len(cps) : cps[j] \in set} \cup {Len(cps) + 1})

Contraction(cps, i) ==
  LET a == IF i + 1 <= Len(cps) THEN Lower(cps[i + 1]) ELSE 0
      b == IF i + 2 <= Len(cps) THEN Lower(cps[i + 2]) ELSE 0
  IN  IF cps[i] # 39 THEN i
      ELSE IF a \in {115, 116, 109, 100} THEN i + 2
      ELSE IF <<a, b>> \in {<<114, 101>>, <<118, 101>>, <<108, 108>>} THEN i + 3
      ELSE i

Word(cps, i) ==
  LET leads == /\ cps[i] \notin Newlines \cup Letters \cup Numbers
               /\ i < Len(cps) /\ cps[i + 1] \in Letters
      from == IF leads THEN i + 1 ELSE i
  IN  IF cps[from] \in Letters THEN While(cps, from, Letters) ELSE i

Symbols(cps, i) ==
  LET from == IF cps[i] = Space /\ i < Len(cps) /\ cps[i + 1] \notin Plain THEN i + 1 ELSE i
  IN  IF cps[from] \notin Plain THEN While(cps, Until(cps, from, Plain), Newlines) ELSE i

\* Spaces up to their last newline; without one, all but the last space when a
\* word follows.
Blank(cps, i) ==
  LET run == While(cps, i, Spaces)
      newlines == {k \in i .. run - 1 : cps[k] \in Newlines}
  IN  IF newlines # {} THEN Max(newlines) + 1
      ELSE IF run > Len(cps) \/ run - i < 2 THEN run
      ELSE run - 1

PieceEnd(cps, i) ==
  LET tried == <<Contraction(cps, i), Word(cps, i), IF cps[i] \in Numbers THEN i + 1 ELSE i, Symbols(cps, i), Blank(cps, i), i + 1>>
  IN  tried[Min({a \in DOMAIN tried : tried[a] # i})]

RECURSIVE PiecesFrom(_, _)
PiecesFrom(cps, i) ==
  IF i > Len(cps) THEN <<>>
  ELSE LET end == PieceEnd(cps, i) IN <<Utf8(SubSeq(cps, i, end - 1))>> \o PiecesFrom(cps, end)

Pretokenize(s) == PiecesFrom(DecodeUtf8(s), 1)
-----------------------------------------------------------------------------
(* The file.                                                                *)

RequestedType(name) == IF name \in {"code", "cortex", "vision", "audio"} THEN name ELSE "text"

Matching(f, name) ==
  LET of(type) == SelectSeq(f.domains, LAMBDA d : d.type = type)
  IN  IF of(RequestedType(name)) = <<>> /\ name \in {"cortex", "code"} THEN of("text") ELSE of(RequestedType(name))

\* The first one; for cortex, the first of the largest.
Selected(f, name) ==
  LET found == Matching(f, name)
      larger(i, j) == IF found[j].size > found[i].size THEN j ELSE i
  IN  found[IF name = "cortex" THEN FoldLeft(larger, 1, [j \in DOMAIN found |-> j]) ELSE 1]

\* A JSON configuration says nothing of the normalizer and the decoder.
ParseConfig(c) ==
  [encoding |-> c.encoding, byteLevel |-> c.byteLevel, prefixSpace |-> c.prefixSpace, fallback |-> c.fallback,
   decoder |-> 0, normalizer |-> 0, bos |-> c.bos, eos |-> c.eos, unk |-> c.unk]

\* Gemma 4 files of before are known by their signature.
ParseConfigV13(c) ==
  LET gemma == c.pre = 1 /\ c.decoder = 1
  IN  [ParseConfig(c) EXCEPT !.byteLevel = c.byteLevel /\ ~gemma, !.fallback = c.fallback \/ gemma, !.decoder = c.decoder,
                             !.normalizer = IF gemma /\ c.normalizer = 0 THEN 1 ELSE c.normalizer]

\* parse_vocab: of two entries with the same token, or id, the last one counts.
ById(list) == FoldLeft(LAMBDA inv, e : (e.id :> e.token) @@ inv, <<>>, list)
ByToken(list) == FoldLeft(LAMBDA voc, e : (e.token :> e.id) @@ voc, <<>>, list)

ParseMerges(merges) == FoldLeft(LAMBDA r, i : (merges[i] :> i) @@ r, <<>>, [i \in DOMAIN merges |-> i])

\* Merges are optional: without the flag, or when the data ends before them,
\* there are none.
Merges(d) == IF d.hasMerges /\ d.end # "merges" THEN d.merges ELSE <<>>
Added(d) == SelectSeq(d.added, LAMBDA e : e.token # <<>>)


\* The added tokens are registered after the vocabulary, which is cleared first.
Filled(config, added, d) ==
  [ok |-> TRUE, config |-> config, added |-> added, vocab |-> ByToken(d.vocab \o added), inv |-> ById(d.vocab \o added),
   merges |-> Merges(d), rank |-> ParseMerges(Merges(d))]

Failed == [ok |-> FALSE]
ParseTextDomain(d) == IF d.end \in {"config", "vocab"} THEN Failed ELSE Filled(ParseConfig(d.config), <<>>, d)
ParseTextDomainV13(d) == IF d.end \in {"config", "added", "vocab"} THEN Failed ELSE Filled(ParseConfigV13(d.config), Added(d), d)

\* A domain of code has a binary configuration whatever the version.
ParseCodeDomain(d) ==
  IF d.end \in {"config", "added", "vocab"} \/ d.vocab = <<>> THEN Failed ELSE Filled(ParseConfigV13(d.config), Added(d), d)

ParseDomain(f, d) ==
  CASE d.type = "code" -> ParseCodeDomain(d)
    [] d.type \in {"text", "cortex"} -> IF f.version = 13 THEN ParseTextDomainV13(d) ELSE ParseTextDomain(d)
    [] OTHER -> Failed

Load(f, name) == IF f.version \notin {12, 13} \/ Matching(f, name) = <<>> THEN Failed ELSE ParseDomain(f, Selected(f, name))
-----------------------------------------------------------------------------
(* Encoding.                                                                *)

Has(t, s) == s \in DOMAIN t.vocab

\* "<0xNN>", the token of a byte.
Digit(d) == IF d < 10 THEN 48 + d ELSE 55 + d
FallbackToken(b) == <<60, 48, 120, Digit(b \div 16), Digit(b % 16), 62>>
HexValue(c) ==
  CASE c \in 48 .. 57 -> c - 48
    [] c \in 65 .. 70 -> c - 55
    [] c \in 97 .. 102 -> c - 87
    [] OTHER -> -1
IsFallback(token) ==
  Len(token) = 6 /\ SubSeq(token, 1, 3) = <<60, 48, 120>> /\ token[6] = 62 /\ HexValue(token[4]) >= 0 /\ HexValue(token[5]) >= 0

Unknown(t) == IF t.config.unk >= 0 THEN <<t.config.unk>> ELSE <<>>

SymbolIds(t, c) ==
  LET byte(b) == IF Has(t, FallbackToken(b)) THEN t.vocab[FallbackToken(b)] ELSE Max({t.config.unk, 0})
  IN  IF Has(t, c) THEN <<t.vocab[c]>>
      ELSE IF t.config.fallback THEN [i \in DOMAIN c |-> byte(c[i])]
      ELSE Unknown(t)

\* Every occurrence of a pair, from the left, becomes its merge.
Replaced(ids, pair, merged) ==
  FoldLeft(LAMBDA out, id : IF out # <<>> /\ <<Last(out), id>> = pair THEN Append(Front(out), merged) ELSE Append(out, id), <<>>, ids)

\* Mutant of Merging: the leftmost pair first, whatever its rank.
RECURSIVE Merging_Leftmost(_, _)
Merging_Leftmost(t, ids) ==
  LET at == {i \in 1 .. Len(ids) - 1 : <<ids[i], ids[i + 1]>> \in DOMAIN t.rank}
  IN  IF at = {} THEN ids
      ELSE LET pair == <<ids[Min(at)], ids[Min(at) + 1]>>
               merged == t.inv[pair[1]] \o t.inv[pair[2]]
           IN  IF Has(t, merged) THEN Merging_Leftmost(t, Replaced(ids, pair, t.vocab[merged])) ELSE ids

\* The pair of the first merge in the file goes first.  It stops when the
\* vocabulary has no token for a merge.
RECURSIVE Merging(_, _)
Merging(t, ids) ==
  LET pairs == {<<ids[i], ids[i + 1]>> : i \in 1 .. Len(ids) - 1} \cap DOMAIN t.rank
  IN  IF pairs = {} THEN ids
      ELSE LET pair == CHOOSE p \in pairs : \A q \in pairs : t.rank[p] <= t.rank[q]
               merged == t.inv[pair[1]] \o t.inv[pair[2]]
           IN  IF Has(t, merged) THEN Merging(t, Replaced(ids, pair, t.vocab[merged])) ELSE ids

MergePiece(t, s) ==
  LET cs == Characters(s)
  IN  Merging(t, FlattenSeq([i \in DOMAIN cs |-> SymbolIds(t, cs[i])]))

Normalized(t, s) ==
  LET n == IF t.config.normalizer = 1 THEN FlattenSeq([i \in DOMAIN s |-> IF s[i] = Space THEN Metaspace ELSE <<s[i]>>]) ELSE s
  IN  IF t.config.prefixSpace /\ Head(n) # Space THEN <<Space>> \o n ELSE n

EncodeSegment(t, s) ==
  IF s = <<>> THEN <<>>
  ELSE IF t.config.byteLevel
    THEN LET pieces == Pretokenize(Nfc(Normalized(t, s)))
         IN  FlattenSeq([i \in DOMAIN pieces |-> MergePiece(t, BytesToUnicode(pieces[i]))])
    ELSE MergePiece(t, Normalized(t, s))

Occurs(s, c, i) == i + Len(c) - 1 <= Len(s) /\ SubSeq(s, i, i + Len(c) - 1) = c

\* The first added token, the longest of those that start there, is isolated.
RECURSIVE EncodeBpe(_, _)
EncodeBpe(t, s) ==
  LET hits == {h \in (DOMAIN s) \X (DOMAIN t.added) : Occurs(s, t.added[h[2]].token, h[1])}
      len(h) == Len(t.added[h[2]].token)
  IN  IF hits = {} THEN EncodeSegment(t, s)
      ELSE LET next == CHOOSE h \in hits : \A g \in hits : \/ h[1] < g[1]
                                                           \/ h[1] = g[1] /\ (len(h) > len(g) \/ (len(h) = len(g) /\ h[2] <= g[2]))
           IN  EncodeSegment(t, SubSeq(s, 1, next[1] - 1)) \o <<t.added[next[2]].id>>
                 \o EncodeBpe(t, SubSeq(s, next[1] + len(next), Len(s)))

\* The longest match from i; at the start of a word, with its mark.
SentencePieceMatch(t, s, i) ==
  LET part(end) == SubSeq(s, i, end - 1)
      starts == i = 1 \/ s[i - 1] = Space
      marked(end) == Metaspace \o (IF s[i] = Space THEN Tail(part(end)) ELSE part(end))
      ends == {end \in i + 1 .. Min({i + MaxMatch, Len(s) + 1}) : Has(t, part(end)) \/ (starts /\ Has(t, marked(end)))}
  IN  IF ends = {} THEN [end |-> i + 1, ids |-> Unknown(t)]
      ELSE LET end == Max(ends)
           IN  [end |-> end, ids |-> <<t.vocab[IF starts /\ Has(t, marked(end)) THEN marked(end) ELSE part(end)]>>]

RECURSIVE SentencePieceFrom(_, _, _)
SentencePieceFrom(t, s, i) ==
  IF i > Len(s) THEN <<>>
  ELSE LET match == SentencePieceMatch(t, s, i) IN match.ids \o SentencePieceFrom(t, s, match.end)

WordMatch(t, w, i) ==
  LET part(end) == (IF i > 1 THEN <<35, 35>> ELSE <<>>) \o SubSeq(w, i, end - 1)
      ends == {end \in i + 1 .. Len(w) + 1 : Has(t, part(end))}
  IN  IF ends = {} THEN [end |-> i + 1, ids |-> Unknown(t)] ELSE [end |-> Max(ends), ids |-> <<t.vocab[part(Max(ends))]>>]

RECURSIVE WordFrom(_, _, _)
WordFrom(t, w, i) ==
  IF i > Len(w) THEN <<>> ELSE LET match == WordMatch(t, w, i) IN match.ids \o WordFrom(t, w, match.end)

EncodeWordPiece(t, s) ==
  LET split(ws, b) == IF b = Space THEN Append(ws, <<>>) ELSE Append(Front(ws), Append(Last(ws), b))
      words == SelectSeq(FoldLeft(split, << <<>> >>, s), LAMBDA w : w # <<>>)
      between(i) == IF i > 1 /\ Has(t, <<Space>>) THEN <<t.vocab[<<Space>>]>> ELSE <<>>
  IN  FlattenSeq([i \in DOMAIN words |-> between(i) \o (IF Has(t, words[i]) THEN <<t.vocab[words[i]]>> ELSE WordFrom(t, words[i], 1))])

Encode(t, s, addBos, addEos) ==
  LET ids == CASE t.config.encoding \in {"sentencepiece", "unigram"} -> SentencePieceFrom(t, s, 1)
               [] t.config.encoding = "wordpiece" -> EncodeWordPiece(t, s)
               [] OTHER -> EncodeBpe(t, s)
  IN  (IF addBos /\ t.config.bos >= 0 THEN <<t.config.bos>> ELSE <<>>) \o ids
        \o (IF addEos /\ t.config.eos >= 0 THEN <<t.config.eos>> ELSE <<>>)
-----------------------------------------------------------------------------
(* Decoding.                                                                *)

Surface(t, id) ==
  IF id \notin DOMAIN t.inv THEN <<>>
  ELSE IF t.config.fallback /\ IsFallback(t.inv[id]) THEN <<16 * HexValue(t.inv[id][4]) + HexValue(t.inv[id][5])>>
  ELSE t.inv[id]

Spaced(s) ==
  LET put(out, b) == IF b = 129 /\ Len(out) >= 2 /\ SubSeq(out, Len(out) - 1, Len(out)) = <<226, 150>>
                       THEN Append(SubSeq(out, 1, Len(out) - 2), Space) ELSE Append(out, b)
  IN  FoldLeft(put, <<>>, s)

Readable(t, s) == IF t.config.decoder = 1 \/ t.config.encoding \in {"sentencepiece", "unigram"} THEN Spaced(s) ELSE s
Bytes(t, s) == IF t.config.byteLevel THEN UnicodeToBytes(s) ELSE s
Decode(t, ids) == Readable(t, Bytes(t, FlattenSeq([i \in DOMAIN ids |-> Surface(t, ids[i])])))

\* utf8_complete_prefix: how many bytes of s end at a whole character.
CompletePrefix(s) ==
  LET lead == Max({i \in DOMAIN s : s[i] \div 64 # 2} \cup {0})
  IN  IF lead = 0 THEN 0 ELSE IF lead - 1 + Announced(s[lead]) <= Len(s) THEN Len(s) ELSE lead - 1

\* A chunk is sent when its last character is whole.
Sent(chunks, text, cut) ==
  [chunks |-> IF cut > 0 THEN Append(chunks, SubSeq(text, 1, cut)) ELSE chunks, pending |-> SubSeq(text, cut + 1, Len(text))]
Taken(chunks, text) == Sent(chunks, text, CompletePrefix(text))

\* What is left of a character at the end is replaced.
Mended(s, cut) == SubSeq(s, 1, cut) \o (IF cut < Len(s) THEN Replacement ELSE <<>>)
Flushed(d) == IF d.pending = <<>> THEN d.chunks ELSE Append(d.chunks, Mended(d.pending, CompletePrefix(d.pending)))

\* The chunks of text of a turn: a token may end in the middle of a character.
Streamed(t, ids) == Flushed(FoldLeft(LAMBDA d, id : Taken(d.chunks, d.pending \o Decode(t, <<id>>)), [chunks |-> <<>>, pending |-> <<>>], ids))
-----------------------------------------------------------------------------
(* The prompt of a turn.  A message has a role and a content.               *)

Trim(s) ==
  LET blank(b) == b = Space \/ b \in 9 .. 13
      solid == {i \in DOMAIN s : ~blank(s[i])}
  IN  IF solid = {} THEN <<>> ELSE SubSeq(s, Min(solid), Max(solid))

First(s, c) == {i \in DOMAIN s : Occurs(s, c, i) /\ \A j \in 1 .. i - 1 : ~Occurs(s, c, j)}

RECURSIVE WithoutChannels(_)
WithoutChannels(s) ==
  IF First(s, Said.channel) = {} THEN s
  ELSE LET start == Min(First(s, Said.channel))
           rest == SubSeq(s, start + Len(Said.channel), Len(s))
           end == First(rest, Said.channelEnd)
       IN  SubSeq(s, 1, start - 1)
             \o (IF end = {} THEN <<>> ELSE WithoutChannels(SubSeq(rest, Min(end) + Len(Said.channelEnd), Len(rest))))

StripThinking(s) == Trim(WithoutChannels(s))

\* What the model said goes without its thinking.
Turn(m) ==
  LET model == m.role \in {"assistant", "model"}
  IN  Said.turn \o (IF model THEN Said.model ELSE Said[m.role]) \o Said.newline
        \o (IF model THEN StripThinking(m.content) ELSE Trim(m.content)) \o Said.turnEnd \o Said.newline

System == {"system", "developer"}

\* format_gemma4_chat throws at a second system message and at an unknown role.
Throws(messages) == \E i \in DOMAIN messages : messages[i].role \notin {"user", "assistant", "model"} \cup (IF i = 1 THEN System ELSE {})

FormatGemma4Chat(messages, thinking) ==
  LET system == messages # <<>> /\ Head(messages).role \in System
      turns == IF system THEN Tail(messages) ELSE messages
      opening == Said.turn \o Said.system \o Said.newline \o (IF thinking THEN Said.think \o Said.newline ELSE <<>>)
                   \o (IF system THEN Trim(Head(messages).content) ELSE <<>>) \o Said.turnEnd \o Said.newline
  IN  Said.bos \o (IF thinking \/ system THEN opening ELSE <<>>)
        \o FlattenSeq([i \in DOMAIN turns |-> Turn(turns[i])]) \o Said.turn \o Said.model \o Said.newline

\* The marker of an attachment goes before the last message of the user.
Marked(messages, marked) ==
  LET users == {i \in DOMAIN messages : messages[i].role = "user"}
  IN  IF marked /\ users # {} THEN [messages EXCEPT ![Max(users)].content = Said.marker \o Said.newline \o @] ELSE messages

ChatMl(messages) ==
  LET text(x) == [mark |-> FALSE, text |-> x]
      mark(x) == [mark |-> TRUE, text |-> x]
      turn(m) == <<mark(Said.start), text(Said[m.role] \o Said.newline \o m.content), mark(Said.end), text(Said.newline)>>
  IN  FlattenSeq([i \in DOMAIN messages |-> turn(messages[i])]) \o <<mark(Said.start), text(Said.assistant \o Said.newline)>>

\* Marks are tokens by themselves.
Fed(t, parts) == FlattenSeq([i \in DOMAIN parts |-> IF parts[i].mark THEN <<t.vocab[parts[i].text]>> ELSE Encode(t, parts[i].text, FALSE, FALSE)])

\* Mutant of Prompt: every turn begins with the token of the beginning.
Prompt_KeepsBos(t, gemma, messages, marked, begun) ==
  LET all == Marked(messages, marked)
  IN  IF gemma /\ begun /\ \E i \in DOMAIN all : all[i].role = "system" THEN [kind |-> "error", ids |-> <<>>]
      ELSE IF gemma /\ Throws(all) THEN [kind |-> "thrown", ids |-> <<>>]
      ELSE [kind |-> "tokens", ids |-> Fed(t, IF gemma THEN <<[mark |-> FALSE, text |-> FormatGemma4Chat(all, FALSE)]>> ELSE ChatMl(all))]

\* What a session feeds for messages, or how it does not; begun when its KV
\* holds a conversation.
Prompt(t, gemma, messages, marked, begun) ==
  LET all == Marked(messages, marked)
      bos == IF t.config.bos >= 0 THEN t.config.bos ELSE 2
      rest(ids) == IF gemma /\ begun /\ ids # <<>> /\ Head(ids) = bos THEN Tail(ids) ELSE ids
  IN  IF gemma /\ begun /\ \E i \in DOMAIN all : all[i].role = "system" THEN [kind |-> "error", ids |-> <<>>]
      ELSE IF gemma /\ Throws(all) THEN [kind |-> "thrown", ids |-> <<>>]
      ELSE [kind |-> "tokens", ids |-> rest(Fed(t, IF gemma THEN <<[mark |-> FALSE, text |-> FormatGemma4Chat(all, FALSE)]>> ELSE ChatMl(all)))]

\* The tokens a session opens and closes its turns with.
Marks == IF opened.gemma THEN <<Said.turn, Said.turnEnd>> ELSE <<Said.start, Said.end>>

\* What closes a turn in the KV.
Closing == <<[mark |-> TRUE, text |-> Marks[2]], [mark |-> FALSE, text |-> Said.newline]>>
-----------------------------------------------------------------------------
(* The actions.                                                             *)

Closed == [name |-> "none"]
Init == opened = Closed /\ tokenizers = <<>> /\ result = Nothing

\* HnfLoader::tokenizer: a tokenizer is loaded once for each domain; one that
\* cannot be loaded is tried again.
Cached(f, cache, name) ==
  IF name \in DOMAIN cache THEN cache
  ELSE LET t == Load(f, name) IN IF t.ok THEN (name :> t) @@ cache ELSE cache

Open(f) ==
  /\ opened' = f /\ tokenizers' = Cached(f, <<>>, "text")
  /\ result' = Nothing

Ask(name) ==
  /\ tokenizers' = Cached(opened, tokenizers, name)
  /\ result' = Nothing
  /\ UNCHANGED opened

EncodeText(name, s) ==
  /\ name \in DOMAIN tokenizers
  /\ result' = [kind |-> "text", by |-> name, text |-> s, ids |-> Encode(tokenizers[name], s, FALSE, FALSE)]
  /\ UNCHANGED <<opened, tokenizers>>

\* The tokens of a turn are the ones the sampler takes, which need make no text.
SampleTokens(name, ids) ==
  /\ name \in DOMAIN tokenizers
  /\ Range(ids) \subseteq DOMAIN tokenizers[name].inv
  /\ result' = [kind |-> "sampled", by |-> name, ids |-> ids]
  /\ UNCHANGED <<opened, tokenizers>>

\* Two turns of a session: the second one is fed on top of the first, of what
\* the model answered, and of what closed it.
Converse(d) ==
  /\ "text" \in DOMAIN tokenizers
  /\ Range(Marks) \subseteq DOMAIN tokenizers["text"].vocab
  /\ result' = [kind |-> "dialogue", said |-> d,
                fed |-> [turn \in {1, 2} |-> Prompt(tokenizers["text"], opened.gemma, IF turn = 1 THEN d.first ELSE d.second,
                                                    turn = 2 /\ d.marked, turn = 2)]]
  /\ UNCHANGED <<opened, tokenizers>>

Next ==
  \/ \E f \in Files : Open(f)
  \/ opened # Closed /\ \E name \in Wanted[opened.name] : Ask(name)
  \/ \E name \in DOMAIN tokenizers : \E s \in Texts[opened.name] : EncodeText(name, s)
  \/ opened # Closed /\ \E ids \in Samples[opened.name] : SampleTokens("text", ids)
  \/ \E d \in Dialogues : Converse(d)

Spec == Init /\ [][Next]_vars
-----------------------------------------------------------------------------
(* What the text and its tokens promise each other.                         *)

\* The alternatives of the split of Qwen, as what they match: a piece and the
\* code point after it (0 at the end).
Matches(k, w, after) ==
  LET all(i, j, set) == \A n \in i .. j : w[n] \in set
      none(i, j, set) == \A n \in i .. j : w[n] \notin set
      tail == [i \in 1 .. Len(w) - 1 |-> Lower(w[i + 1])]
  IN  CASE k = 1 -> w[1] = 39 /\ tail \in {<<115>>, <<116>>, <<109>>, <<100>>, <<114, 101>>, <<118, 101>>, <<108, 108>>}
        [] k = 2 -> w[1] \notin Newlines \cup Numbers /\ all(2, Len(w), Letters) /\ Last(w) \in Letters
        [] k = 3 -> Len(w) = 1 /\ w[1] \in Numbers
        [] k = 4 -> \E a \in {1, 2}, b \in 1 .. Len(w) :
                      a <= b /\ (a = 2 => w[1] = Space) /\ none(a, b, Plain) /\ all(b + 1, Len(w), Newlines)
        [] k = 5 -> all(1, Len(w), Spaces) /\ Last(w) \in Newlines
        [] k = 6 -> all(1, Len(w), Spaces) /\ after \in {0} \cup Spaces
        [] k = 7 -> all(1, Len(w), Spaces)

\* The first alternative that matches takes as much as it can.
RECURSIVE TrainedPieces(_, _)
TrainedPieces(cps, i) ==
  IF i > Len(cps) THEN <<>>
  ELSE LET ends(k) == {j \in i + 1 .. Len(cps) + 1 : Matches(k, SubSeq(cps, i, j - 1), IF j <= Len(cps) THEN cps[j] ELSE 0)}
           end == Max(ends(Min({k \in 1 .. 7 : ends(k) # {}})))
       IN  <<Utf8(SubSeq(cps, i, end - 1))>> \o TrainedPieces(cps, end)

\* Training made the merges one after another, each on what the ones before left.
TrainedMerges(t, ids) == FoldLeft(LAMBDA so, pair : Replaced(so, pair, t.vocab[t.inv[pair[1]] \o t.inv[pair[2]]]), ids, t.merges)

TrainedPiece(t, s) ==
  LET cs == Characters(s) IN TrainedMerges(t, FlattenSeq([i \in DOMAIN cs |-> SymbolIds(t, cs[i])]))

TrainedSegment(t, s) ==
  IF s = <<>> THEN <<>>
  ELSE IF ~t.config.byteLevel THEN TrainedPiece(t, Normalized(t, s))
  ELSE LET pieces == TrainedPieces(DecodeUtf8(Nfc(Normalized(t, s))), 1)
       IN  FlattenSeq([i \in DOMAIN pieces |-> TrainedPiece(t, BytesToUnicode(pieces[i]))])

\* Reading from the left, an added token is itself wherever it stands.
RECURSIVE Trained(_, _, _)
Trained(t, before, s) ==
  LET here == {a \in DOMAIN t.added : Occurs(s, t.added[a].token, 1)}
      longest == CHOOSE a \in here : \A b \in here : Len(t.added[a].token) >= Len(t.added[b].token)
  IN  IF s = <<>> THEN TrainedSegment(t, before)
      ELSE IF here = {} THEN Trained(t, Append(before, Head(s)), Tail(s))
      ELSE TrainedSegment(t, before) \o <<t.added[longest].id>> \o Trained(t, <<>>, SubSeq(s, Len(t.added[longest].token) + 1, Len(s)))

By(name) == tokenizers[name]
Greedy == {"sentencepiece", "unigram", "wordpiece"}

(* A text gets the tokens the model was trained with: the added tokens and  *)
(* the words are told apart as the original tokenizer does, and the merges  *)
(* of a word follow the order of the file.                                  *)
EncodesAsTrained ==
  result.kind = "text" /\ By(result.by).config.encoding \notin Greedy =>
    result.ids = Trained(By(result.by), <<>>, result.text)

Without(s, spaces) == SelectSeq(s, LAMBDA b : b \notin spaces)

\* Every symbol of the text has a token.
Covered(t, s) ==
  IF t.config.encoding \in Greedy THEN t.config.unk >= 0 /\ \A i \in DOMAIN result.ids : result.ids[i] # t.config.unk
  ELSE \A i \in DOMAIN s : Has(t, IF t.config.byteLevel THEN BytesToUnicode(<<s[i]>>) ELSE FallbackToken(s[i]))

SameText(back, text, spaces) == Without(back, spaces) = Without(text, spaces)
Survives(t, s, ids) ==
  IF t.config.encoding \in Greedy THEN SameText(Decode(t, ids), s, {Space})
  ELSE SameText(Decode(t, ids), IF t.config.byteLevel THEN Nfc(s) ELSE Spaced(s), IF t.config.prefixSpace THEN {Space} ELSE {})

\* A character with all of its bytes begins at i; where its last byte is.
EndAt(s, i) == i + Announced(s[i]) - 1
WholeAt(s, i) ==
  /\ IF Announced(s[i]) = 1 THEN s[i] < 128 ELSE EndAt(s, i) <= Len(s)
  /\ \A j \in i + 1 .. EndAt(s, i) : s[j] \div 64 = 2

WellFormed(s) == \A j \in DOMAIN s : \E i \in 1 .. j : WholeAt(s, i) /\ j <= EndAt(s, i)

\* Where the chunks end, but for the last one.
Ends(chunks) == {Len(FlattenSeq(SubSeq(chunks, 1, k))) : k \in 1 .. Len(chunks) - 1}

NoneLost(shown, said) ==
  \E cut \in 0 .. Len(said) : shown = Mended(said, cut) /\ \A i \in cut + 1 .. Len(said) : ~WholeAt(said, i)
NoneSplit(chunks, said) == \A i \in DOMAIN said : WholeAt(said, i) => Ends(chunks) \cap (i .. EndAt(said, i) - 1) = {}

Shows(chunks, said) ==
  /\ NoneLost(FlattenSeq(chunks), said) /\ NoneSplit(chunks, said)
  /\ WellFormed(FlattenSeq(chunks)) => \A k \in DOMAIN chunks : WellFormed(chunks[k])


(* A conversation fed turn by turn leaves in the KV of Gemma 4 the same     *)
(* text as the template makes of the whole of it, with one beginning, none  *)
(* of the thinking of the answers it is given, and one marker for each      *)
(* attachment.                                                              *)
IncrementalIsWhole ==
  result.kind = "dialogue" /\ opened.gemma /\ result.fed[1].kind = "tokens" /\ result.fed[2].kind = "tokens" =>
    LET t == By("text")
        all == result.said.first \o <<[role |-> "assistant", content |-> result.said.answer]>> \o Marked(result.said.second, result.said.marked)
        kv == result.fed[1].ids \o Fed(t, <<[mark |-> FALSE, text |-> result.said.answer]>> \o Closing) \o result.fed[2].ids
        count(c, s) == Cardinality({i \in DOMAIN s : s[i] = t.vocab[c]})
    IN  /\ ~Throws(all) /\ StripThinking(result.said.answer) = result.said.answer => Decode(t, kv) = FormatGemma4Chat(all, FALSE)
        /\ count(Said.bos, kv) = 1
        /\ count(Said.marker, kv) = IF result.said.marked THEN 1 ELSE 0
        /\ count(Said.channel, result.fed[1].ids \o result.fed[2].ids) = 0

(* Messages a model has no place for end the turn with an error.            *)
RefusesWithAnError ==
  result.kind = "dialogue" => \A turn \in {1, 2} : result.fed[turn].kind # "thrown"
=============================================================================
