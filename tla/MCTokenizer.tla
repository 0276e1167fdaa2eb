---------------------------- MODULE MCTokenizer ----------------------------
(***************************************************************************)
(* Small vocabularies of every kind, the texts of a few symbols each, and   *)
(* short conversations.  A code point has its real bytes, class and         *)
(* compositions; the marks of the templates are shorter than the real ones. *)
(***************************************************************************)
EXTENDS Integers, SequencesExt, TLC

Letters == (65 .. 90) \cup (97 .. 122) \cup {225, 233}
Numbers == 48 .. 57
Spaces == (9 .. 13) \cup {32, 160}
Class == (769 :> 230) @@ (805 :> 220)
Composed == (<<101, 769>> :> 233) @@ (<<97, 769>> :> 225)

\* Symbols, as bytes.
A == <<97>>          B == <<98>>          E == <<101>>         L == <<108>>
S == <<115>>         One == <<49>>        Bang == <<33>>       Quote == <<39>>
Gap == <<32>>        Line == <<10>>       Ab == A \o B         Mark == <<226, 150, 129>>
Eacute == <<195, 169>>                    Smile == <<240, 159, 152, 128>>
Acute == <<204, 129>>                     Ring == <<204, 165>>

Said == [bos |-> <<60, 98, 62>>, turn |-> <<60, 116>>, turnEnd |-> <<116, 62>>, start |-> <<60, 124>>, end |-> <<60, 124, 62>>,
         newline |-> Line, think |-> <<60, 107>>, channel |-> <<60, 99>>, channelEnd |-> <<99, 62>>, marker |-> <<60, 105>>,
         system |-> <<121>>, developer |-> <<100>>, user |-> <<117>>, assistant |-> A, model |-> <<109>>, tool |-> <<111>>]

Hex(d) == IF d < 10 THEN 48 + d ELSE 55 + d
Byte(b) == <<60, 48, 120, Hex(b \div 16), Hex(b % 16), 62>>
Listed(tokens, from) == [i \in DOMAIN tokens |-> [id |-> from + i, token |-> tokens[i]]]

Settings(encoding) ==
  [encoding |-> encoding, byteLevel |-> FALSE, prefixSpace |-> FALSE, fallback |-> FALSE, pre |-> 0, decoder |-> 0,
   normalizer |-> 0, bos |-> -1, eos |-> -1, unk |-> 0]

Domain(type, config, added, vocab, merges) ==
  [type |-> type, size |-> Len(vocab), hasMerges |-> TRUE, end |-> "none", config |-> config, added |-> added, vocab |-> vocab, merges |-> merges]

\* The symbols of the byte-level alphabet, and what merges make of them.
QwenTokens ==
  <<A, B, L, S, E, <<196, 160>>, <<196, 138>>, Quote, One, Bang, <<195, 131>>, <<194, 169>>, <<195, 140>>, <<196, 163>>, <<194, 165>>,
    B \o L, Ab, <<196, 160>> \o Ab, <<195, 131, 194, 169>>, L \o L, <<117>>, <<121>>, <<111>>, <<100>>>>
QwenMerges == <<<<2, 3>>, <<1, 2>>, <<6, 17>>, <<11, 12>>, <<3, 3>>>>
QwenAdded == <<[id |-> 40, token |-> Said.start], [id |-> 41, token |-> Said.end], [id |-> 42, token |-> <<>>]>>
Qwen(prefixSpace) ==
  Domain("text", [Settings("bpe") EXCEPT !.byteLevel = TRUE, !.prefixSpace = prefixSpace], QwenAdded, Listed(QwenTokens, 0), QwenMerges)

\* The flags of the old files of Gemma 4: the signature corrects them.
GemmaBytes == <<195, 169, 240, 159, 152, 128, 97, 98, 108, 32, 10, 117, 121, 100, 109, 60, 116>>
GemmaTokens == <<Mark, A, B, L, Line, Ab, Mark \o Ab, B \o L>> \o [i \in DOMAIN GemmaBytes |-> Byte(GemmaBytes[i])]
GemmaAdded == Listed(<<Said.bos, Said.turn, Said.turnEnd, Said.channel, Said.channelEnd, Said.marker>>, 50)
Gemma ==
  Domain("text", [Settings("bpe") EXCEPT !.byteLevel = TRUE, !.pre = 1, !.decoder = 1, !.bos = 51], GemmaAdded, Listed(GemmaTokens, 0),
         <<<<3, 4>>, <<2, 3>>, <<1, 6>>>>)

Pieces == Domain("text", [Settings("sentencepiece") EXCEPT !.pre = 1], <<>>, Listed(<<Mark \o Ab, Mark, A, B, Ab, Mark \o L, B \o L>>, 0), <<>>)
Words == Domain("text", Settings("wordpiece"), <<>>, Listed(<<Ab, L, <<35, 35>> \o L, <<35, 35>> \o Ab, Ab \o L \o Ab, Gap>>, 0), <<>>)

\* Domains beside the text, and files cut short.
Typed(type, d) == [d EXCEPT !.type = type]
Coder == Typed("code", [Qwen(FALSE) EXCEPT !.hasMerges = FALSE])
File(name, version, domains) == [name |-> name, version |-> version, gemma |-> name = "gemma", domains |-> domains]
Files ==
  {File("qwen", 13, <<Qwen(FALSE)>>), File("gpt", 12, <<Qwen(TRUE)>>), File("gemma", 13, <<Gemma>>), File("pieces", 12, <<Pieces>>),
   File("words", 13, <<Typed("vision", Words), Words>>), File("coder", 12, <<Pieces, Coder, Typed("vision", Words)>>),
   File("cortex", 13, <<Pieces, Qwen(FALSE), Typed("audio", Words)>>), File("empty", 13, <<Typed("code", [Words EXCEPT !.vocab = <<>>])>>),
   File("cut", 13, <<[Qwen(FALSE) EXCEPT !.end = "merges"], [Coder EXCEPT !.end = "vocab"]>>), File("old", 11, <<Words>>)}
Wanted ==
  [name \in {f.name : f \in Files} |->
     CASE name = "coder" -> {"code", "vision"}
       [] name = "cortex" -> {"cortex", "audio"}
       [] name = "gpt" -> {"cortex", "music"}
       [] name \in {"words", "cut", "empty"} -> {"code"}
       [] OTHER -> {}]

Made(symbols, n) == {FlattenSeq(q) : q \in UNION {[1 .. i -> symbols] : i \in 1 .. n}}
QwenTexts ==
  Made({Ab, L, Gap, Line, Quote, Bang, One, S}, 3)
    \cup {Ab \o Gap \o Gap \o Gap \o Ab \o Gap, Gap \o Line \o Gap \o Line \o Gap \o Ab, Quote \o L \o L \o Ab, E \o Ring \o Acute \o Gap \o Eacute \o L,
          E \o Acute \o Acute, Ab \o Said.start \o L \o Said.end \o Ab \o L, Bang \o Gap \o Bang \o Bang \o Line \o Line \o Ab}
Short == Made({Ab, L, Gap, Bang}, 3)
Texts ==
  [name \in {f.name : f \in Files} |->
     CASE name = "qwen" -> QwenTexts
       [] name = "gemma" -> Made({Ab, L, Gap, Eacute, Smile, Said.turn}, 3) \cup {Ab \o L \o Said.turnEnd \o L \o Smile, Gap \o Gap \o Ab \o Line}
       [] name \in {"pieces", "words", "gpt"} -> Short \cup {Ab \o L \o Ab, Ab \o L \o L \o Gap \o L \o Ab, Gap \o Ab \o L}
       [] OTHER -> Made({Ab, L, Gap}, 2)]

\* Tokens that hold a part of a character, among others that are whole.
Orders(ids, n) == UNION {[1 .. i -> ids] : i \in 1 .. n}
Samples ==
  [name \in {f.name : f \in Files} |->
     CASE name = "qwen" -> Orders({0, 10, 11, 13, 18, 40}, 4)
       [] name = "gemma" -> Orders({0, 8, 9, 10, 11, 13, 50}, 4) \cup Orders({1, 10, 11, 12, 13}, 5)
       [] OTHER -> Orders({0, 1}, 2)]

Message(role, content) == [role |-> role, content |-> content]
Thought == Said.channel \o A \o Said.channelEnd \o L
Dialogues ==
  [first : {<<Message("user", Gap \o Ab)>>, <<Message("system", L), Message("user", Ab)>>, <<Message("tool", Ab)>>,
            <<Message("user", Ab), Message("assistant", Thought), Message("user", L)>>},
   answer : {Ab, L \o Line \o Ab, Thought},
   second : {<<Message("user", L \o Gap)>>, <<Message("system", L), Message("user", Ab)>>, <<Message("developer", L), Message("user", Ab)>>,
             <<Message("user", Ab), Message("tool", L)>>, <<Message("model", Thought), Message("user", Eacute)>>},
   marked : BOOLEAN]
=============================================================================
