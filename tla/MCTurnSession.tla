---------------------------- MODULE MCTurnSession ----------------------------
(***************************************************************************)
(* Short conversations over a KV of a dozen rows, with a ring so small     *)
(* that a few rows later the start of the turn is gone.                    *)
(***************************************************************************)
EXTENDS TurnSession, MCTokenizer

Vocabulary == Special \cup {"u", "v", "w"}

Request(ids, preformatted, image) ==
  [ids |-> ids, preformatted |-> preformatted, reuse |-> preformatted, image |-> image,
   close |-> ~preformatted]

Chat == Request(<<Bos, "u">>, FALSE, FALSE)
Resent == Request(<<Bos, "u">>, TRUE, FALSE)
Grown == Request(<<Bos, "u", "w", "v">>, TRUE, FALSE)
Picture == Request(<<Bos, Marker, "v">>, FALSE, TRUE)
BarePicture == Request(<<Marker>>, FALSE, TRUE)
Unmarked == Request(<<Bos, "u">>, FALSE, TRUE)

TextTurns == {Chat, Resent, Grown}
\* The whole prompt goes through the adapter when its text is not causal.
MixedTurns == TextTurns \cup {Picture}
ImageTurns == {Chat, Grown, Picture, BarePicture, Unmarked}
AllTurns == TextTurns \cup ImageTurns
Resending == {Picture, Grown}
-----------------------------------------------------------------------------
(* The tokenizer that makes the tokens of a turn, and the text of them, is  *)
(* followed apart from the turns.                                           *)
VARIABLES opened, tokenizers, result

Codec == INSTANCE Tokenizer

text == <<opened, tokenizers, result>>
MCVars == <<vars, text>>
TextInit == Init /\ Codec!Init
\* A text changes nothing of the tokenizer, so none is encoded after another.
TextNext == result = Codec!Nothing /\ Codec!Next /\ UNCHANGED vars

MCNext ==
  \/ Next /\ opened = Codec!Closed /\ UNCHANGED text
  \/ turns = 0 /\ turn = NewTurn(turn.req, CHOOSE a \in Adapters : TRUE) /\ TextNext

MCSpec == TextInit /\ [][MCNext]_MCVars
TextSpec == TextInit /\ [][TextNext]_MCVars

(* A text gets the tokens the model was trained with.                       *)
EncodesAsTrained == Codec!EncodesAsTrained


(* A conversation fed turn by turn is the template of the whole of it.      *)
IncrementalIsWhole == Codec!IncrementalIsWhole

(* Messages a model has no place for end the turn with an error.            *)
RefusesWithAnError == Codec!RefusesWithAnError
=============================================================================
