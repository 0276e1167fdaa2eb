----------------------------- MODULE SharedModel -----------------------------
(***************************************************************************)
(* What the sessions of one model share: the engines with their scratch    *)
(* views and captured CUDA graphs, and the rings of the sliding layers,    *)
(* which the default session owns and the others borrow.                   *)
(*                                                                         *)
(* The turns of all sessions are serialised (en_uso, and the only owner    *)
(* thread of the runtime), so nothing here runs at the same time as        *)
(* anything else.  What can go wrong is that a turn finds what the turn of *)
(* another session left: its graphs, its views, its rows in the rings.     *)
(*                                                                         *)
(* A forward is a step, and what it writes is abstracted to a stamp: whose *)
(* rows they are, and how many forwards that session had made.             *)
(***************************************************************************)
EXTENDS Integers, Sequences, SessionNames

CONSTANTS
  Borrowers,    \* the sessions whose rings are those of Default
  Engines,      \* one engine, or the two of a split model
  Order,        \* the order in which their rings are copied
  GraphSlots,   \* the graphs of a decode step: one, or three when split
  UseGraphs,    \* use_cuda_graphs
  MaxForwards,  \* bound: forwards of each session
  Nobody        \* no session, no graph, no rows

Copies == 0 .. Len(Order)

ASSUME SharedAssumption ==
  /\ Nobody \notin Sessions
  /\ Borrowers \subseteq Sessions \ {Default}
  /\ Order \in Seq(Engines) /\ Engines = {Order[i] : i \in 1 .. Len(Order)}
  /\ UseGraphs \in BOOLEAN
  /\ MaxForwards \in Nat

VARIABLES
  at,          \* what the owner thread does next
  running,     \* the session whose turn it serves
  empty,       \* position() = 0, for each session
  forwards,    \* the forwards each session has made
  ring,        \* owner of rings -> engine -> the stamp of what they hold
  saved,       \* saved_rings, secondary_saved_rings: engine -> stamp
  graph,       \* graph_slots_: the session whose decode was captured
  views,       \* for whose decode the scratch views are, Nobody for a prefill
  built,       \* decode_cb_built of each session
  unavailable  \* graph_unavailable of each session

rings == <<ring, saved>>
decoding == <<graph, views, built, unavailable>>
vars == <<at, running, empty, forwards, rings, decoding>>

Stamp(s) == <<s, forwards[s]>>
Garbage == <<Nobody, 0>>
Stamps == (Sessions \X Nat) \cup {Garbage}

Holder(s) == IF s \in Borrowers THEN Default ELSE s
Holders == Sessions \ Borrowers

Init ==
  /\ at = "idle" /\ running = Nobody
  /\ empty = [s \in Sessions |-> TRUE]
  /\ forwards = [s \in Sessions |-> 0]
  /\ ring = [h \in Holders |-> [e \in Engines |-> Garbage]]
  /\ saved = [e \in Engines |-> Garbage]
  /\ graph = [g \in GraphSlots |-> Nobody]
  /\ views = Nobody
  /\ built = [s \in Sessions |-> FALSE]
  /\ unavailable = [s \in Sessions |-> FALSE]

InvalidateGraphs == graph' = [g \in GraphSlots |-> Nobody]
NotBuilt(s) == built' = [built EXCEPT ![s] = FALSE]

\* InferenceSession::reset.
ResetSession(s) ==
  /\ InvalidateGraphs /\ NotBuilt(s)
  /\ empty' = [empty EXCEPT ![s] = TRUE]
  /\ UNCHANGED <<views, unavailable>>
-----------------------------------------------------------------------------
(* The runtime around a turn.                                               *)

Serve(s) ==
  /\ at = "idle"
  /\ running' = s
  /\ at' = IF s \in Borrowers THEN "lend" ELSE "call"
  /\ UNCHANGED <<empty, forwards, rings, decoding>>

\* The engines copied before a copy that fails, and what the failed one leaves.
Before(n) == {Order[i] : i \in 1 .. n}
Partial(n, e, copied, old) ==
  IF e \in Before(n) THEN copied ELSE IF n < Len(Order) /\ e = Order[n + 1] THEN Garbage ELSE old

\* Without a copy of all the rings the turn is not run.
SaveRings ==
  /\ at = "lend"
  /\ \E n \in Copies :
       /\ saved' = [e \in Engines |-> Partial(n, e, ring[Default][e], saved[e])]
       /\ IF n = Len(Order) THEN at' = "forget" /\ UNCHANGED running
          ELSE at' = "idle" /\ running' = Nobody
  /\ UNCHANGED <<empty, forwards, ring, decoding>>

\* The rows of a borrower do not survive its turn, so it starts over.
ForgetBorrower ==
  /\ at = "forget"
  /\ ResetSession(running)
  /\ at' = "call"
  /\ UNCHANGED <<running, forwards, rings>>

\* Mutant of RestoreRings: the owner keeps its position without its rings.
RestoreRings_Kept ==
  /\ at = "return" /\ running \in Borrowers
  /\ \E n \in Copies :
       ring' = [ring EXCEPT ![Default] =
                  [e \in Engines |-> Partial(n, e, saved[e], ring[Default][e])]]
  /\ at' = "idle" /\ running' = Nobody
  /\ UNCHANGED <<empty, forwards, saved, decoding>>

\* If a ring does not come back, the owner forgets its conversation.
RestoreRings ==
  /\ at = "return" /\ running \in Borrowers
  /\ \E n \in Copies :
       /\ ring' = [ring EXCEPT ![Default] =
                     [e \in Engines |-> Partial(n, e, saved[e], ring[Default][e])]]
       /\ IF n = Len(Order) THEN UNCHANGED <<empty, decoding>> ELSE ResetSession(Default)
  /\ at' = "idle" /\ running' = Nobody
  /\ UNCHANGED <<forwards, saved>>

Return ==
  /\ at = "return" /\ running \notin Borrowers
  /\ at' = "idle" /\ running' = Nobody
  /\ UNCHANGED <<empty, forwards, rings, decoding>>

\* The reset of a client.
Reset(s) ==
  /\ at = "idle"
  /\ ResetSession(s)
  /\ UNCHANGED <<at, running, forwards, rings>>

\* A session is closed, and one opened with its name: other rings if it owns them.
Reopen(s) ==
  /\ at = "idle" /\ s # Default
  /\ InvalidateGraphs /\ NotBuilt(s)
  /\ empty' = [empty EXCEPT ![s] = TRUE]
  /\ unavailable' = [unavailable EXCEPT ![s] = FALSE]
  /\ ring' = [h \in Holders |-> IF h = s THEN [e \in Engines |-> Garbage] ELSE ring[h]]
  /\ UNCHANGED <<at, running, forwards, saved, views>>
-----------------------------------------------------------------------------
(* A turn.                                                                  *)

\* Cancelled while it waited for the model, before anything was touched.
GiveUp ==
  /\ at = "call"
  /\ at' = "return"
  /\ UNCHANGED <<running, empty, forwards, rings, decoding>>

StartTurn ==
  /\ at = "call"
  /\ InvalidateGraphs /\ NotBuilt(running)
  /\ unavailable' = [unavailable EXCEPT ![running] = FALSE]
  /\ at' = "turn"
  /\ UNCHANGED <<running, empty, forwards, rings, views>>

\* A rewind the ring does not allow, or an image that failed, clears the KV.
Clear ==
  /\ at = "turn"
  /\ empty' = [empty EXCEPT ![running] = TRUE]
  /\ UNCHANGED <<at, running, forwards, rings, decoding>>

(* Every forward writes the rings of all the engines.  One that throws may  *)
(* stop half way: it leaves rows of its own session, which KvRing is about, *)
(* and the turn takes back as much as it has to, up to the whole KV.        *)
Writes ==
  LET n == forwards[running] + 1
  IN  /\ forwards' = [forwards EXCEPT ![running] = n]
      /\ ring' = [ring EXCEPT ![Holder(running)] = [e \in Engines |-> <<running, n>>]]
      /\ UNCHANGED saved

Forward ==
  /\ at = "turn" /\ forwards[running] < MaxForwards
  /\ Writes
  /\ \/ empty' = [empty EXCEPT ![running] = FALSE] /\ UNCHANGED at
     \/ at' = "return" /\ (UNCHANGED empty \/ empty' = [empty EXCEPT ![running] = TRUE])
  /\ UNCHANGED running

\* Mutant of Chunk: the decode commands built before it are kept.
Chunk_KeepsBuilt ==
  /\ Forward
  /\ InvalidateGraphs /\ UNCHANGED built
  /\ views' = Nobody
  /\ UNCHANGED unavailable

(* A prefill of several tokens, or of an image, rewrites the scratch views: *)
(* the decode has to build its own again.                                   *)
Chunk ==
  /\ Forward
  /\ InvalidateGraphs /\ NotBuilt(running)
  /\ views' = Nobody
  /\ UNCHANGED unavailable

\* The first decode of the views builds its commands and executes them.
DecodeBuilding ==
  /\ at = "turn" /\ ~built[running]
  /\ Forward
  /\ built' = [built EXCEPT ![running] = TRUE]
  /\ views' = running
  /\ UNCHANGED <<graph, unavailable>>

\* Then each graph is replayed, or captured; a capture that fails is not retried.
DecodeReplaying ==
  /\ at = "turn" /\ built[running] /\ UseGraphs /\ ~unavailable[running]
  /\ Forward
  /\ \E captured \in SUBSET {g \in GraphSlots : graph[g] = Nobody} :
       graph' = [g \in GraphSlots |-> IF g \in captured THEN running ELSE graph[g]]
  /\ unavailable' = [unavailable EXCEPT ![running] = \E g \in GraphSlots : graph'[g] = Nobody]
  /\ UNCHANGED <<views, built>>

DecodeEager ==
  /\ at = "turn" /\ built[running] /\ (~UseGraphs \/ unavailable[running])
  /\ Forward
  /\ UNCHANGED decoding

EndTurn ==
  /\ at = "turn"
  /\ at' = "return"
  /\ UNCHANGED <<running, empty, forwards, rings, decoding>>

Next ==
  \/ \E s \in Sessions : Serve(s) \/ Reset(s) \/ Reopen(s)
  \/ SaveRings \/ ForgetBorrower \/ RestoreRings \/ Return
  \/ GiveUp \/ StartTurn \/ Clear \/ Chunk
  \/ DecodeBuilding \/ DecodeReplaying \/ DecodeEager \/ EndTurn

Spec == Init /\ [][Next]_vars
-----------------------------------------------------------------------------
Places == {"idle", "lend", "forget", "call", "turn", "return"}

TypeOK ==
  /\ at \in Places
  /\ running \in Sessions \cup {Nobody}
  /\ at # "idle" => running \in Sessions
  /\ empty \in [Sessions -> BOOLEAN]
  /\ forwards \in [Sessions -> Nat]
  /\ ring \in [Holders -> [Engines -> Stamps]]
  /\ saved \in [Engines -> Stamps]
  /\ graph \in [GraphSlots -> Sessions \cup {Nobody}]
  /\ views \in Sessions \cup {Nobody}
  /\ built \in [Sessions -> BOOLEAN]
  /\ unavailable \in [Sessions -> BOOLEAN]

(* A turn decodes with what it captured and built itself: no graph replays  *)
(* the KV pointers of another session, and the decode commands it executes  *)
(* or captures are those of the scratch views as they are.                  *)
DecodesWithItsOwn ==
  at = "turn" =>
    /\ \A g \in GraphSlots : graph[g] \in {running, Nobody}
    /\ built[running] => views = running

\* The rings hold the last rows of the session, on every engine.
HoldsRows(s, rows) == \A e \in Engines : rows[e] = Stamp(s)

(* A session that goes on from its KV finds its own rows in the rings, the  *)
(* latest ones, whatever turns borrowed the rings since and whatever copies *)
(* of them failed.                                                          *)
ContinuesItsOwnRows ==
  /\ at \in {"call", "turn"} /\ ~empty[running] => HoldsRows(running, ring[Holder(running)])
  /\ at = "idle" => \A h \in Holders : ~empty[h] => HoldsRows(h, ring[h])

(* The inductive invariant: between its turns the owner's rows are either   *)
(* in the rings or in the copy that will be restored.                       *)
Lent == running \in Borrowers /\ at \in {"forget", "call", "turn", "return"}

OwnersKeepRows ==
  \A h \in Holders : ~empty[h] => HoldsRows(h, IF Lent /\ h = Default THEN saved ELSE ring[h])

BorrowerStartsOver ==
  running \in Borrowers /\ at \in {"call", "turn"} /\ ~empty[running]
    => HoldsRows(running, ring[Default])

\* A borrower that is about to run has forgotten its last turn.
BorrowerForgot == running \in Borrowers /\ at = "call" => empty[running]

IInv ==
  /\ TypeOK
  /\ DecodesWithItsOwn
  /\ OwnersKeepRows /\ BorrowerStartsOver /\ BorrowerForgot

=============================================================================
