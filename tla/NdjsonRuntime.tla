---------------------------- MODULE NdjsonRuntime ----------------------------
(***************************************************************************)
(* The process of tools/helios_runtime.cpp: a reader thread that takes one *)
(* request per line from stdin and an owner thread that serves the queue   *)
(* and runs the turns.                                                     *)
(*                                                                         *)
(* The two threads share the queue, the active turn, the session that is   *)
(* generating, the pause to announce, the pending cancellations and the    *)
(* attachments, all under g_cola_mtx, and three atomics.  A step of this   *)
(* module is one critical section of that mutex, one access to an atomic,  *)
(* or what a thread does between two of them that nobody else observes.    *)
(***************************************************************************)
EXTENDS Integers, Sequences, FiniteSets

CONSTANTS
  Requests,        \* request_id of every line a client may send
  Clients,         \* the sets of lines a single client may send
  Tipo,            \* Requests -> type
  Sesion,          \* Requests -> session it names
  Objetivo,        \* Requests -> target of a cancel, attachment of a drop
  Usa,             \* Requests -> attachment_ids of a turn
  Default,         \* kSesionPorDefecto
  MaxText,         \* bound: text fragments of one turn
  ClosesInput,     \* the client may close stdin
  OpenMayFail,     \* attach() of a new session may fail
  SaveMayFail,     \* save_rings() may fail
  Nothing          \* no request, no session

Tipos == {"turn", "reset", "status", "session_open", "session_close", "shutdown",
          "cancel", "attachment", "attachment_drop", "unknown", "malformed"}
Sessions == {Sesion[r] : r \in Requests} \cup {Default}
Turns == {r \in Requests : Tipo[r] = "turn"}
Naturales == {"eos", "stop", "max_tokens", "context_full"}
Motivos == Naturales \cup {"cancelled"}

ASSUME RuntimeAssumption ==
  /\ Tipo \in [Requests -> Tipos]
  /\ Clients \subseteq SUBSET Requests
  /\ Nothing \notin Requests \cup Sessions
  /\ \A r \in Requests : Tipo[r] = "cancel" => Objetivo[r] \in Requests
  /\ \A r \in Requests : Usa[r] \subseteq Requests
  /\ MaxText \in Nat

VARIABLES
  sent,             \* the lines already read
  lector,           \* reader thread: where it is and with which request
  cola,             \* g_cola
  cancelar,         \* g_cancelar
  turnoActivo,      \* g_turno_activo
  sesionGenerando,  \* g_sesion_generando
  pausaPendiente,   \* g_pausa_pendiente
  adjuntos,         \* g_adjuntos: the uploads whose bytes are alive
  cancelPend,       \* g_cancel_pend: cancels the owner has to confirm
  stdinCerrado,     \* g_stdin_cerrado
  sesiones,         \* the open sessions (owner thread only)
  owner,            \* owner thread: where it is and with which request
  turno,            \* locals of the turn being run
  out,              \* events written to stdout by the last step
  answered,         \* history: the terminal event each request got
  pedido,           \* history: turns somebody asked to stop while they were active
  pausadas          \* history: sessions announced as paused, no turn since

shared == <<cola, cancelar, turnoActivo, sesionGenerando, pausaPendiente, adjuntos,
            cancelPend, stdinCerrado>>
vars == <<sent, lector, shared, sesiones, owner, turno, out, answered, pedido, pausadas>>

Event(kind, r) == [kind |-> kind, id |-> r]
NoTurn == [usados |-> {}, ran |-> FALSE, texts |-> 0, prefilled |-> FALSE, ok |-> FALSE,
           reason |-> "eos", generated |-> FALSE, pendientes |-> <<>>, pausar |-> Nothing]

\* Terminal events: how the client sees each request end.
Terminals == {"result", "refused", "error", "completed", "cancelled"}

\* Everything a step writes goes through here, so that history follows stdout.
Emit(events) ==
  /\ out' = events
  /\ answered' = [r \in Requests |->
       LET mine == {i \in DOMAIN events : events[i].id = r /\ events[i].kind \in Terminals}
       IN  IF mine = {} THEN answered[r] ELSE events[CHOOSE i \in mine : TRUE].kind]

Say(kind, r) == Emit(<<Event(kind, r)>>)
Quiet == Emit(<<>>)
-----------------------------------------------------------------------------
Init ==
  /\ sent = {}
  /\ lector = [at |-> "read", req |-> Nothing, reply |-> "result"]
  /\ cola = <<>>
  /\ cancelar = FALSE
  /\ turnoActivo = Nothing
  /\ sesionGenerando = Nothing
  /\ pausaPendiente = Nothing
  /\ adjuntos = {}
  /\ cancelPend = <<>>
  /\ stdinCerrado = FALSE
  /\ sesiones = {Default}
  /\ owner = [at |-> "pop", req |-> Nothing]
  /\ turno = NoTurn
  /\ out = <<>>
  /\ answered = [r \in Requests |-> "none"]
  /\ pedido = {}
  /\ pausadas = {}
-----------------------------------------------------------------------------
(* The reader thread, hilo_lector.                                          *)

LectorGoes(at, r, reply) == lector' = [at |-> at, req |-> r, reply |-> reply]
ownerState == <<sesiones, owner, turno>>

\* A line arrives.  A malformed one is answered at once and forgotten.
Read(r) ==
  /\ lector.at = "read"
  /\ r \notin sent
  /\ sent' = sent \cup {r}
  /\ \E client \in Clients : sent' \subseteq client
  /\ LET next == CASE Tipo[r] = "malformed" -> "reply"
                   [] Tipo[r] \in {"attachment", "attachment_drop", "cancel"} -> "lock"
                   [] Tipo[r] \in {"turn", "reset", "session_close"} -> "switch"
                   [] OTHER -> "enqueue"
     IN  LectorGoes(next, r, IF Tipo[r] = "malformed" THEN "error" ELSE "result")
  /\ Quiet
  /\ UNCHANGED <<shared, ownerState, pedido, pausadas>>

\* The geometry is checked before the bytes are stored under the mutex.
StoreAttachment ==
  /\ lector.at = "lock"
  /\ Tipo[lector.req] = "attachment"
  /\ \/ /\ adjuntos' = adjuntos \cup {lector.req}
        /\ LectorGoes("reply", lector.req, "result")
     \/ /\ LectorGoes("reply", lector.req, "error")
        /\ UNCHANGED adjuntos
  /\ Quiet
  /\ UNCHANGED <<sent, cola, cancelar, turnoActivo, sesionGenerando, pausaPendiente,
                 cancelPend, stdinCerrado, ownerState, pedido, pausadas>>

DropAttachment ==
  /\ lector.at = "lock"
  /\ Tipo[lector.req] = "attachment_drop"
  /\ adjuntos' = adjuntos \ {Objetivo[lector.req]}
  /\ LectorGoes("reply", lector.req, "result")
  /\ Quiet
  /\ UNCHANGED <<sent, cola, cancelar, turnoActivo, sesionGenerando, pausaPendiente,
                 cancelPend, stdinCerrado, ownerState, pedido, pausadas>>

(* A cancel never waits in the queue.  The reader only signals it: the      *)
(* owner confirms it, when the turn is over and its outcome known.          *)
SignalCancel ==
  /\ lector.at = "lock"
  /\ Tipo[lector.req] = "cancel"
  /\ IF turnoActivo # Nothing /\ Objetivo[lector.req] = turnoActivo
     THEN /\ cancelPend' = Append(cancelPend, lector.req)
          /\ cancelar' = TRUE
          /\ pedido' = pedido \cup {turnoActivo}
          /\ LectorGoes("read", Nothing, "result")
     ELSE /\ LectorGoes("reply", lector.req, "error")
          /\ UNCHANGED <<cancelPend, cancelar, pedido>>
  /\ Quiet
  /\ UNCHANGED <<sent, cola, turnoActivo, sesionGenerando, pausaPendiente, adjuntos,
                 stdinCerrado, ownerState, pausadas>>

\* The answers the reader gives by itself, outside the mutex.
LectorReply ==
  /\ lector.at = "reply"
  /\ Say(lector.reply, lector.req)
  /\ LectorGoes("read", Nothing, "result")
  /\ UNCHANGED <<sent, shared, ownerState, pedido, pausadas>>

\* Mutant of Switch: the pause is announced when it is asked for.
Switch_Early ==
  /\ lector.at = "switch"
  /\ IF sesionGenerando # Nothing /\ sesionGenerando # Sesion[lector.req]
     THEN /\ cancelar' = TRUE
          /\ pedido' = pedido \cup {turnoActivo}
          /\ Emit(<<Event("paused", sesionGenerando)>>)
          /\ pausadas' = pausadas \cup {sesionGenerando}
     ELSE Quiet /\ UNCHANGED <<cancelar, pedido, pausadas>>
  /\ LectorGoes("enqueue", lector.req, "result")
  /\ UNCHANGED <<sent, cola, turnoActivo, sesionGenerando, pausaPendiente, adjuntos, cancelPend,
                 stdinCerrado, ownerState>>

(* Work for another session stops the one that is generating; the pause is  *)
(* noted here and announced by the owner.                                   *)
Switch ==
  /\ lector.at = "switch"
  /\ IF sesionGenerando # Nothing /\ sesionGenerando # Sesion[lector.req]
     THEN /\ pausaPendiente' = sesionGenerando
          /\ cancelar' = TRUE
          /\ pedido' = pedido \cup {turnoActivo}
     ELSE UNCHANGED <<pausaPendiente, cancelar, pedido>>
  /\ LectorGoes("enqueue", lector.req, "result")
  /\ Quiet
  /\ UNCHANGED <<sent, cola, turnoActivo, sesionGenerando, adjuntos, cancelPend,
                 stdinCerrado, ownerState, pausadas>>

\* Mutant of Enqueue: the reader waits for another line after a shutdown.
Enqueue_KeepsReading ==
  /\ lector.at = "enqueue"
  /\ cola' = Append(cola, lector.req)
  /\ LectorGoes("read", Nothing, "result")
  /\ Quiet
  /\ UNCHANGED <<sent, cancelar, turnoActivo, sesionGenerando, pausaPendiente, adjuntos,
                 cancelPend, stdinCerrado, ownerState, pedido, pausadas>>

Enqueue ==
  /\ lector.at = "enqueue"
  /\ cola' = Append(cola, lector.req)
  /\ LectorGoes(IF Tipo[lector.req] = "shutdown" THEN "close" ELSE "read", Nothing, "result")
  /\ Quiet
  /\ UNCHANGED <<sent, cancelar, turnoActivo, sesionGenerando, pausaPendiente, adjuntos,
                 cancelPend, stdinCerrado, ownerState, pedido, pausadas>>

EndOfInput ==
  /\ ClosesInput
  /\ lector.at = "read"
  /\ LectorGoes("close", Nothing, "result")
  /\ Quiet
  /\ UNCHANGED <<sent, shared, ownerState, pedido, pausadas>>

CloseInput ==
  /\ lector.at = "close"
  /\ stdinCerrado' = TRUE
  /\ LectorGoes("done", Nothing, "result")
  /\ Quiet
  /\ UNCHANGED <<sent, cola, cancelar, turnoActivo, sesionGenerando, pausaPendiente,
                 adjuntos, cancelPend, ownerState, pedido, pausadas>>
-----------------------------------------------------------------------------
(* The owner thread, main.                                                  *)

lectorState == <<sent, lector, stdinCerrado>>
OwnerGoes(at, r) == owner' = [at |-> at, req |-> r]

Pop ==
  /\ owner.at = "pop"
  /\ IF cola # <<>>
     THEN /\ cola' = Tail(cola)
          /\ OwnerGoes("serve", Head(cola))
     ELSE /\ OwnerGoes("idle", Nothing)
          /\ UNCHANGED cola
  /\ Quiet
  /\ UNCHANGED <<lectorState, cancelar, turnoActivo, sesionGenerando, pausaPendiente,
                 adjuntos, cancelPend, sesiones, turno, pedido, pausadas>>

\* The queue was empty a moment ago: leave if stdin is closed, else sleep.
Idle ==
  /\ owner.at = "idle"
  /\ OwnerGoes(IF stdinCerrado THEN "exit" ELSE "pop", Nothing)
  /\ Quiet
  /\ UNCHANGED <<lectorState, cola, cancelar, turnoActivo, sesionGenerando, pausaPendiente,
                 adjuntos, cancelPend, sesiones, turno, pedido, pausadas>>

ServeLeaves == <<lectorState, cola, cancelar, turnoActivo, sesionGenerando, pausaPendiente,
                 adjuntos, cancelPend, turno, pedido, pausadas>>

(* sesion_de: whatever the type of the request, the session it names is     *)
(* opened on demand.                                                        *)
Opening(r) == IF Sesion[r] \in sesiones THEN <<>> ELSE <<Event("opened", Sesion[r])>>

\* The capacity asked for is invalid or not the open session's, or attach() fails.
RefuseSession(r) ==
  /\ owner = [at |-> "serve", req |-> r]
  /\ \/ Tipo[r] = "session_open"
     \/ OpenMayFail /\ Sesion[r] \notin sesiones
  /\ Say("error", r)
  /\ OwnerGoes("pop", Nothing)
  /\ UNCHANGED <<ServeLeaves, sesiones>>

CloseSession(r) ==
  /\ owner = [at |-> "serve", req |-> r]
  /\ Tipo[r] = "session_close"
  /\ IF Sesion[r] = Default
     THEN /\ Say("error", r)
          /\ UNCHANGED sesiones
     ELSE /\ Emit(Opening(r) \o <<Event("closed", Sesion[r]), Event("result", r)>>)
          /\ sesiones' = sesiones \ {Sesion[r]}
  /\ OwnerGoes("pop", Nothing)
  /\ UNCHANGED ServeLeaves

\* session_open, status, reset, shutdown, an unknown type, a turn without messages.
AnswerAtOnce(r) ==
  /\ owner = [at |-> "serve", req |-> r]
  /\ Tipo[r] \in {"session_open", "status", "reset", "shutdown", "unknown", "turn"}
  /\ sesiones' = sesiones \cup {Sesion[r]}
  /\ Emit(Opening(r) \o
          <<Event(IF Tipo[r] \in {"unknown", "turn"} THEN "error" ELSE "result", r)>>)
  /\ OwnerGoes(IF Tipo[r] = "shutdown" THEN "exit" ELSE "pop", Nothing)
  /\ UNCHANGED ServeLeaves

AcceptTurn(r) ==
  /\ owner = [at |-> "serve", req |-> r]
  /\ Tipo[r] = "turn"
  /\ sesiones' = sesiones \cup {Sesion[r]}
  /\ Emit(Opening(r))
  /\ OwnerGoes("lookup", r)
  /\ UNCHANGED ServeLeaves

\* Mutant of LookUpAttachments: an unknown attachment is reported, not refused.
LookUpAttachments_GoesOn ==
  /\ owner.at = "lookup"
  /\ turno' = [NoTurn EXCEPT !.usados = Usa[owner.req] \cap adjuntos]
  /\ OwnerGoes("activate", owner.req)
  /\ IF Usa[owner.req] \subseteq adjuntos THEN Quiet ELSE Say("error", owner.req)
  /\ UNCHANGED <<lectorState, cola, cancelar, turnoActivo, sesionGenerando, pausaPendiente,
                 adjuntos, cancelPend, sesiones, pedido, pausadas>>

(* The attachments are looked up under the mutex; the turn keeps pointers   *)
(* into their bytes after releasing it.                                     *)
LookUpAttachments ==
  /\ owner.at = "lookup"
  /\ IF Usa[owner.req] \subseteq adjuntos
     THEN /\ turno' = [NoTurn EXCEPT !.usados = Usa[owner.req]]
          /\ OwnerGoes("activate", owner.req)
          /\ Quiet
     ELSE /\ Say("error", owner.req)
          /\ OwnerGoes("pop", Nothing)
          /\ UNCHANGED turno
  /\ UNCHANGED <<lectorState, cola, cancelar, turnoActivo, sesionGenerando, pausaPendiente,
                 adjuntos, cancelPend, sesiones, pedido, pausadas>>

\* Mutant of Activate: the flag of the turn before is not cleared.
Activate_KeepsFlag ==
  /\ owner.at = "activate"
  /\ turnoActivo' = owner.req
  /\ sesionGenerando' = Sesion[owner.req]
  /\ pausadas' = pausadas \ {Sesion[owner.req]}
  /\ OwnerGoes(IF Sesion[owner.req] = Default THEN "run" ELSE "save", owner.req)
  /\ Say("started", owner.req)
  /\ UNCHANGED <<lectorState, cola, cancelar, pausaPendiente, adjuntos, cancelPend, sesiones,
                 turno, pedido>>

\* From here on the turn can be cancelled, and the flag is its own.
Activate ==
  /\ owner.at = "activate"
  /\ cancelar' = FALSE
  /\ turnoActivo' = owner.req
  /\ sesionGenerando' = Sesion[owner.req]
  /\ pausadas' = pausadas \ {Sesion[owner.req]}
  /\ OwnerGoes(IF Sesion[owner.req] = Default THEN "run" ELSE "save", owner.req)
  /\ Say("started", owner.req)
  /\ UNCHANGED <<lectorState, cola, pausaPendiente, adjuntos, cancelPend, sesiones, turno,
                 pedido>>

TurnLeaves == <<lectorState, cola, cancelar, turnoActivo, sesionGenerando, pausaPendiente,
                adjuntos, cancelPend, sesiones, pedido, pausadas>>

(* A session that borrows the rings of the default one saves them first.    *)
(* If that fails run_turn is not called and nothing assigns `reason`.       *)
SaveRings ==
  /\ owner.at = "save"
  /\ Quiet
  /\ \/ /\ OwnerGoes("run", owner.req)
        /\ UNCHANGED turno
     \/ /\ SaveMayFail
        /\ \E reason \in Motivos : turno' = [turno EXCEPT !.reason = reason]
        /\ OwnerGoes("consume", owner.req)
  /\ UNCHANGED TurnLeaves

(* What run_turn does as far as this process can tell: it reports the       *)
(* prefill, emits text, and ends.  It stops as cancelled only if it saw the *)
(* flag, and it may also end by itself although the flag is set.            *)
TurnPrefill ==
  /\ owner.at = "run" /\ ~turno.prefilled
  /\ turno' = [turno EXCEPT !.prefilled = TRUE]
  /\ Say("prefill", owner.req)
  /\ UNCHANGED <<owner, TurnLeaves>>

TurnText ==
  /\ owner.at = "run" /\ turno.prefilled /\ turno.texts < MaxText
  /\ turno' = [turno EXCEPT !.texts = @ + 1]
  /\ Say("text", owner.req)
  /\ UNCHANGED <<owner, TurnLeaves>>

\* How run_turn may return: ok, the reason, and whether it generated tokens.
Outcomes ==
  {o \in [ok : BOOLEAN, reason : Motivos, generated : BOOLEAN] :
     /\ o.generated => turno.prefilled
     /\ turno.texts > 0 => o.generated
     /\ o.reason = "cancelled" => cancelar
     /\ o.reason # "cancelled" /\ o.ok => turno.prefilled
     /\ o.reason \notin {"eos", "cancelled"} => turno.prefilled
     /\ ~o.ok /\ o.reason = "cancelled" => o.generated}

TurnEnd ==
  /\ owner.at = "run"
  /\ \E o \in Outcomes :
       turno' = [turno EXCEPT !.ran = TRUE, !.ok = o.ok, !.reason = o.reason, !.generated = o.generated]
  /\ OwnerGoes("consume", owner.req)
  /\ Quiet
  /\ UNCHANGED TurnLeaves

\* Mutant of Consume: the attachments are used up however the turn ended.
Consume_Always ==
  /\ owner.at = "consume"
  /\ adjuntos' = adjuntos \ turno.usados
  /\ OwnerGoes("collect", owner.req)
  /\ Quiet
  /\ UNCHANGED <<lectorState, cola, cancelar, turnoActivo, sesionGenerando, pausaPendiente,
                 cancelPend, sesiones, turno, pedido, pausadas>>

\* A failed turn, or one cancelled before generating, can be sent again.
Consume ==
  /\ owner.at = "consume"
  /\ adjuntos' = IF turno.ok /\ ~(turno.reason = "cancelled" /\ ~turno.generated)
                 THEN adjuntos \ turno.usados ELSE adjuntos
  /\ OwnerGoes("collect", owner.req)
  /\ Quiet
  /\ UNCHANGED <<lectorState, cola, cancelar, turnoActivo, sesionGenerando, pausaPendiente,
                 cancelPend, sesiones, turno, pedido, pausadas>>

\* Mutant of Collect: the turn still looks active after its cancels were taken.
Collect_KeepsActive ==
  /\ owner.at = "collect"
  /\ turno' = [turno EXCEPT !.pendientes = cancelPend, !.pausar = pausaPendiente]
  /\ cancelPend' = <<>>
  /\ pausaPendiente' = Nothing
  /\ OwnerGoes("report", owner.req)
  /\ Quiet
  /\ UNCHANGED <<lectorState, cola, cancelar, turnoActivo, sesionGenerando, adjuntos, sesiones,
                 pedido, pausadas>>

\* Mutant of Collect: the queue of cancels is cleared before it is copied.
Collect_ClearsFirst ==
  /\ owner.at = "collect"
  /\ turno' = [turno EXCEPT !.pausar = pausaPendiente]
  /\ cancelPend' = <<>>
  /\ pausaPendiente' = Nothing
  /\ turnoActivo' = Nothing
  /\ sesionGenerando' = Nothing
  /\ OwnerGoes("report", owner.req)
  /\ Quiet
  /\ UNCHANGED <<lectorState, cola, cancelar, adjuntos, sesiones, pedido, pausadas>>

\* The turn stops being active in the step that takes its pending cancels.
Collect ==
  /\ owner.at = "collect"
  /\ turno' = [turno EXCEPT !.pendientes = cancelPend, !.pausar = pausaPendiente]
  /\ cancelPend' = <<>>
  /\ pausaPendiente' = Nothing
  /\ turnoActivo' = Nothing
  /\ sesionGenerando' = Nothing
  /\ OwnerGoes("report", owner.req)
  /\ Quiet
  /\ UNCHANGED <<lectorState, cola, cancelar, adjuntos, sesiones, pedido, pausadas>>

\* Mutant of Confirmations: having asked is taken for having cancelled.
Confirmations_Optimistic ==
  [i \in DOMAIN turno.pendientes |->
     Event(IF Objetivo[turno.pendientes[i]] = owner.req THEN "result" ELSE "refused",
           turno.pendientes[i])]

(* The cancels are confirmed with the real outcome, then the terminal event *)
(* of the turn, then the pause.                                             *)
Confirmations ==
  [i \in DOMAIN turno.pendientes |->
     Event(IF Objetivo[turno.pendientes[i]] = owner.req /\ turno.reason = "cancelled"
           THEN "result" ELSE "refused", turno.pendientes[i])]

Terminal ==
  IF ~turno.ok THEN "error" ELSE IF turno.reason = "cancelled" THEN "cancelled" ELSE "completed"

Report ==
  /\ owner.at = "report"
  /\ Emit(Confirmations \o <<Event(Terminal, owner.req)>> \o
          (IF turno.pausar = Nothing THEN <<>> ELSE <<Event("paused", turno.pausar)>>))
  /\ pausadas' = pausadas \cup ({turno.pausar} \ {Nothing})
  /\ turno' = NoTurn
  /\ OwnerGoes("pop", Nothing)
  /\ UNCHANGED <<lectorState, cola, cancelar, turnoActivo, sesionGenerando, pausaPendiente,
                 adjuntos, cancelPend, sesiones, pedido>>

\* The process ends when the reader has ended too.
Join ==
  /\ owner.at = "exit"
  /\ lector.at = "done"
  /\ OwnerGoes("ended", Nothing)
  /\ Quiet
  /\ UNCHANGED <<lectorState, cola, cancelar, turnoActivo, sesionGenerando, pausaPendiente,
                 adjuntos, cancelPend, sesiones, turno, pedido, pausadas>>
-----------------------------------------------------------------------------
LectorWorks ==
  \/ StoreAttachment \/ DropAttachment \/ SignalCancel \/ LectorReply
  \/ Switch \/ Enqueue \/ CloseInput

OwnerWorks ==
  \/ Pop \/ Idle \/ LookUpAttachments \/ Activate \/ SaveRings
  \/ TurnPrefill \/ TurnText \/ TurnEnd \/ Consume \/ Collect \/ Report \/ Join
  \/ \E r \in Requests : RefuseSession(r) \/ CloseSession(r) \/ AnswerAtOnce(r) \/ AcceptTurn(r)

Next ==
  \/ \E r \in Requests : Read(r)
  \/ EndOfInput
  \/ LectorWorks
  \/ OwnerWorks

(* Both threads keep being scheduled; nothing makes the client write or     *)
(* close its end.                                                           *)
Spec == Init /\ [][Next]_vars
FairSpec == Spec /\ WF_vars(LectorWorks) /\ WF_vars(OwnerWorks)
-----------------------------------------------------------------------------
InTurn == owner.at \in {"save", "run", "consume", "collect", "report"}
AnswerKinds == Terminals \cup {"none"}

TypeOK ==
  /\ sent \subseteq Requests
  /\ lector.at \in {"read", "lock", "reply", "switch", "enqueue", "close", "done"}
  /\ lector.req \in Requests \cup {Nothing}
  /\ cola \in Seq(Requests) /\ cancelPend \in Seq(Requests)
  /\ cancelar \in BOOLEAN /\ stdinCerrado \in BOOLEAN
  /\ turnoActivo \in Turns \cup {Nothing}
  /\ sesionGenerando \in Sessions \cup {Nothing}
  /\ pausaPendiente \in Sessions \cup {Nothing}
  /\ adjuntos \subseteq Requests
  /\ Default \in sesiones /\ sesiones \subseteq Sessions
  /\ owner.req \in Requests \cup {Nothing}
  /\ InTurn => owner.req \in Turns /\ Sesion[owner.req] \in sesiones
  /\ turno.texts \in 0 .. MaxText /\ turno.reason \in Motivos
  /\ answered \in [Requests -> AnswerKinds]
  /\ pedido \subseteq Turns
  /\ pausadas \subseteq Sessions

(* A cancellation never reaches a turn it was not meant for: only a turn    *)
(* somebody asked to stop, or to make room for, ends as cancelled.          *)
OnlyAskedTurnsAreCancelled ==
  \A t \in Turns : answered[t] = "cancelled" => t \in pedido

(* A cancel the reader accepted waits for the turn it names, and is never   *)
(* left behind by the terminal event of that turn.                          *)
CancelsFollowTheirTurn ==
  LET waiting == {cancelPend[i] : i \in DOMAIN cancelPend} \cup
                 {turno.pendientes[i] : i \in DOMAIN turno.pendientes}
  IN  \A c \in waiting :
        /\ InTurn /\ Objetivo[c] = owner.req
        /\ answered[c] = "none" /\ answered[owner.req] = "none"

(* What the owner confirms is what the client sees happen to the turn.      *)
ConfirmationMatchesTerminal ==
  \A c \in Requests : Tipo[c] = "cancel" =>
    /\ answered[c] = "result" => answered[Objetivo[c]] \in {"cancelled", "error"}
    /\ answered[c] = "refused" => answered[Objetivo[c]] \in {"completed", "error"}

(* After session_paused of a session, no text of it until a new turn.       *)
PausedIsSilent ==
  \A i \in DOMAIN out : out[i].kind = "text" => Sesion[out[i].id] \notin pausadas

(* An attachment serves one completed turn, and stays available as long as  *)
(* nobody dropped it and no turn used it up: a failed turn can be retried.  *)
AttachmentsServeOnce ==
  \A a \in Requests : Tipo[a] = "attachment" =>
    /\ (\E t \in Turns : a \in Usa[t] /\ answered[t] = "completed") => a \notin adjuntos
    /\ ( /\ answered[a] = "result"
         /\ \A d \in sent : Tipo[d] = "attachment_drop" => Objetivo[d] # a
         /\ \A t \in Turns : a \in Usa[t] => answered[t] \in {"none", "error"}
         /\ ~(owner.at \in {"collect", "report"} /\ a \in turno.usados) ) => a \in adjuntos

(* Every line read is answered, if the client keeps stdin open and sends no *)
(* shutdown.                                                                *)
EveryRequestAnswered ==
  []~stdinCerrado => \A r \in Requests : (r \in sent) ~> (answered[r] # "none")

(* A shutdown ends the process, whatever the threads are doing.             *)
ShutdownEnds ==
  (\E r \in sent : Tipo[r] = "shutdown") ~> (owner.at = "ended")

(* The two threads implement the server a client sees.                      *)
Server == INSTANCE RequestServer WITH
  status <- [r \in Requests |->
               CASE answered[r] # "none" -> "answered"
                 [] r \notin sent -> "unsent"
                 [] InTurn /\ owner.req = r -> "running"
                 [] OTHER -> "pending"],
  speaking <- IF out # <<>> /\ out[1].kind = "text" THEN out[1].id ELSE "nobody"

ImplementsServer == Server!Spec
-----------------------------------------------------------------------------
(* Statements of comments that the code does not keep.                      *)

(* helios_runtime.cpp, g_adjuntos: "protegido por g_cola_mtx".  The bytes a *)
(* running turn points to are alive.                                        *)
AttachmentsAlive ==
  owner.at = "run" => turno.usados \subseteq adjuntos

(* helios_runtime.cpp: cancels are confirmed when "sabemos si de verdad se  *)
(* canceló".  A cancel is confirmed only for a turn that ran.               *)
ConfirmedTurnsRan ==
  [][ \A c \in Requests :
        (Tipo[c] = "cancel" /\ answered[c] = "none" /\ answered'[c] = "result")
          => turno.ran ]_vars
=============================================================================
