------------------------- MODULE NdjsonRuntimeProofs -------------------------
(***************************************************************************)
(* For any requests, clients and sessions: the two threads of the runtime  *)
(* implement the server a client sees, and their cancels, pauses and       *)
(* attachments do what the client is told.                                 *)
(*                                                                         *)
(* The argument is about where a request is.  One that was read and not    *)
(* answered is in the hands of the reader, in the queue, in the hands of   *)
(* the owner, or among the cancels of the active turn, and in one of these *)
(* places only; so nobody can answer it a second time.                     *)
(***************************************************************************)
EXTENDS NdjsonRuntime, SequenceTheorems, TLAPS

LectorPlaces == {"read", "lock", "reply", "switch", "enqueue", "close", "done"}
OwnerPlaces == {"pop", "serve", "idle", "lookup", "activate", "save", "run", "consume",
                "collect", "report", "exit", "ended"}
OwnerBusy == {"serve", "lookup", "activate", "save", "run", "consume", "collect", "report"}
TurnPlaces == OwnerBusy \ {"serve"}
ActivePlaces == {"save", "run", "consume", "collect"}

\* The requests that go through the queue.
Queueable == {"turn", "reset", "status", "session_open", "session_close", "shutdown", "unknown"}
Locked == {"attachment", "attachment_drop", "cancel"}

Turnos == [usados : SUBSET Requests, ran : BOOLEAN, texts : 0 .. MaxText, prefilled : BOOLEAN,
           ok : BOOLEAN, reason : Motivos, generated : BOOLEAN, pendientes : Seq(Requests),
           pausar : Sessions \cup {Nothing}]

Types ==
  /\ sent \subseteq Requests
  /\ lector \in [at : LectorPlaces, req : Requests \cup {Nothing}, reply : {"result", "error"}]
  /\ cola \in Seq(Requests)
  /\ cancelar \in BOOLEAN
  /\ turnoActivo \in Turns \cup {Nothing}
  /\ sesionGenerando \in Sessions \cup {Nothing}
  /\ pausaPendiente \in Sessions \cup {Nothing}
  /\ adjuntos \subseteq Requests
  /\ cancelPend \in Seq(Requests)
  /\ stdinCerrado \in BOOLEAN
  /\ Default \in sesiones /\ sesiones \subseteq Sessions
  /\ owner \in [at : OwnerPlaces, req : Requests \cup {Nothing}]
  /\ turno \in Turnos
  /\ answered \in [Requests -> AnswerKinds]
  /\ pedido \subseteq Turns
  /\ pausadas \subseteq Sessions

\* Read, and not answered yet.
Open(r) == r \in sent /\ answered[r] = "none"

(* The reader works on a request of the kind its place is for.              *)
LectorHolds ==
  /\ lector.at \in {"read", "close", "done"} => lector.req = Nothing
  /\ lector.at \in {"lock", "reply", "switch", "enqueue"} =>
       lector.req \in Requests /\ Open(lector.req)
  /\ lector.at = "lock" => Tipo[lector.req] \in Locked
  /\ lector.at = "reply" =>
       /\ Tipo[lector.req] \in Locked \cup {"malformed"}
       /\ Tipo[lector.req] = "cancel" => lector.reply = "error"
  /\ lector.at \in {"switch", "enqueue"} => Tipo[lector.req] \in Queueable

(* The queue holds each request once, and none the reader still has.        *)
QueueHolds ==
  \A i \in DOMAIN cola :
    /\ Open(cola[i]) /\ Tipo[cola[i]] \in Queueable
    /\ cola[i] # lector.req
    /\ \A j \in DOMAIN cola : cola[i] = cola[j] => i = j

(* The owner works on one request, that nobody else has, and the turn that  *)
(* can be cancelled is the one it runs.                                     *)
OwnerHolds ==
  /\ owner.at \notin OwnerBusy => owner.req = Nothing
  /\ owner.at \in OwnerBusy =>
       /\ owner.req \in Requests /\ Open(owner.req)
       /\ Tipo[owner.req] \in Queueable
       /\ owner.req # lector.req
       /\ \A i \in DOMAIN cola : cola[i] # owner.req
  /\ owner.at \in TurnPlaces => owner.req \in Turns /\ Sesion[owner.req] \in sesiones
  /\ turnoActivo = IF owner.at \in ActivePlaces THEN owner.req ELSE Nothing
  /\ sesionGenerando = IF owner.at \in ActivePlaces THEN Sesion[owner.req] ELSE Nothing

(* A cancel that was accepted waits, unanswered, for the turn it names.     *)
Follows(c) ==
  /\ Open(c) /\ Tipo[c] = "cancel"
  /\ Objetivo[c] = owner.req
  /\ c # lector.req

CancelsWait ==
  /\ \A i \in DOMAIN cancelPend : owner.at \in ActivePlaces /\ Follows(cancelPend[i])
  /\ \A i \in DOMAIN turno.pendientes : owner.at = "report" /\ Follows(turno.pendientes[i])

UnreadUnanswered == \A r \in Requests : r \notin sent => answered[r] = "none"

Placed == LectorHolds /\ QueueHolds /\ OwnerHolds /\ CancelsWait /\ UnreadUnanswered

(* The flag is set only by somebody who asked for the turn that sees it.    *)
StopWasAsked ==
  /\ cancelar /\ turnoActivo # Nothing => turnoActivo \in pedido
  /\ owner.at \in {"activate", "save", "run"} => ~turno.ok
  /\ owner.at \in {"consume", "collect", "report"} /\ turno.ok /\ turno.reason = "cancelled"
       => owner.req \in pedido

\* The session whose turn runs is not announced as paused.
RunningIsNotPaused == InTurn => Sesion[owner.req] \notin pausadas

Consumes == turno.ok /\ ~(turno.reason = "cancelled" /\ ~turno.generated)
Stored(a) == a \in sent /\ ~(lector.at = "lock" /\ lector.req = a)

(* What a turn may still consume is what it looked up; what it consumed     *)
(* cannot come back, for an upload is stored once.                          *)
UploadsAreSpent ==
  /\ owner.at \in TurnPlaces \ {"lookup"} => turno.usados = Usa[owner.req]
  /\ owner.at \in TurnPlaces \ {"lookup"} => \A a \in turno.usados : Stored(a)
  /\ owner.at \in {"collect", "report"} /\ Consumes => turno.usados \cap adjuntos = {}
  /\ \A a \in adjuntos : Stored(a) /\ Tipo[a] = "attachment"
  /\ \A t \in Turns : answered[t] = "completed" =>
       \A a \in Usa[t] : Tipo[a] = "attachment" => Stored(a) /\ a \notin adjuntos

\* An upload the client was told of, or is about to be.
Told(a) == answered[a] = "result" \/ (lector.at = "reply" /\ lector.req = a /\ lector.reply = "result")

(* Until a turn consumes it, an upload can be used.                         *)
UploadsStay ==
  \A a \in Requests :
    ( /\ Tipo[a] = "attachment" /\ Told(a)
      /\ \A d \in sent : Tipo[d] = "attachment_drop" => Objetivo[d] # a
      /\ \A t \in Turns : a \in Usa[t] => answered[t] \in {"none", "error"}
      /\ ~(owner.at \in {"collect", "report"} /\ Consumes /\ a \in turno.usados) )
    => a \in adjuntos

IInv ==
  /\ Types
  /\ Placed
  /\ StopWasAsked
  /\ RunningIsNotPaused
  /\ UploadsAreSpent
  /\ UploadsStay
  /\ OnlyAskedTurnsAreCancelled
  /\ ConfirmationMatchesTerminal
  /\ PausedIsSilent
-----------------------------------------------------------------------------
(* What a step writes, and what that answers.                               *)

(* A step that writes no terminal event answers nothing.                    *)
LEMMA EmitNoTerminal ==
  ASSUME Types, NEW S, Emit(S), \A i \in DOMAIN S : S[i].kind \notin Terminals
  PROVE  answered' = answered
  BY DEF Emit, Types

(* A step with one terminal event answers that request and no other.        *)
LEMMA EmitOneTerminal ==
  ASSUME Types, NEW S, Emit(S), NEW r \in Requests, NEW k \in Terminals,
         NEW j \in DOMAIN S, S[j] = Event(k, r),
         \A i \in DOMAIN S : i # j => S[i].kind \notin Terminals
  PROVE  answered' = [answered EXCEPT ![r] = k]
  <1> DEFINE mine(q) == {i \in DOMAIN S : S[i].id = q /\ S[i].kind \in Terminals}
  <1>1. S[j].id = r /\ S[j].kind = k
    BY DEF Event
  <1>2. mine(r) = {j}
    BY <1>1
  <1>3. \A q \in Requests : q # r => mine(q) = {}
    BY <1>1
  <1>4. answered' = [q \in Requests |->
                       IF mine(q) = {} THEN answered[q] ELSE S[CHOOSE i \in mine(q) : TRUE].kind]
    BY DEF Emit
  <1>5. (CHOOSE i \in {j} : TRUE) = j
    OBVIOUS
  <1>6. \A q \in Requests : answered'[q] =
          IF mine(q) = {} THEN answered[q] ELSE S[CHOOSE i \in mine(q) : TRUE].kind
    BY <1>4
  <1> HIDE DEF mine
  <1>7. answered'[r] = k
    BY <1>1, <1>2, <1>5, <1>6
  <1>8. \A q \in Requests : q # r => answered'[q] = answered[q]
    BY <1>3, <1>6
  <1>9. answered \in [Requests -> AnswerKinds] /\ DOMAIN answered' = Requests
    BY <1>4 DEF Types
  <1>10. answered' = [q \in Requests |-> answered'[q]]
    BY <1>4
  <1> QED BY <1>7, <1>8, <1>9, <1>10

(* A step that writes nothing answers nobody.                               *)
LEMMA QuietAnswersNothing ==
  ASSUME Types, Quiet
  PROVE  answered' = answered /\ out' = <<>>
  <1>1. Emit(<<>>)
    BY DEF Quiet
  <1>2. answered' = answered
    BY <1>1, EmitNoTerminal
  <1> QED BY <1>1, <1>2 DEF Emit

(* One event answers its request if it is terminal, and nobody otherwise.   *)
LEMMA SayAnswers ==
  ASSUME Types, NEW k, NEW r \in Requests, Say(k, r)
  PROVE  /\ k \in Terminals => answered' = [answered EXCEPT ![r] = k]
         /\ k \notin Terminals => answered' = answered
         /\ out' = <<Event(k, r)>>
  <1> DEFINE S == <<Event(k, r)>>
  <1>1. Emit(S)
    BY DEF Say
  <1>2. 1 \in DOMAIN S /\ DOMAIN S = {1} /\ S[1] = Event(k, r) /\ S[1].kind = k
    BY DEF Event
  <1> HIDE DEF S
  <1>3. ASSUME k \in Terminals PROVE answered' = [answered EXCEPT ![r] = k]
    BY <1>1, <1>2, <1>3, EmitOneTerminal
  <1>4. ASSUME k \notin Terminals PROVE answered' = answered
    BY <1>1, <1>2, <1>4, EmitNoTerminal
  <1>5. out' = S
    BY <1>1 DEF Emit
  <1> QED BY <1>3, <1>4, <1>5 DEF S

(* One event joined to another.                                             *)
LEMMA JoinOne ==
  ASSUME NEW a, NEW b
  PROVE  <<a>> \o <<b>> = <<a, b>>
  <1> DEFINE E == {a, b}
  <1>1. <<a>> \in Seq(E) /\ <<b>> \in Seq(E) /\ <<a, b>> \in Seq(E)
    OBVIOUS
  <1> HIDE DEF E
  <1>2. /\ <<a>> \o <<b>> \in Seq(E)
        /\ Len(<<a>> \o <<b>>) = 2
        /\ \A i \in 1 .. 2 : (<<a>> \o <<b>>)[i] = IF i <= 1 THEN <<a>>[i] ELSE <<b>>[i - 1]
    BY <1>1, ConcatProperties
  <1>3. (<<a>> \o <<b>>)[1] = a /\ (<<a>> \o <<b>>)[2] = b
    BY <1>2
  <1>4. Len(<<a, b>>) = 2 /\ <<a, b>>[1] = a /\ <<a, b>>[2] = b
    OBVIOUS
  <1>5. \A i \in 1 .. 2 : (<<a>> \o <<b>>)[i] = <<a, b>>[i]
    BY <1>3, <1>4
  <1> QED BY <1>1, <1>2, <1>4, <1>5, SeqEqual

(* One event joined to two others.                                          *)
LEMMA JoinTwo ==
  ASSUME NEW a, NEW b, NEW c
  PROVE  <<a>> \o <<b, c>> = <<a, b, c>>
  <1> DEFINE E == {a, b, c}
  <1>1. <<a>> \in Seq(E) /\ <<b, c>> \in Seq(E) /\ <<a, b, c>> \in Seq(E)
    OBVIOUS
  <1> HIDE DEF E
  <1>2. /\ <<a>> \o <<b, c>> \in Seq(E)
        /\ Len(<<a>> \o <<b, c>>) = 3
        /\ \A i \in 1 .. 3 : (<<a>> \o <<b, c>>)[i] = IF i <= 1 THEN <<a>>[i] ELSE <<b, c>>[i - 1]
    BY <1>1, ConcatProperties
  <1>3. (<<a>> \o <<b, c>>)[1] = a /\ (<<a>> \o <<b, c>>)[2] = b /\ (<<a>> \o <<b, c>>)[3] = c
    BY <1>2
  <1>4. Len(<<a, b, c>>) = 3 /\ <<a, b, c>>[1] = a /\ <<a, b, c>>[2] = b /\ <<a, b, c>>[3] = c
    OBVIOUS
  <1>5. \A i \in 1 .. 3 : (<<a>> \o <<b, c>>)[i] = <<a, b, c>>[i]
    BY <1>3, <1>4
  <1> QED BY <1>1, <1>2, <1>4, <1>5, SeqEqual

(* Nothing joined to one event or two.                                      *)
LEMMA EmptyJoins ==
  ASSUME NEW a, NEW b
  PROVE  <<>> \o <<a>> = <<a>> /\ <<>> \o <<a, b>> = <<a, b>>
  OBVIOUS

(* Opening a session, and closing it, are no answers.                       *)
LEMMA OpeningAnswers ==
  ASSUME Types, NEW r \in Requests
  PROVE  /\ Emit(Opening(r)) => answered' = answered
         /\ \A k \in Terminals : Emit(Opening(r) \o <<Event(k, r)>>)
              => answered' = [answered EXCEPT ![r] = k]
         /\ Emit(Opening(r) \o <<Event("closed", Sesion[r]), Event("result", r)>>)
              => answered' = [answered EXCEPT ![r] = "result"]
  <1>1. Opening(r) = <<>> \/ Opening(r) = <<Event("opened", Sesion[r])>>
    BY DEF Opening
  <1>2. Event("opened", Sesion[r]).kind \notin Terminals
        /\ Event("closed", Sesion[r]).kind \notin Terminals /\ "result" \in Terminals
    BY DEF Event, Terminals
  <1>3. ASSUME Emit(Opening(r)) PROVE answered' = answered
    BY <1>1, <1>2, <1>3, EmitNoTerminal
  <1>4. ASSUME NEW k \in Terminals, Emit(Opening(r) \o <<Event(k, r)>>)
        PROVE  answered' = [answered EXCEPT ![r] = k]
    <2> DEFINE S == Opening(r) \o <<Event(k, r)>>
    <2>1. CASE Opening(r) = <<>>
      <3>1. S = <<Event(k, r)>>
        BY <2>1
      <3>2. Emit(S)
        BY <1>4
      <3> HIDE DEF S
      <3>3. 1 \in DOMAIN S /\ DOMAIN S = {1} /\ S[1] = Event(k, r)
        BY <3>1
      <3> QED BY <3>2, <3>3, EmitOneTerminal
    <2>2. CASE Opening(r) = <<Event("opened", Sesion[r])>>
      <3>1. S = <<Event("opened", Sesion[r]), Event(k, r)>>
        BY <2>2, JoinOne
      <3>2. Emit(S)
        BY <1>4
      <3> HIDE DEF S
      <3>3. DOMAIN S = 1 .. 2 /\ S[1] = Event("opened", Sesion[r]) /\ S[2] = Event(k, r)
        BY <3>1
      <3> QED BY <1>2, <3>2, <3>3, EmitOneTerminal
    <2> QED BY <1>1, <2>1, <2>2
  <1>5. ASSUME Emit(Opening(r) \o <<Event("closed", Sesion[r]), Event("result", r)>>)
        PROVE  answered' = [answered EXCEPT ![r] = "result"]
    <2> DEFINE S == Opening(r) \o <<Event("closed", Sesion[r]), Event("result", r)>>
    <2>1. CASE Opening(r) = <<>>
      <3>1. S = <<Event("closed", Sesion[r]), Event("result", r)>>
        BY <2>1
      <3>2. Emit(S)
        BY <1>5
      <3> HIDE DEF S
      <3>3. DOMAIN S = 1 .. 2 /\ S[1] = Event("closed", Sesion[r]) /\ S[2] = Event("result", r)
        BY <3>1
      <3> QED BY <1>2, <3>2, <3>3, EmitOneTerminal
    <2>2. CASE Opening(r) = <<Event("opened", Sesion[r])>>
      <3>1. S = <<Event("opened", Sesion[r]), Event("closed", Sesion[r]), Event("result", r)>>
        BY <2>2, JoinTwo
      <3>2. Emit(S)
        BY <1>5
      <3> HIDE DEF S
      <3>3. DOMAIN S = 1 .. 3 /\ S[1] = Event("opened", Sesion[r])
            /\ S[2] = Event("closed", Sesion[r]) /\ S[3] = Event("result", r)
        BY <3>1
      <3> QED BY <1>2, <3>2, <3>3, EmitOneTerminal
    <2> QED BY <1>1, <2>1, <2>2
  <1> QED BY <1>3, <1>4, <1>5

(* The events of a report, one by one: the confirmations, the terminal      *)
(* event of the turn, and maybe a pause.                                    *)
ReportEvents ==
  Confirmations \o <<Event(Terminal, owner.req)>> \o
    (IF turno.pausar = Nothing THEN <<>> ELSE <<Event("paused", turno.pausar)>>)

(* What a report writes: the confirmations, the terminal event, the pause.  *)
LEMMA ReportEventsAre ==
  ASSUME Types
  PROVE  LET n == Len(turno.pendientes)
         IN  /\ n \in Nat /\ DOMAIN turno.pendientes = 1 .. n
             /\ \A i \in 1 .. n : i \in DOMAIN ReportEvents /\ ReportEvents[i] = Confirmations[i]
             /\ n + 1 \in DOMAIN ReportEvents
             /\ ReportEvents[n + 1] = Event(Terminal, owner.req)
             /\ \A i \in DOMAIN ReportEvents : i \notin 1 .. n + 1 =>
                  ReportEvents[i] = Event("paused", turno.pausar)
  <1> DEFINE n == Len(turno.pendientes)
             T == Event(Terminal, owner.req)
             P == Event("paused", turno.pausar)
             E == {Confirmations[i] : i \in 1 .. n} \cup {T, P}
             Last == IF turno.pausar = Nothing THEN <<>> ELSE <<P>>
  <1>1. turno.pendientes \in Seq(Requests)
    BY DEF Types, Turnos
  <1>2. n \in Nat /\ DOMAIN turno.pendientes = 1 .. n
    BY <1>1
  <1>3. Confirmations \in [1 .. n -> E]
    BY <1>2 DEF Confirmations
  <1>4. Confirmations \in Seq(E) /\ Len(Confirmations) = n
    BY <1>2, <1>3
  <1>5. <<T>> \in Seq(E) /\ Len(<<T>>) = 1 /\ <<T>>[1] = T
    OBVIOUS
  <1>6. Last \in Seq(E) /\ Len(Last) \in {0, 1} /\ (Len(Last) = 1 => Last[1] = P)
    <2>1. CASE turno.pausar = Nothing
      <3>1. Last = <<>>
        BY <2>1
      <3> HIDE DEF Last, E
      <3> QED BY <3>1
    <2>2. CASE turno.pausar # Nothing
      <3>1. Last = <<P>> /\ P \in E
        BY <2>2
      <3> HIDE DEF Last, E, P
      <3> QED BY <3>1
    <2> QED BY <2>1, <2>2
  <1>7. ReportEvents = (Confirmations \o <<T>>) \o Last
    BY DEF ReportEvents
  <1> HIDE DEF n, T, P, E, Last
  <1>8. /\ Confirmations \o <<T>> \in Seq(E)
        /\ Len(Confirmations \o <<T>>) = n + 1
        /\ \A i \in 1 .. n + 1 : (Confirmations \o <<T>>)[i] =
             IF i <= n THEN Confirmations[i] ELSE <<T>>[i - n]
    BY <1>4, <1>5, ConcatProperties
  <1> DEFINE s1 == Confirmations \o <<T>>
  <1>14. Len(s1) + Len(Last) = n + 1 + Len(Last)
    BY <1>8
  <1>15. /\ s1 \o Last \in Seq(E)
        /\ Len(s1 \o Last) = Len(s1) + Len(Last)
        /\ \A i \in 1 .. Len(s1) + Len(Last) : (s1 \o Last)[i] =
             IF i <= Len(s1) THEN s1[i] ELSE Last[i - Len(s1)]
    BY <1>6, <1>8, ConcatProperties
  <1>9. /\ ReportEvents \in Seq(E)
        /\ Len(ReportEvents) = n + 1 + Len(Last)
        /\ \A i \in 1 .. n + 1 + Len(Last) : ReportEvents[i] =
             IF i <= n + 1 THEN (Confirmations \o <<T>>)[i] ELSE Last[i - (n + 1)]
    BY <1>7, <1>8, <1>14, <1>15
  <1>10. DOMAIN ReportEvents = 1 .. n + 1 + Len(Last)
    BY <1>9
  <1>11. \A i \in 1 .. n : i \in DOMAIN ReportEvents /\ ReportEvents[i] = Confirmations[i]
    BY <1>2, <1>6, <1>8, <1>9, <1>10
  <1>12. n + 1 \in DOMAIN ReportEvents /\ ReportEvents[n + 1] = T
    BY <1>2, <1>5, <1>6, <1>8, <1>9, <1>10
  <1>13. \A i \in DOMAIN ReportEvents : i \notin 1 .. n + 1 => ReportEvents[i] = P
    BY <1>2, <1>6, <1>9, <1>10
  <1> QED BY <1>2, <1>11, <1>12, <1>13 DEF n, T, P

(* A report answers the turn and the cancels that waited for it.            *)
LEMMA ReportAnswers ==
  ASSUME Types, Placed, Report
  PROVE  /\ owner.req \in Requests /\ Terminal \in {"error", "cancelled", "completed"}
         /\ answered'[owner.req] = Terminal
         /\ \A q \in Requests : (\E i \in DOMAIN turno.pendientes : turno.pendientes[i] = q) =>
              answered'[q] = IF turno.reason = "cancelled" THEN "result" ELSE "refused"
         /\ \A q \in Requests :
              q # owner.req /\ (\A i \in DOMAIN turno.pendientes : turno.pendientes[i] # q) =>
                answered'[q] = answered[q]
         /\ answered' \in [Requests -> AnswerKinds]
  <1> DEFINE S == ReportEvents
             n == Len(turno.pendientes)
             mine(q) == {i \in DOMAIN S : S[i].id = q /\ S[i].kind \in Terminals}
             Verdict == IF turno.reason = "cancelled" THEN "result" ELSE "refused"
  <1>1. Emit(S)
    BY DEF Report, ReportEvents
  <1>2. \A q \in Requests : answered'[q] =
          IF mine(q) = {} THEN answered[q] ELSE S[CHOOSE i \in mine(q) : TRUE].kind
    BY <1>1 DEF Emit
  <1>3. DOMAIN answered' = Requests /\ answered' = [q \in Requests |-> answered'[q]]
    BY <1>1 DEF Emit
  <1>4. n \in Nat /\ DOMAIN turno.pendientes = 1 .. n
    BY ReportEventsAre
  <1>5. n + 1 \in DOMAIN S /\ S[n + 1].id = owner.req /\ S[n + 1].kind = Terminal
    BY ReportEventsAre DEF Event
  <1>6. \A i \in DOMAIN S : i \notin 1 .. n + 1 => S[i].kind \notin Terminals
    BY ReportEventsAre DEF Event, Terminals
  <1>7. owner.req \in Requests /\ owner.req \in Turns /\ Tipo[owner.req] = "turn" /\ owner.at = "report"
    BY DEF Report, Placed, OwnerHolds, OwnerBusy, TurnPlaces, Turns
  <1>8. Terminal \in {"error", "cancelled", "completed"}
    BY DEF Terminal
  <1>9. \A i \in 1 .. n : /\ i \in DOMAIN S
                          /\ S[i].id = turno.pendientes[i] /\ S[i].kind = Verdict
                          /\ turno.pendientes[i] # owner.req
    <2> SUFFICES ASSUME NEW i \in 1 .. n
                 PROVE  /\ i \in DOMAIN S
                        /\ S[i].id = turno.pendientes[i] /\ S[i].kind = Verdict
                        /\ turno.pendientes[i] # owner.req
      OBVIOUS
    <2>1. i \in DOMAIN S /\ S[i] = Confirmations[i]
      BY ReportEventsAre
    <2>2. Tipo[turno.pendientes[i]] = "cancel" /\ Objetivo[turno.pendientes[i]] = owner.req
      BY <1>4 DEF Placed, CancelsWait, Follows
    <2>3. Confirmations[i] = Event(Verdict, turno.pendientes[i])
      BY <1>4, <2>2 DEF Confirmations
    <2> QED BY <1>7, <2>1, <2>2, <2>3 DEF Event
  <1>10. Verdict \in Terminals /\ Terminal \in Terminals
    BY <1>8 DEF Terminals
  <1> HIDE DEF S, mine, n, Verdict
  <1>11. \A i \in DOMAIN S : S[i].kind \in Terminals => i \in 1 .. n \/ i = n + 1
    BY <1>4, <1>6
  <1>12. n + 1 \in mine(owner.req) /\ \A i \in mine(owner.req) : i = n + 1
    BY <1>4, <1>5, <1>9, <1>10, <1>11 DEF mine
  <1>13. answered'[owner.req] = Terminal
    <2>1. PICK j : j = (CHOOSE i \in mine(owner.req) : TRUE)
      OBVIOUS
    <2>2. j \in mine(owner.req)
      BY <1>12, <2>1
    <2>3. j = n + 1 /\ S[j].kind = Terminal
      BY <1>5, <1>12, <2>2
    <2> QED BY <1>2, <1>7, <1>12, <2>1, <2>3
  <1>14. ASSUME NEW q \in Requests, NEW k \in DOMAIN turno.pendientes, turno.pendientes[k] = q
         PROVE  answered'[q] = Verdict
    <2>1. k \in mine(q)
      BY <1>4, <1>9, <1>10, <1>14 DEF mine
    <2>2. PICK j : j = (CHOOSE i \in mine(q) : TRUE)
      OBVIOUS
    <2>3. j \in mine(q)
      BY <2>1, <2>2
    <2>4. q # owner.req
      BY <1>4, <1>9, <1>14
    <2>5. j \in 1 .. n
      BY <1>5, <1>11, <2>3, <2>4 DEF mine
    <2>6. S[j].kind = Verdict
      BY <1>9, <2>5
    <2> QED BY <1>2, <2>1, <2>2, <2>6
  <1>15. ASSUME NEW q \in Requests, q # owner.req,
                \A i \in DOMAIN turno.pendientes : turno.pendientes[i] # q
         PROVE  answered'[q] = answered[q]
    <2>1. mine(q) = {}
      BY <1>4, <1>5, <1>9, <1>11, <1>15 DEF mine
    <2> QED BY <1>2, <2>1
  <1>16. \A q \in Requests : answered'[q] \in AnswerKinds
    BY <1>10, <1>13, <1>14, <1>15 DEF AnswerKinds, Types
  <1>17. answered' \in [Requests -> AnswerKinds]
    BY <1>3, <1>16
  <1> QED BY <1>7, <1>8, <1>13, <1>14, <1>15, <1>17 DEF Verdict
-----------------------------------------------------------------------------
(* The invariant holds at the start.                                        *)
LEMMA InitEstablishes ==
  Init => IInv
  <1> SUFFICES ASSUME Init PROVE IInv
    OBVIOUS
  <1>1. <<>> \in Seq(Requests) /\ DOMAIN <<>> = {}
    OBVIOUS
  <1>2. NoTurn \in Turnos
    BY <1>1, RuntimeAssumption DEF NoTurn, Turnos, Motivos, Naturales
  <1>3. Types
    BY <1>1, <1>2, RuntimeAssumption DEF Init, Types, Sessions, LectorPlaces, OwnerPlaces, AnswerKinds
  <1>4. turno.pendientes = <<>>
    BY DEF Init, NoTurn
  <1>5. Placed
    <2>1. LectorHolds /\ UnreadUnanswered
      BY DEF Init, LectorHolds, UnreadUnanswered
    <2>2. QueueHolds /\ CancelsWait
      BY <1>1, <1>4 DEF Init, QueueHolds, CancelsWait
    <2>3. OwnerHolds
      BY DEF Init, OwnerHolds, OwnerBusy, TurnPlaces, ActivePlaces
    <2> QED BY <2>1, <2>2, <2>3 DEF Placed
  <1>6. StopWasAsked /\ RunningIsNotPaused
    BY DEF Init, StopWasAsked, RunningIsNotPaused, InTurn
  <1>7. \A r \in Requests : answered[r] = "none"
    BY DEF Init
  <1>8. \A t \in Turns : answered[t] = "none"
    BY <1>7 DEF Turns
  <1>9. UploadsAreSpent
    BY <1>8 DEF Init, UploadsAreSpent, TurnPlaces, OwnerBusy
  <1>10. UploadsStay
    BY <1>7 DEF Init, UploadsStay, Told
  <1>11. ConfirmationMatchesTerminal
    BY <1>7 DEF ConfirmationMatchesTerminal
  <1>12. OnlyAskedTurnsAreCancelled /\ PausedIsSilent
    BY <1>8 DEF Init, OnlyAskedTurnsAreCancelled, PausedIsSilent
  <1> QED BY <1>3, <1>5, <1>6, <1>9, <1>10, <1>11, <1>12 DEF IInv
-----------------------------------------------------------------------------
(* The types are kept by every step.                                        *)
LEMMA RecordsAreTyped ==
  ASSUME Types
  PROVE  /\ lector.at \in LectorPlaces /\ lector.req \in Requests \cup {Nothing}
         /\ lector.reply \in {"result", "error"}
         /\ owner.at \in OwnerPlaces /\ owner.req \in Requests \cup {Nothing}
         /\ owner = [at |-> owner.at, req |-> owner.req]
  BY DEF Types

(* What the steps of a turn change in its locals.                           *)
LEMMA TurnosAreTyped ==
  ASSUME NEW t \in Turnos
  PROVE  /\ \A m \in Motivos : [t EXCEPT !.reason = m] \in Turnos
         /\ [t EXCEPT !.prefilled = TRUE] \in Turnos
         /\ t.texts < MaxText => [t EXCEPT !.texts = @ + 1] \in Turnos
         /\ \A k \in BOOLEAN, m \in Motivos, g \in BOOLEAN :
              [t EXCEPT !.ran = TRUE, !.ok = k, !.reason = m, !.generated = g] \in Turnos
         /\ \A c \in Seq(Requests), s \in Sessions \cup {Nothing} :
              [t EXCEPT !.pendientes = c, !.pausar = s] \in Turnos
         /\ \A u \in SUBSET Requests : [NoTurn EXCEPT !.usados = u] \in Turnos
         /\ NoTurn \in Turnos
  <1>1. \A m \in Motivos : [t EXCEPT !.reason = m] \in Turnos
    BY DEF Turnos
  <1>2. [t EXCEPT !.prefilled = TRUE] \in Turnos
    BY DEF Turnos
  <1>3. t.texts < MaxText => [t EXCEPT !.texts = @ + 1] \in Turnos
    <2>1. t.texts < MaxText => t.texts + 1 \in 0 .. MaxText
      BY RuntimeAssumption DEF Turnos
    <2> QED BY <2>1 DEF Turnos
  <1>4. \A k \in BOOLEAN, m \in Motivos, g \in BOOLEAN :
          [t EXCEPT !.ran = TRUE, !.ok = k, !.reason = m, !.generated = g] \in Turnos
    BY DEF Turnos
  <1>5. \A c \in Seq(Requests), s \in Sessions \cup {Nothing} :
          [t EXCEPT !.pendientes = c, !.pausar = s] \in Turnos
    BY DEF Turnos
  <1>6. <<>> \in Seq(Requests)
    OBVIOUS
  <1>7. NoTurn \in Turnos
    BY <1>6, RuntimeAssumption DEF Turnos, NoTurn, Motivos, Naturales
  <1>8. \A u \in SUBSET Requests : [NoTurn EXCEPT !.usados = u] \in Turnos
    BY <1>7 DEF Turnos
  <1> QED BY <1>1, <1>2, <1>3, <1>4, <1>5, <1>7, <1>8

(* The steps of the reader keep every variable in its type.                 *)
LEMMA LectorKeepsTypes ==
  ASSUME Types, Placed, LectorWorks \/ EndOfInput \/ \E r \in Requests : Read(r)
  PROVE  Types'
  <1> USE DEF LectorGoes, ownerState, shared, LectorPlaces
  <1>0. /\ lector.at \in LectorPlaces /\ lector.req \in Requests \cup {Nothing}
        /\ lector.reply \in {"result", "error"}
        /\ lector.at \in {"lock", "reply", "switch", "enqueue"} => lector.req \in Requests
    BY RecordsAreTyped DEF Placed, LectorHolds
  <1>91. sesionGenerando # Nothing => turnoActivo \in Turns
    BY DEF Placed, OwnerHolds, ActivePlaces, TurnPlaces, OwnerBusy
  <1>1. CASE \E r \in Requests : Read(r)
    <2> PICK r \in Requests : Read(r)
      BY <1>1
    <2>1. answered' = answered
      BY QuietAnswersNothing DEF Read
    <2>2. lector' \in [at : LectorPlaces, req : Requests \cup {Nothing}, reply : {"result", "error"}]
      BY DEF Read
    <2> QED BY <2>1, <2>2 DEF Read, Types
  <1>2. CASE EndOfInput
    <2>1. answered' = answered
      BY <1>2, QuietAnswersNothing DEF EndOfInput
    <2> QED BY <1>2, <1>0, <2>1 DEF EndOfInput, Types
  <1>3. CASE StoreAttachment
    <2>1. answered' = answered
      BY <1>3, QuietAnswersNothing DEF StoreAttachment
    <2> QED BY <1>3, <1>0, <2>1 DEF StoreAttachment, Types
  <1>4. CASE DropAttachment
    <2>1. answered' = answered
      BY <1>4, QuietAnswersNothing DEF DropAttachment
    <2> QED BY <1>4, <1>0, <2>1 DEF DropAttachment, Types
  <1>5. CASE SignalCancel
    <2>1. answered' = answered
      BY <1>5, QuietAnswersNothing DEF SignalCancel
    <2>2. turnoActivo \in Turns \cup {Nothing} /\ pedido \subseteq Turns /\ cancelPend \in Seq(Requests)
      BY DEF Types
    <2>3. cancelPend' \in Seq(Requests)
      BY <1>5, <1>0, <2>2, AppendProperties DEF SignalCancel
    <2>4. pedido' \subseteq Turns
      BY <1>5, <2>2 DEF SignalCancel
    <2>5. cancelar' \in BOOLEAN
      BY <1>5 DEF SignalCancel, Types
    <2>6. lector' \in [at : LectorPlaces, req : Requests \cup {Nothing}, reply : {"result", "error"}]
      BY <1>5, <1>0 DEF SignalCancel
    <2> QED BY <1>5, <1>0, <2>1, <2>3, <2>4, <2>5, <2>6 DEF SignalCancel, Types
  <1>6. CASE LectorReply
    <2>1. answered' \in [Requests -> AnswerKinds]
      BY <1>6, <1>0, SayAnswers DEF LectorReply, Types, AnswerKinds
    <2> QED BY <1>6, <2>1 DEF LectorReply, Types
  <1>7. CASE Switch
    <2>1. answered' = answered
      BY <1>7, QuietAnswersNothing DEF Switch
    <2>2. pedido' \subseteq Turns
      BY <1>7, <1>91 DEF Switch, Types
    <2> QED BY <1>7, <1>0, <2>1, <2>2 DEF Switch, Types
  <1>8. CASE Enqueue
    <2>1. answered' = answered
      BY <1>8, QuietAnswersNothing DEF Enqueue
    <2> QED BY <1>8, <1>0, <2>1 DEF Enqueue, Types
  <1>9. CASE CloseInput
    <2>1. answered' = answered
      BY <1>9, QuietAnswersNothing DEF CloseInput
    <2> QED BY <1>9, <1>0, <2>1 DEF CloseInput, Types
  <1> QED BY <1>1, <1>2, <1>3, <1>4, <1>5, <1>6, <1>7, <1>8, <1>9 DEF LectorWorks

(* The steps of the owner keep every variable in its type.                  *)
LEMMA OwnerKeepsTypes ==
  ASSUME Types, Placed, OwnerWorks
  PROVE  Types'
  <1> USE DEF OwnerGoes, lectorState, OwnerPlaces
  <1>0. /\ owner.at \in OwnerPlaces /\ owner.req \in Requests \cup {Nothing}
        /\ owner.at \in TurnPlaces => owner.req \in Turns /\ owner.req \in Requests
    BY RecordsAreTyped DEF Placed, OwnerHolds, Turns
  <1>1. CASE Pop
    <2>1. answered' = answered
      BY <1>1, QuietAnswersNothing DEF Pop
    <2>2. cola # <<>> => Head(cola) \in Requests /\ Tail(cola) \in Seq(Requests)
      BY HeadTailProperties DEF Types
    <2>3. cola' \in Seq(Requests) /\ owner' \in [at : OwnerPlaces, req : Requests \cup {Nothing}]
      <3>1. CASE cola = <<>>
        BY <1>1, <3>1 DEF Pop, Types
      <3>2. CASE cola # <<>>
        <4>1. Head(cola) \in Requests /\ Tail(cola) \in Seq(Requests)
          BY <2>2, <3>2
        <4>2. cola' = Tail(cola) /\ owner' = [at |-> "serve", req |-> Head(cola)]
          BY <1>1, <3>2 DEF Pop
        <4> QED BY <4>1, <4>2
      <3> QED BY <3>1, <3>2
    <2> QED BY <1>1, <1>0, <2>1, <2>3 DEF Pop, Types
  <1>2. CASE Idle
    <2>1. answered' = answered
      BY <1>2, QuietAnswersNothing DEF Idle
    <2> QED BY <1>2, <1>0, <2>1 DEF Idle, Types
  <1>3. CASE SaveRings
    <2>1. answered' = answered
      BY <1>3, QuietAnswersNothing DEF SaveRings
    <2>2. turno' \in Turnos
      <3>1. turno \in Turnos
        BY DEF Types
      <3>2. turno' = turno \/ \E m \in Motivos : turno' = [turno EXCEPT !.reason = m]
        BY <1>3 DEF SaveRings
      <3>3. \A m \in Motivos : [turno EXCEPT !.reason = m] \in Turnos
        BY <3>1, TurnosAreTyped
      <3> QED BY ONLY <3>1, <3>2, <3>3
    <2> QED BY <1>3, <1>0, <2>1, <2>2 DEF SaveRings, Types, TurnLeaves
  <1>4. CASE TurnEnd
    <2>1. answered' = answered
      BY <1>4, QuietAnswersNothing DEF TurnEnd
    <2>2. turno' \in Turnos
      <3>1. PICK o \in Outcomes : turno' = [turno EXCEPT !.ran = TRUE, !.ok = o.ok, !.reason = o.reason,
                                                        !.generated = o.generated]
        BY <1>4 DEF TurnEnd
      <3>2. o.ok \in BOOLEAN /\ o.reason \in Motivos /\ o.generated \in BOOLEAN
        BY DEF Outcomes
      <3> QED BY <3>1, <3>2, TurnosAreTyped DEF Types
    <2> QED BY <1>4, <1>0, <2>1, <2>2 DEF TurnEnd, Types, TurnLeaves
  <1>5. CASE Consume
    <2>1. answered' = answered
      BY <1>5, QuietAnswersNothing DEF Consume
    <2> QED BY <1>5, <1>0, <2>1 DEF Consume, Types
  <1>6. CASE Collect
    <2>1. answered' = answered
      BY <1>6, QuietAnswersNothing DEF Collect
    <2>2. turno' \in Turnos
      BY <1>6, TurnosAreTyped DEF Collect, Types
    <2> QED BY <1>6, <1>0, <2>1, <2>2 DEF Collect, Types
  <1>7. CASE Join
    <2>1. answered' = answered
      BY <1>7, QuietAnswersNothing DEF Join
    <2> QED BY <1>7, <1>0, <2>1 DEF Join, Types
  <1>8. CASE LookUpAttachments
    <2>1. answered' \in [Requests -> AnswerKinds]
      BY <1>8, <1>0, QuietAnswersNothing, SayAnswers DEF LookUpAttachments, Types, AnswerKinds, Terminals, TurnPlaces, OwnerBusy
    <2>2. turno' \in Turnos
      <3>1. owner.req \in Requests /\ turno \in Turnos
        BY <1>8, <1>0 DEF LookUpAttachments, Types, TurnPlaces, OwnerBusy
      <3>2. Usa[owner.req] \in SUBSET Requests
        BY <3>1, RuntimeAssumption
      <3> QED BY <1>8, <3>1, <3>2, TurnosAreTyped DEF LookUpAttachments
    <2> QED BY <1>8, <1>0, <2>1, <2>2 DEF LookUpAttachments, Types
  <1>9. CASE Activate
    <2>1. answered' = answered
      BY <1>9, <1>0, SayAnswers DEF Activate, Terminals, TurnPlaces, OwnerBusy
    <2> QED BY <1>9, <1>0, <2>1 DEF Activate, Types, Sessions, TurnPlaces, OwnerBusy
  <1>10. CASE TurnPrefill
    <2>1. answered' = answered
      BY <1>10, <1>0, SayAnswers DEF TurnPrefill, Terminals, TurnPlaces, OwnerBusy
    <2> QED BY <1>10, <1>0, <2>1, TurnosAreTyped DEF TurnPrefill, Types, TurnLeaves, TurnPlaces, OwnerBusy
  <1>11. CASE TurnText
    <2>1. answered' = answered
      BY <1>11, <1>0, SayAnswers DEF TurnText, Terminals, TurnPlaces, OwnerBusy
    <2> QED BY <1>11, <1>0, <2>1, TurnosAreTyped DEF TurnText, Types, TurnLeaves, TurnPlaces, OwnerBusy
  <1>12. CASE Report
    <2>1. answered' \in [Requests -> AnswerKinds]
      BY <1>12, ReportAnswers
    <2>2. NoTurn \in Turnos
      BY RuntimeAssumption DEF NoTurn, Turnos, Motivos, Naturales
    <2>3. turno.pausar \in Sessions \cup {Nothing}
      BY DEF Types, Turnos
    <2> QED BY <1>12, <1>0, <2>1, <2>2, <2>3 DEF Report, Types
  <1>13. ASSUME NEW r \in Requests, RefuseSession(r) \/ CloseSession(r) \/ AnswerAtOnce(r) \/ AcceptTurn(r)
        PROVE  Types'
    <2> USE DEF ServeLeaves
    <2>1. Sesion[r] \in Sessions
      BY DEF Sessions
    <2>2. CASE RefuseSession(r)
      <3>1. answered' \in [Requests -> AnswerKinds]
        BY <2>2, SayAnswers DEF RefuseSession, Types, AnswerKinds, Terminals
      <3> QED BY <2>2, <3>1 DEF RefuseSession, Types
    <2>3. CASE CloseSession(r)
      <3>1. answered' \in [Requests -> AnswerKinds]
        BY <2>3, SayAnswers, OpeningAnswers DEF CloseSession, Types, AnswerKinds, Terminals
      <3> QED BY <2>3, <3>1 DEF CloseSession, Types
    <2>4. CASE AnswerAtOnce(r)
      <3>1. answered' \in [Requests -> AnswerKinds]
        BY <2>4, OpeningAnswers DEF AnswerAtOnce, Types, AnswerKinds, Terminals
      <3> QED BY <2>1, <2>4, <3>1 DEF AnswerAtOnce, Types
    <2>5. CASE AcceptTurn(r)
      <3>1. answered' = answered
        BY <2>5, OpeningAnswers DEF AcceptTurn
      <3> QED BY <2>1, <2>5, <3>1 DEF AcceptTurn, Types
    <2> QED BY <1>13, <2>2, <2>3, <2>4, <2>5
  <1> QED BY <1>1, <1>2, <1>3, <1>4, <1>5, <1>6, <1>7, <1>8, <1>9, <1>10, <1>11, <1>12, <1>13 DEF OwnerWorks
-----------------------------------------------------------------------------
(* The domain and the elements of a sequence.                               *)
LEMMA SequencesAre ==
  ASSUME Types
  PROVE  /\ DOMAIN cola = 1 .. Len(cola) /\ Len(cola) \in Nat
         /\ \A i \in DOMAIN cola : cola[i] \in Requests
         /\ DOMAIN cancelPend = 1 .. Len(cancelPend) /\ Len(cancelPend) \in Nat
         /\ \A i \in DOMAIN cancelPend : cancelPend[i] \in Requests
         /\ \A i \in DOMAIN turno.pendientes : turno.pendientes[i] \in Requests
  <1>1. cola \in Seq(Requests) /\ cancelPend \in Seq(Requests) /\ turno.pendientes \in Seq(Requests)
    BY DEF Types, Turnos
  <1> QED BY <1>1

(* What is left of a queue when its head is taken.                          *)
LEMMA TailIs ==
  ASSUME Types, cola # <<>>
  PROVE  /\ 1 \in DOMAIN cola /\ Head(cola) = cola[1]
         /\ \A i \in DOMAIN Tail(cola) :
              i \in Nat /\ i + 1 # 1 /\ i + 1 \in DOMAIN cola /\ Tail(cola)[i] = cola[i + 1]
  <1>1. cola \in Seq(Requests) /\ Len(cola) \in Nat /\ Len(cola) # 0 /\ DOMAIN cola = 1 .. Len(cola)
    BY EmptySeq DEF Types
  <1>2. Tail(cola) \in Seq(Requests) /\ Len(Tail(cola)) = Len(cola) - 1
        /\ \A i \in 1 .. Len(Tail(cola)) : Tail(cola)[i] = cola[i + 1]
    BY <1>1, HeadTailProperties
  <1>3. DOMAIN Tail(cola) = 1 .. Len(cola) - 1
    BY <1>2
  <1> QED BY <1>1, <1>2, <1>3

(* A busy owner works on a request.                                         *)
LEMMA OwnerBusyWith ==
  ASSUME Types, Placed, owner.at \in OwnerBusy
  PROVE  owner.req \in Requests /\ Open(owner.req) /\ owner.req # Nothing
  BY RuntimeAssumption DEF Placed, OwnerHolds

(* Every request stays in one place.                                        *)
LEMMA LectorKeepsPlaced ==
  ASSUME Types, Types', Placed, LectorWorks \/ EndOfInput \/ \E r \in Requests : Read(r)
  PROVE  Placed'
  <1> USE DEF LectorGoes, ownerState, shared
  <1>0. owner' = owner /\ turno' = turno /\ turnoActivo' = turnoActivo
        /\ sesionGenerando' = sesionGenerando /\ sesiones' = sesiones
    BY DEF LectorWorks, EndOfInput, Read, StoreAttachment, DropAttachment, SignalCancel,
           LectorReply, Switch, Enqueue, CloseInput
  <1>91. Nothing \notin Requests
    BY RuntimeAssumption
  <1>92. /\ DOMAIN cola = 1 .. Len(cola) /\ Len(cola) \in Nat
         /\ \A i \in DOMAIN cola : cola[i] \in Requests
         /\ DOMAIN cancelPend = 1 .. Len(cancelPend) /\ Len(cancelPend) \in Nat
         /\ \A i \in DOMAIN cancelPend : cancelPend[i] \in Requests
         /\ \A i \in DOMAIN turno.pendientes : turno.pendientes[i] \in Requests
    BY SequencesAre
  <1>9. CASE \E r \in Requests : Read(r)
    <2> PICK r \in Requests : Read(r)
      BY <1>9
    <2>1. answered' = answered
      BY QuietAnswersNothing DEF Read
    <2>2. r \notin sent /\ sent' = sent \cup {r} /\ lector'.req = r /\ lector'.at \in LectorPlaces
          /\ lector.req = Nothing /\ lector'.reply \in {"result", "error"} /\ cola' = cola
          /\ cancelPend' = cancelPend
      BY DEF Read, LectorPlaces, Placed, LectorHolds
    <2>3. LectorHolds'
      BY <2>1, RuntimeAssumption DEF Read, Placed, LectorHolds, UnreadUnanswered, Open, Tipos, Locked, Queueable
    <2>4. QueueHolds'
      BY <1>92, <2>1, <2>2 DEF Placed, QueueHolds, Open
    <2>5. OwnerHolds'
      BY <1>0, <1>92, <2>1, <2>2 DEF Placed, OwnerHolds, Open
    <2>6. CancelsWait'
      BY <1>0, <1>92, <2>1, <2>2 DEF Placed, CancelsWait, Follows, Open
    <2>7. UnreadUnanswered'
      BY <2>1, <2>2 DEF Placed, UnreadUnanswered
    <2> QED BY <2>3, <2>4, <2>5, <2>6, <2>7 DEF Placed
  <1>1. CASE StoreAttachment
    <2>1. answered' = answered
      BY <1>1, QuietAnswersNothing DEF StoreAttachment
    <2>2. LectorHolds'
      BY <1>1, <1>0, <1>91, <1>92, <2>1 DEF StoreAttachment, Types, Placed, LectorHolds, QueueHolds, OwnerHolds, CancelsWait, Follows, UnreadUnanswered, Open, LectorPlaces, OwnerPlaces, OwnerBusy, TurnPlaces, ActivePlaces
    <2>3. QueueHolds'
      BY <1>1, <1>0, <1>91, <1>92, <2>1 DEF StoreAttachment, Types, Placed, LectorHolds, QueueHolds, OwnerHolds, CancelsWait, Follows, UnreadUnanswered, Open, LectorPlaces, OwnerPlaces, OwnerBusy, TurnPlaces, ActivePlaces
    <2>4. OwnerHolds'
      BY <1>1, <1>0, <1>91, <1>92, <2>1 DEF StoreAttachment, Types, Placed, LectorHolds, QueueHolds, OwnerHolds, CancelsWait, Follows, UnreadUnanswered, Open, LectorPlaces, OwnerPlaces, OwnerBusy, TurnPlaces, ActivePlaces
    <2>5. CancelsWait'
      BY <1>1, <1>0, <1>91, <1>92, <2>1 DEF StoreAttachment, Types, Placed, LectorHolds, QueueHolds, OwnerHolds, CancelsWait, Follows, UnreadUnanswered, Open, LectorPlaces, OwnerPlaces, OwnerBusy, TurnPlaces, ActivePlaces
    <2>6. UnreadUnanswered'
      BY <1>1, <1>0, <1>91, <1>92, <2>1 DEF StoreAttachment, Types, Placed, LectorHolds, QueueHolds, OwnerHolds, CancelsWait, Follows, UnreadUnanswered, Open, LectorPlaces, OwnerPlaces, OwnerBusy, TurnPlaces, ActivePlaces
    <2> QED BY <2>2, <2>3, <2>4, <2>5, <2>6 DEF Placed
  <1>2. CASE DropAttachment
    <2>1. answered' = answered
      BY <1>2, QuietAnswersNothing DEF DropAttachment
    <2>2. LectorHolds'
      BY <1>2, <1>0, <1>91, <1>92, <2>1 DEF DropAttachment, Types, Placed, LectorHolds, QueueHolds, OwnerHolds, CancelsWait, Follows, UnreadUnanswered, Open, LectorPlaces, OwnerPlaces, OwnerBusy, TurnPlaces, ActivePlaces
    <2>3. QueueHolds'
      BY <1>2, <1>0, <1>91, <1>92, <2>1 DEF DropAttachment, Types, Placed, LectorHolds, QueueHolds, OwnerHolds, CancelsWait, Follows, UnreadUnanswered, Open, LectorPlaces, OwnerPlaces, OwnerBusy, TurnPlaces, ActivePlaces
    <2>4. OwnerHolds'
      BY <1>2, <1>0, <1>91, <1>92, <2>1 DEF DropAttachment, Types, Placed, LectorHolds, QueueHolds, OwnerHolds, CancelsWait, Follows, UnreadUnanswered, Open, LectorPlaces, OwnerPlaces, OwnerBusy, TurnPlaces, ActivePlaces
    <2>5. CancelsWait'
      BY <1>2, <1>0, <1>91, <1>92, <2>1 DEF DropAttachment, Types, Placed, LectorHolds, QueueHolds, OwnerHolds, CancelsWait, Follows, UnreadUnanswered, Open, LectorPlaces, OwnerPlaces, OwnerBusy, TurnPlaces, ActivePlaces
    <2>6. UnreadUnanswered'
      BY <1>2, <1>0, <1>91, <1>92, <2>1 DEF DropAttachment, Types, Placed, LectorHolds, QueueHolds, OwnerHolds, CancelsWait, Follows, UnreadUnanswered, Open, LectorPlaces, OwnerPlaces, OwnerBusy, TurnPlaces, ActivePlaces
    <2> QED BY <2>2, <2>3, <2>4, <2>5, <2>6 DEF Placed
  <1>3. CASE SignalCancel
    <2>1. answered' = answered
      BY <1>3, QuietAnswersNothing DEF SignalCancel
    <2>2. LectorHolds'
      BY <1>3, <1>0, <1>91, <1>92, <2>1 DEF SignalCancel, Types, Placed, LectorHolds, QueueHolds, OwnerHolds, CancelsWait, Follows, UnreadUnanswered, Open, LectorPlaces, OwnerPlaces, OwnerBusy, TurnPlaces, ActivePlaces
    <2>3. QueueHolds'
      BY <1>3, <1>0, <1>91, <1>92, <2>1 DEF SignalCancel, Types, Placed, LectorHolds, QueueHolds, OwnerHolds, CancelsWait, Follows, UnreadUnanswered, Open, LectorPlaces, OwnerPlaces, OwnerBusy, TurnPlaces, ActivePlaces
    <2>4. OwnerHolds'
      BY <1>3, <1>0, <1>91, <1>92, <2>1 DEF SignalCancel, Types, Placed, LectorHolds, QueueHolds, OwnerHolds, CancelsWait, Follows, UnreadUnanswered, Open, LectorPlaces, OwnerPlaces, OwnerBusy, TurnPlaces, ActivePlaces
    <2>5. CancelsWait'
      <3>1. CASE turnoActivo # Nothing /\ Objetivo[lector.req] = turnoActivo
        <4>1. cancelPend' = Append(cancelPend, lector.req) /\ lector'.req = Nothing
          BY <1>3, <3>1 DEF SignalCancel
        <4>2. owner.at \in ActivePlaces /\ Objetivo[lector.req] = owner.req /\ owner.at # "report"
          BY <3>1 DEF Placed, OwnerHolds, ActivePlaces
        <4>3. lector.req \in Requests /\ Open(lector.req) /\ Tipo[lector.req] = "cancel"
          BY <1>3 DEF SignalCancel, Placed, LectorHolds
        <4>4. sent' = sent /\ owner'.req = owner.req /\ owner'.at = owner.at /\ lector.req # Nothing
          BY <1>3, <1>0, <1>91, <4>3 DEF SignalCancel
        <4>5. \A i \in DOMAIN cancelPend' : \/ i \in DOMAIN cancelPend /\ cancelPend'[i] = cancelPend[i]
                                            \/ cancelPend'[i] = lector.req
          BY <1>92, <4>1, <4>3, AppendProperties DEF Types
        <4>6. ASSUME NEW i \in DOMAIN cancelPend'
              PROVE  owner'.at \in ActivePlaces /\ Follows(cancelPend[i])'
          <5>1. CASE i \in DOMAIN cancelPend /\ cancelPend'[i] = cancelPend[i]
            <6>1. cancelPend[i] \in Requests
              BY <1>92, <5>1
            <6>2. /\ cancelPend[i] \in sent /\ answered[cancelPend[i]] = "none"
                  /\ Tipo[cancelPend[i]] = "cancel" /\ Objetivo[cancelPend[i]] = owner.req
              BY <5>1 DEF Placed, CancelsWait, Follows, Open
            <6> QED BY <1>91, <2>1, <4>1, <4>2, <4>4, <5>1, <6>1, <6>2 DEF Follows, Open
          <5>2. CASE cancelPend'[i] = lector.req
            BY <2>1, <4>1, <4>2, <4>3, <4>4, <5>2 DEF Follows, Open
          <5> QED BY <4>5, <5>1, <5>2
        <4>7. DOMAIN turno.pendientes = {}
          BY <4>2 DEF Placed, CancelsWait
        <4> QED BY <1>0, <4>6, <4>7 DEF CancelsWait
      <3>2. CASE ~(turnoActivo # Nothing /\ Objetivo[lector.req] = turnoActivo)
        <4>1. cancelPend' = cancelPend /\ lector'.req = lector.req /\ sent' = sent
          BY <1>3, <3>2 DEF SignalCancel
        <4> QED BY <1>0, <2>1, <4>1 DEF Placed, CancelsWait, Follows, Open
      <3> QED BY <3>1, <3>2
    <2>6. UnreadUnanswered'
      BY <1>3, <1>0, <1>91, <1>92, <2>1 DEF SignalCancel, Types, Placed, LectorHolds, QueueHolds, OwnerHolds, CancelsWait, Follows, UnreadUnanswered, Open, LectorPlaces, OwnerPlaces, OwnerBusy, TurnPlaces, ActivePlaces
    <2> QED BY <2>2, <2>3, <2>4, <2>5, <2>6 DEF Placed
  <1>4. CASE LectorReply
    <2>1. answered' = [answered EXCEPT ![lector.req] = lector.reply]
      BY <1>4, SayAnswers DEF LectorReply, Types, Terminals, Placed, LectorHolds
    <2>2. LectorHolds'
      BY <1>4, <1>0, <1>91, <1>92, <2>1 DEF LectorReply, Types, Placed, LectorHolds, QueueHolds, OwnerHolds, CancelsWait, Follows, UnreadUnanswered, Open, LectorPlaces, OwnerPlaces, OwnerBusy, TurnPlaces, ActivePlaces
    <2>3. QueueHolds'
      BY <1>4, <1>0, <1>91, <1>92, <2>1 DEF LectorReply, Types, Placed, LectorHolds, QueueHolds, OwnerHolds, CancelsWait, Follows, UnreadUnanswered, Open, LectorPlaces, OwnerPlaces, OwnerBusy, TurnPlaces, ActivePlaces
    <2>4. OwnerHolds'
      BY <1>4, <1>0, <1>91, <1>92, <2>1 DEF LectorReply, Types, Placed, LectorHolds, QueueHolds, OwnerHolds, CancelsWait, Follows, UnreadUnanswered, Open, LectorPlaces, OwnerPlaces, OwnerBusy, TurnPlaces, ActivePlaces
    <2>5. CancelsWait'
      BY <1>4, <1>0, <1>91, <1>92, <2>1 DEF LectorReply, Types, Placed, LectorHolds, QueueHolds, OwnerHolds, CancelsWait, Follows, UnreadUnanswered, Open, LectorPlaces, OwnerPlaces, OwnerBusy, TurnPlaces, ActivePlaces
    <2>6. UnreadUnanswered'
      BY <1>4, <1>0, <1>91, <1>92, <2>1 DEF LectorReply, Types, Placed, LectorHolds, QueueHolds, OwnerHolds, CancelsWait, Follows, UnreadUnanswered, Open, LectorPlaces, OwnerPlaces, OwnerBusy, TurnPlaces, ActivePlaces
    <2> QED BY <2>2, <2>3, <2>4, <2>5, <2>6 DEF Placed
  <1>5. CASE Switch
    <2>1. answered' = answered
      BY <1>5, QuietAnswersNothing DEF Switch
    <2>2. LectorHolds'
      BY <1>5, <1>0, <1>91, <1>92, <2>1 DEF Switch, Types, Placed, LectorHolds, QueueHolds, OwnerHolds, CancelsWait, Follows, UnreadUnanswered, Open, LectorPlaces, OwnerPlaces, OwnerBusy, TurnPlaces, ActivePlaces
    <2>3. QueueHolds'
      BY <1>5, <1>0, <1>91, <1>92, <2>1 DEF Switch, Types, Placed, LectorHolds, QueueHolds, OwnerHolds, CancelsWait, Follows, UnreadUnanswered, Open, LectorPlaces, OwnerPlaces, OwnerBusy, TurnPlaces, ActivePlaces
    <2>4. OwnerHolds'
      BY <1>5, <1>0, <1>91, <1>92, <2>1 DEF Switch, Types, Placed, LectorHolds, QueueHolds, OwnerHolds, CancelsWait, Follows, UnreadUnanswered, Open, LectorPlaces, OwnerPlaces, OwnerBusy, TurnPlaces, ActivePlaces
    <2>5. CancelsWait'
      BY <1>5, <1>0, <1>91, <1>92, <2>1 DEF Switch, Types, Placed, LectorHolds, QueueHolds, OwnerHolds, CancelsWait, Follows, UnreadUnanswered, Open, LectorPlaces, OwnerPlaces, OwnerBusy, TurnPlaces, ActivePlaces
    <2>6. UnreadUnanswered'
      BY <1>5, <1>0, <1>91, <1>92, <2>1 DEF Switch, Types, Placed, LectorHolds, QueueHolds, OwnerHolds, CancelsWait, Follows, UnreadUnanswered, Open, LectorPlaces, OwnerPlaces, OwnerBusy, TurnPlaces, ActivePlaces
    <2> QED BY <2>2, <2>3, <2>4, <2>5, <2>6 DEF Placed
  <1>6. CASE Enqueue
    <2>1. answered' = answered
      BY <1>6, QuietAnswersNothing DEF Enqueue
    <2>2. LectorHolds'
      BY <1>6, <1>0, <1>91, <1>92, <2>1 DEF Enqueue, Types, Placed, LectorHolds, QueueHolds, OwnerHolds, CancelsWait, Follows, UnreadUnanswered, Open, LectorPlaces, OwnerPlaces, OwnerBusy, TurnPlaces, ActivePlaces
    <2>3. QueueHolds'
      BY <1>6, <1>0, <1>91, <1>92, <2>1 DEF Enqueue, Types, Placed, LectorHolds, QueueHolds, OwnerHolds, CancelsWait, Follows, UnreadUnanswered, Open, LectorPlaces, OwnerPlaces, OwnerBusy, TurnPlaces, ActivePlaces
    <2>4. OwnerHolds'
      BY <1>6, <1>0, <1>91, <1>92, <2>1 DEF Enqueue, Types, Placed, LectorHolds, QueueHolds, OwnerHolds, CancelsWait, Follows, UnreadUnanswered, Open, LectorPlaces, OwnerPlaces, OwnerBusy, TurnPlaces, ActivePlaces
    <2>5. CancelsWait'
      BY <1>6, <1>0, <1>91, <1>92, <2>1 DEF Enqueue, Types, Placed, LectorHolds, QueueHolds, OwnerHolds, CancelsWait, Follows, UnreadUnanswered, Open, LectorPlaces, OwnerPlaces, OwnerBusy, TurnPlaces, ActivePlaces
    <2>6. UnreadUnanswered'
      BY <1>6, <1>0, <1>91, <1>92, <2>1 DEF Enqueue, Types, Placed, LectorHolds, QueueHolds, OwnerHolds, CancelsWait, Follows, UnreadUnanswered, Open, LectorPlaces, OwnerPlaces, OwnerBusy, TurnPlaces, ActivePlaces
    <2> QED BY <2>2, <2>3, <2>4, <2>5, <2>6 DEF Placed
  <1>7. CASE CloseInput
    <2>1. answered' = answered
      BY <1>7, QuietAnswersNothing DEF CloseInput
    <2>2. LectorHolds'
      BY <1>7, <1>0, <1>91, <1>92, <2>1 DEF CloseInput, Types, Placed, LectorHolds, QueueHolds, OwnerHolds, CancelsWait, Follows, UnreadUnanswered, Open, LectorPlaces, OwnerPlaces, OwnerBusy, TurnPlaces, ActivePlaces
    <2>3. QueueHolds'
      BY <1>7, <1>0, <1>91, <1>92, <2>1 DEF CloseInput, Types, Placed, LectorHolds, QueueHolds, OwnerHolds, CancelsWait, Follows, UnreadUnanswered, Open, LectorPlaces, OwnerPlaces, OwnerBusy, TurnPlaces, ActivePlaces
    <2>4. OwnerHolds'
      BY <1>7, <1>0, <1>91, <1>92, <2>1 DEF CloseInput, Types, Placed, LectorHolds, QueueHolds, OwnerHolds, CancelsWait, Follows, UnreadUnanswered, Open, LectorPlaces, OwnerPlaces, OwnerBusy, TurnPlaces, ActivePlaces
    <2>5. CancelsWait'
      BY <1>7, <1>0, <1>91, <1>92, <2>1 DEF CloseInput, Types, Placed, LectorHolds, QueueHolds, OwnerHolds, CancelsWait, Follows, UnreadUnanswered, Open, LectorPlaces, OwnerPlaces, OwnerBusy, TurnPlaces, ActivePlaces
    <2>6. UnreadUnanswered'
      BY <1>7, <1>0, <1>91, <1>92, <2>1 DEF CloseInput, Types, Placed, LectorHolds, QueueHolds, OwnerHolds, CancelsWait, Follows, UnreadUnanswered, Open, LectorPlaces, OwnerPlaces, OwnerBusy, TurnPlaces, ActivePlaces
    <2> QED BY <2>2, <2>3, <2>4, <2>5, <2>6 DEF Placed
  <1>8. CASE EndOfInput
    <2>1. answered' = answered
      BY <1>8, QuietAnswersNothing DEF EndOfInput
    <2>2. LectorHolds'
      BY <1>8, <1>0, <1>91, <1>92, <2>1 DEF EndOfInput, Types, Placed, LectorHolds, QueueHolds, OwnerHolds, CancelsWait, Follows, UnreadUnanswered, Open, LectorPlaces, OwnerPlaces, OwnerBusy, TurnPlaces, ActivePlaces
    <2>3. QueueHolds'
      BY <1>8, <1>0, <1>91, <1>92, <2>1 DEF EndOfInput, Types, Placed, LectorHolds, QueueHolds, OwnerHolds, CancelsWait, Follows, UnreadUnanswered, Open, LectorPlaces, OwnerPlaces, OwnerBusy, TurnPlaces, ActivePlaces
    <2>4. OwnerHolds'
      BY <1>8, <1>0, <1>91, <1>92, <2>1 DEF EndOfInput, Types, Placed, LectorHolds, QueueHolds, OwnerHolds, CancelsWait, Follows, UnreadUnanswered, Open, LectorPlaces, OwnerPlaces, OwnerBusy, TurnPlaces, ActivePlaces
    <2>5. CancelsWait'
      BY <1>8, <1>0, <1>91, <1>92, <2>1 DEF EndOfInput, Types, Placed, LectorHolds, QueueHolds, OwnerHolds, CancelsWait, Follows, UnreadUnanswered, Open, LectorPlaces, OwnerPlaces, OwnerBusy, TurnPlaces, ActivePlaces
    <2>6. UnreadUnanswered'
      BY <1>8, <1>0, <1>91, <1>92, <2>1 DEF EndOfInput, Types, Placed, LectorHolds, QueueHolds, OwnerHolds, CancelsWait, Follows, UnreadUnanswered, Open, LectorPlaces, OwnerPlaces, OwnerBusy, TurnPlaces, ActivePlaces
    <2> QED BY <2>2, <2>3, <2>4, <2>5, <2>6 DEF Placed
  <1> QED BY <1>1, <1>2, <1>3, <1>4, <1>5, <1>6, <1>7, <1>8, <1>9 DEF LectorWorks

(* The steps of the owner keep every request in one place.                  *)
LEMMA OwnerKeepsPlaced ==
  ASSUME Types, Types', Placed, OwnerWorks
  PROVE  Placed'
  <1> USE DEF OwnerGoes, lectorState, TurnLeaves
  <1>91. Nothing \notin Requests
    BY RuntimeAssumption
  <1>92. /\ DOMAIN cola = 1 .. Len(cola) /\ Len(cola) \in Nat
         /\ \A i \in DOMAIN cola : cola[i] \in Requests
         /\ DOMAIN cancelPend = 1 .. Len(cancelPend) /\ Len(cancelPend) \in Nat
         /\ \A i \in DOMAIN cancelPend : cancelPend[i] \in Requests
         /\ \A i \in DOMAIN turno.pendientes : turno.pendientes[i] \in Requests
    BY SequencesAre
  <1>1. CASE Pop
    <2>1. answered' = answered
      BY <1>1, QuietAnswersNothing DEF Pop
    <2>2. LectorHolds'
      BY <1>1, <2>1, <1>91, <1>92 DEF Pop, Types, Placed, LectorHolds, QueueHolds, OwnerHolds, CancelsWait, Follows, UnreadUnanswered, Open, LectorPlaces, OwnerPlaces, OwnerBusy, TurnPlaces, ActivePlaces
    <2>3. QueueHolds'
      <3>1. CASE cola = <<>>
        <4>1. cola' = cola /\ sent' = sent /\ lector' = lector
          BY <1>1, <3>1 DEF Pop
        <4> QED BY <2>1, <4>1 DEF Placed, QueueHolds, Open
      <3>2. CASE cola # <<>>
        <4>1. cola' = Tail(cola) /\ sent' = sent /\ lector' = lector
          BY <1>1, <3>2 DEF Pop
        <4>2. \A i \in DOMAIN cola' : i + 1 \in DOMAIN cola /\ cola'[i] = cola[i + 1] /\ i \in Nat
          BY <3>2, <4>1, TailIs
        <4> QED BY <2>1, <4>1, <4>2 DEF Placed, QueueHolds, Open
      <3> QED BY <3>1, <3>2
    <2>4. OwnerHolds'
      <3>1. CASE cola = <<>>
        BY <1>1, <2>1, <3>1 DEF Pop, Placed, OwnerHolds, OwnerBusy, TurnPlaces, ActivePlaces
      <3>2. CASE cola # <<>>
        <4>1. cola' = Tail(cola) /\ sent' = sent /\ lector' = lector /\ owner.at = "pop"
              /\ owner' = [at |-> "serve", req |-> Head(cola)]
              /\ turnoActivo' = turnoActivo /\ sesionGenerando' = sesionGenerando
          BY <1>1, <3>2 DEF Pop
        <4>2. /\ 1 \in DOMAIN cola /\ Head(cola) = cola[1]
              /\ \A i \in DOMAIN cola' : i + 1 \in DOMAIN cola /\ cola'[i] = cola[i + 1] /\ i + 1 # 1
          BY <3>2, <4>1, TailIs
        <4>3. /\ Head(cola) \in Requests /\ Head(cola) \in sent' /\ answered'[Head(cola)] = "none" /\ Tipo[Head(cola)] \in Queueable
              /\ Head(cola) # lector'.req
          BY <1>92, <2>1, <4>1, <4>2 DEF Placed, QueueHolds, Open
        <4>4. \A i \in DOMAIN cola' : cola'[i] # Head(cola)
          BY <4>2 DEF Placed, QueueHolds
        <4> QED BY <4>1, <4>3, <4>4 DEF Placed, OwnerHolds, OwnerBusy, TurnPlaces, ActivePlaces, Open
      <3> QED BY <3>1, <3>2
    <2>5. CancelsWait'
      BY <1>1, <2>1, <1>91, <1>92 DEF Pop, Types, Placed, LectorHolds, QueueHolds, OwnerHolds, CancelsWait, Follows, UnreadUnanswered, Open, LectorPlaces, OwnerPlaces, OwnerBusy, TurnPlaces, ActivePlaces
    <2>6. UnreadUnanswered'
      BY <1>1, <2>1, <1>91, <1>92 DEF Pop, Types, Placed, LectorHolds, QueueHolds, OwnerHolds, CancelsWait, Follows, UnreadUnanswered, Open, LectorPlaces, OwnerPlaces, OwnerBusy, TurnPlaces, ActivePlaces
    <2> QED BY <2>2, <2>3, <2>4, <2>5, <2>6 DEF Placed
  <1>2. CASE Idle
    <2>1. answered' = answered
      BY <1>2, QuietAnswersNothing DEF Idle
    <2>2. LectorHolds'
      BY <1>2, <2>1, <1>91, <1>92 DEF Idle, Types, Placed, LectorHolds, QueueHolds, OwnerHolds, CancelsWait, Follows, UnreadUnanswered, Open, LectorPlaces, OwnerPlaces, OwnerBusy, TurnPlaces, ActivePlaces
    <2>3. QueueHolds'
      BY <1>2, <2>1, <1>91, <1>92 DEF Idle, Types, Placed, LectorHolds, QueueHolds, OwnerHolds, CancelsWait, Follows, UnreadUnanswered, Open, LectorPlaces, OwnerPlaces, OwnerBusy, TurnPlaces, ActivePlaces
    <2>4. OwnerHolds'
      BY <1>2, <2>1, <1>91, <1>92 DEF Idle, Types, Placed, LectorHolds, QueueHolds, OwnerHolds, CancelsWait, Follows, UnreadUnanswered, Open, LectorPlaces, OwnerPlaces, OwnerBusy, TurnPlaces, ActivePlaces
    <2>5. CancelsWait'
      BY <1>2, <2>1, <1>91, <1>92 DEF Idle, Types, Placed, LectorHolds, QueueHolds, OwnerHolds, CancelsWait, Follows, UnreadUnanswered, Open, LectorPlaces, OwnerPlaces, OwnerBusy, TurnPlaces, ActivePlaces
    <2>6. UnreadUnanswered'
      BY <1>2, <2>1, <1>91, <1>92 DEF Idle, Types, Placed, LectorHolds, QueueHolds, OwnerHolds, CancelsWait, Follows, UnreadUnanswered, Open, LectorPlaces, OwnerPlaces, OwnerBusy, TurnPlaces, ActivePlaces
    <2> QED BY <2>2, <2>3, <2>4, <2>5, <2>6 DEF Placed
  <1>3. CASE LookUpAttachments
    <2>1. answered' = answered \/ answered' = [answered EXCEPT ![owner.req] = "error"]
      BY <1>3, SayAnswers, QuietAnswersNothing, OwnerBusyWith DEF LookUpAttachments, Terminals, OwnerBusy
    <2>2. LectorHolds'
      BY <1>3, <2>1, <1>91, <1>92 DEF LookUpAttachments, Types, Placed, LectorHolds, QueueHolds, OwnerHolds, CancelsWait, Follows, UnreadUnanswered, Open, LectorPlaces, OwnerPlaces, OwnerBusy, TurnPlaces, ActivePlaces
    <2>3. QueueHolds'
      BY <1>3, <2>1, <1>91, <1>92 DEF LookUpAttachments, Types, Placed, LectorHolds, QueueHolds, OwnerHolds, CancelsWait, Follows, UnreadUnanswered, Open, LectorPlaces, OwnerPlaces, OwnerBusy, TurnPlaces, ActivePlaces
    <2>4. OwnerHolds'
      <3>1. owner.req \in Turns /\ Sesion[owner.req] \in sesiones /\ owner.at = "lookup"
            /\ turnoActivo = Nothing /\ sesionGenerando = Nothing
        BY <1>3 DEF LookUpAttachments, Placed, OwnerHolds, TurnPlaces, OwnerBusy, ActivePlaces
      <3>2. CASE Usa[owner.req] \subseteq adjuntos
        <4>1. owner' = [at |-> "activate", req |-> owner.req] /\ answered' = answered
          BY <1>3, <3>2, QuietAnswersNothing DEF LookUpAttachments
        <4>2. sent' = sent /\ cola' = cola /\ lector' = lector /\ sesiones' = sesiones
              /\ turnoActivo' = turnoActivo /\ sesionGenerando' = sesionGenerando
          BY <1>3 DEF LookUpAttachments
        <4> QED BY <3>1, <4>1, <4>2 DEF Placed, OwnerHolds, OwnerBusy, TurnPlaces, ActivePlaces, Open
      <3>3. CASE ~(Usa[owner.req] \subseteq adjuntos)
        <4>1. owner' = [at |-> "pop", req |-> Nothing]
          BY <1>3, <3>3 DEF LookUpAttachments
        <4>2. turnoActivo' = Nothing /\ sesionGenerando' = Nothing
          BY <1>3, <3>1 DEF LookUpAttachments
        <4> QED BY <4>1, <4>2 DEF OwnerHolds, OwnerBusy, TurnPlaces, ActivePlaces
      <3> QED BY <3>2, <3>3
    <2>5. CancelsWait'
      <3>1. DOMAIN cancelPend = {} /\ DOMAIN turno.pendientes = {} /\ cancelPend' = cancelPend
        BY <1>3 DEF LookUpAttachments, Placed, CancelsWait, ActivePlaces
      <3>2. turno' = turno \/ turno'.pendientes = <<>>
        BY <1>3 DEF LookUpAttachments, NoTurn
      <3> QED BY <3>1, <3>2 DEF CancelsWait
    <2>6. UnreadUnanswered'
      BY <1>3, <2>1, <1>91, <1>92 DEF LookUpAttachments, Types, Placed, LectorHolds, QueueHolds, OwnerHolds, CancelsWait, Follows, UnreadUnanswered, Open, LectorPlaces, OwnerPlaces, OwnerBusy, TurnPlaces, ActivePlaces
    <2> QED BY <2>2, <2>3, <2>4, <2>5, <2>6 DEF Placed
  <1>4. CASE Activate
    <2>1. answered' = answered
      BY <1>4, SayAnswers, OwnerBusyWith DEF Activate, Terminals, OwnerBusy
    <2>2. LectorHolds'
      BY <1>4, <2>1, <1>91, <1>92 DEF Activate, Types, Placed, LectorHolds, QueueHolds, OwnerHolds, CancelsWait, Follows, UnreadUnanswered, Open, LectorPlaces, OwnerPlaces, OwnerBusy, TurnPlaces, ActivePlaces
    <2>3. QueueHolds'
      BY <1>4, <2>1, <1>91, <1>92 DEF Activate, Types, Placed, LectorHolds, QueueHolds, OwnerHolds, CancelsWait, Follows, UnreadUnanswered, Open, LectorPlaces, OwnerPlaces, OwnerBusy, TurnPlaces, ActivePlaces
    <2>4. OwnerHolds'
      BY <1>4, <2>1, <1>91, <1>92 DEF Activate, Types, Placed, LectorHolds, QueueHolds, OwnerHolds, CancelsWait, Follows, UnreadUnanswered, Open, LectorPlaces, OwnerPlaces, OwnerBusy, TurnPlaces, ActivePlaces
    <2>5. CancelsWait'
      BY <1>4, <2>1, <1>91, <1>92 DEF Activate, Types, Placed, LectorHolds, QueueHolds, OwnerHolds, CancelsWait, Follows, UnreadUnanswered, Open, LectorPlaces, OwnerPlaces, OwnerBusy, TurnPlaces, ActivePlaces
    <2>6. UnreadUnanswered'
      BY <1>4, <2>1, <1>91, <1>92 DEF Activate, Types, Placed, LectorHolds, QueueHolds, OwnerHolds, CancelsWait, Follows, UnreadUnanswered, Open, LectorPlaces, OwnerPlaces, OwnerBusy, TurnPlaces, ActivePlaces
    <2> QED BY <2>2, <2>3, <2>4, <2>5, <2>6 DEF Placed
  <1>5. CASE SaveRings
    <2>1. answered' = answered
      BY <1>5, QuietAnswersNothing DEF SaveRings
    <2>2. LectorHolds'
      BY <1>5, <2>1, <1>91, <1>92 DEF SaveRings, Types, Placed, LectorHolds, QueueHolds, OwnerHolds, CancelsWait, Follows, UnreadUnanswered, Open, LectorPlaces, OwnerPlaces, OwnerBusy, TurnPlaces, ActivePlaces
    <2>3. QueueHolds'
      BY <1>5, <2>1, <1>91, <1>92 DEF SaveRings, Types, Placed, LectorHolds, QueueHolds, OwnerHolds, CancelsWait, Follows, UnreadUnanswered, Open, LectorPlaces, OwnerPlaces, OwnerBusy, TurnPlaces, ActivePlaces
    <2>4. OwnerHolds'
      BY <1>5, <2>1, <1>91, <1>92 DEF SaveRings, Types, Placed, LectorHolds, QueueHolds, OwnerHolds, CancelsWait, Follows, UnreadUnanswered, Open, LectorPlaces, OwnerPlaces, OwnerBusy, TurnPlaces, ActivePlaces
    <2>5. CancelsWait'
      <3>1. turno.pendientes' = turno.pendientes /\ owner'.req = owner.req
            /\ owner.at \in ActivePlaces /\ owner'.at \in ActivePlaces
            /\ cancelPend' = cancelPend /\ sent' = sent /\ lector' = lector
        BY <1>5 DEF SaveRings, ActivePlaces, Types, Turnos
      <3> QED BY <2>1, <3>1 DEF Placed, CancelsWait, Follows, Open, ActivePlaces
    <2>6. UnreadUnanswered'
      BY <1>5, <2>1, <1>91, <1>92 DEF SaveRings, Types, Placed, LectorHolds, QueueHolds, OwnerHolds, CancelsWait, Follows, UnreadUnanswered, Open, LectorPlaces, OwnerPlaces, OwnerBusy, TurnPlaces, ActivePlaces
    <2> QED BY <2>2, <2>3, <2>4, <2>5, <2>6 DEF Placed
  <1>6. CASE TurnPrefill
    <2>1. answered' = answered
      BY <1>6, SayAnswers, OwnerBusyWith DEF TurnPrefill, Terminals, OwnerBusy
    <2>2. LectorHolds'
      BY <1>6, <2>1, <1>91, <1>92 DEF TurnPrefill, Types, Placed, LectorHolds, QueueHolds, OwnerHolds, CancelsWait, Follows, UnreadUnanswered, Open, LectorPlaces, OwnerPlaces, OwnerBusy, TurnPlaces, ActivePlaces
    <2>3. QueueHolds'
      BY <1>6, <2>1, <1>91, <1>92 DEF TurnPrefill, Types, Placed, LectorHolds, QueueHolds, OwnerHolds, CancelsWait, Follows, UnreadUnanswered, Open, LectorPlaces, OwnerPlaces, OwnerBusy, TurnPlaces, ActivePlaces
    <2>4. OwnerHolds'
      BY <1>6, <2>1, <1>91, <1>92 DEF TurnPrefill, Types, Placed, LectorHolds, QueueHolds, OwnerHolds, CancelsWait, Follows, UnreadUnanswered, Open, LectorPlaces, OwnerPlaces, OwnerBusy, TurnPlaces, ActivePlaces
    <2>5. CancelsWait'
      BY <1>6, <2>1, <1>91, <1>92 DEF TurnPrefill, Types, Placed, LectorHolds, QueueHolds, OwnerHolds, CancelsWait, Follows, UnreadUnanswered, Open, LectorPlaces, OwnerPlaces, OwnerBusy, TurnPlaces, ActivePlaces
    <2>6. UnreadUnanswered'
      BY <1>6, <2>1, <1>91, <1>92 DEF TurnPrefill, Types, Placed, LectorHolds, QueueHolds, OwnerHolds, CancelsWait, Follows, UnreadUnanswered, Open, LectorPlaces, OwnerPlaces, OwnerBusy, TurnPlaces, ActivePlaces
    <2> QED BY <2>2, <2>3, <2>4, <2>5, <2>6 DEF Placed
  <1>7. CASE TurnText
    <2>1. answered' = answered
      BY <1>7, SayAnswers, OwnerBusyWith DEF TurnText, Terminals, OwnerBusy
    <2>2. LectorHolds'
      BY <1>7, <2>1, <1>91, <1>92 DEF TurnText, Types, Placed, LectorHolds, QueueHolds, OwnerHolds, CancelsWait, Follows, UnreadUnanswered, Open, LectorPlaces, OwnerPlaces, OwnerBusy, TurnPlaces, ActivePlaces
    <2>3. QueueHolds'
      BY <1>7, <2>1, <1>91, <1>92 DEF TurnText, Types, Placed, LectorHolds, QueueHolds, OwnerHolds, CancelsWait, Follows, UnreadUnanswered, Open, LectorPlaces, OwnerPlaces, OwnerBusy, TurnPlaces, ActivePlaces
    <2>4. OwnerHolds'
      BY <1>7, <2>1, <1>91, <1>92 DEF TurnText, Types, Placed, LectorHolds, QueueHolds, OwnerHolds, CancelsWait, Follows, UnreadUnanswered, Open, LectorPlaces, OwnerPlaces, OwnerBusy, TurnPlaces, ActivePlaces
    <2>5. CancelsWait'
      BY <1>7, <2>1, <1>91, <1>92 DEF TurnText, Types, Placed, LectorHolds, QueueHolds, OwnerHolds, CancelsWait, Follows, UnreadUnanswered, Open, LectorPlaces, OwnerPlaces, OwnerBusy, TurnPlaces, ActivePlaces
    <2>6. UnreadUnanswered'
      BY <1>7, <2>1, <1>91, <1>92 DEF TurnText, Types, Placed, LectorHolds, QueueHolds, OwnerHolds, CancelsWait, Follows, UnreadUnanswered, Open, LectorPlaces, OwnerPlaces, OwnerBusy, TurnPlaces, ActivePlaces
    <2> QED BY <2>2, <2>3, <2>4, <2>5, <2>6 DEF Placed
  <1>8. CASE TurnEnd
    <2>1. answered' = answered
      BY <1>8, QuietAnswersNothing DEF TurnEnd
    <2>2. LectorHolds'
      BY <1>8, <2>1, <1>91, <1>92 DEF TurnEnd, Types, Placed, LectorHolds, QueueHolds, OwnerHolds, CancelsWait, Follows, UnreadUnanswered, Open, LectorPlaces, OwnerPlaces, OwnerBusy, TurnPlaces, ActivePlaces
    <2>3. QueueHolds'
      BY <1>8, <2>1, <1>91, <1>92 DEF TurnEnd, Types, Placed, LectorHolds, QueueHolds, OwnerHolds, CancelsWait, Follows, UnreadUnanswered, Open, LectorPlaces, OwnerPlaces, OwnerBusy, TurnPlaces, ActivePlaces
    <2>4. OwnerHolds'
      BY <1>8, <2>1, <1>91, <1>92 DEF TurnEnd, Types, Placed, LectorHolds, QueueHolds, OwnerHolds, CancelsWait, Follows, UnreadUnanswered, Open, LectorPlaces, OwnerPlaces, OwnerBusy, TurnPlaces, ActivePlaces
    <2>5. CancelsWait'
      BY <1>8, <2>1, <1>91, <1>92 DEF TurnEnd, Types, Placed, LectorHolds, QueueHolds, OwnerHolds, CancelsWait, Follows, UnreadUnanswered, Open, LectorPlaces, OwnerPlaces, OwnerBusy, TurnPlaces, ActivePlaces
    <2>6. UnreadUnanswered'
      BY <1>8, <2>1, <1>91, <1>92 DEF TurnEnd, Types, Placed, LectorHolds, QueueHolds, OwnerHolds, CancelsWait, Follows, UnreadUnanswered, Open, LectorPlaces, OwnerPlaces, OwnerBusy, TurnPlaces, ActivePlaces
    <2> QED BY <2>2, <2>3, <2>4, <2>5, <2>6 DEF Placed
  <1>9. CASE Consume
    <2>1. answered' = answered
      BY <1>9, QuietAnswersNothing DEF Consume
    <2>2. LectorHolds'
      BY <1>9, <2>1, <1>91, <1>92 DEF Consume, Types, Placed, LectorHolds, QueueHolds, OwnerHolds, CancelsWait, Follows, UnreadUnanswered, Open, LectorPlaces, OwnerPlaces, OwnerBusy, TurnPlaces, ActivePlaces
    <2>3. QueueHolds'
      BY <1>9, <2>1, <1>91, <1>92 DEF Consume, Types, Placed, LectorHolds, QueueHolds, OwnerHolds, CancelsWait, Follows, UnreadUnanswered, Open, LectorPlaces, OwnerPlaces, OwnerBusy, TurnPlaces, ActivePlaces
    <2>4. OwnerHolds'
      BY <1>9, <2>1, <1>91, <1>92 DEF Consume, Types, Placed, LectorHolds, QueueHolds, OwnerHolds, CancelsWait, Follows, UnreadUnanswered, Open, LectorPlaces, OwnerPlaces, OwnerBusy, TurnPlaces, ActivePlaces
    <2>5. CancelsWait'
      BY <1>9, <2>1, <1>91, <1>92 DEF Consume, Types, Placed, LectorHolds, QueueHolds, OwnerHolds, CancelsWait, Follows, UnreadUnanswered, Open, LectorPlaces, OwnerPlaces, OwnerBusy, TurnPlaces, ActivePlaces
    <2>6. UnreadUnanswered'
      BY <1>9, <2>1, <1>91, <1>92 DEF Consume, Types, Placed, LectorHolds, QueueHolds, OwnerHolds, CancelsWait, Follows, UnreadUnanswered, Open, LectorPlaces, OwnerPlaces, OwnerBusy, TurnPlaces, ActivePlaces
    <2> QED BY <2>2, <2>3, <2>4, <2>5, <2>6 DEF Placed
  <1>10. CASE Collect
    <2>1. answered' = answered
      BY <1>10, QuietAnswersNothing DEF Collect
    <2>2. LectorHolds'
      BY <1>10, <2>1, <1>91, <1>92 DEF Collect, Types, Placed, LectorHolds, QueueHolds, OwnerHolds, CancelsWait, Follows, UnreadUnanswered, Open, LectorPlaces, OwnerPlaces, OwnerBusy, TurnPlaces, ActivePlaces
    <2>3. QueueHolds'
      BY <1>10, <2>1, <1>91, <1>92 DEF Collect, Types, Placed, LectorHolds, QueueHolds, OwnerHolds, CancelsWait, Follows, UnreadUnanswered, Open, LectorPlaces, OwnerPlaces, OwnerBusy, TurnPlaces, ActivePlaces
    <2>4. OwnerHolds'
      BY <1>10, <2>1, <1>91, <1>92 DEF Collect, Types, Placed, LectorHolds, QueueHolds, OwnerHolds, CancelsWait, Follows, UnreadUnanswered, Open, LectorPlaces, OwnerPlaces, OwnerBusy, TurnPlaces, ActivePlaces
    <2>5. CancelsWait'
      BY <1>10, <2>1, <1>91, <1>92 DEF Collect, Types, Placed, LectorHolds, QueueHolds, OwnerHolds, CancelsWait, Follows, UnreadUnanswered, Open, LectorPlaces, OwnerPlaces, OwnerBusy, TurnPlaces, ActivePlaces
    <2>6. UnreadUnanswered'
      BY <1>10, <2>1, <1>91, <1>92 DEF Collect, Types, Placed, LectorHolds, QueueHolds, OwnerHolds, CancelsWait, Follows, UnreadUnanswered, Open, LectorPlaces, OwnerPlaces, OwnerBusy, TurnPlaces, ActivePlaces
    <2> QED BY <2>2, <2>3, <2>4, <2>5, <2>6 DEF Placed
  <1>11. CASE Report
    <2>2. LectorHolds'
      BY <1>11, ReportAnswers, <1>91, <1>92 DEF Report, Types, Placed, LectorHolds, QueueHolds, OwnerHolds, CancelsWait, Follows, UnreadUnanswered, Open, LectorPlaces, OwnerPlaces, OwnerBusy, TurnPlaces, ActivePlaces
    <2>3. QueueHolds'
      <3>1. cola' = cola /\ sent' = sent /\ lector' = lector /\ owner.at = "report"
        BY <1>11 DEF Report
      <3>2. ASSUME NEW i \in DOMAIN cola
            PROVE  answered'[cola[i]] = answered[cola[i]]
        <4>1. cola[i] # owner.req /\ Tipo[cola[i]] # "cancel" /\ cola[i] \in Requests
          BY <1>92, <3>1 DEF Placed, OwnerHolds, QueueHolds, OwnerBusy, Queueable
        <4>2. \A j \in DOMAIN turno.pendientes : turno.pendientes[j] # cola[i]
          BY <4>1 DEF Placed, CancelsWait, Follows
        <4> QED BY <1>11, <4>1, <4>2, ReportAnswers
      <3> QED BY <3>1, <3>2 DEF Placed, QueueHolds, Open
    <2>4. OwnerHolds'
      BY <1>11, ReportAnswers, <1>91, <1>92 DEF Report, Types, Placed, LectorHolds, QueueHolds, OwnerHolds, CancelsWait, Follows, UnreadUnanswered, Open, LectorPlaces, OwnerPlaces, OwnerBusy, TurnPlaces, ActivePlaces
    <2>5. CancelsWait'
      <3>1. DOMAIN cancelPend = {} /\ cancelPend' = cancelPend
        BY <1>11 DEF Report, Placed, CancelsWait, ActivePlaces
      <3>2. turno'.pendientes = <<>>
        BY <1>11 DEF Report, NoTurn
      <3> QED BY <3>1, <3>2 DEF CancelsWait
    <2>6. UnreadUnanswered'
      BY <1>11, ReportAnswers, <1>91, <1>92 DEF Report, Types, Placed, LectorHolds, QueueHolds, OwnerHolds, CancelsWait, Follows, UnreadUnanswered, Open, LectorPlaces, OwnerPlaces, OwnerBusy, TurnPlaces, ActivePlaces
    <2> QED BY <2>2, <2>3, <2>4, <2>5, <2>6 DEF Placed
  <1>12. CASE Join
    <2>1. answered' = answered
      BY <1>12, QuietAnswersNothing DEF Join
    <2>2. LectorHolds'
      BY <1>12, <2>1, <1>91, <1>92 DEF Join, Types, Placed, LectorHolds, QueueHolds, OwnerHolds, CancelsWait, Follows, UnreadUnanswered, Open, LectorPlaces, OwnerPlaces, OwnerBusy, TurnPlaces, ActivePlaces
    <2>3. QueueHolds'
      BY <1>12, <2>1, <1>91, <1>92 DEF Join, Types, Placed, LectorHolds, QueueHolds, OwnerHolds, CancelsWait, Follows, UnreadUnanswered, Open, LectorPlaces, OwnerPlaces, OwnerBusy, TurnPlaces, ActivePlaces
    <2>4. OwnerHolds'
      BY <1>12, <2>1, <1>91, <1>92 DEF Join, Types, Placed, LectorHolds, QueueHolds, OwnerHolds, CancelsWait, Follows, UnreadUnanswered, Open, LectorPlaces, OwnerPlaces, OwnerBusy, TurnPlaces, ActivePlaces
    <2>5. CancelsWait'
      BY <1>12, <2>1, <1>91, <1>92 DEF Join, Types, Placed, LectorHolds, QueueHolds, OwnerHolds, CancelsWait, Follows, UnreadUnanswered, Open, LectorPlaces, OwnerPlaces, OwnerBusy, TurnPlaces, ActivePlaces
    <2>6. UnreadUnanswered'
      BY <1>12, <2>1, <1>91, <1>92 DEF Join, Types, Placed, LectorHolds, QueueHolds, OwnerHolds, CancelsWait, Follows, UnreadUnanswered, Open, LectorPlaces, OwnerPlaces, OwnerBusy, TurnPlaces, ActivePlaces
    <2> QED BY <2>2, <2>3, <2>4, <2>5, <2>6 DEF Placed
  <1>13. ASSUME NEW r \in Requests, RefuseSession(r) \/ CloseSession(r) \/ AnswerAtOnce(r) \/ AcceptTurn(r)
        PROVE  Placed'
    <2> USE DEF ServeLeaves
    <2>0. owner = [at |-> "serve", req |-> r] /\ owner.at = "serve" /\ owner.req = r
      BY <1>13 DEF RefuseSession, CloseSession, AnswerAtOnce, AcceptTurn
    <2>1. sent' = sent /\ lector' = lector /\ cola' = cola /\ turnoActivo' = turnoActivo
          /\ sesionGenerando' = sesionGenerando /\ cancelPend' = cancelPend /\ turno' = turno
      BY <1>13 DEF RefuseSession, CloseSession, AnswerAtOnce, AcceptTurn
    <2>2. DOMAIN cancelPend = {} /\ DOMAIN turno.pendientes = {}
          /\ turnoActivo = Nothing /\ sesionGenerando = Nothing
      BY <2>0 DEF Placed, CancelsWait, OwnerHolds, ActivePlaces
    <2>3. CancelsWait'
      BY <2>1, <2>2 DEF CancelsWait
    <2>4. CASE RefuseSession(r) \/ CloseSession(r) \/ AnswerAtOnce(r)
      <3>1. \E k \in Terminals : answered' = [answered EXCEPT ![r] = k]
        BY <2>4, SayAnswers, OpeningAnswers DEF RefuseSession, CloseSession, AnswerAtOnce, Terminals
      <3>2. owner'.at \notin OwnerBusy /\ owner'.req = Nothing
        BY <2>4 DEF RefuseSession, CloseSession, AnswerAtOnce, OwnerBusy
      <3>3. r # lector.req /\ r \in sent /\ \A i \in DOMAIN cola : cola[i] # r
        BY <2>0 DEF Placed, OwnerHolds, OwnerBusy, Open
      <3>4. LectorHolds'
        BY <2>1, <3>1, <3>3 DEF Placed, LectorHolds, Open, Types
      <3>5. QueueHolds'
        BY <1>92, <2>1, <3>1, <3>3 DEF Placed, QueueHolds, Open, Types
      <3>6. OwnerHolds'
        BY <2>1, <2>2, <3>2 DEF OwnerHolds, TurnPlaces, ActivePlaces, OwnerBusy
      <3>7. UnreadUnanswered'
        BY <2>1, <3>1, <3>3 DEF Placed, UnreadUnanswered, Types
      <3> QED BY <2>3, <3>4, <3>5, <3>6, <3>7 DEF Placed
    <2>5. CASE AcceptTurn(r)
      <3>1. answered' = answered
        BY <2>5, OpeningAnswers DEF AcceptTurn
      <3>2. owner' = [at |-> "lookup", req |-> r] /\ Tipo[r] = "turn" /\ Sesion[r] \in sesiones'
        BY <2>5 DEF AcceptTurn
      <3>3. OwnerHolds'
        BY <2>0, <2>1, <2>2, <3>1, <3>2
        DEF Placed, OwnerHolds, OwnerBusy, TurnPlaces, ActivePlaces, Open, Turns
      <3>4. LectorHolds' /\ QueueHolds' /\ UnreadUnanswered'
        BY <2>1, <3>1 DEF Placed, LectorHolds, QueueHolds, UnreadUnanswered, Open
      <3> QED BY <2>3, <3>3, <3>4 DEF Placed
    <2> QED BY <1>13, <2>4, <2>5
  <1> QED BY <1>1, <1>2, <1>3, <1>4, <1>5, <1>6, <1>7, <1>8, <1>9, <1>10, <1>11, <1>12, <1>13 DEF OwnerWorks
-----------------------------------------------------------------------------
(* What a step can answer, and to whom: the reader what it holds, the owner *)
(* what it serves, and a report the turn and the cancels that waited.       *)
Waits(q) == \E i \in DOMAIN turno.pendientes : turno.pendientes[i] = q

(* Who can be answered in a step: the request the reader or the owner has,  *)
(* or, by a report, a cancel that waits.                                    *)
LEMMA AnswersGoTo ==
  ASSUME Types, Placed, Next, NEW q \in Requests, answered'[q] # answered[q]
  PROVE  \/ LectorReply /\ q = lector.req /\ answered'[q] = lector.reply
         \/ owner.at \in {"serve", "lookup"} /\ q = owner.req /\ answered'[q] \in {"error", "result"}
         \/ Report /\ q = owner.req /\ answered'[q] = Terminal
         \/ /\ Report /\ Waits(q)
            /\ answered'[q] = IF turno.reason = "cancelled" THEN "result" ELSE "refused"
  <1>1. CASE LectorReply
    <2>1. lector.req \in Requests /\ lector.reply \in Terminals
      BY <1>1 DEF LectorReply, Placed, LectorHolds, Types, Terminals
    <2> QED BY <1>1, <2>1, SayAnswers DEF LectorReply, Types
  <1>2. CASE \/ EndOfInput \/ StoreAttachment \/ DropAttachment \/ SignalCancel \/ Switch
             \/ Enqueue \/ CloseInput \/ \E r \in Requests : Read(r)
    <2>1. Quiet
      BY <1>2 DEF EndOfInput, StoreAttachment, DropAttachment, SignalCancel, Switch, Enqueue, CloseInput, Read
    <2> QED BY <2>1, QuietAnswersNothing
  <1>3. CASE Pop \/ Idle \/ SaveRings \/ TurnEnd \/ Consume \/ Collect \/ Join
    <2>1. Quiet
      BY <1>3 DEF Pop, Idle, SaveRings, TurnEnd, Consume, Collect, Join
    <2> QED BY <2>1, QuietAnswersNothing
  <1>4. CASE Activate \/ TurnPrefill \/ TurnText
    <2>1. owner.at \in OwnerBusy
      BY <1>4 DEF Activate, TurnPrefill, TurnText, OwnerBusy
    <2>2. \E k \in {"started", "prefill", "text"} : Say(k, owner.req)
      BY <1>4 DEF Activate, TurnPrefill, TurnText
    <2> QED BY <2>1, <2>2, OwnerBusyWith, SayAnswers DEF Terminals
  <1>5. CASE LookUpAttachments
    <2>1. owner.at \in OwnerBusy /\ owner.at = "lookup"
      BY <1>5 DEF LookUpAttachments, OwnerBusy
    <2>2. Quiet \/ Say("error", owner.req)
      BY <1>5 DEF LookUpAttachments
    <2> QED BY <2>1, <2>2, OwnerBusyWith, SayAnswers, QuietAnswersNothing DEF Terminals, Types
  <1>6. CASE Report
    BY <1>6, ReportAnswers DEF Waits
  <1>7. ASSUME NEW r \in Requests, RefuseSession(r) \/ CloseSession(r) \/ AnswerAtOnce(r) \/ AcceptTurn(r)
        PROVE  owner.at \in {"serve", "lookup"} /\ q = owner.req /\ answered'[q] \in {"error", "result"}
    <2>1. owner.at = "serve" /\ owner.req = r
      BY <1>7 DEF RefuseSession, CloseSession, AnswerAtOnce, AcceptTurn
    <2>2. \/ answered' = answered
          \/ \E k \in {"error", "result"} : answered' = [answered EXCEPT ![r] = k]
      BY <1>7, SayAnswers, OpeningAnswers
      DEF RefuseSession, CloseSession, AnswerAtOnce, AcceptTurn, Terminals
    <2> QED BY <2>1, <2>2 DEF Types
  <1> QED BY <1>1, <1>2, <1>3, <1>4, <1>5, <1>6, <1>7 DEF Next, LectorWorks, OwnerWorks

(* A request is answered once.                                              *)
LEMMA AnsweredOnce ==
  ASSUME Types, Placed, Next, NEW q \in Requests, answered'[q] # answered[q]
  PROVE  Open(q)
  <1>1. CASE LectorReply /\ q = lector.req
    BY <1>1 DEF LectorReply, Placed, LectorHolds, Open
  <1>2. CASE owner.at \in {"serve", "lookup"} /\ q = owner.req
    BY <1>2 DEF Placed, OwnerHolds, OwnerBusy, Open
  <1>3. CASE Report /\ q = owner.req
    BY <1>3 DEF Report, Placed, OwnerHolds, OwnerBusy, Open
  <1>4. CASE Report /\ Waits(q)
    BY <1>4 DEF Waits, Placed, CancelsWait, Follows, Open
  <1> QED BY <1>1, <1>2, <1>3, <1>4, AnswersGoTo

(* What serving a request writes: maybe that a session opened or closed,    *)
(* and an answer.                                                           *)
LEMMA ServeWrites ==
  ASSUME NEW r \in Requests, RefuseSession(r) \/ CloseSession(r) \/ AnswerAtOnce(r) \/ AcceptTurn(r)
  PROVE  /\ \A i \in DOMAIN out' : out'[i].kind # "text"
         /\ out' # <<>> => 1 \in DOMAIN out'
  <1>1. PICK k \in {"error", "result"} :
           \/ out' = <<Event(k, r)>> \/ out' = Opening(r) \o <<Event(k, r)>> \/ out' = Opening(r)
           \/ out' = Opening(r) \o <<Event("closed", Sesion[r]), Event(k, r)>>
    BY DEF RefuseSession, CloseSession, AnswerAtOnce, AcceptTurn, Say, Emit
  <1>2. Opening(r) = <<>> \/ Opening(r) = <<Event("opened", Sesion[r])>>
    BY DEF Opening
  <1> DEFINE o == Event("opened", Sesion[r])
             c == Event("closed", Sesion[r])
             e == Event(k, r)
  <1>3. o.kind # "text" /\ c.kind # "text" /\ e.kind # "text"
    BY DEF Event
  <1> HIDE DEF o, c, e
  <1>4. out' \in {<<>>, <<e>>, <<o>>, <<o, e>>, <<c, e>>, <<o, c, e>>}
    <2>1. CASE Opening(r) = <<>>
      <3>1. out' = <<e>> \/ out' = <<>> \o <<e>> \/ out' = <<>> \/ out' = <<>> \o <<c, e>>
        BY <1>1, <2>1 DEF c, e
      <3> QED BY <3>1, EmptyJoins
    <2>2. CASE Opening(r) = <<o>>
      <3>1. out' = <<e>> \/ out' = <<o>> \o <<e>> \/ out' = <<o>> \/ out' = <<o>> \o <<c, e>>
        BY <1>1, <2>2 DEF c, e
      <3> QED BY <3>1, JoinOne, JoinTwo
    <2> QED BY <1>2, <2>1, <2>2 DEF o
  <1> QED BY <1>3, <1>4

(* Only a running turn writes text.                                         *)
LEMMA OnlyTurnsSpeak ==
  ASSUME Types, Placed, Next, NEW i \in DOMAIN out', out'[i].kind = "text"
  PROVE  TurnText /\ out' = <<Event("text", owner.req)>> /\ out'[i].id = owner.req /\ answered' = answered
  <1>1. CASE LectorReply
    <2>1. out' = <<Event(lector.reply, lector.req)>> /\ lector.reply # "text"
      BY <1>1 DEF LectorReply, Say, Emit, Types
    <2> QED BY <2>1 DEF Event
  <1>2. CASE \/ EndOfInput \/ StoreAttachment \/ DropAttachment \/ SignalCancel \/ Switch
             \/ Enqueue \/ CloseInput \/ \E r \in Requests : Read(r)
    <2>1. Quiet
      BY <1>2 DEF EndOfInput, StoreAttachment, DropAttachment, SignalCancel, Switch, Enqueue, CloseInput, Read
    <2> QED BY <2>1, QuietAnswersNothing
  <1>3. CASE Pop \/ Idle \/ SaveRings \/ TurnEnd \/ Consume \/ Collect \/ Join
    <2>1. Quiet
      BY <1>3 DEF Pop, Idle, SaveRings, TurnEnd, Consume, Collect, Join
    <2> QED BY <2>1, QuietAnswersNothing
  <1>4. CASE Activate \/ TurnPrefill
    <2>1. \E k \in {"started", "prefill"} : out' = <<Event(k, owner.req)>>
      BY <1>4 DEF Activate, TurnPrefill, Say, Emit
    <2> QED BY <2>1 DEF Event
  <1>5. CASE LookUpAttachments
    <2>1. out' = <<>> \/ out' = <<Event("error", owner.req)>>
      BY <1>5 DEF LookUpAttachments, Say, Quiet, Emit
    <2> QED BY <2>1 DEF Event
  <1>6. CASE Report
    <2>1. out' = ReportEvents
      BY <1>6 DEF Report, Emit, ReportEvents
    <2>2. Terminal # "text" /\ "paused" # "text"
      BY DEF Terminal
    <2>3. i \in 1 .. Len(turno.pendientes) \/ i = Len(turno.pendientes) + 1
            \/ i \notin 1 .. Len(turno.pendientes) + 1
      BY ReportEventsAre
    <2>4. CASE i \in 1 .. Len(turno.pendientes)
      <3>1. out'[i] = Confirmations[i] /\ i \in DOMAIN turno.pendientes
        BY <2>1, <2>4, ReportEventsAre
      <3>2. Confirmations[i].kind \in {"result", "refused"}
        BY <3>1 DEF Confirmations, Event
      <3> QED BY <3>1, <3>2
    <2>5. CASE i = Len(turno.pendientes) + 1
      BY <2>1, <2>2, <2>5, ReportEventsAre DEF Event
    <2>6. CASE i \notin 1 .. Len(turno.pendientes) + 1
      BY <2>1, <2>2, <2>6, ReportEventsAre DEF Event
    <2> QED BY <2>3, <2>4, <2>5, <2>6
  <1>7. ASSUME NEW r \in Requests, RefuseSession(r) \/ CloseSession(r) \/ AnswerAtOnce(r) \/ AcceptTurn(r)
        PROVE  FALSE
    BY <1>7, ServeWrites
  <1>8. CASE TurnText
    <2>1. out' = <<Event("text", owner.req)>> /\ owner.at \in OwnerBusy /\ Say("text", owner.req)
      BY <1>8 DEF TurnText, Say, Emit, OwnerBusy
    <2>2. answered' = answered
      BY <2>1, OwnerBusyWith, SayAnswers DEF Terminals
    <2> QED BY <1>8, <2>1, <2>2 DEF Event
  <1> QED BY <1>1, <1>2, <1>3, <1>4, <1>5, <1>6, <1>7, <1>8 DEF Next, LectorWorks, OwnerWorks
-----------------------------------------------------------------------------
(* What the reader and the owner leave alone.                               *)
LEMMA LectorLeavesOwner ==
  ASSUME LectorWorks \/ EndOfInput \/ \E r \in Requests : Read(r)
  PROVE  /\ owner' = owner /\ turno' = turno /\ turnoActivo' = turnoActivo /\ pausadas' = pausadas
         /\ sesionGenerando' = sesionGenerando /\ sesiones' = sesiones
  BY DEF LectorWorks, EndOfInput, Read, StoreAttachment, DropAttachment, SignalCancel,
         LectorReply, Switch, Enqueue, CloseInput, ownerState, shared

(* The steps of the owner leave the reader where it is.                     *)
LEMMA OwnerLeavesLector ==
  ASSUME OwnerWorks
  PROVE  sent' = sent /\ lector' = lector /\ pedido' = pedido
  BY DEF OwnerWorks, lectorState, ServeLeaves, TurnLeaves, Pop, Idle, LookUpAttachments, Activate,
         SaveRings, TurnPrefill, TurnText, TurnEnd, Consume, Collect, Report, Join, RefuseSession,
         CloseSession, AnswerAtOnce, AcceptTurn

(* The outcome of the turn, and the flag, through the steps of the owner.   *)
LEMMA AskedKept ==
  ASSUME Types, Types', Placed, StopWasAsked, OnlyAskedTurnsAreCancelled, Next
  PROVE  StopWasAsked' /\ OnlyAskedTurnsAreCancelled'
  <1> USE DEF StopWasAsked
  <1>1. pedido \subseteq pedido'
    BY LectorLeavesOwner, OwnerLeavesLector
    DEF Next, LectorWorks, EndOfInput, Read, StoreAttachment, DropAttachment, SignalCancel,
        LectorReply, Switch, Enqueue, CloseInput
  <1>2. OnlyAskedTurnsAreCancelled'
    <2> SUFFICES ASSUME NEW t \in Turns, answered'[t] = "cancelled" PROVE t \in pedido'
      BY DEF OnlyAskedTurnsAreCancelled
    <2>1. t \in Requests
      BY DEF Turns
    <2>2. CASE answered'[t] = answered[t]
      BY <1>1, <2>2 DEF OnlyAskedTurnsAreCancelled
    <2>3. CASE answered'[t] # answered[t]
      <3>1. Report /\ t = owner.req /\ Terminal = "cancelled"
        BY <2>1, <2>3, AnswersGoTo DEF Types
      <3>2. turno.ok /\ turno.reason = "cancelled" /\ owner.at = "report"
        BY <3>1 DEF Terminal, Report
      <3> QED BY <1>1, <3>1, <3>2
    <2> QED BY <2>2, <2>3
  <1>3. CASE LectorWorks \/ EndOfInput \/ \E r \in Requests : Read(r)
    <2>1. owner' = owner /\ turno' = turno /\ turnoActivo' = turnoActivo
      BY <1>3, LectorLeavesOwner
    <2>2. cancelar' /\ turnoActivo' # Nothing => turnoActivo' \in pedido'
      <3>1. CASE cancelar' = cancelar
        BY <1>1, <2>1, <3>1
      <3>2. CASE cancelar' # cancelar
        <4>1. SignalCancel \/ Switch
          BY <1>3, <3>2 DEF LectorWorks, EndOfInput, Read, StoreAttachment, DropAttachment,
                            LectorReply, Enqueue, CloseInput, shared
        <4> QED BY <2>1, <3>2, <4>1 DEF SignalCancel, Switch
      <3> QED BY <3>1, <3>2
    <2> QED BY <1>1, <1>2, <2>1, <2>2
  <1>4. CASE OwnerWorks
    <2>1. pedido' = pedido
      BY <1>4, OwnerLeavesLector
    <2>2. cancelar' /\ turnoActivo' # Nothing => turnoActivo' \in pedido'
      <3>1. CASE cancelar' = cancelar /\ turnoActivo' = turnoActivo
        BY <2>1, <3>1
      <3>2. CASE ~(cancelar' = cancelar /\ turnoActivo' = turnoActivo)
        <4>1. Activate \/ Collect
          BY <1>4, <3>2
          DEF OwnerWorks, ServeLeaves, TurnLeaves, Pop, Idle, LookUpAttachments, SaveRings, TurnPrefill,
              TurnText, TurnEnd, Consume, Report, Join, RefuseSession, CloseSession, AnswerAtOnce, AcceptTurn
        <4> QED BY <4>1 DEF Activate, Collect
      <3> QED BY <3>1, <3>2
    <2>3. turno \in Turnos
      BY DEF Types
    <2>4. CASE LookUpAttachments
      <3>1. owner'.at \in {"activate", "pop"} /\ (owner'.at = "activate" => turno' = [NoTurn EXCEPT !.usados = Usa[owner.req]])
        BY <2>4 DEF LookUpAttachments, OwnerGoes
      <3> QED BY <1>2, <2>2, <3>1 DEF NoTurn
    <2>5. CASE Activate
      BY <1>2, <2>2, <2>5 DEF Activate, OwnerGoes
    <2>6. CASE SaveRings
      <3>1. turno'.ok = turno.ok /\ ~turno.ok /\ owner'.at \in {"run", "consume"}
        BY <2>3, <2>6 DEF SaveRings, OwnerGoes, Turnos
      <3> QED BY <1>2, <2>2, <3>1
    <2>7. CASE TurnPrefill \/ TurnText
      <3>1. turno'.ok = turno.ok /\ owner'.at = "run" /\ owner.at = "run"
        BY <2>3, <2>7 DEF TurnPrefill, TurnText, Turnos
      <3> QED BY <1>2, <2>2, <3>1
    <2>8. CASE TurnEnd
      <3>1. PICK o \in Outcomes : turno' = [turno EXCEPT !.ran = TRUE, !.ok = o.ok, !.reason = o.reason,
                                                        !.generated = o.generated]
        BY <2>8 DEF TurnEnd
      <3>2. turno'.reason = o.reason /\ (o.reason = "cancelled" => cancelar)
        BY <2>3, <3>1 DEF Outcomes, Turnos
      <3>3. owner.at = "run" /\ owner'.at = "consume" /\ owner'.req = owner.req
        BY <2>8 DEF TurnEnd, OwnerGoes
      <3>4. turnoActivo = owner.req /\ owner.req \in Requests
        BY <3>3, OwnerBusyWith DEF Placed, OwnerHolds, ActivePlaces, OwnerBusy
      <3>5. turno'.reason = "cancelled" => owner.req \in pedido
        BY <3>2, <3>4, RuntimeAssumption
      <3> QED BY <1>2, <2>1, <2>2, <3>3, <3>5
    <2>9. CASE Consume \/ Collect
      <3>1. turno'.ok = turno.ok /\ turno'.reason = turno.reason /\ owner'.req = owner.req
            /\ owner.at \in {"consume", "collect"} /\ owner'.at \in {"collect", "report"}
        <4>1. CASE Consume
          BY <4>1 DEF Consume, OwnerGoes
        <4>2. CASE Collect
          BY <2>3, <4>2 DEF Collect, OwnerGoes, Turnos
        <4> QED BY <2>9, <4>1, <4>2
      <3> QED BY <1>2, <2>1, <2>2, <3>1
    <2>10. CASE \/ Pop \/ Idle \/ Report \/ Join
                \/ \E r \in Requests : RefuseSession(r) \/ CloseSession(r) \/ AnswerAtOnce(r) \/ AcceptTurn(r)
      <3>1. owner'.at \in {"serve", "idle", "exit", "pop", "ended", "lookup"}
        <4>1. CASE Pop \/ Idle \/ Report \/ Join
          BY <4>1 DEF OwnerGoes, Pop, Idle, Report, Join
        <4>2. ASSUME NEW r \in Requests, RefuseSession(r) \/ CloseSession(r) \/ AnswerAtOnce(r) \/ AcceptTurn(r)
              PROVE  owner'.at \in {"exit", "pop", "lookup"}
          BY <4>2 DEF OwnerGoes, RefuseSession, CloseSession, AnswerAtOnce, AcceptTurn
        <4> QED BY <2>10, <4>1, <4>2
      <3> QED BY <1>2, <2>2, <3>1
    <2> QED BY <1>4, <2>4, <2>5, <2>6, <2>7, <2>8, <2>9, <2>10 DEF OwnerWorks
  <1> QED BY <1>3, <1>4 DEF Next

(* The turn the owner is in after a step is the one it was in before, or it *)
(* has just been activated; a report leaves it.                             *)
LEMMA OwnerStaysInTurn ==
  ASSUME Types, OwnerWorks, InTurn'
  PROVE  \/ Activate
         \/ /\ SaveRings \/ TurnPrefill \/ TurnText \/ TurnEnd \/ Consume \/ Collect
            /\ InTurn /\ owner'.req = owner.req /\ pausadas' = pausadas
            /\ turno'.usados = turno.usados
  <1>1. CASE Pop \/ Idle \/ LookUpAttachments \/ Report \/ Join
    <2>1. owner'.at \in {"serve", "idle", "exit", "pop", "activate", "ended"}
      BY <1>1 DEF Pop, Idle, LookUpAttachments, Report, Join, OwnerGoes
    <2> QED BY <2>1 DEF InTurn
  <1>2. ASSUME NEW r \in Requests, RefuseSession(r) \/ CloseSession(r) \/ AnswerAtOnce(r) \/ AcceptTurn(r)
        PROVE  FALSE
    <2>1. owner'.at \in {"exit", "pop", "lookup"}
      BY <1>2 DEF RefuseSession, CloseSession, AnswerAtOnce, AcceptTurn, OwnerGoes
    <2> QED BY <2>1 DEF InTurn
  <1>3. CASE SaveRings \/ TurnPrefill \/ TurnText \/ TurnEnd \/ Consume \/ Collect
    <2>1. InTurn /\ owner'.req = owner.req /\ pausadas' = pausadas
      <3>1. CASE SaveRings
        BY <3>1 DEF SaveRings, OwnerGoes, InTurn, TurnLeaves
      <3>2. CASE TurnPrefill \/ TurnText
        BY <3>2 DEF TurnPrefill, TurnText, InTurn, TurnLeaves
      <3>3. CASE TurnEnd
        BY <3>3 DEF TurnEnd, OwnerGoes, InTurn, TurnLeaves
      <3>4. CASE Consume \/ Collect
        BY <3>4 DEF Consume, Collect, OwnerGoes, InTurn
      <3> QED BY <1>3, <3>1, <3>2, <3>3, <3>4
    <2>2. turno'.usados = turno.usados
      <3>1. turno \in Turnos
        BY DEF Types
      <3>2. CASE SaveRings
        BY <3>1, <3>2 DEF SaveRings, Turnos
      <3>3. CASE TurnPrefill \/ TurnText
        BY <3>1, <3>3 DEF TurnPrefill, TurnText, Turnos
      <3>4. CASE TurnEnd
        BY <3>1, <3>4 DEF TurnEnd, Turnos
      <3>5. CASE Consume
        BY <3>5 DEF Consume
      <3>6. CASE Collect
        BY <3>1, <3>6 DEF Collect, Turnos
      <3> QED BY <1>3, <3>2, <3>3, <3>4, <3>5, <3>6
    <2> QED BY <1>3, <2>1, <2>2
  <1> QED BY <1>1, <1>2, <1>3 DEF OwnerWorks

(* A pause is announced by the report, when no turn of the session runs.    *)
LEMMA PausesKept ==
  ASSUME Types, Placed, RunningIsNotPaused, Next
  PROVE  RunningIsNotPaused' /\ PausedIsSilent'
  <1>1. RunningIsNotPaused'
    <2>1. CASE LectorWorks \/ EndOfInput \/ \E r \in Requests : Read(r)
      BY <2>1, LectorLeavesOwner DEF RunningIsNotPaused, InTurn
    <2>2. CASE OwnerWorks
      <3> SUFFICES ASSUME InTurn' PROVE Sesion[owner'.req] \notin pausadas'
        BY DEF RunningIsNotPaused
      <3>1. CASE Activate
        BY <3>1 DEF Activate, OwnerGoes
      <3>2. CASE InTurn /\ owner'.req = owner.req /\ pausadas' = pausadas
        BY <3>2 DEF RunningIsNotPaused
      <3> QED BY <2>2, <3>1, <3>2, OwnerStaysInTurn
    <2> QED BY <2>1, <2>2 DEF Next
  <1>2. PausedIsSilent'
    <2> SUFFICES ASSUME NEW i \in DOMAIN out', out'[i].kind = "text"
                 PROVE  Sesion[out'[i].id] \notin pausadas'
      BY DEF PausedIsSilent
    <2>1. TurnText /\ out'[i].id = owner.req
      BY OnlyTurnsSpeak
    <2>2. InTurn /\ pausadas' = pausadas
      BY <2>1 DEF TurnText, TurnLeaves, InTurn
    <2> QED BY <2>1, <2>2 DEF RunningIsNotPaused
  <1> QED BY <1>1, <1>2

(* What a cancel was told agrees with what its turn was told.               *)
LEMMA ConfirmationsKept ==
  ASSUME Types, Placed, ConfirmationMatchesTerminal, Next
  PROVE  ConfirmationMatchesTerminal'
  <1> SUFFICES ASSUME NEW c \in Requests, Tipo[c] = "cancel"
               PROVE  /\ answered'[c] = "result" => answered'[Objetivo[c]] \in {"cancelled", "error"}
                      /\ answered'[c] = "refused" => answered'[Objetivo[c]] \in {"completed", "error"}
    BY DEF ConfirmationMatchesTerminal
  <1>1. Objetivo[c] \in Requests
    BY RuntimeAssumption
  <1>2. CASE answered'[c] = answered[c]
    <2>1. answered[Objetivo[c]] # "none" => answered'[Objetivo[c]] = answered[Objetivo[c]]
      BY <1>1, AnsweredOnce DEF Open
    <2> QED BY <1>2, <2>1 DEF ConfirmationMatchesTerminal
  <1>3. CASE answered'[c] # answered[c]
    <2>1. CASE LectorReply /\ c = lector.req /\ answered'[c] = lector.reply
      BY <2>1 DEF LectorReply, Placed, LectorHolds
    <2>2. CASE c = owner.req /\ owner.at \in {"serve", "lookup"}
      BY <2>2 DEF Placed, OwnerHolds, OwnerBusy, Queueable
    <2>3. CASE Report /\ c = owner.req
      BY <2>3 DEF Report, Placed, OwnerHolds, OwnerBusy, Queueable
    <2>4. CASE Report /\ Waits(c) /\ answered'[c] = IF turno.reason = "cancelled" THEN "result" ELSE "refused"
      <3>1. Objetivo[c] = owner.req
        BY <2>4 DEF Waits, Placed, CancelsWait, Follows
      <3>2. answered'[owner.req] = Terminal
        BY <2>4, ReportAnswers
      <3> QED BY <2>4, <3>1, <3>2 DEF Terminal
    <2> QED BY <1>3, <2>1, <2>2, <2>3, <2>4, AnswersGoTo
  <1> QED BY <1>2, <1>3
-----------------------------------------------------------------------------
(* The uploads.  One that is stored stays stored: its line is read once.    *)
LEMMA StoredStays ==
  ASSUME Types, Next, NEW a, Stored(a)
  PROVE  Stored(a)'
  <1>1. CASE \E r \in Requests : Read(r)
    <2> PICK r \in Requests : Read(r)
      BY <1>1
    <2>1. r \notin sent /\ sent' = sent \cup {r} /\ lector'.req = r
      BY DEF Read, LectorGoes
    <2> QED BY <2>1 DEF Stored
  <1>2. CASE EndOfInput \/ LectorReply \/ StoreAttachment \/ DropAttachment \/ SignalCancel \/ Switch
             \/ Enqueue \/ CloseInput
    <2>1. sent' = sent /\ lector'.at # "lock"
      BY <1>2 DEF EndOfInput, LectorReply, StoreAttachment, DropAttachment, SignalCancel, Switch, Enqueue,
                  CloseInput, LectorGoes
    <2> QED BY <2>1 DEF Stored
  <1>3. CASE OwnerWorks
    BY <1>3, OwnerLeavesLector DEF Stored
  <1> QED BY <1>1, <1>2, <1>3 DEF Next, LectorWorks

(* Only the reader adds to the uploads, and what it adds was not stored.    *)
LEMMA UploadsChange ==
  ASSUME Types, Placed, Next, NEW a, a \in adjuntos', a \notin adjuntos
  PROVE  /\ StoreAttachment /\ a = lector.req /\ Tipo[a] = "attachment" /\ a \in Requests
         /\ ~Stored(a) /\ Stored(a)' /\ turno' = turno /\ owner' = owner /\ answered' = answered
  <1>1. CASE LectorWorks \/ EndOfInput \/ \E r \in Requests : Read(r)
    <2>1. StoreAttachment
      BY <1>1 DEF LectorWorks, EndOfInput, Read, DropAttachment, SignalCancel, LectorReply, Switch, Enqueue,
                  CloseInput, shared
    <2>2. a = lector.req /\ Tipo[a] = "attachment" /\ lector.at = "lock"
          /\ lector'.at = "reply" /\ sent' = sent
      BY <2>1 DEF StoreAttachment, LectorGoes
    <2>3. a \in Requests /\ a \in sent
      BY <2>2 DEF Placed, LectorHolds, Open
    <2>4. answered' = answered
      BY <2>1, QuietAnswersNothing DEF StoreAttachment
    <2>5. owner' = owner /\ turno' = turno
      BY <2>1 DEF StoreAttachment, ownerState
    <2> QED BY <2>1, <2>2, <2>3, <2>4, <2>5 DEF Stored
  <1>2. CASE OwnerWorks
    <2>1. adjuntos' \subseteq adjuntos
      BY <1>2
      DEF OwnerWorks, ServeLeaves, TurnLeaves, Pop, Idle, LookUpAttachments, Activate, SaveRings, TurnPrefill,
          TurnText, TurnEnd, Consume, Collect, Report, Join, RefuseSession, CloseSession, AnswerAtOnce,
          AcceptTurn
    <2> QED BY <2>1
  <1> QED BY <1>1, <1>2 DEF Next

(* Between its lookup and its report the turn holds what it looked up.      *)
LEMMA SpentByOwner ==
  ASSUME Types, Placed, UploadsAreSpent, OwnerWorks
  PROVE  /\ owner'.at \in TurnPlaces \ {"lookup"} =>
              /\ turno'.usados = Usa[owner'.req]
              /\ \A a \in turno'.usados : Stored(a)
         /\ owner'.at \in {"collect", "report"} /\ Consumes' => turno'.usados \cap adjuntos' = {}
  <1> USE DEF UploadsAreSpent
  <1>0. turno \in Turnos
    BY DEF Types
  <1>1. CASE LookUpAttachments
    <2>1. owner'.at \in {"activate", "pop"} /\ (owner'.at = "activate" =>
             /\ turno' = [NoTurn EXCEPT !.usados = Usa[owner.req]] /\ owner'.req = owner.req
             /\ Usa[owner.req] \subseteq adjuntos)
      BY <1>1 DEF LookUpAttachments, OwnerGoes
    <2>2. owner'.at = "activate" => turno'.usados = Usa[owner.req]
      BY <2>1 DEF NoTurn
    <2> QED BY <2>1, <2>2 DEF TurnPlaces, OwnerBusy
  <1>2. CASE Activate
    <2>1. turno' = turno /\ owner'.req = owner.req /\ owner'.at \in {"run", "save"} /\ owner.at = "activate"
      BY <1>2 DEF Activate, OwnerGoes
    <2> QED BY <2>1 DEF TurnPlaces, OwnerBusy
  <1>3. CASE SaveRings \/ TurnPrefill \/ TurnText \/ TurnEnd
    <2>1. owner'.at \in {"save", "run", "consume"} /\ owner.at \in {"save", "run"} /\ owner'.req = owner.req
      <3>1. CASE SaveRings
        BY <3>1 DEF SaveRings, OwnerGoes
      <3>2. CASE TurnPrefill \/ TurnText
        BY <3>2 DEF TurnPrefill, TurnText
      <3>3. CASE TurnEnd
        BY <3>3 DEF TurnEnd, OwnerGoes
      <3> QED BY <1>3, <3>1, <3>2, <3>3
    <2>2. turno'.usados = turno.usados
      BY <1>3, <2>1, OwnerStaysInTurn DEF InTurn, Activate
    <2> QED BY <2>1, <2>2 DEF TurnPlaces, OwnerBusy
  <1>4. CASE Consume
    <2>1. turno' = turno /\ owner'.req = owner.req /\ owner'.at = "collect" /\ owner.at = "consume"
      BY <1>4 DEF Consume, OwnerGoes
    <2>2. Consumes => adjuntos' = adjuntos \ turno.usados
      BY <1>4 DEF Consume, Consumes
    <2> QED BY <2>1, <2>2 DEF TurnPlaces, OwnerBusy, Consumes
  <1>5. CASE Collect
    <2>1. owner'.req = owner.req /\ owner'.at = "report" /\ owner.at = "collect" /\ adjuntos' = adjuntos
      BY <1>5 DEF Collect, OwnerGoes
    <2>2. turno'.usados = turno.usados /\ turno'.ok = turno.ok /\ turno'.reason = turno.reason
          /\ turno'.generated = turno.generated
      BY <1>0, <1>5 DEF Collect, Turnos
    <2> QED BY <2>1, <2>2 DEF TurnPlaces, OwnerBusy, Consumes
  <1>6. CASE \/ Pop \/ Idle \/ Report \/ Join
             \/ \E r \in Requests : RefuseSession(r) \/ CloseSession(r) \/ AnswerAtOnce(r) \/ AcceptTurn(r)
    <2>1. owner'.at \in {"serve", "idle", "exit", "pop", "ended", "lookup"}
      <3>1. CASE Pop \/ Idle \/ Report \/ Join
        BY <3>1 DEF OwnerGoes, Pop, Idle, Report, Join
      <3>2. ASSUME NEW r \in Requests, RefuseSession(r) \/ CloseSession(r) \/ AnswerAtOnce(r) \/ AcceptTurn(r)
            PROVE  owner'.at \in {"exit", "pop", "lookup"}
        BY <3>2 DEF OwnerGoes, RefuseSession, CloseSession, AnswerAtOnce, AcceptTurn
      <3> QED BY <1>6, <3>1, <3>2
    <2> QED BY <2>1 DEF TurnPlaces, OwnerBusy
  <1> QED BY <1>1, <1>2, <1>3, <1>4, <1>5, <1>6 DEF OwnerWorks

(* What a turn consumed stays consumed.                                     *)
LEMMA SpentKept ==
  ASSUME Types, Placed, UploadsAreSpent, Next
  PROVE  UploadsAreSpent'
  <1> DEFINE Held == owner'.at \in TurnPlaces \ {"lookup"} =>
                       turno'.usados = Usa[owner'.req] /\ \A a \in turno'.usados : Stored(a)
             Gone == owner'.at \in {"collect", "report"} /\ Consumes' => turno'.usados \cap adjuntos' = {}
  <1>1. Held /\ Gone
    <2>1. CASE LectorWorks \/ EndOfInput \/ \E r \in Requests : Read(r)
      <3>1. owner' = owner /\ turno' = turno
        BY <2>1, LectorLeavesOwner
      <3>2. Held
        BY <3>1 DEF UploadsAreSpent
      <3>3. ASSUME owner.at \in {"collect", "report"}, Consumes, NEW a \in turno.usados, a \in adjuntos'
            PROVE  FALSE
        <4>1. Stored(a) /\ a \notin adjuntos
          BY <3>3 DEF UploadsAreSpent, TurnPlaces, OwnerBusy
        <4> QED BY <3>3, <4>1, UploadsChange
      <3>4. Consumes' <=> Consumes
        BY <3>1 DEF Consumes
      <3> QED BY <3>1, <3>2, <3>3, <3>4
    <2>2. CASE OwnerWorks
      BY <2>2, SpentByOwner
    <2> QED BY <2>1, <2>2 DEF Next
  <1>2. \A a \in adjuntos' : Stored(a)' /\ Tipo[a] = "attachment"
    <2> SUFFICES ASSUME NEW a \in adjuntos' PROVE Stored(a)' /\ Tipo[a] = "attachment"
      OBVIOUS
    <2>1. CASE a \in adjuntos
      BY <2>1, StoredStays DEF UploadsAreSpent
    <2>2. CASE a \notin adjuntos
      BY <2>2, UploadsChange
    <2> QED BY <2>1, <2>2
  <1>3. ASSUME NEW t \in Turns, answered'[t] = "completed", NEW a \in Usa[t], Tipo[a] = "attachment"
        PROVE  Stored(a)' /\ a \notin adjuntos'
    <2>1. t \in Requests
      BY DEF Turns
    <2>2. Stored(a) /\ a \notin adjuntos
      <3>1. CASE answered'[t] = answered[t]
        BY <1>3, <3>1 DEF UploadsAreSpent
      <3>2. CASE answered'[t] # answered[t]
        <4>1. Report /\ t = owner.req /\ Terminal = "completed"
          BY <1>3, <2>1, <3>2, AnswersGoTo DEF Types
        <4>2. owner.at = "report" /\ Consumes
          BY <4>1 DEF Report, Terminal, Consumes
        <4> QED BY <1>3, <4>1, <4>2 DEF UploadsAreSpent, TurnPlaces, OwnerBusy
      <3> QED BY <3>1, <3>2
    <2>3. Stored(a)'
      BY <2>2, StoredStays
    <2> QED BY <2>2, <2>3, UploadsChange
  <1>4. Held => (owner'.at \in TurnPlaces \ {"lookup"} => \A a \in turno'.usados : Stored(a)')
    BY StoredStays
  <1> QED BY <1>1, <1>2, <1>3, <1>4 DEF UploadsAreSpent

(* Until a turn consumes it, an upload the client was told of is there.     *)
LEMMA StayKept ==
  ASSUME Types, Placed, UploadsAreSpent, UploadsStay, Next
  PROVE  UploadsStay'
  <1> SUFFICES ASSUME NEW a \in Requests, Tipo[a] = "attachment", Told(a)',
                      \A d \in sent' : Tipo[d] = "attachment_drop" => Objetivo[d] # a,
                      \A t \in Turns : a \in Usa[t] => answered'[t] \in {"none", "error"},
                      ~(owner'.at \in {"collect", "report"} /\ Consumes' /\ a \in turno'.usados)
               PROVE  a \in adjuntos'
    BY DEF UploadsStay
  <1>1. sent \subseteq sent'
    BY LectorLeavesOwner, OwnerLeavesLector
    DEF Next, LectorWorks, EndOfInput, Read, StoreAttachment, DropAttachment, SignalCancel,
        LectorReply, Switch, Enqueue, CloseInput
  <1>2. \A d \in sent : Tipo[d] = "attachment_drop" => Objetivo[d] # a
    BY <1>1
  <1>3. \A t \in Turns : a \in Usa[t] => answered[t] \in {"none", "error"}
    BY AnsweredOnce DEF Turns, Open
  <1>4. Told(a) \/ (StoreAttachment /\ a = lector.req /\ a \in adjuntos')
    <2>1. CASE answered'[a] = "result" /\ answered[a] # "result"
      <3>1. Tipo[a] \notin Queueable /\ Tipo[a] # "cancel"
        BY DEF Queueable
      <3>2. ~(owner.at \in {"serve", "lookup", "report"} /\ a = owner.req)
        BY <3>1 DEF Placed, OwnerHolds, OwnerBusy
      <3>3. ~Waits(a)
        BY <3>1 DEF Waits, Placed, CancelsWait, Follows
      <3>4. LectorReply /\ a = lector.req /\ answered'[a] = lector.reply
        BY <2>1, <3>2, <3>3, AnswersGoTo DEF Report
      <3> QED BY <2>1, <3>4 DEF Told, LectorReply
    <2>2. CASE answered[a] = "result"
      BY <2>2 DEF Told
    <2>3. CASE lector'.at = "reply" /\ lector'.req = a /\ lector'.reply = "result"
      <3>1. CASE OwnerWorks
        BY <2>3, <3>1, OwnerLeavesLector DEF Told
      <3>2. CASE \E r \in Requests : Read(r)
        <4> PICK r \in Requests : Read(r)
          BY <3>2
        <4> QED BY <2>3 DEF Read, LectorGoes
      <3>3. CASE EndOfInput \/ LectorReply \/ SignalCancel \/ Switch \/ Enqueue \/ CloseInput
        BY <2>3, <3>3 DEF EndOfInput, LectorReply, SignalCancel, Switch, Enqueue, CloseInput, LectorGoes
      <3>4. CASE DropAttachment
        BY <2>3, <3>4 DEF DropAttachment, LectorGoes
      <3>5. CASE StoreAttachment
        BY <2>3, <3>5 DEF StoreAttachment, LectorGoes
      <3> QED BY <3>1, <3>2, <3>3, <3>4, <3>5 DEF Next, LectorWorks
    <2> QED BY <2>1, <2>2, <2>3 DEF Told
  <1>5. ASSUME Told(a) PROVE a \in adjuntos'
    <2>1. CASE owner.at \in {"collect", "report"} /\ Consumes /\ a \in turno.usados
      <3>1. CASE Report
        <4>1. owner.req \in Turns /\ a \in Usa[owner.req] /\ owner.req \in Requests
          BY <2>1, <3>1 DEF Placed, OwnerHolds, UploadsAreSpent, TurnPlaces, OwnerBusy, Turns
        <4>2. answered'[owner.req] = Terminal /\ Terminal \in {"completed", "cancelled"}
          BY <2>1, <3>1, ReportAnswers DEF Terminal, Consumes
        <4> QED BY <4>1, <4>2
      <3>2. CASE Collect
        <4>1. owner'.at = "report" /\ turno' = [turno EXCEPT !.pendientes = cancelPend, !.pausar = pausaPendiente]
          BY <3>2 DEF Collect, OwnerGoes
        <4>2. Consumes' /\ turno'.usados = turno.usados
          BY <2>1, <4>1 DEF Consumes, Types, Turnos
        <4> QED BY <2>1, <4>1, <4>2
      <3>3. CASE LectorWorks \/ EndOfInput \/ \E r \in Requests : Read(r)
        <4>1. owner' = owner /\ turno' = turno
          BY <3>3, LectorLeavesOwner
        <4> QED BY <2>1, <4>1 DEF Consumes
      <3>4. ASSUME NEW r \in Requests, RefuseSession(r) \/ CloseSession(r) \/ AnswerAtOnce(r) \/ AcceptTurn(r)
            PROVE  owner.at = "serve"
        BY <3>4 DEF RefuseSession, CloseSession, AnswerAtOnce, AcceptTurn
      <3>5. ~(Pop \/ Idle \/ LookUpAttachments \/ Activate \/ SaveRings \/ TurnPrefill \/ TurnText \/ TurnEnd
                \/ Consume \/ Join)
        BY <2>1 DEF Pop, Idle, LookUpAttachments, Activate, SaveRings, TurnPrefill, TurnText, TurnEnd, Consume, Join
      <3> QED BY <2>1, <3>1, <3>2, <3>3, <3>4, <3>5 DEF Next, OwnerWorks
    <2>2. CASE ~(owner.at \in {"collect", "report"} /\ Consumes /\ a \in turno.usados)
      <3>1. a \in adjuntos
        BY <1>2, <1>3, <1>5, <2>2 DEF UploadsStay
      <3>2. CASE adjuntos' = adjuntos
        BY <3>1, <3>2
      <3>3. CASE StoreAttachment
        BY <3>1, <3>3 DEF StoreAttachment
      <3>4. CASE DropAttachment
        <4>1. lector.req \in sent /\ Tipo[lector.req] = "attachment_drop"
          BY <3>4 DEF DropAttachment, Placed, LectorHolds, Open
        <4> QED BY <1>2, <3>1, <3>4, <4>1 DEF DropAttachment
      <3>5. CASE Consume
        <4>1. turno' = turno /\ owner'.at = "collect"
          BY <3>5 DEF Consume, OwnerGoes
        <4>2. ~(Consumes /\ a \in turno.usados)
          BY <4>1 DEF Consumes
        <4> QED BY <3>1, <3>5, <4>2 DEF Consume, Consumes
      <3> QED BY <3>2, <3>3, <3>4, <3>5
          DEF Next, LectorWorks, OwnerWorks, shared, ServeLeaves, TurnLeaves, EndOfInput, Read, SignalCancel,
              LectorReply, Switch, Enqueue, CloseInput, Pop, Idle, LookUpAttachments, Activate, SaveRings,
              TurnPrefill, TurnText, TurnEnd, Collect, Report, Join, RefuseSession, CloseSession,
              AnswerAtOnce, AcceptTurn
    <2> QED BY <2>1, <2>2
  <1> QED BY <1>4, <1>5
-----------------------------------------------------------------------------
(* The invariant of the runtime.                                            *)
LEMMA StepKeeps ==
  ASSUME IInv, Next
  PROVE  IInv'
  <1>1. Types /\ Placed /\ StopWasAsked /\ RunningIsNotPaused /\ UploadsAreSpent /\ UploadsStay
        /\ OnlyAskedTurnsAreCancelled /\ ConfirmationMatchesTerminal
    BY DEF IInv
  <1>2. Types'
    BY <1>1, LectorKeepsTypes, OwnerKeepsTypes DEF Next
  <1>3. Placed'
    BY <1>1, <1>2, LectorKeepsPlaced, OwnerKeepsPlaced DEF Next
  <1>4. StopWasAsked' /\ OnlyAskedTurnsAreCancelled'
    BY <1>1, <1>2, AskedKept
  <1>5. RunningIsNotPaused' /\ PausedIsSilent'
    BY <1>1, PausesKept
  <1>6. UploadsAreSpent' /\ UploadsStay'
    BY <1>1, SpentKept, StayKept
  <1>7. ConfirmationMatchesTerminal'
    BY <1>1, ConfirmationsKept
  <1> QED BY <1>2, <1>3, <1>4, <1>5, <1>6, <1>7 DEF IInv

(* The invariant says nothing of other variables.                           *)
LEMMA StutterKeeps ==
  ASSUME IInv, UNCHANGED vars
  PROVE  IInv'
  <1> USE DEF vars, shared
  <1>1. Types' /\ Placed'
    BY DEF IInv, Types, Placed, LectorHolds, QueueHolds, OwnerHolds, CancelsWait, UnreadUnanswered,
           Follows, Open
  <1>2. StopWasAsked' /\ RunningIsNotPaused'
    BY DEF IInv, StopWasAsked, RunningIsNotPaused, InTurn
  <1>3. UploadsAreSpent' /\ UploadsStay'
    BY DEF IInv, UploadsAreSpent, UploadsStay, Stored, Told, Consumes
  <1>4. OnlyAskedTurnsAreCancelled' /\ ConfirmationMatchesTerminal' /\ PausedIsSilent'
    BY DEF IInv, OnlyAskedTurnsAreCancelled, ConfirmationMatchesTerminal, PausedIsSilent
  <1> QED BY <1>1, <1>2, <1>3, <1>4 DEF IInv

(* The invariant holds in every state of every run.                         *)
THEOREM Invariant == Spec => []IInv
  <1>1. Init => IInv
    BY InitEstablishes
  <1>2. IInv /\ [Next]_vars => IInv'
    BY StepKeeps, StutterKeeps
  <1> QED BY <1>1, <1>2, PTL DEF Spec

(* Every variable keeps its type, for any requests and clients.             *)
THEOREM TypeCorrect == Spec => []TypeOK
  <1>1. IInv => TypeOK
    <2> SUFFICES ASSUME IInv PROVE TypeOK
      OBVIOUS
    <2>1. Types /\ OwnerHolds
      BY DEF IInv, Placed
    <2>2. lector.at \in LectorPlaces /\ lector.req \in Requests \cup {Nothing}
          /\ owner.req \in Requests \cup {Nothing}
      BY <2>1 DEF Types
    <2>3. turno.texts \in 0 .. MaxText /\ turno.reason \in Motivos
      BY <2>1 DEF Types, Turnos
    <2>4. InTurn => owner.req \in Turns /\ Sesion[owner.req] \in sesiones
      BY <2>1 DEF OwnerHolds, InTurn, TurnPlaces, OwnerBusy
    <2> QED BY <2>1, <2>2, <2>3, <2>4 DEF Types, TypeOK, LectorPlaces
  <1> QED BY <1>1, Invariant, PTL

(* Only a turn somebody asked to stop ends as cancelled.                    *)
THEOREM CancelledWasAsked == Spec => []OnlyAskedTurnsAreCancelled
  <1>1. IInv => OnlyAskedTurnsAreCancelled
    BY DEF IInv
  <1> QED BY <1>1, Invariant, PTL

(* A cancel that was accepted is not left behind by its turn.               *)
THEOREM CancelsAreConfirmed == Spec => []CancelsFollowTheirTurn
  <1>1. IInv => CancelsFollowTheirTurn
    <2> SUFFICES ASSUME IInv,
                        NEW c \in {cancelPend[i] : i \in DOMAIN cancelPend} \cup
                                  {turno.pendientes[i] : i \in DOMAIN turno.pendientes}
                 PROVE  /\ InTurn /\ Objetivo[c] = owner.req
                        /\ answered[c] = "none" /\ answered[owner.req] = "none"
      BY DEF CancelsFollowTheirTurn
    <2>1. InTurn /\ Follows(c)
      BY DEF IInv, Placed, CancelsWait, InTurn, ActivePlaces
    <2>2. answered[owner.req] = "none"
      BY <2>1 DEF IInv, Placed, OwnerHolds, OwnerBusy, InTurn, Open
    <2> QED BY <2>1, <2>2 DEF Follows, Open
  <1> QED BY <1>1, Invariant, PTL

(* What the client is told of a cancel agrees with what it is told of the   *)
(* turn.                                                                    *)
THEOREM ConfirmationsAreTrue == Spec => []ConfirmationMatchesTerminal
  <1>1. IInv => ConfirmationMatchesTerminal
    BY DEF IInv
  <1> QED BY <1>1, Invariant, PTL

(* A session announced as paused says nothing more.                         *)
THEOREM PausesAreSilent == Spec => []PausedIsSilent
  <1>1. IInv => PausedIsSilent
    BY DEF IInv
  <1> QED BY <1>1, Invariant, PTL

(* An upload serves one completed turn and stays until then.                *)
THEOREM UploadsServeOnce == Spec => []AttachmentsServeOnce
  <1>1. IInv => AttachmentsServeOnce
    <2> SUFFICES ASSUME IInv, NEW a \in Requests, Tipo[a] = "attachment"
                 PROVE  /\ (\E t \in Turns : a \in Usa[t] /\ answered[t] = "completed") => a \notin adjuntos
                        /\ ( /\ answered[a] = "result"
                             /\ \A d \in sent : Tipo[d] = "attachment_drop" => Objetivo[d] # a
                             /\ \A t \in Turns : a \in Usa[t] => answered[t] \in {"none", "error"}
                             /\ ~(owner.at \in {"collect", "report"} /\ a \in turno.usados) )
                           => a \in adjuntos
      BY DEF AttachmentsServeOnce
    <2>1. (\E t \in Turns : a \in Usa[t] /\ answered[t] = "completed") => a \notin adjuntos
      BY DEF IInv, UploadsAreSpent
    <2>2. ASSUME answered[a] = "result",
                 \A d \in sent : Tipo[d] = "attachment_drop" => Objetivo[d] # a,
                 \A t \in Turns : a \in Usa[t] => answered[t] \in {"none", "error"},
                 ~(owner.at \in {"collect", "report"} /\ a \in turno.usados)
          PROVE  a \in adjuntos
      BY <2>2 DEF IInv, UploadsStay, Told
    <2> QED BY <2>1, <2>2
  <1> QED BY <1>1, Invariant, PTL
-----------------------------------------------------------------------------
(* The refinement.  The status a client can tell of a request, and whose    *)
(* text it reads, as RequestServer is instantiated with them.               *)
StatusOf(r) ==
  CASE answered[r] # "none" -> "answered"
    [] r \notin sent -> "unsent"
    [] InTurn /\ owner.req = r -> "running"
    [] OTHER -> "pending"

Speaking == IF out # <<>> /\ out[1].kind = "text" THEN out[1].id ELSE "nobody"

(* The cases exclude each other: who runs has been read and not answered.   *)
LEMMA StatusCases ==
  ASSUME NEW r \in Requests, Placed
  PROVE  /\ answered[r] # "none" => StatusOf(r) = "answered"
         /\ answered[r] = "none" /\ r \notin sent => StatusOf(r) = "unsent"
         /\ Open(r) /\ InTurn /\ owner.req = r => StatusOf(r) = "running"
         /\ Open(r) /\ ~(InTurn /\ owner.req = r) => StatusOf(r) = "pending"
  <1>1. answered[r] # "none" => r \in sent
    BY DEF Placed, UnreadUnanswered
  <1>2. InTurn /\ owner.req = r => Open(r)
    BY DEF Placed, OwnerHolds, OwnerBusy, InTurn
  <1>3. CASE answered[r] # "none"
    BY <1>1, <1>2, <1>3 DEF StatusOf, Open
  <1>4. CASE answered[r] = "none" /\ r \notin sent
    BY <1>1, <1>2, <1>4 DEF StatusOf, Open
  <1>5. CASE Open(r) /\ InTurn /\ owner.req = r
    BY <1>5 DEF StatusOf, Open
  <1>6. CASE Open(r) /\ ~(InTurn /\ owner.req = r)
    BY <1>6 DEF StatusOf, Open
  <1> QED BY <1>3, <1>4, <1>5, <1>6 DEF Open

(* The same of the state after a step.                                      *)
LEMMA NextStatusCases ==
  ASSUME NEW r \in Requests, Placed'
  PROVE  /\ answered'[r] # "none" => StatusOf(r)' = "answered"
         /\ answered'[r] = "none" /\ r \notin sent' => StatusOf(r)' = "unsent"
         /\ answered'[r] = "none" /\ r \in sent' /\ InTurn' /\ owner'.req = r => StatusOf(r)' = "running"
         /\ answered'[r] = "none" /\ r \in sent' /\ ~(InTurn' /\ owner'.req = r) => StatusOf(r)' = "pending"
  <1>1. answered'[r] # "none" => r \in sent'
    BY DEF Placed, UnreadUnanswered
  <1>2. InTurn' /\ owner'.req = r => r \in sent' /\ answered'[r] = "none"
    BY DEF Placed, OwnerHolds, OwnerBusy, InTurn, Open
  <1>3. CASE answered'[r] # "none"
    BY <1>1, <1>2, <1>3 DEF StatusOf
  <1>4. CASE answered'[r] = "none" /\ r \notin sent'
    BY <1>1, <1>2, <1>4 DEF StatusOf
  <1>5. CASE answered'[r] = "none" /\ r \in sent' /\ InTurn' /\ owner'.req = r
    BY <1>5 DEF StatusOf
  <1>6. CASE answered'[r] = "none" /\ r \in sent' /\ ~(InTurn' /\ owner'.req = r)
    BY <1>6 DEF StatusOf
  <1> QED BY <1>3, <1>4, <1>5, <1>6

(* A step writes a sequence of events.                                      *)
LEMMA WritesSequence ==
  ASSUME Types, Placed, Next, out' # <<>>
  PROVE  1 \in DOMAIN out'
  <1>1. CASE LectorReply \/ LookUpAttachments \/ Activate \/ TurnPrefill \/ TurnText
    <2>1. Quiet \/ \E k, r : Say(k, r)
      BY <1>1 DEF LectorReply, LookUpAttachments, Activate, TurnPrefill, TurnText
    <2>2. out' = <<>> \/ \E k, r : out' = <<Event(k, r)>>
      BY <2>1 DEF Say, Quiet, Emit
    <2> QED BY <2>2
  <1>2. CASE \/ EndOfInput \/ StoreAttachment \/ DropAttachment \/ SignalCancel \/ Switch
             \/ Enqueue \/ CloseInput \/ \E r \in Requests : Read(r)
    BY <1>2 DEF EndOfInput, StoreAttachment, DropAttachment, SignalCancel, Switch, Enqueue, CloseInput, Read,
                Quiet, Emit
  <1>3. CASE Pop \/ Idle \/ SaveRings \/ TurnEnd \/ Consume \/ Collect \/ Join
    BY <1>3 DEF Pop, Idle, SaveRings, TurnEnd, Consume, Collect, Join, Quiet, Emit
  <1>4. CASE Report
    <2>1. out' = ReportEvents
      BY <1>4 DEF Report, Emit, ReportEvents
    <2>2. Len(turno.pendientes) \in Nat
      BY ReportEventsAre
    <2>3. 1 \in 1 .. Len(turno.pendientes) \/ Len(turno.pendientes) + 1 = 1
      BY <2>2
    <2> QED BY <2>1, <2>3, ReportEventsAre
  <1>5. ASSUME NEW r \in Requests, RefuseSession(r) \/ CloseSession(r) \/ AnswerAtOnce(r) \/ AcceptTurn(r)
        PROVE  1 \in DOMAIN out'
    BY <1>5, ServeWrites
  <1> QED BY <1>1, <1>2, <1>3, <1>4, <1>5 DEF Next, LectorWorks, OwnerWorks

(* A client reads text in the steps that write text, and only then.         *)
LEMMA SpeakingCases ==
  ASSUME Types, Placed, Next
  PROVE  /\ TurnText => Speaking' = owner.req
         /\ ~TurnText => Speaking' = "nobody"
         /\ answered' # answered => Speaking' = "nobody"
  <1>1. ASSUME out' # <<>>, out'[1].kind = "text"
        PROVE  TurnText /\ answered' = answered
    BY <1>1, WritesSequence, OnlyTurnsSpeak
  <1>2. ASSUME TurnText PROVE Speaking' = owner.req
    <2>1. out' = <<Event("text", owner.req)>>
      BY <1>2 DEF TurnText, Say, Emit
    <2>2. out' # <<>> /\ out'[1].kind = "text" /\ out'[1].id = owner.req
      BY <2>1 DEF Event
    <2> QED BY <2>2 DEF Speaking
  <1> QED BY <1>1, <1>2 DEF Speaking

(* A step that answers somebody answers those that wait or run.             *)
LEMMA AnsweringMaps ==
  ASSUME IInv, Next, answered' # answered
  PROVE  \E R \in SUBSET Requests :
           /\ R # {} /\ \A r \in R : StatusOf(r) \in {"pending", "running"}
           /\ \A r \in Requests : StatusOf(r)' = IF r \in R THEN "answered" ELSE StatusOf(r)
  <1> DEFINE R == {r \in Requests : answered'[r] # answered[r]}
  <1>1. Types /\ Placed /\ IInv'
    BY StepKeeps DEF IInv
  <1>2. answered \in [Requests -> AnswerKinds] /\ answered' \in [Requests -> AnswerKinds]
    BY <1>1 DEF IInv, Types
  <1>3. R # {}
    BY <1>2
  <1>4. \A r \in R : Open(r) /\ answered'[r] # "none"
    BY <1>1, AnsweredOnce DEF Open
  <1>5. \A r \in R : StatusOf(r) \in {"pending", "running"} /\ StatusOf(r)' = "answered"
    BY <1>1, <1>4, StatusCases, NextStatusCases DEF IInv
  <1>6. PICK q \in R : TRUE
    BY <1>3
  <1>7. sent' = sent /\ \A r \in Requests \ R :
          (InTurn' /\ owner'.req = r) <=> (InTurn /\ owner.req = r)
    <2>1. CASE LectorReply
      BY <2>1, LectorLeavesOwner DEF LectorReply, LectorWorks, InTurn
    <2>2. CASE owner.at \in {"serve", "lookup"} /\ q = owner.req
      <3>1. OwnerWorks
        <4>1. ~(LectorWorks \/ EndOfInput \/ \E r \in Requests : Read(r))
          <5>1. q # lector.req
            BY <1>1, <2>2 DEF Placed, OwnerHolds, OwnerBusy
          <5>2. ASSUME LectorWorks \/ EndOfInput \/ \E r \in Requests : Read(r)
                PROVE  answered'[q] = answered[q]
            <6>1. Quiet \/ LectorReply
              BY <5>2 DEF LectorWorks, EndOfInput, Read, StoreAttachment, DropAttachment, SignalCancel,
                          Switch, Enqueue, CloseInput
            <6>2. CASE Quiet
              BY <1>1, <6>2, QuietAnswersNothing
            <6>3. CASE LectorReply
              <7>1. lector.req \in Requests /\ Say(lector.reply, lector.req)
                BY <1>1, <6>3 DEF LectorReply, Placed, LectorHolds
              <7> QED BY <1>1, <1>2, <5>1, <7>1, SayAnswers
            <6> QED BY <6>1, <6>2, <6>3
          <5> QED BY <1>6, <5>2
        <4> QED BY <4>1 DEF Next
      <3>2. ~InTurn /\ ~InTurn'
        <4>1. ~InTurn
          BY <2>2 DEF InTurn
        <4>2. ~Activate
          BY <2>2 DEF Activate
        <4> QED BY <1>1, <3>1, <4>1, <4>2, OwnerStaysInTurn
      <3> QED BY <3>1, <3>2, OwnerLeavesLector
    <2>3. CASE Report
      <3>1. owner.req \in R
        <4>1. answered'[owner.req] = Terminal /\ Terminal # "none" /\ owner.req \in Requests
          BY <1>1, <2>3, ReportAnswers
        <4>2. answered[owner.req] = "none"
          BY <1>1, <2>3 DEF Report, Placed, OwnerHolds, OwnerBusy, Open
        <4> QED BY <4>1, <4>2
      <3>2. owner'.at = "pop"
        BY <2>3 DEF Report, OwnerGoes
      <3> QED BY <2>3, <3>1, <3>2, OwnerLeavesLector DEF OwnerWorks, InTurn
    <2> QED BY <1>1, <1>6, <2>1, <2>2, <2>3, AnswersGoTo
  <1>8. \A r \in Requests \ R : answered'[r] = answered[r]
    OBVIOUS
  <1>9. \A r \in Requests \ R : StatusOf(r)' = StatusOf(r)
    BY <1>7, <1>8 DEF StatusOf
  <1> QED BY <1>3, <1>5, <1>9

(* What a step has to do to be one of the server's.                         *)
LEMMA InitMaps ==
  ASSUME Init
  PROVE  Server!Init
  <1>1. \A r \in Requests : answered[r] = "none" /\ r \notin sent /\ ~InTurn
    BY DEF Init, InTurn
  <1>2. out = <<>>
    BY DEF Init
  <1> QED BY <1>1, <1>2 DEF Server!Init, Server!Nobody

(* A request that becomes pending was accepted.                             *)
LEMMA AcceptMaps ==
  ASSUME NEW r \in Requests, StatusOf(r) = "unsent", StatusOf(r)' = "pending", Speaking' = "nobody",
         \A q \in Requests \ {r} : StatusOf(q)' = StatusOf(q)
  PROVE  Server!Accept(r)
  <1>1. [q \in Requests |-> StatusOf(q)'] = [[q \in Requests |-> StatusOf(q)] EXCEPT ![r] = "pending"]
    <2>1. \A q \in Requests : StatusOf(q)' = IF q = r THEN "pending" ELSE StatusOf(q)
      OBVIOUS
    <2> QED BY ONLY <2>1
  <1> QED BY <1>1 DEF Server!Accept, Server!Nobody, StatusOf, Speaking

(* A turn that becomes the one that runs was started.                       *)
LEMMA StartMaps ==
  ASSUME NEW r \in Turns, StatusOf(r) = "pending", StatusOf(r)' = "running", Speaking' = "nobody",
         \A q \in Requests : StatusOf(q) # "running",
         \A q \in Requests \ {r} : StatusOf(q)' = StatusOf(q)
  PROVE  Server!Start(r)
  <1>1. r \in Requests
    BY DEF Turns
  <1>2. Server!Running = {}
    BY DEF Server!Running, StatusOf
  <1>3. [q \in Requests |-> StatusOf(q)'] = [[q \in Requests |-> StatusOf(q)] EXCEPT ![r] = "running"]
    BY <1>1
  <1> QED BY <1>1, <1>2, <1>3 DEF Server!Start, Server!Nobody, StatusOf, Speaking

(* Text of the turn that runs is speech.                                    *)
LEMMA SpeakMaps ==
  ASSUME NEW r \in Requests, StatusOf(r) = "running", Speaking' = r,
         \A q \in Requests : StatusOf(q)' = StatusOf(q)
  PROVE  Server!Speak(r)
  BY DEF Server!Speak, StatusOf, Speaking

(* A step the statuses do not show is silent.                               *)
LEMMA SilenceMaps ==
  ASSUME Speaking' = "nobody", \A q \in Requests : StatusOf(q)' = StatusOf(q)
  PROVE  Server!Silence
  BY DEF Server!Silence, Server!Nobody, StatusOf, Speaking

(* Requests that waited or ran, and are answered together.                  *)
LEMMA AnswerMaps ==
  ASSUME NEW R \in SUBSET Requests, R # {}, Speaking' = "nobody",
         \A r \in R : StatusOf(r) \in {"pending", "running"},
         \A r \in Requests : StatusOf(r)' = IF r \in R THEN "answered" ELSE StatusOf(r)
  PROVE  R \in SUBSET (Server!Waiting \cup Server!Running) /\ Server!Answer(R)
  <1>1. R \in SUBSET (Server!Waiting \cup Server!Running)
    BY DEF Server!Waiting, Server!Running, StatusOf
  <1>2. Server!Answer(R)
    BY DEF Server!Answer, Server!Nobody, StatusOf, Speaking
  <1> QED BY <1>1, <1>2

(* The steps that answer nobody.                                            *)
LEMMA QuietStepMaps ==
  ASSUME IInv, Next, answered' = answered
  PROVE  Server!Next
  <1>1. Types /\ Placed /\ Types' /\ Placed'
    BY StepKeeps DEF IInv
  <1>2. CASE \E r \in Requests : Read(r)
    <2>1. PICK r \in Requests : Read(r)
      BY <1>2
    <2>2. sent' = sent \cup {r} /\ r \notin sent /\ owner' = owner /\ ~TurnText
      BY <2>1 DEF Read, TurnText, TurnLeaves, lectorState, ownerState
    <2>3. answered[r] = "none" /\ ~(InTurn /\ owner.req = r)
      BY <1>1, <2>2 DEF Placed, UnreadUnanswered, OwnerHolds, OwnerBusy, InTurn, Open
    <2>4. InTurn' <=> InTurn
      BY <2>2 DEF InTurn
    <2>5. StatusOf(r) = "unsent" /\ StatusOf(r)' = "pending"
      BY <1>1, <2>2, <2>3, <2>4, StatusCases, NextStatusCases
    <2>6. \A q \in Requests \ {r} : StatusOf(q)' = StatusOf(q)
      BY <2>2, <2>4 DEF StatusOf
    <2>7. Speaking' = "nobody"
      BY <1>1, <2>2, SpeakingCases
    <2> QED BY <2>5, <2>6, <2>7, AcceptMaps DEF Server!Next
  <1>3. CASE Activate
    <2>1. owner.at = "activate" /\ owner'.at \in {"run", "save"} /\ owner'.req = owner.req
          /\ sent' = sent /\ ~TurnText
      BY <1>3 DEF Activate, OwnerGoes, TurnText, lectorState
    <2>2. PICK t \in Turns : t = owner.req /\ Open(t)
      BY <1>1, <2>1 DEF Placed, OwnerHolds, OwnerBusy, TurnPlaces
    <2>3. ~InTurn /\ InTurn' /\ t \in Requests
      BY <2>1, <2>2 DEF InTurn, Turns
    <2>4. StatusOf(t) = "pending" /\ StatusOf(t)' = "running"
      BY <1>1, <2>1, <2>2, <2>3, StatusCases, NextStatusCases DEF Open
    <2>5. \A q \in Requests : StatusOf(q) # "running"
      BY <2>3 DEF StatusOf
    <2>6. \A q \in Requests \ {t} : StatusOf(q)' = StatusOf(q)
      BY <2>1, <2>2, <2>3 DEF StatusOf
    <2>7. Speaking' = "nobody"
      BY <1>1, <2>1, SpeakingCases
    <2>8. Server!Start(t)
      BY <2>4, <2>5, <2>6, <2>7, StartMaps
    <2> QED BY <2>3, <2>8 DEF Server!Next
  <1>4. CASE TurnText
    <2>1. sent' = sent /\ owner' = owner /\ owner.at = "run"
      BY <1>4 DEF TurnText, TurnLeaves, lectorState
    <2>2. owner.req \in Requests /\ Open(owner.req) /\ InTurn
      BY <1>1, <2>1 DEF Placed, OwnerHolds, OwnerBusy, InTurn
    <2>3. StatusOf(owner.req) = "running"
      BY <1>1, <2>2, StatusCases
    <2>4. \A q \in Requests : StatusOf(q)' = StatusOf(q)
      BY <2>1 DEF StatusOf, InTurn
    <2>5. Speaking' = owner.req
      BY <1>1, <1>4, SpeakingCases
    <2>6. Server!Speak(owner.req)
      BY <2>2, <2>3, <2>4, <2>5, SpeakMaps
    <2> QED BY <2>2, <2>6 DEF Server!Next
  <1>5. CASE ~(\E r \in Requests : Read(r)) /\ ~Activate /\ ~TurnText
    <2>1. sent' = sent
      BY <1>5, <1>1 DEF Next, EndOfInput, LectorWorks, OwnerWorks, StoreAttachment, DropAttachment, SignalCancel,
         LectorReply, Switch, Enqueue, CloseInput, Pop, Idle, LookUpAttachments, SaveRings,
         TurnPrefill, TurnEnd, Consume, Collect, Report, Join, RefuseSession, CloseSession, AnswerAtOnce,
         AcceptTurn, lectorState, TurnLeaves, ServeLeaves
    <2>2. \A r \in Requests : (InTurn' /\ owner'.req = r) <=> (InTurn /\ owner.req = r)
      <3>1. CASE EndOfInput \/ LectorWorks
        BY <3>1, LectorLeavesOwner DEF InTurn
      <3>2. CASE OwnerWorks /\ ~Report
        <4>1. CASE InTurn
          <5>1. SaveRings \/ TurnPrefill \/ TurnText \/ TurnEnd \/ Consume \/ Collect
            <6>1. owner.at \notin {"serve", "pop", "idle", "lookup", "activate", "exit"}
              BY <4>1 DEF InTurn
            <6>2. \A r \in Requests : ~RefuseSession(r) /\ ~CloseSession(r) /\ ~AnswerAtOnce(r) /\ ~AcceptTurn(r)
              BY <6>1 DEF RefuseSession, CloseSession, AnswerAtOnce, AcceptTurn
            <6>3. ~Pop /\ ~Idle /\ ~LookUpAttachments /\ ~Activate /\ ~Join
              BY <6>1 DEF Pop, Idle, LookUpAttachments, Activate, Join
            <6> QED BY <3>2, <6>2, <6>3 DEF OwnerWorks
          <5>2. CASE TurnPrefill \/ TurnText
            BY <4>1, <5>2 DEF TurnPrefill, TurnText, InTurn
          <5>3. CASE SaveRings \/ TurnEnd \/ Consume \/ Collect
            <6>1. owner' = [at |-> "run", req |-> owner.req] \/ owner' = [at |-> "consume", req |-> owner.req]
                  \/ owner' = [at |-> "collect", req |-> owner.req] \/ owner' = [at |-> "report", req |-> owner.req]
              BY <5>3 DEF SaveRings, TurnEnd, Consume, Collect, OwnerGoes
            <6> QED BY <4>1, <6>1 DEF InTurn
          <5> QED BY <5>1, <5>2, <5>3
        <4>2. CASE ~InTurn
          BY <1>1, <1>5, <3>2, <4>2, OwnerStaysInTurn
        <4> QED BY <4>1, <4>2
      <3>3. CASE Report
        <4>1. answered'[owner.req] = Terminal /\ Terminal # "none" /\ owner.req \in Requests
          BY <1>1, <3>3, ReportAnswers
        <4>2. answered[owner.req] = "none"
          BY <1>1, <3>3 DEF Report, Placed, OwnerHolds, OwnerBusy, Open
        <4> QED BY <4>1, <4>2
      <3> QED BY <1>5, <3>1, <3>2, <3>3 DEF Next
    <2>3. \A q \in Requests : StatusOf(q)' = StatusOf(q)
      BY <2>1, <2>2 DEF StatusOf
    <2>4. Speaking' = "nobody"
      BY <1>1, <1>5, SpeakingCases
    <2> QED BY <2>3, <2>4, SilenceMaps DEF Server!Next
  <1> QED BY <1>2, <1>3, <1>4, <1>5

(* Every step is one of the server's, or leaves what its client sees.       *)
LEMMA StepMaps ==
  ASSUME IInv, [Next]_vars
  PROVE  [Server!Next]_(Server!vars)
  <1>1. CASE UNCHANGED vars
    <2>1. \A q \in Requests : StatusOf(q)' = StatusOf(q)
      BY <1>1 DEF vars, StatusOf, InTurn
    <2>2. Speaking' = Speaking
      BY <1>1 DEF vars, Speaking
    <2> QED BY <2>1, <2>2 DEF Server!vars, StatusOf, Speaking
  <1>2. CASE Next /\ answered' = answered
    BY <1>2, QuietStepMaps
  <1>3. CASE Next /\ answered' # answered
    <2>1. Speaking' = "nobody"
      BY <1>3, SpeakingCases DEF IInv
    <2>2. PICK R \in SUBSET Requests :
            /\ R # {} /\ \A r \in R : StatusOf(r) \in {"pending", "running"}
            /\ \A r \in Requests : StatusOf(r)' = IF r \in R THEN "answered" ELSE StatusOf(r)
      BY <1>3, AnsweringMaps
    <2>3. R \in SUBSET (Server!Waiting \cup Server!Running) /\ Server!Answer(R)
      BY <2>1, <2>2, AnswerMaps
    <2> QED BY <2>3 DEF Server!Next
  <1> QED BY <1>1, <1>2, <1>3

(* For a client, the two threads with their queue, their mutex and their    *)
(* flags are the server of RequestServer: one answer per request, one turn  *)
(* at a time, and text only of the turn that runs.                          *)
THEOREM Refinement == Spec => ImplementsServer
  <1>1. Init => Server!Init
    BY InitMaps
  <1>2. IInv /\ [Next]_vars => [Server!Next]_(Server!vars)
    BY StepMaps
  <1> QED BY <1>1, <1>2, Invariant, PTL DEF Spec, ImplementsServer, Server!Spec
=============================================================================
