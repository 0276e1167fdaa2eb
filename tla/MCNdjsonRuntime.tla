--------------------------- MODULE MCNdjsonRuntime ---------------------------
(***************************************************************************)
(* The runtime under three clients.  A client may send the lines of its    *)
(* scenario in any order, each at most once, as fast as it wants.          *)
(***************************************************************************)
EXTENDS NdjsonRuntime

(* Each scenario is a set of lines [id, tipo, sesion, objetivo, usa]; a     *)
(* client follows one of them.                                              *)
CONSTANT Scenarios

Lines == UNION Scenarios
Ids == {l.id : l \in Lines}
LineOf(r) == CHOOSE l \in Lines : l.id = r

MCClients == {{l.id : l \in S} : S \in Scenarios}
MCTipo == [r \in Ids |-> LineOf(r).tipo]
MCSesion == [r \in Ids |-> LineOf(r).sesion]
MCObjetivo == [r \in Ids |-> LineOf(r).objetivo]
MCUsa == [r \in Ids |-> LineOf(r).usa]

Line(id, tipo, sesion, objetivo, usa) ==
  [id |-> id, tipo |-> tipo, sesion |-> sesion, objetivo |-> objetivo, usa |-> usa]
Turn(id, sesion, usa) == Line(id, "turn", sesion, "-", usa)
Cancel(id, target) == Line(id, "cancel", "0", target, {})
Upload(id) == Line(id, "attachment", "0", "-", {})
Other(id, tipo, sesion) == Line(id, tipo, sesion, "-", {})

\* Two turns of one session, a turn of another, and cancels of both kinds.
Conversation ==
  {Turn("a1", "0", {}), Turn("a2", "0", {}), Turn("b1", "1", {}),
   Cancel("ca1", "a1"), Cancel("ca2", "a2")}

\* An image used by two turns, one of them sent again after failing.
Images ==
  {Upload("x"), Turn("i1", "0", {"x"}), Turn("i2", "0", {"x"}), Cancel("ci1", "i1"),
   Line("d", "attachment_drop", "0", "x", {})}

\* Sessions opened and closed around a turn, then the end of the process.
Shutdown ==
  {Other("o", "session_open", "1"), Other("c", "session_close", "1"), Turn("b1", "1", {}),
   Other("q", "shutdown", "0")}

\* A turn that borrows the rings, its cancel, and every line that never runs.
Everything ==
  {Turn("b1", "1", {}), Cancel("cb1", "b1"), Other("c0", "session_close", "0"),
   Other("r", "reset", "0"), Other("m", "malformed", "0")}

\* Short lines for the counterexamples.
Borrowed == {Turn("b1", "1", {}), Cancel("cb1", "b1"), Turn("a1", "0", {})}

Turning == {Conversation, Images}
Serving == {Shutdown, Everything}
Showing == {Images}
Borrowing == {Borrowed}
=============================================================================
