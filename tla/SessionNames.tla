----------------------------- MODULE SessionNames -----------------------------
(***************************************************************************)
(* The sessions of a model, by name.  The default one owns the rings that  *)
(* the others may use.                                                     *)
(***************************************************************************)
CONSTANTS
  Sessions,
  Default    \* kSesionPorDefecto

ASSUME DefaultIsASession == Default \in Sessions
=============================================================================
