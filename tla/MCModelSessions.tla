---------------------------- MODULE MCModelSessions ----------------------------
(***************************************************************************)
(* Models of three layers on every pair of small GPUs.  Layer 0 is always  *)
(* a sliding one, as in every Gemma 4; the last layer of a model with      *)
(* shared KV reads the KV of a layer of its kind.                          *)
(***************************************************************************)
EXTENDS ModelSessions

CONSTANTS
  LayerBytes,    \* the bytes a layer may take
  MaxFree        \* the most memory a GPU may have

Kinds == {<<{1}, 0>>, <<{2}, 0>>, <<{1, 2}, 0>>, <<{1}, 1>>}

MCModels ==
  {[bytes |-> b, common |-> 1, vision |-> v, primary |-> p, secondary |-> s,
    global |-> k[1], shared |-> k[2], splits |-> k[2] = 0] :
      b \in [Layers -> LayerBytes], v \in {0, 2}, p \in 0 .. MaxFree, s \in 0 .. MaxFree, k \in Kinds}
=============================================================================
