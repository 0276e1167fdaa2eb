------------------------------ MODULE MCTuning ------------------------------
(***************************************************************************)
(* The tuner with two cards of one family, where the name of the first one *)
(* is the beginning of the name of the second.                             *)
(***************************************************************************)
EXTENDS Tuner

MCDeviceNames == <<<<"RTX", "4070">>, <<"RTX", "4070", "Ti">>>>
MCShapes == {<<"hq42k", K, 2>> : K \in {8, 16}}
=============================================================================
