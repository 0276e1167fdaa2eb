------------------------------- MODULE Ranges --------------------------------
(***************************************************************************)
(* The arithmetic of the sizes of grids, tiles and rings.                  *)
(***************************************************************************)
EXTENDS Integers, Sequences

Smaller(a, b) == IF a < b THEN a ELSE b
Larger(a, b) == IF a > b THEN a ELSE b

CeilDiv(a, b) == (a + b - 1) \div b
Up(a, b) == CeilDiv(a, b) * b

\* The numbers lo, lo + step, ... below hi.
Steps(lo, hi, step) == [i \in 1 .. (IF hi > lo THEN CeilDiv(hi - lo, step) ELSE 0) |-> lo + (i - 1) * step]
=============================================================================
