--------------------------- MODULE MCNestedBench ---------------------------
(* NestedBench for TLC: ways to start the client program. *)
EXTENDS NestedBench

MCCommandLines ==
  {[lt |-> 2, t |-> 1, ct |-> 2], [lt |-> 1, t |-> 2, ct |-> 1],
   [lt |-> 3, t |-> 1, ct |-> 1], [lt |-> 3, t |-> 1, ct |-> 2],
   [lt |-> 0, t |-> 1, ct |-> 1], [lt |-> 1, t |-> 1, ct |-> 0]}
=============================================================================
