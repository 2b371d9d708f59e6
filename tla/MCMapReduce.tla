---------------------------- MODULE MCMapReduce ----------------------------
(* A small job with two workers. *)
EXTENDS MapReduce

CONSTANTS w1, w2

Distinct2 == [w \in {w1, w2} |-> w]
=============================================================================
