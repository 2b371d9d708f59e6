--------------------------- MODULE MCCoordinator ---------------------------
(* The handlers, called by three workers in every order with any arguments. *)
EXTENDS Coordinator, TLC

CONSTANTS w1, w2, w3

Distinct3 == [w \in {w1, w2, w3} |-> w]

(* The workers are interchangeable: no property names one. *)
Interchangeable == Permutations({w1, w2, w3})
=============================================================================
