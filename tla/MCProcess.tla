----------------------------- MODULE MCProcess -----------------------------
(* The coordinator process with two or three workers. *)
EXTENDS CoordinatorProcess, TLC

CONSTANTS w1, w2, w3

Distinct2 == [w \in {w1, w2} |-> w]
Distinct3 == [w \in {w1, w2, w3} |-> w]

(* The workers are interchangeable: no invariant names one. *)
Interchangeable == Permutations({w1, w2, w3})
=============================================================================
