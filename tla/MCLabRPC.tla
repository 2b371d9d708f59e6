------------------------------ MODULE MCLabRPC ------------------------------
(* One request, while a tester does anything to a small network. *)
EXTENDS LabRPC
=============================================================================
