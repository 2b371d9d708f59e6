---------------------------- MODULE MCRaftTester ----------------------------
(* Two servers with up to two instances each, two commands. *)
EXTENDS RaftTester, TLC

CONSTANTS s1, s2

(* Servers are told apart by nothing but their names. *)
SameServers == Permutations({s1, s2})
=============================================================================
