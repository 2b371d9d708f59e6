----------------------------- MODULE MCRaftPoll -----------------------------
(* Any poll of a Raft of two servers. *)
EXTENDS RaftPoll
=============================================================================
