--------------------------- MODULE MCShardTester ---------------------------
(* Two groups of one server, one controller and one clerk, of which one    *)
(* server may be started twice, and one request.                           *)
EXTENDS ShardTester

ServerNames == KVServers \cup Ctrlers
EndNames == PeerEnds \cup MendEnds \cup MadeEnds \cup ClerkEnds
=============================================================================
