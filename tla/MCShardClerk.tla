---------------------------- MODULE MCShardClerk ----------------------------
(* A clerk with two operations on a key, while an administrator makes two  *)
(* configurations of two groups of two servers, and one Call or one leader *)
(* fails.  The controller moves the key's shard only: NShards is 1.        *)
EXTENDS ShardClerk
=============================================================================
