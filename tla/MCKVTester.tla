----------------------------- MODULE MCKVTester -----------------------------
(* Two servers, one of them restarted, and one clerk. *)
EXTENDS KVTester

CONSTANT ck1

TwoServers == 0..1
EndNames == (TwoServers \X TwoServers \X (1..MaxStarts)) \cup (Clerks \X TwoServers)
=============================================================================
