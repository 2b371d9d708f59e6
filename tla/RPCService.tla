----------------------------- MODULE RPCService -----------------------------
(***************************************************************************)
(* What labrpc promises the caller of ClientEnd.Call: the server executes  *)
(* a request at most once, possibly after the caller has given up, and     *)
(* Call returns true only for a request that was executed.                 *)
(***************************************************************************)
CONSTANT Calls

VARIABLES outcome,  \* "idle", "pending", or how Call returned: "ok", "failed"
          executed  \* the requests a handler ran for

svars == <<outcome, executed>>

SInit == /\ outcome = [c \in Calls |-> "idle"]
         /\ executed = {}

Issue(c) == /\ outcome[c] = "idle"
            /\ outcome' = [outcome EXCEPT ![c] = "pending"]
            /\ UNCHANGED executed

(* A handler may start after its caller was told of a failure. *)
Execute(c) == /\ outcome[c] \in {"pending", "failed"} /\ c \notin executed
              /\ executed' = executed \cup {c}
              /\ UNCHANGED outcome

ReturnTrue(c) == /\ outcome[c] = "pending" /\ c \in executed
                 /\ outcome' = [outcome EXCEPT ![c] = "ok"]
                 /\ UNCHANGED executed

ReturnFalse(c) == /\ outcome[c] = "pending"
                  /\ outcome' = [outcome EXCEPT ![c] = "failed"]
                  /\ UNCHANGED executed

SNext == \E c \in Calls : Issue(c) \/ Execute(c) \/ ReturnTrue(c) \/ ReturnFalse(c)

SSpec == SInit /\ [][SNext]_svars
=============================================================================
