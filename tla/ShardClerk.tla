----------------------------- MODULE ShardClerk -----------------------------
(***************************************************************************)
(* The clerks of the sharded key/value service: Get and PutAppend of       *)
(* shardkv/client.go, which look up the group of a key in a configuration  *)
(* they keep, and Query, Join, Leave and Move of shardctrler/client.go.    *)
(*                                                                         *)
(* The servers of both services have no handlers in the repository; they   *)
(* are modelled by what the clerks expect of them: one server of each      *)
(* replica group, its leader, executes a request, if its group has the     *)
(* shard, and every other one refuses it.  Calls keep the promise of   *)
(* RPCService: a request is executed at most once, perhaps after Call has  *)
(* returned false, and Call returns true only for one that was executed.   *)
(*                                                                         *)
(* Names with an underscore and a suffix are mutated forms.                *)
(***************************************************************************)
EXTENDS Integers, Sequences

CONSTANTS Clerks,      \* the clerks of the key/value service
          Admin,       \* the tester's clerk of the controller
          Gids,        \* replica groups
          key,         \* the first byte of the key that is used
          NShards, NCtrlers, NServers,  \* NServers: servers of a group
          MaxOps, MaxFails, MaxConfigs  \* bounds: operations of a clerk, failures
                                        \* (see fails), configurations

ASSUME SizesAssumption == /\ NShards \in Nat \ {0} /\ NCtrlers \in Nat \ {0}
                          /\ NServers \in Nat \ {0} /\ MaxConfigs \in Nat \ {0}
                          /\ MaxOps \in Nat /\ MaxFails \in Nat
                          /\ key \in Nat /\ 0 \notin Gids /\ Admin \notin Clerks

Callers == Clerks \cup {Admin}
Shards == 0..(NShards - 1)

Config == [Num : 0..MaxConfigs, Shards : [Shards -> Gids \cup {0}], Groups : SUBSET Gids]

Config0 == [Num |-> 0, Shards |-> [s \in Shards |-> 0], Groups |-> {}]

VARIABLES latest,     \* the controller's latest configuration
          ctrler,     \* the controller's leader
          leader,     \* the leader of each group
          value,      \* the value of the key: what was put and appended
          fails,      \* Calls that returned false and leaders replaced so far
          calm,       \* nothing fails or changes any more
          ck,         \* the operation a clerk is in, and ck.config
          ctl,        \* the operation of the controller a caller is in
          rpc,        \* the Call a caller is in: "none", "sent", or the reply
          late,       \* requests to be executed after Call returned false
          seen, runs, \* history: the values during a clerk's operation, and
          refused     \* its executions; the Num it was last refused under

service == <<latest, ctrler, leader, value>>
history == <<seen, runs, refused>>
svars == <<service, fails, calm, ck, ctl, rpc, late, history>>

None == [op |-> "none"]

SInit == /\ latest = Config0
         /\ ctrler \in 1..NCtrlers /\ leader \in [Gids -> 1..NServers]
         /\ value = <<>> /\ fails = 0 /\ calm = FALSE /\ late = {}
         /\ ck = [c \in Clerks |-> [op |-> "none", config |-> Config0, gid |-> 0, si |-> 0,
                                    ops |-> 0, lost |-> FALSE]]
         /\ ctl = [p \in Callers |-> [op |-> "none", i |-> 0]]
         /\ rpc = [p \in Callers |-> None]
         /\ seen = [c \in Clerks |-> {}]
         /\ runs = [c \in Clerks |-> 0]
         /\ refused = [c \in Clerks |-> 0]
-----------------------------------------------------------------------------
key2shard(b) == b % NShards

Owner == latest.Shards[key2shard(key)]

(* The servers (external).  A configuration follows the last one by Join,  *)
(* Leave or Move; how the shards are spread is the controller's business.  *)
Follows(new, op) ==
    /\ new.Num = latest.Num + 1
    /\ \A s \in Shards : new.Shards[s] \in IF new.Groups = {} THEN {0} ELSE new.Groups
    /\ CASE op = "Join" -> latest.Groups \subseteq new.Groups
         [] op = "Leave" -> new.Groups \subseteq latest.Groups
         [] op = "Move" ->
              /\ new.Groups = latest.Groups
              /\ \E m \in Shards : \A s \in Shards \ {m} : new.Shards[s] = latest.Shards[s]

(* The controller executes a request that reached its server i. *)
CtrlerReply(p, i) ==
    IF i # ctrler
    THEN /\ rpc' = [rpc EXCEPT ![p] = [op |-> "reply", WrongLeader |-> TRUE, Config |-> Config0]]
         /\ UNCHANGED latest
    ELSE /\ IF ctl[p].op = "Query" THEN UNCHANGED latest
            ELSE \E new \in Config : Follows(new, ctl[p].op) /\ latest' = new
         /\ rpc' = [rpc EXCEPT ![p] = [op |-> "reply", WrongLeader |-> FALSE,
                                       Config |-> IF ctl[p].op = "Query" THEN latest ELSE Config0]]

Written(r) == CASE r.op = "Get" -> value
                [] r.op = "Put" -> <<r.tag>>
                [] r.op = "Append" -> Append(value, r.tag)

Outcome(gid, si) == IF si # leader[gid] THEN "ErrWrongLeader"
                    ELSE IF Owner # gid THEN "ErrWrongGroup"
                    ELSE IF value = <<>> THEN "ErrNoKey" ELSE "OK"

Request(c) == [op |-> ck[c].op, gid |-> ck[c].gid, si |-> ck[c].si, clerk |-> c,
               tag |-> <<c, ck[c].ops>>]

(* A server of a group executes the request r. *)
Execute(r) ==
    LET done == Outcome(r.gid, r.si) \in {"OK", "ErrNoKey"}
    IN  /\ value' = IF done THEN Written(r) ELSE value
        /\ seen' = [c \in Clerks |-> IF ck[c].op = "none" THEN {} ELSE seen[c] \cup {value'}]
        /\ runs' = [runs EXCEPT ![r.clerk] =
                        IF done /\ r.tag[2] = ck[r.clerk].ops THEN @ + 1 ELSE @]

(* PutAppend's reply has no ErrNoKey: a server then answers OK. *)
ReplyErr(r) == IF Outcome(r.gid, r.si) = "ErrNoKey" /\ r.op # "Get" THEN "OK"
               ELSE Outcome(r.gid, r.si)

Serve(c) ==
    /\ rpc[c].op = "sent" /\ ctl[c].op = "none"
    /\ Execute(Request(c))
    /\ rpc' = [rpc EXCEPT ![c] = 
                    [op |-> "reply", Err |-> ReplyErr(Request(c)),
                     Value |-> IF ck[c].op = "Get" THEN value ELSE <<>>,
                     Num |-> IF ReplyErr(Request(c)) = "ErrWrongGroup" THEN latest.Num ELSE 0]]
    /\ UNCHANGED <<latest, ctrler, leader, fails, calm, ck, ctl, late, refused>>

ServeCtrler(p) ==
    /\ rpc[p].op = "sent" /\ ctl[p].op # "none" /\ (ctl[p].op = "Query" \/ latest.Num < MaxConfigs)
    /\ CtrlerReply(p, ctl[p].i)
    /\ UNCHANGED <<ctrler, leader, value, fails, calm, ck, ctl, late, history>>

ServeLate(r) == /\ r \in late
                /\ late' = late \ {r}
                /\ Execute(r)
                /\ UNCHANGED <<latest, ctrler, leader, fails, calm, ck, ctl, rpc, refused>>

NewLeader == /\ ~calm /\ fails < MaxFails
             /\ fails' = fails + 1
             /\ \/ ctrler' \in 1..NCtrlers /\ UNCHANGED leader
                \/ \E g \in Gids, i \in 1..NServers : leader' = [leader EXCEPT ![g] = i] /\ UNCHANGED ctrler
             /\ UNCHANGED <<latest, value, calm, ck, ctl, rpc, late, history>>

Calm == /\ ~calm /\ calm' = TRUE
        /\ UNCHANGED <<service, fails, ck, ctl, rpc, late, history>>
-----------------------------------------------------------------------------
(* The loop of Query, Join, Leave and Move over ck.servers: the caller p   *)
(* is at server i, and the clerk p has the state ck[p].                    *)
AskCtrler(p, op, i) == /\ ctl' = [ctl EXCEPT ![p] = [op |-> op, i |-> i]]
                       /\ rpc' = [rpc EXCEPT ![p] = [op |-> "sent"]]

NextCtrler(p) == AskCtrler(p, ctl[p].op, (ctl[p].i % NCtrlers) + 1)

(* One round of Get or PutAppend of clerk c, whose state is s. *)
Attempt(c, s) ==
    LET gid == s.config.Shards[key2shard(key)]
    IN  IF gid \in s.config.Groups
        THEN /\ ck' = [ck EXCEPT ![c] = [s EXCEPT !.gid = gid, !.si = 1]]
             /\ ctl' = [ctl EXCEPT ![c] = [op |-> "none", i |-> 0]]
             /\ rpc' = [rpc EXCEPT ![c] = [op |-> "sent"]]
        ELSE /\ ck' = [ck EXCEPT ![c] = [s EXCEPT !.gid = 0, !.si = 0]]
             /\ AskCtrler(c, "Query", 1)

(* The next server of the group, or the controller after the last one. *)
NextServer(c, s) ==
    IF s.si < NServers
    THEN /\ ck' = [ck EXCEPT ![c] = [s EXCEPT !.si = @ + 1]]
         /\ rpc' = [rpc EXCEPT ![c] = [op |-> "sent"]]
         /\ UNCHANGED ctl
    ELSE ck' = [ck EXCEPT ![c] = s] /\ AskCtrler(c, "Query", 1)

Begin(c, op) ==
    /\ ck[c].op = "none" /\ ck[c].ops < MaxOps
    /\ Attempt(c, [ck[c] EXCEPT !.op = op, !.ops = @ + 1, !.lost = FALSE])
    /\ seen' = [seen EXCEPT ![c] = {value}] /\ runs' = [runs EXCEPT ![c] = 0]
    /\ UNCHANGED <<service, fails, calm, late, refused>>

BeginAdmin(op) ==
    /\ ctl[Admin].op = "none" /\ ~calm /\ latest.Num < MaxConfigs
    /\ AskCtrler(Admin, op, 1)
    /\ UNCHANGED <<service, fails, calm, ck, late, history>>

(* A reply of the controller. *)
Accepted_AnyServer(reply) == TRUE

Accepted(reply) == reply.WrongLeader = FALSE

CtrlerAnswers(p) ==
    /\ rpc[p].op = "reply" /\ ctl[p].op # "none"
    /\ \/ ~Accepted(rpc[p]) /\ NextCtrler(p) /\ UNCHANGED ck
       \/ /\ Accepted(rpc[p]) /\ p \in Clerks
          /\ Attempt(p, [ck[p] EXCEPT !.config = rpc[p].Config])
       \/ /\ Accepted(rpc[p]) /\ p = Admin
          /\ ctl' = [ctl EXCEPT ![p] = [op |-> "none", i |-> 0]]
          /\ rpc' = [rpc EXCEPT ![p] = None]
          /\ UNCHANGED ck
    /\ UNCHANGED <<service, fails, calm, late, history>>

(* A reply of a server of the group. *)
Returns_AnyReply(op, err) == err # "ErrWrongGroup"
Returns_OKOnly(op, err) == err = "OK"

Returns(op, err) == err = "OK" \/ (op = "Get" /\ err = "ErrNoKey")

Breaks_Never(err) == FALSE

Breaks(err) == err = "ErrWrongGroup"

GroupAnswers(c) ==
    LET err == rpc[c].Err
    IN  /\ rpc[c].op = "reply" /\ ctl[c].op = "none"
        /\ \/ /\ Returns(ck[c].op, err)
              /\ ck' = [ck EXCEPT ![c].op = "none", ![c].gid = 0, ![c].si = 0]
              /\ rpc' = [rpc EXCEPT ![c] = None]
              /\ seen' = [seen EXCEPT ![c] = {}]
              /\ UNCHANGED ctl
           \/ Breaks(err) /\ AskCtrler(c, "Query", 1) /\ UNCHANGED <<ck, seen>>
           \/ /\ ~Returns(ck[c].op, err) /\ ~Breaks(err)
              /\ NextServer(c, ck[c])
              /\ UNCHANGED seen
        /\ refused' = IF err = "ErrWrongGroup" THEN [refused EXCEPT ![c] = rpc[c].Num] ELSE refused
        /\ UNCHANGED <<service, fails, calm, late, runs>>

(* Call returns false: the request or the reply is lost, or the request is *)
(* still under way.                                                        *)
CallFails(p) ==
    /\ rpc[p].op # "none" /\ ~calm /\ fails < MaxFails
    /\ fails' = fails + 1
    /\ IF ctl[p].op # "none"
       THEN NextCtrler(p) /\ UNCHANGED <<ck, late>>
       ELSE /\ NextServer(p, [ck[p] EXCEPT !.lost = TRUE])
            /\ late' \in IF rpc[p].op = "sent" THEN {late, late \cup {Request(p)}} ELSE {late}
    /\ UNCHANGED <<service, calm, history>>

SNext == \/ \E c \in Clerks : \/ \E op \in {"Get", "Put", "Append"} : Begin(c, op)
                              \/ Serve(c) \/ GroupAnswers(c)
         \/ \E op \in {"Join", "Leave", "Move"} : BeginAdmin(op)
         \/ \E p \in Callers : ServeCtrler(p) \/ CtrlerAnswers(p) \/ CallFails(p)
         \/ \E r \in late : ServeLate(r)
         \/ NewLeader \/ Calm

SSpec == SInit /\ [][SNext]_svars

(* Clerks go on and the servers answer; nobody need begin an operation. *)
SFairSpec == /\ SSpec
             /\ \A c \in Clerks : WF_svars(\/ Serve(c) \/ GroupAnswers(c)
                                           \/ ServeCtrler(c) \/ CtrlerAnswers(c))
-----------------------------------------------------------------------------
Calling(c) == ck[c].op # "none" /\ ctl[c].op = "none"

(* The types of the state above. *)
STypeOK ==
    /\ latest \in Config
    /\ ctrler \in 1..NCtrlers /\ leader \in [Gids -> 1..NServers]
    /\ fails \in 0..MaxFails /\ calm \in BOOLEAN
    /\ \A c \in Clerks : /\ ck[c].op \in {"none", "Get", "Put", "Append"}
                         /\ ck[c].config \in Config
                         /\ ck[c].si \in 0..NServers
                         /\ Calling(c) => ck[c].gid \in Gids
    /\ \A p \in Callers : /\ ctl[p].op \in {"none", "Query", "Join", "Leave", "Move"}
                          /\ ctl[p].i \in 0..NCtrlers
                          /\ rpc[p].op \in {"none", "sent", "reply"}

(* An operation that returns was executed by the leader of the group that  *)
(* had the shard, while it was under way, and Get returns a value the key  *)
(* had meanwhile, however often leaders and configurations change          *)
(* (shardkv/client.go:74-77, 108-111).                                     *)
OperationExecuted ==
    [][\A c \in Clerks : ck[c].op # "none" /\ ck'[c].op = "none" =>
           /\ runs[c] >= 1
           /\ ck[c].op = "Get" => rpc[c].Value \in seen[c]]_svars

(* The retries execute an operation twice only if one of its Calls failed: *)
(* what a server refused it did not execute (shardkv/client.go:112-115).   *)
TwiceOnlyAfterLoss == \A c \in Clerks : runs[c] > 1 => ck[c].lost

(* After a group has refused the shard, a clerk does not ask any group     *)
(* before it has a configuration at least as new as the one it was refused *)
(* under (shardkv/client.go:78-86, 112-120).                               *)
ConfigRenewed == \A c \in Clerks : Calling(c) => ck[c].config.Num >= refused[c]

(* "Keeps trying forever in the face of all other errors"                  *)
(* (shardkv/client.go:60): once nothing fails or changes any more and some *)
(* group has the shard, every operation returns.                           *)
OperationReturns ==
    \A c \in Clerks : <>[](calm /\ Owner # 0) => []<>(ck[c].op = "none")
=============================================================================
