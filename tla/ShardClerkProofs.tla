-------------------------- MODULE ShardClerkProofs --------------------------
(***************************************************************************)
(* Proofs about ShardClerk, for any number of clerks, groups, servers and  *)
(* configurations: an operation that returns was executed, it is executed  *)
(* twice only after a failed Call, and a refused clerk renews its          *)
(* configuration before it asks again.                                     *)
(***************************************************************************)
EXTENDS ShardClerk, TLAPS

Ops == {"Get", "Put", "Append"}

ClerkState == [op : Ops \cup {"none"}, config : Config, gid : Gids \cup {0}, si : 0..NServers,
               ops : Nat, lost : BOOLEAN]

CtlState == [op : {"none", "Query", "Join", "Leave", "Move"}, i : 0..NCtrlers]

(* The types the induction needs; rpc and seen only have to be functions. *)
ClerkTypes ==
    /\ latest \in Config
    /\ ctrler \in 1..NCtrlers /\ leader \in [Gids -> 1..NServers]
    /\ fails \in 0..MaxFails /\ calm \in BOOLEAN
    /\ ck \in [Clerks -> ClerkState]
    /\ ctl \in [Callers -> CtlState]
    /\ rpc = [p \in Callers |-> rpc[p]]
    /\ seen = [c \in Clerks |-> seen[c]]
    /\ runs \in [Clerks -> Nat]
    /\ refused \in [Clerks -> Nat]

(* What the Call a caller is in looks like: a reply of the controller in   *)
(* the loop of Query, Join, Leave and Move, a reply of a server otherwise. *)
CallFits(p) ==
    /\ rpc[p].op \in {"none", "sent", "reply"}
    /\ rpc[p].op = "reply" /\ ctl[p].op # "none" =>
           rpc[p].WrongLeader \in BOOLEAN /\ rpc[p].Config \in Config
    /\ rpc[p].op = "reply" /\ ctl[p].op = "none" => rpc[p].Num \in Nat

(* A caller that is in no operation is in no Call. *)
AdminFits == CallFits(Admin) /\ (ctl[Admin].op = "none" => rpc[Admin].op = "none")

PointFits(c) ==
    /\ CallFits(c)
    /\ ctl[c].op \in {"none", "Query"}
    /\ ck[c].op = "none" => ctl[c].op = "none" /\ rpc[c].op = "none"
    /\ Calling(c) => ck[c].gid \in Gids

(* The reply on which clerk c returns from its operation. *)
Answered(c) == ctl[c].op = "none" /\ rpc[c].op = "reply" /\ Returns(ck[c].op, rpc[c].Err)

(* A clerk's configuration against the one it was refused under: nothing   *)
(* it was told of is newer than the controller's, and what the controller  *)
(* has answered since the refusal is not older than it.                    *)
ConfigFits(c) ==
    /\ refused[c] <= latest.Num
    /\ ctl[c].op = "none" => refused[c] <= ck[c].config.Num
    /\ ctl[c].op = "none" /\ rpc[c].op = "reply" => rpc[c].Num <= latest.Num
    /\ ctl[c].op # "none" /\ rpc[c].op = "reply" /\ rpc[c].WrongLeader = FALSE =>
           refused[c] <= rpc[c].Config.Num

(* The executions of clerk c's operation: an answer to return with means   *)
(* there was one, and while no Call has failed there is none but that.     *)
RunsFit(c) ==
    /\ Answered(c) => runs[c] >= 1
    /\ ~ck[c].lost => \/ runs[c] = 0
                      \/ runs[c] = 1 /\ (ck[c].op = "none" \/ Answered(c))

ValueFits(c) ==
    ctl[c].op = "none" /\ rpc[c].op = "reply" /\ ck[c].op = "Get" => rpc[c].Value \in seen[c]

ClerkInv(c) == PointFits(c) /\ ConfigFits(c) /\ RunsFit(c) /\ ValueFits(c)

(* A request left over belongs to an operation one of whose Calls failed. *)
LateFits(r) == /\ r.clerk \in Clerks
               /\ r.tag[2] \in Nat /\ r.tag[2] <= ck[r.clerk].ops
               /\ r.tag[2] = ck[r.clerk].ops => ck[r.clerk].lost

(* The inductive invariant. *)
SInv == /\ ClerkTypes
        /\ AdminFits
        /\ \A c \in Clerks : ClerkInv(c)
        /\ \A r \in late : LateFits(r)
-----------------------------------------------------------------------------
(* The constants, as the assumption of ShardClerk gives them. *)
LEMMA Sizes == /\ NServers \in Nat /\ NServers >= 1 /\ NCtrlers \in Nat /\ NCtrlers >= 1
               /\ MaxFails \in Nat /\ MaxConfigs \in Nat /\ 0 \notin Gids
               /\ Admin \notin Clerks /\ Admin \in Callers /\ Clerks \subseteq Callers
BY SizesAssumption DEF Callers

(* What a configuration holds; the first one is one. *)
LEMMA Configs == /\ Config0 \in Config
                 /\ \A g \in Config : g.Num \in Nat /\ g.Groups \subseteq Gids
BY Sizes DEF Config, Config0

(* A clerk that a step leaves where it was, and whose value may have been  *)
(* changed, keeps its part of the invariant; configurations only get newer.*)
LEMMA OtherClerk ==
    ASSUME NEW c \in Clerks, ClerkTypes, ClerkInv(c), latest' \in Config,
           ck'[c] = ck[c], ctl'[c] = ctl[c], rpc'[c] = rpc[c],
           runs'[c] = runs[c], refused'[c] = refused[c],
           ck[c].op # "none" => seen[c] \subseteq seen'[c], latest.Num <= latest'.Num
    PROVE  ClerkInv(c)'
<1>1. PointFits(c)'
  BY Zenon DEF ClerkInv, PointFits, CallFits, Calling
<1>2. RunsFit(c)'
  BY Zenon DEF ClerkInv, RunsFit, Answered
<1>4. ValueFits(c)'
  BY Zenon DEF ClerkInv, ValueFits
<1>3. ConfigFits(c)'
  <2>1. refused[c] \in Nat /\ latest.Num \in Nat /\ latest'.Num \in Nat
    BY Configs DEF ClerkTypes
  <2>2. CallFits(c) /\ ConfigFits(c)
    BY Zenon DEF ClerkInv, PointFits
  <2> QED
    BY <2>1, <2>2 DEF ConfigFits, CallFits
<1> QED
  BY <1>1, <1>2, <1>3, <1>4, Zenon DEF ClerkInv

(* A request to the controller: the caller is in its loop, and waits. *)
LEMMA AskFacts ==
    ASSUME ClerkTypes, NEW p \in Callers, NEW op \in {"Query", "Join", "Leave", "Move"},
           NEW i \in 0..NCtrlers, AskCtrler(p, op, i)
    PROVE  /\ ctl' \in [Callers -> CtlState]
           /\ rpc' = [q \in Callers |-> rpc'[q]]
           /\ ctl'[p].op = op /\ rpc'[p].op = "sent"
           /\ \A q \in Callers \ {p} : ctl'[q] = ctl[q] /\ rpc'[q] = rpc[q]
<1>1. [op |-> op, i |-> i] \in CtlState
  BY DEF CtlState
<1>2. /\ ctl' = [ctl EXCEPT ![p] = [op |-> op, i |-> i]]
      /\ rpc' = [rpc EXCEPT ![p] = [op |-> "sent"]]
  BY Zenon DEF AskCtrler
<1>3. ctl \in [Callers -> CtlState] /\ rpc = [q \in Callers |-> rpc[q]]
  BY Zenon DEF ClerkTypes
<1>4. DOMAIN rpc = Callers
  BY <1>3
<1> QED
  BY <1>1, <1>2, <1>3, <1>4

(* One round of Get or PutAppend of a clerk whose state is s. *)
LEMMA AttemptFacts ==
    ASSUME ClerkTypes, NEW c \in Clerks, NEW s \in ClerkState, Attempt(c, s)
    PROVE  /\ ck' \in [Clerks -> ClerkState]
           /\ ctl' \in [Callers -> CtlState]
           /\ rpc' = [q \in Callers |-> rpc'[q]]
           /\ /\ ck'[c].op = s.op /\ ck'[c].config = s.config
              /\ ck'[c].ops = s.ops /\ ck'[c].lost = s.lost
           /\ ctl'[c].op \in {"none", "Query"} /\ rpc'[c].op = "sent"
           /\ ctl'[c].op = "none" => ck'[c].gid \in Gids
           /\ \A d \in Clerks \ {c} : ck'[d] = ck[d]
           /\ \A q \in Callers \ {c} : ctl'[q] = ctl[q] /\ rpc'[q] = rpc[q]
<1> DEFINE gid == s.config.Shards[key2shard(key)]
<1>0. /\ c \in Callers /\ s.config \in Config /\ s.config.Groups \subseteq Gids
      /\ 1 \in 0..NServers /\ 0 \in 0..NServers /\ 0 \in 0..NCtrlers /\ 1 \in 0..NCtrlers
      /\ DOMAIN rpc = Callers
  BY Sizes, Configs DEF ClerkState, ClerkTypes
<1>1. CASE gid \in s.config.Groups
  <2>1. /\ ck' = [ck EXCEPT ![c] = [s EXCEPT !.gid = gid, !.si = 1]]
        /\ ctl' = [ctl EXCEPT ![c] = [op |-> "none", i |-> 0]]
        /\ rpc' = [rpc EXCEPT ![c] = [op |-> "sent"]]
    BY <1>1, Zenon DEF Attempt
  <2>2. gid \in Gids
    BY <1>0, <1>1, Zenon
  <2> HIDE DEF gid
  <2>3. /\ [s EXCEPT !.gid = gid, !.si = 1] \in ClerkState
        /\ [op |-> "none", i |-> 0] \in CtlState
    BY <1>0, <2>2 DEF ClerkState, CtlState
  <2> QED
    BY <1>0, <2>1, <2>2, <2>3 DEF ClerkTypes, ClerkState
<1>2. CASE gid \notin s.config.Groups
  <2>1. /\ ck' = [ck EXCEPT ![c] = [s EXCEPT !.gid = 0, !.si = 0]]
        /\ AskCtrler(c, "Query", 1)
    BY <1>2, Zenon DEF Attempt
  <2>2. [s EXCEPT !.gid = 0, !.si = 0] \in ClerkState
    BY <1>0 DEF ClerkState
  <2>3. /\ ck' \in [Clerks -> ClerkState]
        /\ ck'[c].op = s.op /\ ck'[c].config = s.config
        /\ ck'[c].ops = s.ops /\ ck'[c].lost = s.lost
        /\ \A d \in Clerks \ {c} : ck'[d] = ck[d]
    BY <2>1, <2>2 DEF ClerkTypes, ClerkState
  <2>4. /\ ctl' \in [Callers -> CtlState]
        /\ rpc' = [q \in Callers |-> rpc'[q]]
        /\ ctl'[c].op = "Query" /\ rpc'[c].op = "sent"
        /\ \A q \in Callers \ {c} : ctl'[q] = ctl[q] /\ rpc'[q] = rpc[q]
    BY <1>0, <2>1, AskFacts
  <2> QED
    BY <2>3, <2>4
<1> QED
  BY <1>1, <1>2

(* The next server of the group, or the controller after the last one. *)
LEMMA NextServerFacts ==
    ASSUME ClerkTypes, NEW c \in Clerks, NEW s \in ClerkState, NextServer(c, s)
    PROVE  /\ ck' \in [Clerks -> ClerkState]
           /\ ctl' \in [Callers -> CtlState]
           /\ rpc' = [q \in Callers |-> rpc'[q]]
           /\ /\ ck'[c].op = s.op /\ ck'[c].config = s.config /\ ck'[c].gid = s.gid
              /\ ck'[c].ops = s.ops /\ ck'[c].lost = s.lost
           /\ ctl'[c].op \in {ctl[c].op, "Query"} /\ rpc'[c].op = "sent"
           /\ \A d \in Clerks \ {c} : ck'[d] = ck[d]
           /\ \A q \in Callers \ {c} : ctl'[q] = ctl[q] /\ rpc'[q] = rpc[q]
<1>0. /\ c \in Callers /\ 1 \in 0..NCtrlers /\ s.si \in 0..NServers /\ NServers \in Nat
      /\ DOMAIN rpc = Callers
  BY Sizes DEF ClerkState, ClerkTypes
<1>1. CASE s.si < NServers
  <2>1. /\ ck' = [ck EXCEPT ![c] = [s EXCEPT !.si = @ + 1]]
        /\ rpc' = [rpc EXCEPT ![c] = [op |-> "sent"]]
        /\ ctl' = ctl
    BY <1>1, Zenon DEF NextServer
  <2>2. [s EXCEPT !.si = @ + 1] \in ClerkState
    BY <1>0, <1>1 DEF ClerkState
  <2> QED
    BY <1>0, <2>1, <2>2 DEF ClerkTypes, ClerkState
<1>2. CASE ~(s.si < NServers)
  <2>1. ck' = [ck EXCEPT ![c] = s] /\ AskCtrler(c, "Query", 1)
    BY <1>2, Zenon DEF NextServer
  <2>2. /\ ck' \in [Clerks -> ClerkState] /\ ck'[c] = s
        /\ \A d \in Clerks \ {c} : ck'[d] = ck[d]
    BY <2>1 DEF ClerkTypes
  <2>3. /\ ctl' \in [Callers -> CtlState]
        /\ rpc' = [q \in Callers |-> rpc'[q]]
        /\ ctl'[c].op = "Query" /\ rpc'[c].op = "sent"
        /\ \A q \in Callers \ {c} : ctl'[q] = ctl[q] /\ rpc'[q] = rpc[q]
    BY <1>0, <2>1, AskFacts
  <2> QED
    BY <2>2, <2>3
<1> QED
  BY <1>1, <1>2

(* A clerk that has just sent a request, to a server or to the controller, *)
(* and whose operation was not executed unless a Call failed.              *)
LEMMA SentFits ==
    ASSUME NEW c \in Clerks, rpc'[c].op = "sent", ck'[c].op # "none",
           ctl'[c].op \in {"none", "Query"},
           ctl'[c].op = "none" => ck'[c].gid \in Gids /\ refused'[c] <= ck'[c].config.Num,
           refused'[c] <= latest'.Num, ck'[c].lost \/ runs'[c] = 0
    PROVE  ClerkInv(c)'
<1>1. PointFits(c)'
  BY Zenon DEF PointFits, CallFits, Calling
<1>2. ConfigFits(c)' /\ RunsFit(c)' /\ ValueFits(c)'
  BY Zenon DEF ConfigFits, RunsFit, ValueFits, Answered
<1> QED
  BY <1>1, <1>2, Zenon DEF ClerkInv

(* A clerk waiting for the controller, or for a server that refused it,    *)
(* has not been executed unless a Call failed.                             *)
LEMMA NotExecuted ==
    ASSUME NEW c \in Clerks, ClerkInv(c), ck[c].op # "none", ~Answered(c)
    PROVE  ck[c].lost \/ runs[c] = 0
BY Zenon DEF ClerkInv, RunsFit

(* Only caller p has moved, and what clerk p does keeps its part. *)
OnlyMoves(p) ==
    /\ \A d \in Clerks \ {p} : /\ ck'[d] = ck[d] /\ runs'[d] = runs[d] /\ refused'[d] = refused[d]
                               /\ ck[d].op # "none" => seen[d] \subseteq seen'[d]
    /\ \A q \in Callers \ {p} : ctl'[q] = ctl[q] /\ rpc'[q] = rpc[q]

(* The clerks a step leaves alone keep their part of the invariant. *)
LEMMA OthersKept ==
    ASSUME SInv, NEW p \in Callers, OnlyMoves(p), latest' \in Config, latest.Num <= latest'.Num,
           p \in Clerks => ClerkInv(p)', p = Admin => AdminFits'
    PROVE  AdminFits' /\ \A d \in Clerks : ClerkInv(d)'
<1>1. ASSUME NEW d \in Clerks, d # p PROVE ClerkInv(d)'
  <2>1. ClerkTypes /\ ClerkInv(d) /\ d \in Callers
    BY Sizes, Zenon DEF SInv
  <2>2. /\ ck'[d] = ck[d] /\ runs'[d] = runs[d] /\ refused'[d] = refused[d]
        /\ ck[d].op # "none" => seen[d] \subseteq seen'[d]
        /\ ctl'[d] = ctl[d] /\ rpc'[d] = rpc[d]
    BY <1>1, <2>1, Zenon DEF OnlyMoves
  <2> QED
    BY <2>1, <2>2, OtherClerk, Zenon
<1>2. ASSUME p # Admin PROVE AdminFits'
  <2>1. ctl'[Admin] = ctl[Admin] /\ rpc'[Admin] = rpc[Admin]
    BY <1>2, Sizes, Zenon DEF OnlyMoves
  <2> QED
    BY <2>1, Zenon DEF SInv, AdminFits, CallFits
<1> QED
  BY <1>1, <1>2, Zenon

(* The requests left over fit as long as no clerk's count of operations    *)
(* goes back, and only a new operation forgets a failed Call.              *)
LEMMA LateKept ==
    ASSUME SInv, NEW r \in late, ck \in [Clerks -> ClerkState], ck' \in [Clerks -> ClerkState],
           \A d \in Clerks : \/ ck'[d].ops = ck[d].ops /\ (ck[d].lost => ck'[d].lost)
                             \/ ck'[d].ops = ck[d].ops + 1
    PROVE  LateFits(r)'
<1>1. LateFits(r)
  BY Zenon DEF SInv
<1>2. r.clerk \in Clerks /\ ck[r.clerk].ops \in Nat
  BY <1>1 DEF LateFits, ClerkState
<1> QED
  BY <1>1, <1>2 DEF LateFits
-----------------------------------------------------------------------------
(* The record of a clerk that begins an operation. *)
LEMMA NewOperation ==
    ASSUME NEW t \in ClerkState, NEW op \in Ops
    PROVE  LET s == [t EXCEPT !.op = op, !.ops = @ + 1, !.lost = FALSE]
           IN  /\ s \in ClerkState /\ s.op = op /\ s.config = t.config
               /\ s.ops = t.ops + 1 /\ s.lost = FALSE /\ op # "none"
<1> DEFINE s == [t EXCEPT !.op = op, !.ops = @ + 1, !.lost = FALSE]
<1>1. op \in Ops \cup {"none"} /\ op # "none"
  BY DEF Ops
<1>2. t.ops \in Nat /\ t.ops + 1 \in Nat
  BY DEF ClerkState
<1> DEFINE n == t.ops + 1
<1>3. s = [t EXCEPT !.op = op, !.ops = n, !.lost = FALSE]
  OBVIOUS
<1> HIDE DEF n
<1>4. s \in ClerkState
  BY <1>1, <1>2, <1>3 DEF ClerkState, n
<1>5. s.op = op /\ s.config = t.config /\ s.ops = n /\ s.lost = FALSE
  BY <1>3 DEF ClerkState
<1> QED
  BY <1>1, <1>4, <1>5 DEF n

(* Get, Put and Append begin with no execution and no failed Call. *)
LEMMA BeginKeeps ==
    ASSUME SInv, NEW c \in Clerks, NEW op \in Ops, Begin(c, op)
    PROVE  SInv'
<1> DEFINE s == [ck[c] EXCEPT !.op = op, !.ops = @ + 1, !.lost = FALSE]
<1>0. /\ ClerkTypes /\ ClerkInv(c) /\ c \in Callers /\ ck[c] \in ClerkState
      /\ ck \in [Clerks -> ClerkState]
  BY Sizes, Zenon DEF SInv, ClerkTypes
<1>1. /\ s \in ClerkState /\ s.op = op /\ s.config = ck[c].config
      /\ s.ops = ck[c].ops + 1 /\ s.lost = FALSE /\ op # "none"
  BY <1>0, NewOperation, Zenon
<1>2. /\ ck[c].op = "none" /\ Attempt(c, s)
      /\ seen' = [seen EXCEPT ![c] = {value}] /\ runs' = [runs EXCEPT ![c] = 0]
      /\ latest' = latest /\ ctrler' = ctrler /\ leader' = leader /\ fails' = fails
      /\ calm' = calm /\ late' = late /\ refused' = refused
  BY Zenon DEF Begin, service
<1> HIDE DEF s
<1>3. /\ ck' \in [Clerks -> ClerkState]
      /\ ctl' \in [Callers -> CtlState]
      /\ rpc' = [q \in Callers |-> rpc'[q]]
      /\ /\ ck'[c].op = s.op /\ ck'[c].config = s.config
         /\ ck'[c].ops = s.ops /\ ck'[c].lost = s.lost
      /\ ctl'[c].op \in {"none", "Query"} /\ rpc'[c].op = "sent"
      /\ ctl'[c].op = "none" => ck'[c].gid \in Gids
      /\ \A d \in Clerks \ {c} : ck'[d] = ck[d]
      /\ \A q \in Callers \ {c} : ctl'[q] = ctl[q] /\ rpc'[q] = rpc[q]
  BY <1>0, <1>1, <1>2, AttemptFacts
<1>4. /\ runs' \in [Clerks -> Nat] /\ runs'[c] = 0
      /\ seen' = [d \in Clerks |-> seen'[d]]
      /\ \A d \in Clerks \ {c} : runs'[d] = runs[d] /\ seen'[d] = seen[d]
  BY <1>0, <1>2 DEF ClerkTypes
<1>5. ClerkTypes'
  BY <1>0, <1>2, <1>3, <1>4, Zenon DEF ClerkTypes
<1>6. ClerkInv(c)'
  <2>1. refused[c] <= latest.Num /\ refused[c] <= ck[c].config.Num
    BY <1>0, <1>2, Zenon DEF ClerkInv, PointFits, ConfigFits
  <2> QED
    BY <1>1, <1>2, <1>3, <1>4, <2>1, SentFits, Zenon
<1>7. OnlyMoves(c)
  BY <1>2, <1>3, <1>4, Zenon DEF OnlyMoves
<1>8. latest' \in Config /\ latest.Num <= latest'.Num
  BY <1>0, <1>2, Configs DEF ClerkTypes
<1>9. AdminFits' /\ \A d \in Clerks : ClerkInv(d)'
  BY <1>0, <1>6, <1>7, <1>8, Sizes, OthersKept, Zenon
<1>10. \A r \in late' : LateFits(r)'
  BY <1>0, <1>1, <1>2, <1>3, LateKept
<1> QED
  BY <1>5, <1>9, <1>10, Zenon DEF SInv

(* A server executes a request of clerk c: whether it did, and whether it  *)
(* counts for the clerk's present operation.                               *)
Done(r) == Outcome(r.gid, r.si) \in {"OK", "ErrNoKey"}

(* What a server changes when a request reaches it. *)
LEMMA ExecuteFacts ==
    ASSUME ClerkTypes, NEW r, r.clerk \in Clerks, Execute(r)
    PROVE  /\ runs' \in [Clerks -> Nat]
           /\ seen' = [d \in Clerks |-> seen'[d]]
           /\ \A d \in Clerks : ck[d].op # "none" => seen'[d] = seen[d] \cup {value'}
           /\ \A d \in Clerks \ {r.clerk} : runs'[d] = runs[d]
           /\ runs'[r.clerk] = IF Done(r) /\ r.tag[2] = ck[r.clerk].ops
                               THEN runs[r.clerk] + 1 ELSE runs[r.clerk]
           /\ r.op = "Get" => value' = value
<1>1. /\ value' = IF Done(r) THEN Written(r) ELSE value
      /\ seen' = [d \in Clerks |-> IF ck[d].op = "none" THEN {} ELSE seen[d] \cup {value'}]
      /\ runs' = [runs EXCEPT ![r.clerk] =
                      IF Done(r) /\ r.tag[2] = ck[r.clerk].ops THEN @ + 1 ELSE @]
  BY Zenon DEF Execute, Done
<1>2. r.op = "Get" => value' = value
  BY <1>1, Zenon DEF Written
<1>3. runs \in [Clerks -> Nat]
  BY Zenon DEF ClerkTypes
<1>4. /\ seen' = [d \in Clerks |-> seen'[d]]
      /\ \A d \in Clerks : ck[d].op # "none" => seen'[d] = seen[d] \cup {value'}
  BY <1>1, Zenon
<1>5. /\ runs' \in [Clerks -> Nat]
      /\ \A d \in Clerks \ {r.clerk} : runs'[d] = runs[d]
      /\ runs'[r.clerk] = IF Done(r) /\ r.tag[2] = ck[r.clerk].ops
                          THEN runs[r.clerk] + 1 ELSE runs[r.clerk]
  BY <1>1, <1>3
<1> QED
  BY <1>2, <1>4, <1>5, Zenon

(* A clerk returns on the replies to executed requests and on no other. *)
LEMMA ReplyFacts ==
    ASSUME NEW r, r.op \in Ops
    PROVE  Returns(r.op, ReplyErr(r)) <=> Done(r)
BY Zenon DEF Returns, ReplyErr, Done, Outcome, Ops

(* A server that answers a clerk's Call keeps the invariant. *)
LEMMA ServeKeeps ==
    ASSUME SInv, NEW c \in Clerks, Serve(c)
    PROVE  SInv'
<1> DEFINE r == Request(c)
<1> DEFINE num == IF ReplyErr(r) = "ErrWrongGroup" THEN latest.Num ELSE 0
<1> DEFINE val == IF ck[c].op = "Get" THEN value ELSE <<>>
<1>0. /\ ClerkTypes /\ ClerkInv(c) /\ c \in Callers /\ ck \in [Clerks -> ClerkState]
      /\ ck[c] \in ClerkState /\ rpc = [q \in Callers |-> rpc[q]] /\ runs[c] \in Nat
  BY Sizes, Zenon DEF SInv, ClerkTypes
<1>1. /\ rpc[c].op = "sent" /\ ctl[c].op = "none" /\ Execute(r)
      /\ rpc' = [rpc EXCEPT ![c] = [op |-> "reply", Err |-> ReplyErr(r), Value |-> val, Num |-> num]]
      /\ latest' = latest /\ ctrler' = ctrler /\ leader' = leader /\ fails' = fails
      /\ calm' = calm /\ ck' = ck /\ ctl' = ctl /\ late' = late /\ refused' = refused
  BY Zenon DEF Serve
<1>2. /\ r.op = ck[c].op /\ r.clerk = c /\ r.tag[2] = ck[c].ops
      /\ ck[c].op \in Ops /\ ck[c].op # "none" /\ ck[c].gid \in Gids
  <2>1. ck[c].op # "none"
    BY <1>0, <1>1, Zenon DEF ClerkInv, PointFits
  <2>2. ck[c].op \in Ops
    BY <1>0, <2>1 DEF ClerkState
  <2>3. ck[c].gid \in Gids
    BY <1>0, <1>1, <2>1, Zenon DEF ClerkInv, PointFits, Calling
  <2> QED
    BY <2>1, <2>2, <2>3 DEF Request
<1>3. num \in Nat /\ num <= latest.Num
  BY <1>0, Configs DEF ClerkTypes
<1> HIDE DEF r, num
<1>4. /\ rpc' = [q \in Callers |-> rpc'[q]]
      /\ rpc'[c].op = "reply" /\ rpc'[c].Err = ReplyErr(r)
      /\ rpc'[c].Value = val /\ rpc'[c].Num = num
      /\ \A q \in Callers \ {c} : rpc'[q] = rpc[q]
  <2> HIDE DEF val
  <2>1. DOMAIN rpc = Callers
    BY <1>0
  <2> QED
    BY <1>0, <1>1, <2>1
<1>5. /\ runs' \in [Clerks -> Nat]
      /\ seen' = [d \in Clerks |-> seen'[d]]
      /\ \A d \in Clerks : ck[d].op # "none" => seen'[d] = seen[d] \cup {value'}
      /\ \A d \in Clerks \ {c} : runs'[d] = runs[d]
      /\ runs'[c] = IF Done(r) THEN runs[c] + 1 ELSE runs[c]
      /\ r.op = "Get" => value' = value
  BY <1>0, <1>1, <1>2, ExecuteFacts, Zenon
<1>6. ClerkTypes'
  BY <1>0, <1>1, <1>4, <1>5, Zenon DEF ClerkTypes
<1>7. ClerkInv(c)'
  <2>1. PointFits(c)'
    BY <1>1, <1>2, <1>3, <1>4, Zenon DEF PointFits, CallFits, Calling
  <2>2. ConfigFits(c)'
    BY <1>0, <1>1, <1>3, <1>4, Zenon DEF ClerkInv, ConfigFits
  <2>3. Answered(c)' <=> Done(r)
    <3>1. Answered(c)' <=> Returns(r.op, ReplyErr(r))
      BY <1>1, <1>2, <1>4, Zenon DEF Answered, Returns
    <3> QED
      BY <1>2, <3>1, ReplyFacts, Zenon
  <2>4. ck[c].lost \/ runs[c] = 0
    <3>1. ~Answered(c)
      BY <1>1, Zenon DEF Answered
    <3> QED
      BY <1>0, <1>2, <3>1, NotExecuted, Zenon
  <2>5. RunsFit(c)'
    BY <1>0, <1>1, <1>5, <2>3, <2>4 DEF RunsFit
  <2>6. ValueFits(c)'
    <3>1. seen'[c] = seen[c] \cup {value'}
      BY <1>2, <1>5, Zenon
    <3>2. ck[c].op = "Get" => rpc'[c].Value = value'
      BY <1>2, <1>4, <1>5, Zenon
    <3> QED
      BY <1>1, <3>1, <3>2, Zenon DEF ValueFits
  <2> QED
    BY <2>1, <2>2, <2>5, <2>6, Zenon DEF ClerkInv
<1>8. OnlyMoves(c)
  BY <1>1, <1>4, <1>5, Zenon DEF OnlyMoves
<1>9. latest' \in Config /\ latest.Num <= latest'.Num
  BY <1>0, <1>1, Configs DEF ClerkTypes
<1>10. AdminFits' /\ \A d \in Clerks : ClerkInv(d)'
  BY <1>0, <1>7, <1>8, <1>9, Sizes, OthersKept, Zenon
<1>11. \A l \in late' : LateFits(l)'
  BY <1>1, Zenon DEF SInv, LateFits
<1> QED
  BY <1>6, <1>10, <1>11, Zenon DEF SInv

(* So does one that a request reaches after its Call has failed. *)
LEMMA ServeLateKeeps ==
    ASSUME SInv, NEW r, ServeLate(r)
    PROVE  SInv'
<1>0. /\ ClerkTypes /\ r \in late /\ LateFits(r) /\ r.clerk \in Clerks /\ Execute(r)
      /\ latest' = latest /\ ctrler' = ctrler /\ leader' = leader /\ fails' = fails
      /\ calm' = calm /\ ck' = ck /\ ctl' = ctl /\ rpc' = rpc /\ refused' = refused
      /\ late' = late \ {r}
  BY Zenon DEF SInv, ServeLate, LateFits
<1> DEFINE c == r.clerk
<1>1. /\ runs' \in [Clerks -> Nat]
      /\ seen' = [d \in Clerks |-> seen'[d]]
      /\ \A d \in Clerks : ck[d].op # "none" => seen'[d] = seen[d] \cup {value'}
      /\ \A d \in Clerks \ {c} : runs'[d] = runs[d]
      /\ runs'[c] = IF Done(r) /\ r.tag[2] = ck[c].ops THEN runs[c] + 1 ELSE runs[c]
  BY <1>0, ExecuteFacts, Zenon
<1>2. ClerkInv(c) /\ runs[c] \in Nat /\ c \in Callers
  BY <1>0, Sizes, Zenon DEF SInv, ClerkTypes
<1>3. r.tag[2] = ck[c].ops => ck[c].lost
  BY <1>0, Zenon DEF LateFits
<1> HIDE DEF c
<1>4. ClerkTypes'
  BY <1>0, <1>1, Zenon DEF ClerkTypes
<1>5. ClerkInv(c)'
  <2>1. PointFits(c)' /\ ConfigFits(c)'
    BY <1>0, <1>2, Zenon DEF ClerkInv, PointFits, CallFits, Calling, ConfigFits
  <2>2. RunsFit(c)'
    <3>1. RunsFit(c) /\ (Answered(c)' <=> Answered(c))
      BY <1>0, <1>2, Zenon DEF ClerkInv, Answered
    <3> QED
      BY <1>0, <1>1, <1>2, <1>3, <3>1 DEF RunsFit
  <2>3. ValueFits(c)'
    BY <1>0, <1>1, <1>2, Zenon DEF ClerkInv, ValueFits, c
  <2> QED
    BY <2>1, <2>2, <2>3, Zenon DEF ClerkInv
<1>6. OnlyMoves(c)
  BY <1>0, <1>1, Zenon DEF OnlyMoves
<1>7. latest' \in Config /\ latest.Num <= latest'.Num
  BY <1>0, Configs DEF ClerkTypes
<1>8. c # Admin
  BY <1>0, Sizes, Zenon DEF c
<1>9. AdminFits' /\ \A d \in Clerks : ClerkInv(d)'
  BY <1>2, <1>5, <1>6, <1>7, <1>8, OthersKept, Zenon
<1>10. \A l \in late' : LateFits(l)'
  BY <1>0, Zenon DEF SInv, LateFits
<1> QED
  BY <1>4, <1>9, <1>10, Zenon DEF SInv

(* The controller answers a caller, and may have made a configuration. *)
LEMMA ServeCtrlerKeeps ==
    ASSUME SInv, NEW p \in Callers, ServeCtrler(p)
    PROVE  SInv'
<1>0. /\ ClerkTypes /\ ctl[p].op # "none" /\ CtrlerReply(p, ctl[p].i)
      /\ ctrler' = ctrler /\ leader' = leader /\ fails' = fails
      /\ calm' = calm /\ ck' = ck /\ ctl' = ctl /\ late' = late
      /\ seen' = seen /\ runs' = runs /\ refused' = refused
  BY Zenon DEF SInv, ServeCtrler, history
<1>1. DOMAIN rpc = Callers /\ latest \in Config /\ latest.Num \in Nat
  BY <1>0, Configs DEF ClerkTypes
<1>2. /\ latest' \in Config /\ latest.Num <= latest'.Num
      /\ ctl[p].op = "Query" => latest' = latest
  <2>1. \/ latest' = latest
        \/ ctl[p].op # "Query" /\ \E new \in Config : Follows(new, ctl[p].op) /\ latest' = new
    BY <1>0, Zenon DEF CtrlerReply
  <2>2. ASSUME NEW new \in Config, Follows(new, ctl[p].op) PROVE latest.Num <= new.Num
    <3>1. new.Num = latest.Num + 1
      BY <2>2, Zenon DEF Follows
    <3> QED
      BY <1>1, <3>1
  <2> QED
    BY <1>1, <2>1, <2>2
<1>3. /\ rpc' = [q \in Callers |-> rpc'[q]]
      /\ rpc'[p].op = "reply" /\ rpc'[p].WrongLeader \in BOOLEAN /\ rpc'[p].Config \in Config
      /\ \A q \in Callers \ {p} : rpc'[q] = rpc[q]
      /\ ctl[p].op = "Query" /\ rpc'[p].WrongLeader = FALSE => rpc'[p].Config = latest
  <2>1. PICK wrong \in BOOLEAN, g \in Config :
            /\ rpc' = [rpc EXCEPT ![p] = [op |-> "reply", WrongLeader |-> wrong, Config |-> g]]
            /\ ctl[p].op = "Query" /\ wrong = FALSE => g = latest
    BY <1>0, <1>1, Configs, Zenon DEF CtrlerReply
  <2>2. /\ rpc' = [q \in Callers |-> rpc'[q]]
        /\ rpc'[p] = [op |-> "reply", WrongLeader |-> wrong, Config |-> g]
        /\ \A q \in Callers \ {p} : rpc'[q] = rpc[q]
    BY <1>1, <2>1
  <2>3. rpc'[p].op = "reply" /\ rpc'[p].WrongLeader = wrong /\ rpc'[p].Config = g
    BY <2>2
  <2> QED
    BY <2>1, <2>2, <2>3, Zenon
<1>4. ClerkTypes'
  BY <1>0, <1>2, <1>3, Zenon DEF ClerkTypes
<1>5. ASSUME p \in Clerks PROVE ClerkInv(p)'
  <2>0. /\ ClerkInv(p) /\ ck[p].op # "none" /\ ctl[p].op = "Query" /\ latest' = latest
    BY <1>0, <1>2, <1>5, Zenon DEF SInv, ClerkInv, PointFits
  <2>1. PointFits(p)'
    BY <1>0, <1>3, <2>0, Zenon DEF PointFits, CallFits, Calling
  <2>2. ConfigFits(p)'
    BY <1>0, <1>3, <2>0, Zenon DEF ClerkInv, ConfigFits
  <2>3. ck[p].lost \/ runs[p] = 0
    <3>1. ~Answered(p)
      BY <1>0, Zenon DEF Answered
    <3> QED
      BY <1>5, <2>0, <3>1, NotExecuted, Zenon
  <2>4. RunsFit(p)' /\ ValueFits(p)'
    BY <1>0, <2>3, Zenon DEF RunsFit, ValueFits, Answered
  <2> QED
    BY <2>1, <2>2, <2>4, Zenon DEF ClerkInv
<1>6. ASSUME p = Admin PROVE AdminFits'
  BY <1>0, <1>3, <1>6, Zenon DEF AdminFits, CallFits
<1>7. OnlyMoves(p)
  BY <1>0, <1>3, Zenon DEF OnlyMoves
<1>8. AdminFits' /\ \A d \in Clerks : ClerkInv(d)'
  BY <1>2, <1>5, <1>6, <1>7, OthersKept, Zenon
<1>9. \A l \in late' : LateFits(l)'
  BY <1>0, Zenon DEF SInv, LateFits
<1> QED
  BY <1>4, <1>8, <1>9, Zenon DEF SInv

(* Elections, and the end of failures, concern no clerk. *)
LEMMA LeadersKeep ==
    ASSUME SInv, NewLeader \/ Calm
    PROVE  SInv'
<1>0. /\ ClerkTypes
      /\ latest' = latest /\ ck' = ck /\ ctl' = ctl /\ rpc' = rpc /\ late' = late
      /\ seen' = seen /\ runs' = runs /\ refused' = refused
  BY Zenon DEF SInv, NewLeader, Calm, service, history
<1>1. fails' \in 0..MaxFails /\ calm' \in BOOLEAN
  <2>1. CASE NewLeader
    BY <1>0, <2>1, Sizes DEF NewLeader, ClerkTypes
  <2>2. CASE Calm
    BY <1>0, <2>2 DEF Calm, ClerkTypes
  <2> QED
    BY <2>1, <2>2
<1>2. ctrler' \in 1..NCtrlers /\ leader' \in [Gids -> 1..NServers]
  <2>1. CASE NewLeader
    BY <1>0, <2>1 DEF NewLeader, ClerkTypes
  <2>2. CASE Calm
    BY <1>0, <2>2, Zenon DEF Calm, ClerkTypes, service
  <2> QED
    BY <2>1, <2>2
<1>3. ClerkTypes'
  BY <1>0, <1>1, <1>2, Zenon DEF ClerkTypes
<1>4. latest' \in Config /\ latest.Num <= latest'.Num
  BY <1>0, Configs DEF ClerkTypes
<1>5. ASSUME NEW d \in Clerks PROVE ClerkInv(d)'
  <2>1. ClerkInv(d)
    BY Zenon DEF SInv
  <2> QED
    BY <1>0, <1>4, <2>1, OtherClerk, Zenon
<1>6. AdminFits' /\ \A l \in late' : LateFits(l)'
  BY <1>0, Zenon DEF SInv, AdminFits, CallFits, LateFits
<1> QED
  BY <1>3, <1>5, <1>6, Zenon DEF SInv
-----------------------------------------------------------------------------
(* The next server of the controller. *)
LEMMA NextCtrlerFacts ==
    ASSUME ClerkTypes, NEW p \in Callers, ctl[p].op # "none", NextCtrler(p)
    PROVE  /\ ctl' \in [Callers -> CtlState]
           /\ rpc' = [q \in Callers |-> rpc'[q]]
           /\ ctl'[p].op = ctl[p].op /\ rpc'[p].op = "sent"
           /\ \A q \in Callers \ {p} : ctl'[q] = ctl[q] /\ rpc'[q] = rpc[q]
<1>1. ctl[p] \in CtlState
  BY Zenon DEF ClerkTypes
<1>2. ctl[p].op \in {"Query", "Join", "Leave", "Move"} /\ ctl[p].i \in 0..NCtrlers
  BY <1>1 DEF CtlState
<1>3. (ctl[p].i % NCtrlers) + 1 \in 0..NCtrlers
  BY <1>2, Sizes
<1> QED
  BY <1>2, <1>3, AskFacts DEF NextCtrler

(* A caller that asks the next controller, and does nothing else. *)
LEMMA NextCtrlerKeeps ==
    ASSUME SInv, NEW p \in Callers, ctl[p].op # "none", NextCtrler(p),
           fails' \in 0..MaxFails,
           UNCHANGED <<service, calm, ck, late, history>>
    PROVE  SInv'
<1>0. /\ ClerkTypes
      /\ latest' = latest /\ ctrler' = ctrler /\ leader' = leader
      /\ calm' = calm /\ ck' = ck /\ late' = late
      /\ seen' = seen /\ runs' = runs /\ refused' = refused
  BY Zenon DEF SInv, service, history
<1>1. /\ ctl' \in [Callers -> CtlState]
      /\ rpc' = [q \in Callers |-> rpc'[q]]
      /\ ctl'[p].op = ctl[p].op /\ rpc'[p].op = "sent"
      /\ \A q \in Callers \ {p} : ctl'[q] = ctl[q] /\ rpc'[q] = rpc[q]
  BY <1>0, NextCtrlerFacts
<1>2. ClerkTypes'
  BY <1>0, <1>1, Zenon DEF ClerkTypes
<1>3. ASSUME p \in Clerks PROVE ClerkInv(p)'
  <2>1. ClerkInv(p) /\ ck[p].op # "none" /\ ctl[p].op = "Query" /\ refused[p] <= latest.Num
    BY <1>3, Zenon DEF SInv, ClerkInv, PointFits, ConfigFits
  <2>2. ~Answered(p)
    BY Zenon DEF Answered
  <2>3. ck[p].lost \/ runs[p] = 0
    BY <1>3, <2>1, <2>2, NotExecuted, Zenon
  <2>4. ctl'[p].op = "Query" /\ ctl'[p].op # "none"
    BY <1>1, <2>1, Zenon
  <2> QED
    BY <1>0, <1>1, <1>3, <2>1, <2>3, <2>4, SentFits, Zenon
<1>4. ASSUME p = Admin PROVE AdminFits'
  BY <1>1, <1>4, Zenon DEF AdminFits, CallFits
<1>5. OnlyMoves(p)
  BY <1>0, <1>1, Zenon DEF OnlyMoves
<1>6. latest' \in Config /\ latest.Num <= latest'.Num
  BY <1>0, Configs DEF ClerkTypes
<1>7. AdminFits' /\ \A d \in Clerks : ClerkInv(d)'
  BY <1>3, <1>4, <1>5, <1>6, OthersKept, Zenon
<1>8. \A l \in late' : LateFits(l)'
  BY <1>0, Zenon DEF SInv, LateFits
<1> QED
  BY <1>2, <1>7, <1>8, Zenon DEF SInv

(* An administrator who begins a Join, Leave or Move keeps it. *)
LEMMA BeginAdminKeeps ==
    ASSUME SInv, NEW op \in {"Join", "Leave", "Move"}, BeginAdmin(op)
    PROVE  SInv'
<1>0. /\ ClerkTypes /\ AskCtrler(Admin, op, 1) /\ Admin \in Callers /\ 1 \in 0..NCtrlers
      /\ latest' = latest /\ ctrler' = ctrler /\ leader' = leader /\ fails' = fails
      /\ calm' = calm /\ ck' = ck /\ late' = late
      /\ seen' = seen /\ runs' = runs /\ refused' = refused
  BY Sizes DEF SInv, BeginAdmin, service, history
<1>1. /\ ctl' \in [Callers -> CtlState]
      /\ rpc' = [q \in Callers |-> rpc'[q]]
      /\ ctl'[Admin].op = op /\ rpc'[Admin].op = "sent"
      /\ \A q \in Callers \ {Admin} : ctl'[q] = ctl[q] /\ rpc'[q] = rpc[q]
  BY <1>0, AskFacts
<1>2. ClerkTypes'
  BY <1>0, <1>1, Zenon DEF ClerkTypes
<1>3. AdminFits'
  BY <1>1, Zenon DEF AdminFits, CallFits
<1>4. OnlyMoves(Admin)
  BY <1>0, <1>1, Zenon DEF OnlyMoves
<1>5. latest' \in Config /\ latest.Num <= latest'.Num
  BY <1>0, Configs DEF ClerkTypes
<1>6. AdminFits' /\ \A d \in Clerks : ClerkInv(d)'
  BY <1>0, <1>3, <1>4, <1>5, Sizes, OthersKept, Zenon
<1>7. \A l \in late' : LateFits(l)'
  BY <1>0, Zenon DEF SInv, LateFits
<1> QED
  BY <1>2, <1>6, <1>7, Zenon DEF SInv

(* A clerk has its configuration, and goes on with its operation. *)
LEMMA RenewKeeps ==
    ASSUME SInv, NEW c \in Clerks, rpc[c].op = "reply", ctl[c].op # "none",
           rpc[c].WrongLeader = FALSE, Attempt(c, [ck[c] EXCEPT !.config = rpc[c].Config]),
           UNCHANGED <<service, fails, calm, late, history>>
    PROVE  SInv'
<1> DEFINE s == [ck[c] EXCEPT !.config = rpc[c].Config]
<1>0. /\ ClerkTypes /\ ClerkInv(c) /\ c \in Callers /\ ck[c] \in ClerkState
      /\ ck \in [Clerks -> ClerkState]
      /\ latest' = latest /\ ctrler' = ctrler /\ leader' = leader /\ fails' = fails
      /\ calm' = calm /\ late' = late /\ seen' = seen /\ runs' = runs /\ refused' = refused
  BY Sizes, Zenon DEF SInv, ClerkTypes, service, history
<1>1. /\ rpc[c].Config \in Config /\ refused[c] <= rpc[c].Config.Num /\ refused[c] <= latest.Num
      /\ ck[c].op # "none"
  BY <1>0, Zenon DEF ClerkInv, PointFits, CallFits, ConfigFits
<1>2. ck[c].lost \/ runs[c] = 0
  <2>1. ~Answered(c)
    BY Zenon DEF Answered
  <2> QED
    BY <1>0, <1>1, <2>1, NotExecuted, Zenon
<1>3. /\ s \in ClerkState /\ s.op = ck[c].op /\ s.config = rpc[c].Config
      /\ s.ops = ck[c].ops /\ s.lost = ck[c].lost
  <2>1. \A t \in ClerkState, g \in Config :
            LET u == [t EXCEPT !.config = g]
            IN  /\ u \in ClerkState /\ u.op = t.op /\ u.config = g
                /\ u.ops = t.ops /\ u.lost = t.lost
    BY DEF ClerkState
  <2> QED
    BY <1>0, <1>1, <2>1, Zenon
<1>4. Attempt(c, s)
  OBVIOUS
<1> HIDE DEF s
<1>5. /\ ck' \in [Clerks -> ClerkState]
      /\ ctl' \in [Callers -> CtlState]
      /\ rpc' = [q \in Callers |-> rpc'[q]]
      /\ /\ ck'[c].op = s.op /\ ck'[c].config = s.config
         /\ ck'[c].ops = s.ops /\ ck'[c].lost = s.lost
      /\ ctl'[c].op \in {"none", "Query"} /\ rpc'[c].op = "sent"
      /\ ctl'[c].op = "none" => ck'[c].gid \in Gids
      /\ \A d \in Clerks \ {c} : ck'[d] = ck[d]
      /\ \A q \in Callers \ {c} : ctl'[q] = ctl[q] /\ rpc'[q] = rpc[q]
  BY <1>0, <1>3, <1>4, AttemptFacts
<1>6. ClerkTypes'
  BY <1>0, <1>5, Zenon DEF ClerkTypes
<1>7. ClerkInv(c)'
  BY <1>0, <1>1, <1>2, <1>3, <1>5, SentFits, Zenon
<1>8. OnlyMoves(c)
  BY <1>0, <1>5, Zenon DEF OnlyMoves
<1>9. latest' \in Config /\ latest.Num <= latest'.Num
  BY <1>0, Configs DEF ClerkTypes
<1>10. AdminFits' /\ \A d \in Clerks : ClerkInv(d)'
  BY <1>0, <1>7, <1>8, <1>9, Sizes, OthersKept, Zenon
<1>11. \A d \in Clerks : ck'[d].ops = ck[d].ops /\ (ck[d].lost => ck'[d].lost)
  BY <1>3, <1>5, Zenon
<1>12. \A r \in late' : LateFits(r)'
  BY <1>0, <1>5, <1>11, LateKept, Zenon
<1> QED
  BY <1>6, <1>10, <1>12, Zenon DEF SInv

(* A caller that reads the controller's reply keeps it. *)
LEMMA CtrlerAnswersKeeps ==
    ASSUME SInv, NEW p \in Callers, CtrlerAnswers(p)
    PROVE  SInv'
<1>0. /\ ClerkTypes /\ rpc[p].op = "reply" /\ ctl[p].op # "none"
      /\ UNCHANGED <<service, fails, calm, late, history>>
      /\ fails \in 0..MaxFails
  BY Zenon DEF SInv, ClerkTypes, CtrlerAnswers
<1>1. CASE NextCtrler(p) /\ UNCHANGED ck
  <2>1. fails' \in 0..MaxFails /\ UNCHANGED <<service, calm, ck, late, history>>
    BY <1>0, <1>1, Zenon
  <2> QED
    BY <1>0, <1>1, <2>1, NextCtrlerKeeps, Zenon
<1>2. CASE Accepted(rpc[p]) /\ p \in Clerks /\ Attempt(p, [ck[p] EXCEPT !.config = rpc[p].Config])
  <2>1. rpc[p].WrongLeader = FALSE
    BY <1>2, Zenon DEF Accepted
  <2> QED
    BY <1>0, <1>2, <2>1, RenewKeeps, Zenon
<1>3. CASE /\ p = Admin
           /\ ctl' = [ctl EXCEPT ![p] = [op |-> "none", i |-> 0]]
           /\ rpc' = [rpc EXCEPT ![p] = None]
           /\ UNCHANGED ck
  <2>0. /\ latest' = latest /\ ctrler' = ctrler /\ leader' = leader /\ fails' = fails
        /\ calm' = calm /\ late' = late /\ seen' = seen /\ runs' = runs /\ refused' = refused
        /\ ck' = ck
    BY <1>0, <1>3, Zenon DEF service, history
  <2>1. [op |-> "none", i |-> 0] \in CtlState /\ DOMAIN rpc = Callers
    BY <1>0, Sizes DEF CtlState, ClerkTypes
  <2>2. /\ ctl' \in [Callers -> CtlState]
        /\ rpc' = [q \in Callers |-> rpc'[q]]
        /\ rpc'[p].op = "none"
        /\ \A q \in Callers \ {p} : ctl'[q] = ctl[q] /\ rpc'[q] = rpc[q]
    BY <1>0, <1>3, <2>1 DEF ClerkTypes, None
  <2>3. ClerkTypes'
    BY <1>0, <2>0, <2>2, Zenon DEF ClerkTypes
  <2>4. AdminFits' /\ p \notin Clerks
    BY <1>3, <2>2, Sizes, Zenon DEF AdminFits, CallFits
  <2>5. OnlyMoves(p)
    BY <2>0, <2>2, Zenon DEF OnlyMoves
  <2>6. latest' \in Config /\ latest.Num <= latest'.Num
    BY <1>0, <2>0, Configs DEF ClerkTypes
  <2>7. AdminFits' /\ \A d \in Clerks : ClerkInv(d)'
    BY <2>4, <2>5, <2>6, OthersKept, Zenon
  <2>8. \A l \in late' : LateFits(l)'
    BY <2>0, Zenon DEF SInv, LateFits
  <2> QED
    BY <2>3, <2>7, <2>8, Zenon DEF SInv
<1> QED
  BY <1>1, <1>2, <1>3, Zenon DEF CtrlerAnswers

(* A clerk that goes on to the next server, after a failed Call or after a *)
(* reply it neither returns on nor takes for a refusal of the shard.       *)
LEMMA NextServerKeeps ==
    ASSUME SInv, NEW c \in Clerks, ctl[c].op = "none", rpc[c].op # "none", NEW s \in ClerkState,
           s.op = ck[c].op, s.config = ck[c].config, s.gid = ck[c].gid, s.ops = ck[c].ops,
           ck[c].lost => s.lost, s.lost \/ ~Answered(c), NextServer(c, s),
           fails' \in 0..MaxFails, late' = late \/ (late' = late \cup {Request(c)} /\ s.lost),
           UNCHANGED <<service, calm, history>>
    PROVE  SInv'
<1>0. /\ ClerkTypes /\ ClerkInv(c) /\ c \in Callers /\ ck \in [Clerks -> ClerkState]
      /\ ck[c] \in ClerkState
      /\ latest' = latest /\ ctrler' = ctrler /\ leader' = leader
      /\ calm' = calm /\ seen' = seen /\ runs' = runs /\ refused' = refused
  BY Sizes, Zenon DEF SInv, ClerkTypes, service, history
<1>1. /\ ck[c].op # "none" /\ ck[c].gid \in Gids
      /\ refused[c] <= latest.Num /\ refused[c] <= ck[c].config.Num
  BY <1>0, Zenon DEF ClerkInv, PointFits, ConfigFits, Calling
<1>2. s.lost \/ runs[c] = 0
  BY <1>0, <1>1, NotExecuted, Zenon
<1>3. /\ ck' \in [Clerks -> ClerkState]
      /\ ctl' \in [Callers -> CtlState]
      /\ rpc' = [q \in Callers |-> rpc'[q]]
      /\ /\ ck'[c].op = s.op /\ ck'[c].config = s.config /\ ck'[c].gid = s.gid
         /\ ck'[c].ops = s.ops /\ ck'[c].lost = s.lost
      /\ ctl'[c].op \in {ctl[c].op, "Query"} /\ rpc'[c].op = "sent"
      /\ \A d \in Clerks \ {c} : ck'[d] = ck[d]
      /\ \A q \in Callers \ {c} : ctl'[q] = ctl[q] /\ rpc'[q] = rpc[q]
  BY <1>0, NextServerFacts
<1>4. ClerkTypes'
  BY <1>0, <1>3, Zenon DEF ClerkTypes
<1>5. ClerkInv(c)'
  <2>1. ctl'[c].op \in {"none", "Query"}
    BY <1>3, Zenon
  <2> QED
    BY <1>0, <1>1, <1>2, <1>3, <2>1, SentFits, Zenon
<1>6. OnlyMoves(c)
  BY <1>0, <1>3, Zenon DEF OnlyMoves
<1>7. latest' \in Config /\ latest.Num <= latest'.Num
  BY <1>0, Configs DEF ClerkTypes
<1>8. AdminFits' /\ \A d \in Clerks : ClerkInv(d)'
  BY <1>0, <1>5, <1>6, <1>7, Sizes, OthersKept, Zenon
<1>9. \A d \in Clerks : ck'[d].ops = ck[d].ops /\ (ck[d].lost => ck'[d].lost)
  BY <1>3, Zenon
<1>10. \A r \in late : LateFits(r)'
  BY <1>0, <1>3, <1>9, LateKept, Zenon
<1>11. ASSUME s.lost, NEW r, r = Request(c) PROVE LateFits(r)'
  <2>1. r.clerk = c /\ r.tag[2] = ck[c].ops
    BY <1>11 DEF Request
  <2>2. ck[c].ops \in Nat /\ ck[c].ops <= ck[c].ops
    BY <1>0 DEF ClerkState
  <2> QED
    BY <1>3, <1>11, <2>1, <2>2, Zenon DEF LateFits
<1>12. \A r \in late' : LateFits(r)'
  BY <1>10, <1>11, Zenon
<1> QED
  BY <1>4, <1>8, <1>12, Zenon DEF SInv

(* A Call that returns false keeps it: the clerk has lost one now. *)
LEMMA CallFailsKeeps ==
    ASSUME SInv, NEW p \in Callers, CallFails(p)
    PROVE  SInv'
<1>0. /\ ClerkTypes /\ rpc[p].op # "none" /\ UNCHANGED <<service, calm, history>>
      /\ fails' \in 0..MaxFails
  BY Sizes DEF SInv, ClerkTypes, CallFails
<1>1. CASE ctl[p].op # "none"
  <2>1. NextCtrler(p) /\ UNCHANGED <<ck, late>>
    BY <1>1, Zenon DEF CallFails
  <2>2. UNCHANGED <<service, calm, ck, late, history>>
    BY <1>0, <2>1, Zenon
  <2> QED
    BY <1>0, <1>1, <2>1, <2>2, NextCtrlerKeeps, Zenon
<1>2. CASE ctl[p].op = "none"
  <2> DEFINE s == [ck[p] EXCEPT !.lost = TRUE]
  <2>1. /\ NextServer(p, s)
        /\ late' = late \/ late' = late \cup {Request(p)}
    BY <1>2 DEF CallFails
  <2>2. p \in Clerks
    BY <1>0, <1>2, Zenon DEF SInv, AdminFits, Callers
  <2>3. ck[p] \in ClerkState
    BY <1>0, <2>2, Zenon DEF ClerkTypes
  <2>4. /\ s \in ClerkState /\ s.op = ck[p].op /\ s.config = ck[p].config /\ s.gid = ck[p].gid
        /\ s.ops = ck[p].ops /\ s.lost = TRUE
    <3>1. \A t \in ClerkState :
              LET u == [t EXCEPT !.lost = TRUE]
              IN  /\ u \in ClerkState /\ u.op = t.op /\ u.config = t.config /\ u.gid = t.gid
                  /\ u.ops = t.ops /\ u.lost = TRUE
      BY DEF ClerkState
    <3> QED
      BY <2>3, <3>1, Zenon
  <2> HIDE DEF s
  <2>5. s.lost
    BY <2>4, Zenon
  <2> QED
    BY <1>0, <1>2, <2>1, <2>2, <2>4, <2>5, NextServerKeeps, Zenon
<1> QED
  BY <1>1, <1>2, Zenon

(* A clerk that reads a server's reply keeps it. *)
LEMMA GroupAnswersKeeps ==
    ASSUME SInv, NEW c \in Clerks, GroupAnswers(c)
    PROVE  SInv'
<1> DEFINE err == rpc[c].Err
<1>0. /\ ClerkTypes /\ ClerkInv(c) /\ c \in Callers /\ ck \in [Clerks -> ClerkState]
      /\ ck[c] \in ClerkState /\ refused \in [Clerks -> Nat] /\ fails \in 0..MaxFails
      /\ rpc[c].op = "reply" /\ ctl[c].op = "none"
      /\ latest' = latest /\ ctrler' = ctrler /\ leader' = leader /\ fails' = fails
      /\ calm' = calm /\ late' = late /\ runs' = runs /\ UNCHANGED service
      /\ refused' = IF err = "ErrWrongGroup" THEN [refused EXCEPT ![c] = rpc[c].Num] ELSE refused
  BY Sizes, Zenon DEF SInv, ClerkTypes, GroupAnswers, service
<1>1. latest' \in Config /\ latest.Num <= latest'.Num
  BY <1>0, Configs DEF ClerkTypes
<1>2. /\ ck[c].op # "none" /\ rpc[c].Num \in Nat /\ rpc[c].Num <= latest.Num
      /\ refused[c] <= latest.Num /\ refused[c] <= ck[c].config.Num
  BY <1>0, Zenon DEF ClerkInv, PointFits, CallFits, ConfigFits
<1>3. CASE /\ Returns(ck[c].op, err)
           /\ ck' = [ck EXCEPT ![c].op = "none", ![c].gid = 0, ![c].si = 0]
           /\ rpc' = [rpc EXCEPT ![c] = None]
           /\ seen' = [seen EXCEPT ![c] = {}]
           /\ UNCHANGED ctl
  <2>1. /\ ck' \in [Clerks -> ClerkState]
        /\ ck'[c].op = "none" /\ ck'[c].config = ck[c].config
        /\ ck'[c].ops = ck[c].ops /\ ck'[c].lost = ck[c].lost
        /\ \A d \in Clerks \ {c} : ck'[d] = ck[d]
    <3>1. 0 \in 0..NServers
      BY Sizes
    <3> QED
      BY <1>0, <1>3, <3>1 DEF ClerkState
  <2>2. /\ rpc' = [q \in Callers |-> rpc'[q]] /\ rpc'[c].op = "none"
        /\ \A q \in Callers \ {c} : rpc'[q] = rpc[q]
        /\ seen' = [d \in Clerks |-> seen'[d]]
        /\ \A d \in Clerks \ {c} : seen'[d] = seen[d]
    <3>1. DOMAIN rpc = Callers /\ DOMAIN seen = Clerks
      BY <1>0 DEF ClerkTypes
    <3> QED
      BY <1>0, <1>3, <3>1 DEF None
  <2>3. refused' = refused
    BY <1>0, <1>3, Zenon DEF Returns
  <2>4. ClerkTypes'
    BY <1>0, <1>3, <2>1, <2>2, <2>3, Zenon DEF ClerkTypes
  <2>5. ClerkInv(c)'
    <3>1. PointFits(c)' /\ ConfigFits(c)' /\ ValueFits(c)'
      BY <1>0, <1>2, <1>3, <2>1, <2>2, <2>3, Zenon
         DEF PointFits, CallFits, Calling, ConfigFits, ValueFits
    <3>2. RunsFit(c)'
      BY <1>0, <2>1, <2>2, Zenon DEF ClerkInv, RunsFit, Answered
    <3> QED
      BY <3>1, <3>2, Zenon DEF ClerkInv
  <2>6. OnlyMoves(c)
    BY <1>0, <1>3, <2>1, <2>2, <2>3, Zenon DEF OnlyMoves
  <2>7. AdminFits' /\ \A d \in Clerks : ClerkInv(d)'
    BY <1>0, <1>1, <2>5, <2>6, Sizes, OthersKept, Zenon
  <2>8. \A d \in Clerks : ck'[d].ops = ck[d].ops /\ (ck[d].lost => ck'[d].lost)
    BY <2>1, Zenon
  <2>9. \A r \in late' : LateFits(r)'
    BY <1>0, <2>1, <2>8, LateKept, Zenon
  <2> QED
    BY <2>4, <2>7, <2>9, Zenon DEF SInv
<1>4. CASE Breaks(err) /\ AskCtrler(c, "Query", 1) /\ UNCHANGED <<ck, seen>>
  <2>1. 1 \in 0..NCtrlers
    BY Sizes
  <2>2. /\ ctl' \in [Callers -> CtlState]
        /\ rpc' = [q \in Callers |-> rpc'[q]]
        /\ ctl'[c].op = "Query" /\ rpc'[c].op = "sent"
        /\ \A q \in Callers \ {c} : ctl'[q] = ctl[q] /\ rpc'[q] = rpc[q]
    BY <1>0, <1>4, <2>1, AskFacts
  <2>3. /\ refused' \in [Clerks -> Nat] /\ refused'[c] = rpc[c].Num
        /\ \A d \in Clerks \ {c} : refused'[d] = refused[d]
    BY <1>0, <1>2, <1>4 DEF Breaks
  <2>4. ClerkTypes'
    BY <1>0, <1>4, <2>2, <2>3, Zenon DEF ClerkTypes
  <2>5. ck[c].lost \/ runs[c] = 0
    <3>1. ~Answered(c)
      BY <1>4, Zenon DEF Answered, Returns, Breaks
    <3> QED
      BY <1>0, <1>2, <3>1, NotExecuted, Zenon
  <2>6. ClerkInv(c)'
    <3>1. ctl'[c].op \in {"none", "Query"} /\ ctl'[c].op # "none"
      BY <2>2, Zenon
    <3> QED
      BY <1>0, <1>2, <1>4, <2>2, <2>3, <2>5, <3>1, SentFits, Zenon
  <2>7. OnlyMoves(c)
    BY <1>0, <1>4, <2>2, <2>3, Zenon DEF OnlyMoves
  <2>8. AdminFits' /\ \A d \in Clerks : ClerkInv(d)'
    BY <1>0, <1>1, <2>6, <2>7, Sizes, OthersKept, Zenon
  <2>9. \A r \in late' : LateFits(r)'
    BY <1>0, <1>4, Zenon DEF SInv, LateFits
  <2> QED
    BY <2>4, <2>8, <2>9, Zenon DEF SInv
<1>5. CASE ~Returns(ck[c].op, err) /\ ~Breaks(err) /\ NextServer(c, ck[c]) /\ UNCHANGED seen
  <2>1. refused' = refused /\ ~Answered(c) /\ UNCHANGED <<service, calm, history>>
    BY <1>0, <1>5, Zenon DEF Breaks, Answered, history
  <2>2. fails' \in 0..MaxFails /\ rpc[c].op # "none"
    BY <1>0, Zenon
  <2> QED
    BY <1>0, <1>5, <2>1, <2>2, NextServerKeeps, Zenon
<1> QED
  BY <1>3, <1>4, <1>5, Zenon DEF GroupAnswers
-----------------------------------------------------------------------------
(* The invariant holds at first. *)
LEMMA SInitial == SInit => SInv
<1> SUFFICES ASSUME SInit PROVE SInv
  OBVIOUS
<1>0. /\ latest = Config0 /\ ctrler \in 1..NCtrlers /\ leader \in [Gids -> 1..NServers]
      /\ fails = 0 /\ calm = FALSE /\ late = {}
      /\ rpc = [p \in Callers |-> None] /\ seen = [c \in Clerks |-> {}]
      /\ runs = [c \in Clerks |-> 0] /\ refused = [c \in Clerks |-> 0]
      /\ ck = [c \in Clerks |-> [op |-> "none", config |-> Config0, gid |-> 0, si |-> 0,
                                 ops |-> 0, lost |-> FALSE]]
      /\ ctl = [p \in Callers |-> [op |-> "none", i |-> 0]]
  BY Zenon DEF SInit
<1>1. /\ [op |-> "none", config |-> Config0, gid |-> 0, si |-> 0, ops |-> 0, lost |-> FALSE]
           \in ClerkState
      /\ [op |-> "none", i |-> 0] \in CtlState
      /\ 0 \in Nat /\ 0 \in 0..MaxFails /\ FALSE \in BOOLEAN
  BY Sizes, Configs DEF ClerkState, CtlState
<1>2. ck \in [Clerks -> ClerkState] /\ ctl \in [Callers -> CtlState]
  BY <1>0, <1>1, Zenon
<1>3. ClerkTypes
  <2>1. /\ runs \in [Clerks -> Nat] /\ refused \in [Clerks -> Nat]
        /\ rpc = [p \in Callers |-> rpc[p]] /\ seen = [c \in Clerks |-> seen[c]]
    BY <1>0, <1>1
  <2> QED
    BY <1>0, <1>1, <1>2, <2>1, Configs, Zenon DEF ClerkTypes
<1>4. \A p \in Callers : ctl[p].op = "none" /\ rpc[p].op = "none"
  BY <1>0 DEF None
<1>5. AdminFits
  BY <1>4, Sizes, Zenon DEF AdminFits, CallFits
<1>6. ASSUME NEW c \in Clerks PROVE ClerkInv(c)
  <2>1. /\ ctl[c].op = "none" /\ rpc[c].op = "none"
    BY <1>4, Sizes, Zenon
  <2>2. /\ ck[c].op = "none" /\ ck[c].config = Config0 /\ ~ck[c].lost
        /\ runs[c] = 0 /\ refused[c] = 0 /\ latest.Num = 0 /\ Config0.Num = 0 /\ 0 <= 0
    <3>1. ck[c] = [op |-> "none", config |-> Config0, gid |-> 0, si |-> 0, ops |-> 0,
                   lost |-> FALSE]
      BY <1>0
    <3>2. ck[c].op = "none" /\ ck[c].config = Config0 /\ ck[c].lost = FALSE
      BY <3>1
    <3>3. runs[c] = 0 /\ refused[c] = 0 /\ latest = Config0
      BY <1>0
    <3>4. Config0.Num = 0 /\ 0 <= 0
      BY DEF Config0
    <3> QED
      BY <3>2, <3>3, <3>4, Zenon
  <2>3. PointFits(c)
    BY <2>1, <2>2, Zenon DEF PointFits, CallFits, Calling
  <2>4. ConfigFits(c)
    BY <2>1, <2>2, Zenon DEF ConfigFits
  <2>5. RunsFit(c) /\ ValueFits(c)
    BY <2>1, <2>2, Zenon DEF RunsFit, ValueFits, Answered
  <2> QED
    BY <2>3, <2>4, <2>5, Zenon DEF ClerkInv
<1> QED
  BY <1>0, <1>3, <1>5, <1>6, Zenon DEF SInv

(* Every step keeps the invariant. *)
LEMMA SStep == SInv /\ [SNext]_svars => SInv'
<1> SUFFICES ASSUME SInv, [SNext]_svars PROVE SInv'
  OBVIOUS
<1>1. CASE SNext
  <2>1. ASSUME NEW c \in Clerks, NEW op \in {"Get", "Put", "Append"}, Begin(c, op) PROVE SInv'
    BY <2>1, BeginKeeps, Zenon DEF Ops
  <2>2. ASSUME NEW c \in Clerks, Serve(c) \/ GroupAnswers(c) PROVE SInv'
    BY <2>2, ServeKeeps, GroupAnswersKeeps, Zenon
  <2>3. ASSUME NEW op \in {"Join", "Leave", "Move"}, BeginAdmin(op) PROVE SInv'
    BY <2>3, BeginAdminKeeps, Zenon
  <2>4. ASSUME NEW p \in Callers, ServeCtrler(p) \/ CtrlerAnswers(p) \/ CallFails(p) PROVE SInv'
    BY <2>4, ServeCtrlerKeeps, CtrlerAnswersKeeps, CallFailsKeeps, Zenon
  <2>5. ASSUME NEW r \in late, ServeLate(r) PROVE SInv'
    BY <2>5, ServeLateKeeps, Zenon
  <2> QED
    BY <1>1, <2>1, <2>2, <2>3, <2>4, <2>5, LeadersKeep, Zenon DEF SNext
<1>2. CASE UNCHANGED svars
  <2>1. /\ latest' = latest /\ ctrler' = ctrler /\ leader' = leader /\ fails' = fails
        /\ calm' = calm /\ late' = late /\ seen' = seen /\ runs' = runs /\ refused' = refused
        /\ ck' = ck /\ ctl' = ctl /\ rpc' = rpc
    BY <1>2, Zenon DEF svars, service, history
  <2>2. ClerkTypes' /\ AdminFits'
    BY <2>1, Zenon DEF SInv, ClerkTypes, AdminFits, CallFits
  <2>3. latest' \in Config /\ latest.Num <= latest'.Num
    BY <2>1, Configs DEF SInv, ClerkTypes
  <2>4. ASSUME NEW d \in Clerks PROVE ClerkInv(d)'
    <3>1. ClerkTypes /\ ClerkInv(d)
      BY Zenon DEF SInv
    <3> QED
      BY <2>1, <2>3, <3>1, OtherClerk, Zenon
  <2>5. \A r \in late' : LateFits(r)'
    BY <2>1, Zenon DEF SInv, LateFits
  <2> QED
    BY <2>2, <2>4, <2>5, Zenon DEF SInv
<1> QED
  BY <1>1, <1>2, Zenon

(* The inductive invariant of the clerks, for any number of clerks,        *)
(* groups, servers and configurations.                                     *)
THEOREM ClerkInvariant == SSpec => []SInv
BY SInitial, SStep, PTL DEF SSpec

(* The clerks, their Calls and the configurations keep their types; a      *)
(* clerk that is calling a server has a group to call.                     *)
THEOREM ClerksTyped == SSpec => []STypeOK
<1>1. SInv => STypeOK
  <2> SUFFICES ASSUME SInv PROVE STypeOK
    OBVIOUS
  <2>1. ASSUME NEW c \in Clerks
        PROVE  /\ ck[c].op \in {"none", "Get", "Put", "Append"} /\ ck[c].config \in Config
               /\ ck[c].si \in 0..NServers
               /\ Calling(c) => ck[c].gid \in Gids
    <3>1. ck[c] \in ClerkState /\ (Calling(c) => ck[c].gid \in Gids)
      BY Zenon DEF SInv, ClerkTypes, ClerkInv, PointFits
    <3> QED
      BY <3>1 DEF ClerkState, Ops
  <2>2. ASSUME NEW p \in Callers
        PROVE  /\ ctl[p].op \in {"none", "Query", "Join", "Leave", "Move"}
               /\ ctl[p].i \in 0..NCtrlers
               /\ rpc[p].op \in {"none", "sent", "reply"}
    <3>1. ctl[p] \in CtlState
      BY Zenon DEF SInv, ClerkTypes
    <3>2. CallFits(p)
      BY Zenon DEF SInv, AdminFits, ClerkInv, PointFits, Callers
    <3> QED
      BY <3>1, <3>2 DEF CtlState, CallFits
  <2> QED
    BY <2>1, <2>2, Zenon DEF SInv, ClerkTypes, STypeOK
<1> QED
  BY <1>1, ClerkInvariant, PTL

(* After a group has refused the shard, a clerk asks a group again only    *)
(* with a configuration at least as new (ck.sm.Query(-1) in Get and        *)
(* PutAppend): the controller's number never falls, and nothing but its    *)
(* answer ends the loop of Query.                                          *)
THEOREM ConfigurationRenewed == SSpec => []ConfigRenewed
<1>1. SInv => ConfigRenewed
  <2> SUFFICES ASSUME SInv, NEW c \in Clerks, Calling(c) PROVE ck[c].config.Num >= refused[c]
    BY Zenon DEF ConfigRenewed
  <2>1. refused[c] <= ck[c].config.Num
    BY Zenon DEF SInv, ClerkInv, ConfigFits, Calling
  <2>2. refused[c] \in Nat /\ ck[c] \in ClerkState
    BY Zenon DEF SInv, ClerkTypes
  <2>3. ck[c].config.Num \in Nat
    BY <2>2, Configs DEF ClerkState
  <2> QED
    BY <2>1, <2>2, <2>3
<1> QED
  BY <1>1, ClerkInvariant, PTL

(* An operation is executed a second time only after one of its Calls has  *)
(* returned false: the loops of Get and PutAppend send again what was      *)
(* refused, never what was executed and answered.                          *)
THEOREM RepeatedOnlyAfterLoss == SSpec => []TwiceOnlyAfterLoss
<1>1. SInv => TwiceOnlyAfterLoss
  <2> SUFFICES ASSUME SInv, NEW c \in Clerks, runs[c] > 1, ~ck[c].lost PROVE FALSE
    BY Zenon DEF TwiceOnlyAfterLoss
  <2>1. runs[c] = 0 \/ runs[c] = 1
    BY Zenon DEF SInv, ClerkInv, RunsFit
  <2> QED
    BY <2>1
<1> QED
  BY <1>1, ClerkInvariant, PTL

(* The only step that ends an operation is one on an answer. *)
LEMMA EndsAnswered ==
    ASSUME SInv, SNext, NEW c \in Clerks, ck[c].op # "none", ck'[c].op = "none"
    PROVE  Answered(c)
<1>0. ClerkTypes /\ ck[c] \in ClerkState
  BY Zenon DEF SInv, ClerkTypes
<1>1. ASSUME NEW d \in Clerks, NEW op \in Ops, Begin(d, op) PROVE FALSE
  <2> DEFINE s == [ck[d] EXCEPT !.op = op, !.ops = @ + 1, !.lost = FALSE]
  <2>1. ck[d] \in ClerkState /\ ck[d].op = "none" /\ Attempt(d, s)
    BY <1>0, <1>1, Zenon DEF ClerkTypes, Begin
  <2>2. s \in ClerkState
    BY <2>1, NewOperation, Zenon
  <2> HIDE DEF s
  <2>3. \A e \in Clerks \ {d} : ck'[e] = ck[e]
    BY <1>0, <2>1, <2>2, AttemptFacts
  <2> QED
    BY <2>1, <2>3, Zenon
<1>2. ASSUME NEW p \in Callers, CtrlerAnswers(p) PROVE FALSE
  <2>1. CASE ck' = ck
    BY <2>1, Zenon
  <2>2. CASE p \in Clerks /\ Attempt(p, [ck[p] EXCEPT !.config = rpc[p].Config])
    <3> DEFINE s == [ck[p] EXCEPT !.config = rpc[p].Config]
    <3>1. ck[p] \in ClerkState /\ rpc[p].Config \in Config
      BY <1>0, <1>2, <2>2, Zenon DEF SInv, ClerkTypes, ClerkInv, PointFits, CallFits, CtrlerAnswers
    <3>2. \A t \in ClerkState, g \in Config :
              LET u == [t EXCEPT !.config = g] IN u \in ClerkState /\ u.op = t.op
      BY DEF ClerkState
    <3>3. s \in ClerkState /\ s.op = ck[p].op /\ Attempt(p, s)
      BY <2>2, <3>1, <3>2, Zenon
    <3> HIDE DEF s
    <3>4. ck'[p].op = s.op /\ \A e \in Clerks \ {p} : ck'[e] = ck[e]
      BY <1>0, <2>2, <3>3, AttemptFacts
    <3> QED
      BY <3>3, <3>4, Zenon
  <2> QED
    BY <1>2, <2>1, <2>2, Zenon DEF CtrlerAnswers
<1>3. ASSUME NEW d \in Clerks, NEW s \in ClerkState, s.op = ck[d].op, NextServer(d, s) PROVE FALSE
  <2>1. ck'[d].op = s.op /\ \A e \in Clerks \ {d} : ck'[e] = ck[e]
    BY <1>0, <1>3, NextServerFacts
  <2> QED
    BY <1>3, <2>1, Zenon
<1>4. ASSUME NEW p \in Callers, CallFails(p) PROVE FALSE
  <2>1. CASE ck' = ck
    BY <2>1, Zenon
  <2>2. CASE ctl[p].op = "none" /\ NextServer(p, [ck[p] EXCEPT !.lost = TRUE])
    <3>1. p \in Clerks
      BY <1>4, <2>2, Zenon DEF SInv, AdminFits, Callers, CallFails
    <3>2. ck[p] \in ClerkState
      BY <1>0, <3>1, Zenon DEF ClerkTypes
    <3>3. \A t \in ClerkState : [t EXCEPT !.lost = TRUE] \in ClerkState /\ [t EXCEPT !.lost = TRUE].op = t.op
      BY DEF ClerkState
    <3> QED
      BY <1>3, <2>2, <3>1, <3>2, <3>3, Zenon
  <2> QED
    BY <1>4, <2>1, <2>2, Zenon DEF CallFails
<1>5. ASSUME NEW d \in Clerks, GroupAnswers(d) PROVE Answered(c)
  <2>1. CASE NextServer(d, ck[d])
    <3>1. ck[d] \in ClerkState
      BY <1>0, Zenon DEF ClerkTypes
    <3> QED
      BY <1>3, <2>1, <3>1, Zenon
  <2>2. CASE ck' = ck
    BY <2>2, Zenon
  <2>3. CASE Returns(ck[d].op, rpc[d].Err) /\ ck' = [ck EXCEPT ![d].op = "none", ![d].gid = 0, ![d].si = 0]
    <3>1. c # d => ck'[c] = ck[c]
      BY <1>0, <2>3 DEF ClerkTypes
    <3>2. c = d
      BY <3>1, Zenon
    <3> QED
      BY <1>5, <2>3, <3>2, Zenon DEF Answered, GroupAnswers
  <2> QED
    BY <1>5, <2>1, <2>2, <2>3, Zenon DEF GroupAnswers
<1>6. ck' = ck => FALSE
  BY Zenon
<1>7. ASSUME NEW d \in Clerks, Serve(d) PROVE FALSE
  BY <1>6, <1>7, Zenon DEF Serve
<1>8. ASSUME NEW p \in Callers, ServeCtrler(p) PROVE FALSE
  BY <1>6, <1>8, Zenon DEF ServeCtrler
<1>9. ASSUME NEW r \in late, ServeLate(r) PROVE FALSE
  BY <1>6, <1>9, Zenon DEF ServeLate
<1>10. ASSUME NEW op \in {"Join", "Leave", "Move"}, BeginAdmin(op) PROVE FALSE
  BY <1>6, <1>10, Zenon DEF BeginAdmin
<1>11. ASSUME NewLeader \/ Calm PROVE FALSE
  BY <1>6, <1>11, Zenon DEF NewLeader, Calm
<1> QED
  BY <1>1, <1>2, <1>4, <1>5, <1>7, <1>8, <1>9, <1>10, <1>11, Zenon DEF SNext, Ops

(* An operation that returns was executed while it was under way, and a    *)
(* Get returns a value the key had meanwhile.                              *)
THEOREM ReturnedWasExecuted == SSpec => OperationExecuted
<1>1. SInv /\ [SNext]_svars =>
          [\A c \in Clerks : ck[c].op # "none" /\ ck'[c].op = "none" =>
               /\ runs[c] >= 1
               /\ ck[c].op = "Get" => rpc[c].Value \in seen[c]]_svars
  <2> SUFFICES ASSUME SInv, SNext, NEW c \in Clerks, ck[c].op # "none", ck'[c].op = "none"
               PROVE  /\ runs[c] >= 1
                      /\ ck[c].op = "Get" => rpc[c].Value \in seen[c]
    BY Zenon
  <2>1. Answered(c)
    BY EndsAnswered, Zenon
  <2> QED
    BY <2>1, Zenon DEF SInv, ClerkInv, RunsFit, ValueFits, Answered
<1> QED
  BY <1>1, ClerkInvariant, PTL DEF SSpec, OperationExecuted
=============================================================================
