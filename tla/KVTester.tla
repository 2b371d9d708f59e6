------------------------------ MODULE KVTester ------------------------------
(***************************************************************************)
(* The tester of kvraft/config.go on the network of LabRPC: it starts,     *)
(* shuts down and restarts key/value servers, keeps their persisters,      *)
(* connects and partitions them.  The servers themselves are not in the    *)
(* repository; a handler is taken to save the update it is called for in   *)
(* its persister before it returns.                                        *)
(*                                                                         *)
(* A server cannot really be killed: the goroutines of an old instance go  *)
(* on, and so do the requests it sent or was sent.                         *)
(*                                                                         *)
(* Names with an underscore and a suffix are mutated forms.                *)
(***************************************************************************)
EXTENDS LabRPC, FiniteSets, SequencesExt

CONSTANTS Clerks,      \* the clerks makeClient makes
          MaxStarts,   \* bound on the instances of one server
          NoPersister  \* the nil *Persister

(* endnames[i][j] of the k-th instance of server i, and of a clerk. *)
PeerEnds == Servers \X Servers \X (1..MaxStarts)
ClerkEnds == Clerks \X Servers

ASSUME EndsAssumption == Ends = PeerEnds \cup ClerkEnds
ASSUME ServersAssumption == Servers # {} /\ Servers = 0..(Cardinality(Servers) - 1)
ASSUME MaxStartsAssumption == MaxStarts \in Nat \ {0}

(* A Persister: the one the k-th instance of a server was given, or the    *)
(* copy made when that instance was shut down.                             *)
Persisters == Servers \X (1..MaxStarts) \X {"own", "copy"}

VARIABLES ready,    \* make_config has returned
          starts,   \* instances of each server so far; 0: endnames[i] is nil
          running,  \* kvservers[i] is not nil
          saved,    \* cfg.saved
          store,    \* the updates saved in each Persister
          owner,    \* the server and instance behind each Server object
          at,       \* what the tester does next
          target,   \* the server it works on
          todo,     \* the Enable calls left to make: <<end, yes>>
          linked    \* the pairs of servers that are to be connected
                    \* (history, read by no action)

tvars == <<ready, starts, running, saved, store, owner, at, target, todo, linked>>
kvars == <<lvars, tvars>>

Own(i) == <<i, starts[i], "own">>

Copy(i) == <<i, starts[i], "copy">>

(* The types of the tester's state. *)
KTypeOK ==
    /\ LTypeOK
    /\ ready \in BOOLEAN
    /\ starts \in [Servers -> 0..MaxStarts]
    /\ running \in [Servers -> BOOLEAN]
    /\ saved \in [Servers -> Persisters \cup {NoPersister}]
    /\ store \in [Persisters -> SUBSET Calls]
    /\ owner \in [Objects -> Servers \X (0..MaxStarts)]
    /\ at \in {"idle", "enable", "shutdown", "delete", "copy", "add"}
    /\ target \in Servers
    /\ todo \in Seq(Ends \X BOOLEAN)
    /\ linked \subseteq Servers \X Servers

KInit == /\ LInit
         /\ ready = FALSE
         /\ starts = [i \in Servers |-> 0]
         /\ running = [i \in Servers |-> FALSE]
         /\ saved = [i \in Servers |-> NoPersister]
         /\ store = [p \in Persisters |-> {}]
         /\ owner = [o \in Objects |-> <<0, 0>>]
         /\ at = "idle" /\ target = 0
         /\ todo = <<>> /\ linked = {}
-----------------------------------------------------------------------------
(* The Enable calls of connectUnlocked and disconnectUnlocked, in order.   *)
(* Every server has been started by then, so no endnames[i] is nil.        *)
Outgoing_FirstNames(i, list) == [j \in DOMAIN list |-> <<i, list[j], 1>>]

Outgoing(i, list) == [j \in DOMAIN list |-> <<i, list[j], starts[i]>>]
Incoming(i, list) == [j \in DOMAIN list |-> <<list[j], i, starts[list[j]]>>]

Set(list, yes) == [j \in DOMAIN list |-> <<list[j], yes>>]

connectUnlocked(i, to) == Set(Outgoing(i, to) \o Incoming(i, to), TRUE)

disconnectUnlocked_OutgoingOnly(i, from) == Set(Outgoing(i, from), FALSE)

disconnectUnlocked(i, from) == Set(Outgoing(i, from) \o Incoming(i, from), FALSE)

All == [j \in 1..Cardinality(Servers) |-> j - 1]

(* The members of a set of servers in increasing order, as partitioner     *)
(* (test_test.go) lists them.                                              *)
InOrder(group) == SetToSortSeq(group, <)

(* The loops of ConnectAll and partition over their servers. *)
ForEach(list, op(_)) == FlattenSeq([j \in DOMAIN list |-> op(list[j])])

AllRun == \A i \in Servers : running[i]

Begin(next, i, enables) ==
    /\ at = "idle" /\ ~done
    /\ at' = next
    /\ target' = i
    /\ todo' = enables
    /\ UNCHANGED <<lvars, ready, starts, running, saved, store, owner>>

(* Old names stay in endnames while a server is down: the tests reconnect  *)
(* and partition servers that run.  make_config connects them once.        *)
ConnectAll ==
    /\ AllRun /\ (ready \/ linked = {})
    /\ Begin("enable", 0, ForEach(All, LAMBDA i : connectUnlocked(i, All)))
    /\ linked' = Servers \X Servers

partition(p1, p2) ==
    /\ ready /\ AllRun
    /\ LET s1 == InOrder(p1)
           s2 == InOrder(p2)
       IN  Begin("enable", 0,
                 ForEach(s1, LAMBDA i : disconnectUnlocked(i, s2) \o connectUnlocked(i, s1))
                 \o ForEach(s2, LAMBDA i : disconnectUnlocked(i, s1) \o connectUnlocked(i, s2)))
    /\ linked' = (p1 \X p1) \cup (p2 \X p2)

(* The tests shut down only servers that run. *)
ShutdownServer(i) ==
    /\ ready /\ running[i]
    /\ Begin("shutdown", i, disconnectUnlocked(i, All))
    /\ linked' = {l \in linked : i \notin {l[1], l[2]}}

(* One Enable call of any of them. *)
EnableNext_NoDelete ==
    /\ at \in {"enable", "shutdown"} /\ todo # <<>>
    /\ Enable(Head(todo)[1], Head(todo)[2])
    /\ todo' = Tail(todo)
    /\ at' = IF todo' # <<>> THEN at ELSE IF at = "enable" THEN "idle" ELSE "copy"
    /\ UNCHANGED <<callvars, ready, starts, running, saved, store, owner, target, linked>>

EnableNext ==
    /\ at \in {"enable", "shutdown"} /\ todo # <<>>
    /\ Enable(Head(todo)[1], Head(todo)[2])
    /\ todo' = Tail(todo)
    /\ at' = IF todo' # <<>> THEN at ELSE IF at = "enable" THEN "idle" ELSE "delete"
    /\ UNCHANGED <<callvars, ready, starts, running, saved, store, owner, target, linked>>

DeleteNext ==
    /\ at = "delete"
    /\ DeleteServer(target)
    /\ at' = "copy"
    /\ UNCHANGED <<callvars, ready, starts, running, saved, store, owner, target, todo, linked>>

(* The fresh persister with the old one's content, and kv.Kill(). *)
CopyNext ==
    /\ at = "copy"
    /\ saved' = [saved EXCEPT ![target] = Copy(target)]
    /\ store' = [store EXCEPT ![Copy(target)] = store[saved[target]]]
    /\ running' = [running EXCEPT ![target] = FALSE]
    /\ at' = "idle" /\ target' = 0
    /\ UNCHANGED <<lvars, ready, starts, owner, todo, linked>>

(* StartServer up to StartKVServer: nobody else knows the new ends or the  *)
(* new persister before it.                                                *)
StartServer(i) ==
    /\ at = "idle" /\ ~done /\ ~running[i] /\ starts[i] < MaxStarts /\ objects < MaxServers
    /\ ready \/ \A j \in Servers : running[j] <=> j < i
    /\ starts' = [starts EXCEPT ![i] = @ + 1]
    /\ LET new == {<<i, j, starts'[i]>> : j \in Servers}
       IN  /\ ends' = ends \cup new
           /\ connections' = [e \in Ends |-> IF e \in new THEN e[2] ELSE connections[e]]
    /\ saved' = [saved EXCEPT ![i] = Own(i)']
    /\ store' = [store EXCEPT ![Own(i)'] =
                     IF saved[i] = NoPersister THEN {} ELSE store[saved[i]]]
    /\ running' = [running EXCEPT ![i] = TRUE]
    /\ at' = "add" /\ target' = i
    /\ UNCHANGED <<enabled, servers, objects, reliable, longReordering, done, callvars,
                   ready, owner, todo, linked>>

AddNext ==
    /\ at = "add"
    /\ AddServer(target)
    /\ owner' = [owner EXCEPT ![objects'] = <<target, starts[target]>>]
    /\ at' = "idle" /\ target' = 0
    /\ UNCHANGED <<callvars, ready, starts, running, saved, store, todo, linked>>

(* The clerk is not known to anybody before makeClient returns. *)
makeClient(ck, to) ==
    /\ at = "idle" /\ ready /\ ~done
    /\ \A j \in Servers : <<ck, j>> \notin ends
    /\ ends' = ends \cup ({ck} \X Servers)
    /\ connections' = [e \in Ends |-> IF e \in {ck} \X Servers THEN e[2] ELSE connections[e]]
    /\ enabled' = [e \in Ends |-> IF e \in {ck} \X to THEN TRUE ELSE enabled[e]]
    /\ UNCHANGED <<servers, objects, reliable, longReordering, done, callvars, tvars>>

ConnectClient(ck) ==
    /\ \A j \in Servers : <<ck, j>> \in ends
    /\ Begin("enable", 0, Set([j \in DOMAIN All |-> <<ck, All[j]>>], TRUE))
    /\ UNCHANGED linked

(* make_config starts every server, connects them all, and then says       *)
(* whether the network is reliable; nothing of kvraft changes it later.    *)
make_config(unreliable) ==
    /\ ~ready /\ at = "idle" /\ linked # {}
    /\ ready' = TRUE
    /\ Reliable(~unreliable)
    /\ UNCHANGED <<callvars, starts, running, saved, store, owner, at, target, todo, linked>>

(* Deferred by every test: the tester does nothing after it. *)
cleanup == /\ at = "idle" /\ ready
           /\ Cleanup
           /\ UNCHANGED <<callvars, tvars>>

TesterStep == \/ ConnectAll
              \/ \E p1 \in SUBSET Servers : partition(p1, Servers \ p1)
              \/ \E i \in Servers : ShutdownServer(i) \/ StartServer(i)
              \/ \E ck \in Clerks : ConnectClient(ck) \/ \E to \in SUBSET Servers : makeClient(ck, to)
              \/ EnableNext \/ DeleteNext \/ CopyNext \/ AddNext
              \/ \E unreliable \in BOOLEAN : make_config(unreliable)
              \/ cleanup
-----------------------------------------------------------------------------
(* The handler of the instance the request was routed to saves the update. *)
SaveUpdate(c) ==
    /\ RunHandler(c)
    /\ LET o == owner[info[c].server]
       IN  store' = [store EXCEPT ![<<o[1], o[2], "own">>] = @ \cup {c}]
    /\ UNCHANGED <<netvars, ready, starts, running, saved, owner, at, target, todo, linked>>

NetworkStep == \/ NetworkReturns
               \/ \E c \in Calls : \/ SendRequest(c) \/ NetworkDestroyed(c) \/ ProcessStep(c)
                                   \/ HandlerReturns(c) \/ DrainReply(c)
                                   \/ \E e \in Ends : Call(c, e)

KNext == \/ TesterStep
         \/ NetworkStep /\ UNCHANGED <<netvars, tvars>>
         \/ \E c \in Calls : SaveUpdate(c)

KSpec == KInit /\ [][KNext]_kvars
-----------------------------------------------------------------------------
(* A positive reply is never for an update that the server persisted only  *)
(* in a superseded Persister (config.go:261-267, labrpc.go:264-270): what  *)
(* the next instance is given has every update a caller was told of, while *)
(* instances are shut down and started and requests are under way.         *)
AckedPersisted ==
    \A c \in Calls : caller[c] = "true" => c \in store[saved[info[c].servername]]

(* An old instance stays silent: fresh ClientEnds are made for every       *)
(* instance and only current ones are ever enabled (config.go:290-301), so *)
(* no request that is looked at after its sender was superseded by a new   *)
(* instance gets to a server, whatever the tester connects later.          *)
Superseded(e) == e \in PeerEnds /\ e[3] < starts[e[1]]

OldInstanceSilent ==
    [][\A c \in Calls : process[c] = "started" /\ process'[c] = "routed"
                           => ~Superseded(endname[c])]_kvars

(* When the tester is done with an operation, a server that runs reaches   *)
(* exactly the servers of its partition, whatever was restarted and        *)
(* reconnected before (config.go:105-186).                                 *)
PartitionExact ==
    at = "idle" => \A i, j \in Servers :
        starts[i] # 0 => (enabled[<<i, j, starts[i]>>] <=> <<i, j>> \in linked)
=============================================================================
