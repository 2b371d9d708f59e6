---------------------------- MODULE ShardTester ----------------------------
(***************************************************************************)
(* The tester of shardkv/config.go on the network of LabRPC: the shard     *)
(* controllers, the groups of key/value servers it starts, shuts down and  *)
(* restarts with their persisters, and the clerks.                         *)
(*                                                                         *)
(* The servers themselves are not in the repository; a handler is taken to *)
(* save the update it is called for in its persister before it returns.    *)
(* Any instance, old ones included, may use any end it was given or made.  *)
(* Names with an underscore and a suffix are mutated forms.                *)
(***************************************************************************)
EXTENDS LabRPC

CONSTANTS NGroups,     \* cfg.ngroups
          N,           \* cfg.n, servers per group
          NCtrlers,    \* cfg.nctrlers
          Clerks,      \* the clerks makeClient makes
          Mck,         \* cfg.mck
          MaxStarts,   \* bound on the instances of one server
          NoPersister  \* the nil *Persister

ASSUME SizesAssumption == /\ NGroups \in Nat \ {0} /\ N \in Nat \ {0} /\ NCtrlers \in Nat \ {0}
                          /\ MaxStarts \in Nat \ {0}

Gids == 100..(99 + NGroups)

(* The names of servers for labrpc; group 0 stands for the controllers. *)
servername(gid, i) == <<gid, i>>
ctrlername(i) == <<0, i>>

KVServers == {servername(gid, i) : gid \in Gids, i \in 0..(N - 1)}
Ctrlers == {ctrlername(i) : i \in 0..(NCtrlers - 1)}

(* The names of ends: who uses the end, for a server which instance of it, *)
(* and the server it leads to.  "peer" ends are kept in endnames, "mend"   *)
(* ends in mendnames; "made" ends come from make_end and are kept nowhere. *)
PeerEnds == {e \in {"peer"} \X Servers \X (1..MaxStarts) \X Servers : e[2][1] = e[4][1]}
MendEnds == {"mend"} \X KVServers \X (1..MaxStarts) \X Ctrlers
MadeEnds == ({"made"} \X KVServers \X (1..MaxStarts) \X KVServers)
            \cup ({"made"} \X Clerks \X {1} \X KVServers)
ClerkEnds == {"clerk"} \X (Clerks \cup {Mck}) \X {1} \X Ctrlers

Persisters == Servers \X (1..MaxStarts) \X {"own", "copy"}

ASSUME NamesAssumption ==
    /\ Servers = KVServers \cup Ctrlers
    /\ Ends = PeerEnds \cup MendEnds \cup MadeEnds \cup ClerkEnds
    /\ NoPersister \notin Persisters

VARIABLES ready,    \* make_config has returned
          closing,  \* cleanup is under way
          starts,   \* instances of each server so far
          running,  \* servers[i] is not nil (ctrlerservers[i] for a controller)
          saved,    \* gg.saved[i] of every group
          store,    \* the updates saved in each Persister
          owner,    \* the server and instance behind each Server object
          at,       \* what the tester does next
          target,   \* the server it works on
          pos       \* how many ends it has disabled

tvars == <<ready, closing, starts, running, saved, store, owner, at, target, pos>>
gvars == <<lvars, tvars>>

First == servername(100, 0)
Own(s) == <<s, starts[s], "own">>
Copy(s) == <<s, starts[s], "copy">>

(* The types of the tester's state. *)
GTypeOK ==
    /\ LTypeOK
    /\ ready \in BOOLEAN /\ closing \in BOOLEAN
    /\ starts \in [Servers -> 0..MaxStarts]
    /\ running \in [Servers -> BOOLEAN]
    /\ saved \in [KVServers -> Persisters \cup {NoPersister}]
    /\ store \in [Persisters -> SUBSET Calls]
    /\ owner \in [Objects -> Servers \X (0..MaxStarts)]
    /\ at \in {"idle", "disable", "delete", "copy", "add", "closed"}
    /\ target \in Servers
    /\ pos \in Nat

GInit == /\ LInit
         /\ ready = FALSE /\ closing = FALSE
         /\ starts = [s \in Servers |-> 0]
         /\ running = [s \in Servers |-> FALSE]
         /\ saved = [s \in KVServers |-> NoPersister]
         /\ store = [p \in Persisters |-> {}]
         /\ owner = [o \in Objects |-> <<First, 0>>]
         /\ at = "idle" /\ target = First /\ pos = 0
-----------------------------------------------------------------------------
(* New ends, made, connected and enabled before anybody knows them. *)
NewEnds(new) ==
    /\ ends' = ends \cup new
    /\ connections' = [e \in Ends |-> IF e \in new THEN e[4] ELSE connections[e]]
    /\ enabled' = [e \in Ends |-> IF e \in new THEN TRUE ELSE enabled[e]]
    /\ UNCHANGED <<servers, objects, reliable, longReordering, done>>

(* The order in which make_config starts the servers, and cleanup shuts    *)
(* them down.                                                              *)
Before(s, t) == s[1] < t[1] \/ (s[1] = t[1] /\ s[2] < t[2])

StartsNext(s) == ready \/ \A t \in Servers : starts[t] # 0 <=> Before(t, s)

(* The ends makeClient and shardclerk give a clerk. *)
CtrlerEndsOf(ck) == {"clerk"} \X {ck} \X {1} \X Ctrlers

(* The controllers talk to each other; they are started once. *)
StartCtrlerserver(s) ==
    /\ at = "idle" /\ s \in Ctrlers /\ ~ready /\ StartsNext(s) /\ objects < MaxServers
    /\ starts' = [starts EXCEPT ![s] = 1]
    /\ NewEnds({"peer"} \X {s} \X {1} \X Ctrlers)
    /\ running' = [running EXCEPT ![s] = TRUE]
    /\ at' = "add" /\ target' = s
    /\ UNCHANGED <<callvars, ready, closing, saved, store, owner, pos>>

(* StartServer up to the call of the service's StartServer: fresh ends to  *)
(* the group and to the controllers, and a fresh persister.                *)
StartServer(s) ==
    /\ at = "idle" /\ s \in KVServers /\ ~closing /\ ~running[s] /\ StartsNext(s)
    /\ CtrlerEndsOf(Mck) \subseteq ends
    /\ starts[s] < MaxStarts /\ objects < MaxServers
    /\ starts' = [starts EXCEPT ![s] = @ + 1]
    /\ NewEnds(({"peer"} \X {s} \X {starts'[s]} \X {t \in KVServers : t[1] = s[1]})
               \cup ({"mend"} \X {s} \X {starts'[s]} \X Ctrlers))
    /\ saved' = [saved EXCEPT ![s] = Own(s)']
    /\ store' = [store EXCEPT ![Own(s)'] =
                     IF saved[s] = NoPersister THEN {} ELSE store[saved[s]]]
    /\ running' = [running EXCEPT ![s] = TRUE]
    /\ at' = "add" /\ target' = s
    /\ UNCHANGED <<callvars, ready, closing, owner, pos>>

AddNext ==
    /\ at = "add"
    /\ AddServer(target)
    /\ owner' = [owner EXCEPT ![objects'] = <<target, starts[target]>>]
    /\ at' = "idle" /\ target' = First
    /\ UNCHANGED <<callvars, ready, closing, starts, running, saved, store, pos>>
-----------------------------------------------------------------------------
(* Shutdown of a server: its recorded ends are disabled one after the      *)
(* other, the server is deleted from the network, the persister copied and *)
(* the instance told to stop.                                              *)
RecordedEnd(s, j) == IF j < N THEN <<"peer", s, starts[s], servername(s[1], j)>>
                     ELSE <<"mend", s, starts[s], ctrlername(j - N)>>

NumRecorded_PeersOnly == N

NumRecorded == N + NCtrlers

Shutdown(s) == at' = "disable" /\ target' = s /\ pos' = 0

(* The tests shut down only servers that run. *)
ShutdownServer(s) ==
    /\ at = "idle" /\ ready /\ ~closing /\ s \in KVServers /\ running[s]
    /\ Shutdown(s)
    /\ UNCHANGED <<lvars, ready, closing, starts, running, saved, store, owner>>

DisableNext_KeepsServer ==
    /\ at = "disable"
    /\ Enable(RecordedEnd(target, pos), FALSE)
    /\ pos' = pos + 1
    /\ at' = IF pos' < NumRecorded THEN "disable" ELSE "copy"
    /\ UNCHANGED <<callvars, ready, closing, starts, running, saved, store, owner, target>>

DisableNext ==
    /\ at = "disable"
    /\ Enable(RecordedEnd(target, pos), FALSE)
    /\ pos' = pos + 1
    /\ at' = IF pos' < NumRecorded THEN "disable" ELSE "delete"
    /\ UNCHANGED <<callvars, ready, closing, starts, running, saved, store, owner, target>>

DeleteNext ==
    /\ at = "delete"
    /\ DeleteServer(target)
    /\ at' = "copy"
    /\ UNCHANGED <<callvars, ready, closing, starts, running, saved, store, owner, target, pos>>

(* The fresh persister with the old one's content, and kv.Kill().  During  *)
(* cleanup the loops over groups and servers go on with the next one.      *)
Last == servername(99 + NGroups, N - 1)
After(s) == IF s[2] < N - 1 THEN servername(s[1], s[2] + 1) ELSE servername(s[1] + 1, 0)

CopyNext ==
    /\ at = "copy"
    /\ saved' = [saved EXCEPT ![target] = Copy(target)]
    /\ store' = [store EXCEPT ![Copy(target)] = store[saved[target]]]
    /\ running' = [running EXCEPT ![target] = FALSE]
    /\ IF closing /\ target # Last
       THEN Shutdown(After(target))
       ELSE /\ at' = IF closing THEN "closed" ELSE "idle"
            /\ target' = First /\ pos' = 0
    /\ UNCHANGED <<lvars, ready, closing, starts, owner>>

(* cleanup shuts down every server of every group, also those that do not  *)
(* run, kills the controllers, and stops the network.                      *)
CleanupBegins ==
    /\ at = "idle" /\ ready /\ ~closing
    /\ closing' = TRUE
    /\ Shutdown(First)
    /\ UNCHANGED <<lvars, ready, starts, running, saved, store, owner>>

CleanupEnds ==
    /\ at = "closed"
    /\ Cleanup
    /\ UNCHANGED <<callvars, tvars>>
-----------------------------------------------------------------------------
makeClient(ck) ==
    /\ at = "idle" /\ ready /\ ~closing
    /\ CtrlerEndsOf(ck) \cap ends = {}
    /\ NewEnds(CtrlerEndsOf(ck))
    /\ UNCHANGED <<callvars, tvars>>

shardclerk ==
    /\ at = "idle" /\ ~ready
    /\ \A s \in Ctrlers : starts[s] # 0
    /\ \A s \in KVServers : starts[s] = 0
    /\ CtrlerEndsOf(Mck) \cap ends = {}
    /\ NewEnds(CtrlerEndsOf(Mck))
    /\ UNCHANGED <<callvars, tvars>>

(* The closure that clerks and servers make ends to groups with, for as    *)
(* long as any of their goroutines runs; it takes no lock of the tester.   *)
(* Nobody can tell that the end exists before a Call uses it, so it is     *)
(* made in the step that begins the first one.                             *)
Exists(user, k) == IF user \in Clerks THEN k = 1 /\ CtrlerEndsOf(user) \subseteq ends
                   ELSE k \in 1..starts[user]

make_end(c, user, k, s) ==
    /\ Exists(user, k) /\ caller[c] = "idle"
    /\ <<"made", user, k, s>> \notin ends
    /\ NewEnds({<<"made", user, k, s>>})
    /\ caller' = [caller EXCEPT ![c] = "sending"]
    /\ endname' = [endname EXCEPT ![c] = <<"made", user, k, s>>]
    /\ UNCHANGED <<listening, process, info, handler, tvars>>

(* make_config has started everything. *)
make_config(unreliable) ==
    /\ at = "idle" /\ ~ready
    /\ \A s \in Servers : starts[s] # 0
    /\ ready' = TRUE
    /\ Reliable(~unreliable)
    /\ UNCHANGED <<callvars, closing, starts, running, saved, store, owner, at, target, pos>>

TesterStep == \/ \E s \in Servers : StartCtrlerserver(s) \/ StartServer(s) \/ ShutdownServer(s)
              \/ AddNext \/ DisableNext \/ DeleteNext \/ CopyNext
              \/ CleanupBegins \/ CleanupEnds
              \/ shardclerk
              \/ \E ck \in Clerks : makeClient(ck)
              \/ \E unreliable \in BOOLEAN : make_config(unreliable)
              \/ \E c \in Calls, user \in KVServers \cup Clerks, k \in 1..MaxStarts, s \in KVServers :
                    make_end(c, user, k, s)
-----------------------------------------------------------------------------
(* The handler of the instance the request was routed to saves the update. *)
SaveUpdate(c) ==
    /\ RunHandler(c)
    /\ LET o == owner[info[c].server]
       IN  store' = [store EXCEPT ![<<o[1], o[2], "own">>] = @ \cup {c}]
    /\ UNCHANGED <<netvars, ready, closing, starts, running, saved, owner, at, target, pos>>

NetworkStep == \/ NetworkReturns
               \/ \E c \in Calls : \/ SendRequest(c) \/ NetworkDestroyed(c) \/ ProcessStep(c)
                                   \/ HandlerReturns(c) \/ DrainReply(c)
                                   \/ \E e \in Ends : Call(c, e)

GNext == \/ TesterStep
         \/ NetworkStep /\ UNCHANGED <<netvars, tvars>>
         \/ \E c \in Calls : SaveUpdate(c)

GSpec == GInit /\ [][GNext]_gvars
-----------------------------------------------------------------------------
(* A positive reply is never for an update that is only in a superseded    *)
(* Persister (config.go:171-184): clerks and other groups reach a server   *)
(* over ends that no shutdown disables, so this rests on the deletion of   *)
(* the server before the copy, and on labrpc telling the new Server object *)
(* from the old one while the handler runs.                                *)
GroupAckedPersisted ==
    \A c \in Calls : caller[c] = "true" /\ info[c].servername \in KVServers
                       => c \in store[saved[info[c].servername]]

(* The instance that uses a recorded end has been shut down. *)
Silenced(e) == /\ e \in PeerEnds \cup MendEnds /\ e[2] \in KVServers
               /\ \/ e[3] < starts[e[2]]
                  \/ e[3] = starts[e[2]] /\ ~running[e[2]]

(* Call c uses such an end. *)
CutOff(c) == caller[c] # "idle" /\ Silenced(endname[c])

(* "prevent this server from sending" (config.go:162): a request that a    *)
(* shut down instance makes, or had made and processReq had not routed     *)
(* yet, never gets to a server of its group or to a controller; and a Call *)
(* whose reply processReq had not accepted yet never returns true to it.   *)
(* Both for good, also after the server has been started again.  What was  *)
(* routed before is still executed, and what was accepted before is still  *)
(* delivered.  Ends made by make_end are neither recorded nor disabled:    *)
(* the property is not about them.                                         *)
ShutdownSilences ==
    \A c \in Calls :
        /\ [](CutOff(c) /\ process[c] \in {"none", "started"} => [](handler[c] = "none"))
        /\ [](CutOff(c) /\ process[c] \notin {"accepted", "delayed", "returned"}
                 => [](caller[c] # "true"))
=============================================================================
