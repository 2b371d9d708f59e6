------------------------------- MODULE LabRPC -------------------------------
(***************************************************************************)
(* The simulated network of labrpc/labrpc.go: ClientEnd.Call, the network  *)
(* goroutine, one processReq and one handler goroutine per request, and    *)
(* the operations a tester changes the network with.                       *)
(*                                                                         *)
(* Channels without a buffer are a single step of both sides.  Durations,  *)
(* and with them LongDelays, do not appear: a sleeping goroutine may go on *)
(* at any time.  Names with an underscore and a suffix are mutated forms.  *)
(***************************************************************************)
EXTENDS Naturals

CONSTANTS Ends,       \* names of client ends
          Servers,    \* names of servers
          Calls,      \* the uses of ClientEnd.Call
          NoServer,   \* the nil servername
          NoEnd,      \* the end of a Call not made yet
          MaxServers  \* bound on the Server objects added to the network

ASSUME NoServerAssumption == NoServer \notin Servers
ASSUME MaxServersAssumption == MaxServers \in Nat

VARIABLES ends,            \* Network.ends
          enabled,         \* Network.enabled
          connections,     \* Network.connections
          servers,         \* Network.servers: a Server object, or nil
          objects,         \* number of Server objects made so far
          reliable, longReordering,
          done,            \* Network.done is closed
          listening,       \* the network goroutine has not returned
          caller,          \* where each Call is
          endname,         \* the end each Call uses
          process,         \* where the processReq of each request is
          info,            \* what it read with readEndnameInfo
          handler          \* where the handler goroutine of each request is

netvars == <<ends, enabled, connections, servers, objects, reliable, longReordering, done>>
callvars == <<listening, caller, endname, process, info, handler>>
lvars == <<netvars, callvars>>

(* Server objects are numbered as they are made; 0 is the nil pointer. *)
nil == 0
Objects == 1..MaxServers

Info == [servername : Servers \cup {NoServer}, server : Objects \cup {nil},
         reliable : BOOLEAN, longreordering : BOOLEAN]

NoInfo == [servername |-> NoServer, server |-> nil, reliable |-> TRUE, longreordering |-> FALSE]

(* The types of the state above. *)
LTypeOK ==
    /\ ends \subseteq Ends
    /\ enabled \in [Ends -> BOOLEAN]
    /\ connections \in [Ends -> Servers \cup {NoServer}]
    /\ servers \in [Servers -> Objects \cup {nil}]
    /\ objects \in 0..MaxServers
    /\ reliable \in BOOLEAN /\ longReordering \in BOOLEAN
    /\ done \in BOOLEAN /\ listening \in BOOLEAN
    /\ caller \in [Calls -> {"idle", "sending", "waiting", "true", "false"}]
    /\ endname \in [Calls -> Ends \cup {NoEnd}]
    /\ process \in [Calls -> {"none", "started", "routed", "waiting", "replied", "dead",
                              "accepted", "refused", "delayed", "timeout", "returned"}]
    /\ info \in [Calls -> Info]
    /\ handler \in [Calls -> {"none", "dispatched", "running", "returning", "ended"}]

MakeNetwork ==
    /\ ends = {}
    /\ enabled = [e \in Ends |-> FALSE]
    /\ connections = [e \in Ends |-> NoServer]
    /\ servers = [s \in Servers |-> nil]
    /\ objects = 0
    /\ reliable = TRUE /\ longReordering = FALSE
    /\ done = FALSE /\ listening = TRUE

LInit == /\ MakeNetwork
         /\ caller = [c \in Calls |-> "idle"]
         /\ endname = [c \in Calls |-> NoEnd]
         /\ process = [c \in Calls |-> "none"]
         /\ info = [c \in Calls |-> NoInfo]
         /\ handler = [c \in Calls |-> "none"]
-----------------------------------------------------------------------------
(* What a tester does to the network, each under Network.mu. *)
MakeEnd(e) ==
    /\ e \notin ends
    /\ ends' = ends \cup {e}
    /\ enabled' = [enabled EXCEPT ![e] = FALSE]
    /\ connections' = [connections EXCEPT ![e] = NoServer]
    /\ UNCHANGED <<servers, objects, reliable, longReordering, done>>

(* "a ClientEnd can only be connected once in its lifetime": the callers   *)
(* keep to it, Connect itself does not look.                               *)
Connect(e, s) ==
    /\ e \in ends /\ connections[e] = NoServer
    /\ connections' = [connections EXCEPT ![e] = s]
    /\ UNCHANGED <<ends, enabled, servers, objects, reliable, longReordering, done>>

Enable(e, yes) ==
    /\ e \in ends
    /\ enabled' = [enabled EXCEPT ![e] = yes]
    /\ UNCHANGED <<ends, connections, servers, objects, reliable, longReordering, done>>

(* AddServer of an object fresh from MakeServer. *)
AddServer(s) ==
    /\ objects < MaxServers
    /\ objects' = objects + 1
    /\ servers' = [servers EXCEPT ![s] = objects']
    /\ UNCHANGED <<ends, enabled, connections, reliable, longReordering, done>>

DeleteServer(s) ==
    /\ servers' = [servers EXCEPT ![s] = nil]
    /\ UNCHANGED <<ends, enabled, connections, objects, reliable, longReordering, done>>

Reliable(yes) ==
    /\ reliable' = yes
    /\ UNCHANGED <<ends, enabled, connections, servers, objects, longReordering, done>>

LongReordering(yes) ==
    /\ longReordering' = yes
    /\ UNCHANGED <<ends, enabled, connections, servers, objects, reliable, done>>

Cleanup ==
    /\ ~done
    /\ done' = TRUE
    /\ UNCHANGED <<ends, enabled, connections, servers, objects, reliable, longReordering>>

Tester == \/ \E e \in Ends : \/ MakeEnd(e)
                             \/ \E s \in Servers : Connect(e, s)
                             \/ \E yes \in BOOLEAN : Enable(e, yes)
          \/ \E s \in Servers : AddServer(s) \/ DeleteServer(s)
          \/ \E yes \in BOOLEAN : Reliable(yes) \/ LongReordering(yes)
          \/ Cleanup
-----------------------------------------------------------------------------
(* ClientEnd.Call: send the request, or give up when the network is gone,  *)
(* then wait for a reply.                                                  *)
Call(c, e) ==
    /\ caller[c] = "idle" /\ e \in ends
    /\ caller' = [caller EXCEPT ![c] = "sending"]
    /\ endname' = [endname EXCEPT ![c] = e]
    /\ UNCHANGED <<listening, process, info, handler>>

(* The network goroutine takes the request and starts its processReq. *)
SendRequest(c) ==
    /\ caller[c] = "sending" /\ listening
    /\ caller' = [caller EXCEPT ![c] = "waiting"]
    /\ process' = [process EXCEPT ![c] = "started"]
    /\ UNCHANGED <<listening, endname, info, handler>>

NetworkDestroyed(c) ==
    /\ caller[c] = "sending" /\ done
    /\ caller' = [caller EXCEPT ![c] = "false"]
    /\ UNCHANGED <<listening, endname, process, info, handler>>

NetworkReturns ==
    /\ done /\ listening
    /\ listening' = FALSE
    /\ UNCHANGED <<caller, endname, process, info, handler>>
-----------------------------------------------------------------------------
(* processReq reads all it needs to know of the network in one go. *)
readEndnameInfo(c) ==
    LET servername == connections[endname[c]]
    IN  [servername |-> servername,
         server |-> IF servername = NoServer THEN nil ELSE servers[servername],
         reliable |-> reliable, longreordering |-> longReordering]

isServerDead_EndOnly(c) == ~enabled[endname[c]]

isServerDead(c) == \/ ~enabled[endname[c]]
                   \/ servers[info[c].servername] # info[c].server

ProcessReq(c) ==
    /\ process[c] = "started"
    /\ info' = [info EXCEPT ![c] = readEndnameInfo(c)]
    /\ process' = [process EXCEPT ![c] =
           IF enabled[endname[c]] /\ readEndnameInfo(c).server # nil
           THEN "routed" ELSE "timeout"]
    /\ UNCHANGED <<listening, caller, endname, handler>>

(* replyCh is not buffered: processReq's send ends the wait of Call. *)
Reply(c, ok) ==
    /\ caller' = [caller EXCEPT ![c] = IF ok THEN "true" ELSE "false"]
    /\ process' = [process EXCEPT ![c] = "returned"]
    /\ UNCHANGED <<listening, endname, info, handler>>

DropRequest(c) == /\ process[c] = "routed" /\ ~info[c].reliable
                  /\ Reply(c, FALSE)

Dispatch(c) ==
    /\ process[c] = "routed"
    /\ handler' = [handler EXCEPT ![c] = "dispatched"]
    /\ process' = [process EXCEPT ![c] = "waiting"]
    /\ UNCHANGED <<listening, caller, endname, info>>

(* The loop of processReq: the handler's reply, or a look every 100 ms at  *)
(* whether the server is still there.                                      *)
ReceiveReply(c) ==
    /\ process[c] = "waiting" /\ handler[c] = "returning"
    /\ handler' = [handler EXCEPT ![c] = "ended"]
    /\ process' = [process EXCEPT ![c] = "replied"]
    /\ UNCHANGED <<listening, caller, endname, info>>

StopWaiting(c) ==
    /\ process[c] = "waiting" /\ isServerDead(c)
    /\ process' = [process EXCEPT ![c] = "dead"]
    /\ UNCHANGED <<listening, caller, endname, info, handler>>

(* The last look, after the handler has returned. *)
CheckServer_TrustsReply(c) ==
    /\ process[c] \in {"replied", "dead"}
    /\ process' = [process EXCEPT ![c] = IF isServerDead(c) THEN "refused" ELSE "accepted"]
    /\ UNCHANGED <<listening, caller, endname, info, handler>>

CheckServer(c) ==
    /\ process[c] \in {"replied", "dead"}
    /\ process' = [process EXCEPT ![c] =
           IF process[c] = "dead" \/ isServerDead(c) THEN "refused" ELSE "accepted"]
    /\ UNCHANGED <<listening, caller, endname, info, handler>>

ReplyError(c) == process[c] = "refused" /\ Reply(c, FALSE)

DropReply_AnyNetwork(c) == process[c] = "accepted" /\ Reply(c, FALSE)

DropReply(c) == /\ process[c] = "accepted" /\ ~info[c].reliable
                /\ Reply(c, FALSE)

DelayReply(c) ==
    /\ process[c] = "accepted" /\ info[c].longreordering
    /\ process' = [process EXCEPT ![c] = "delayed"]
    /\ UNCHANGED <<listening, caller, endname, info, handler>>

DeliverReply(c) == process[c] \in {"accepted", "delayed"} /\ Reply(c, TRUE)

(* No server to be reached: "simulate no reply and eventual timeout". *)
TimeOut(c) == process[c] = "timeout" /\ Reply(c, FALSE)

ProcessStep(c) == \/ ProcessReq(c) \/ DropRequest(c) \/ Dispatch(c)
                  \/ ReceiveReply(c) \/ StopWaiting(c) \/ CheckServer(c)
                  \/ ReplyError(c) \/ DropReply(c) \/ DelayReply(c) \/ DeliverReply(c)
                  \/ TimeOut(c)
-----------------------------------------------------------------------------
(* Server.dispatch and Service.dispatch.  The method has its effect when   *)
(* it starts to run; it returns later, or never.                           *)
RunHandler(c) ==
    /\ handler[c] = "dispatched"
    /\ handler' = [handler EXCEPT ![c] = "running"]
    /\ UNCHANGED <<listening, caller, endname, process, info>>

HandlerReturns(c) ==
    /\ handler[c] = "running"
    /\ handler' = [handler EXCEPT ![c] = "returning"]
    /\ UNCHANGED <<listening, caller, endname, process, info>>

(* The goroutine that receives the reply nobody waits for any more. *)
DrainReply_Missing(c) == FALSE /\ UNCHANGED callvars

DrainReply(c) ==
    /\ handler[c] = "returning" /\ process[c] # "waiting"
    /\ handler' = [handler EXCEPT ![c] = "ended"]
    /\ UNCHANGED <<listening, caller, endname, process, info>>

CallStep(c) == \/ SendRequest(c) \/ NetworkDestroyed(c) \/ ProcessStep(c)
               \/ RunHandler(c) \/ HandlerReturns(c) \/ DrainReply(c)

LNext == \/ Tester /\ UNCHANGED callvars
         \/ NetworkReturns /\ UNCHANGED netvars
         \/ \E c \in Calls : \/ CallStep(c) /\ UNCHANGED netvars
                             \/ \E e \in Ends : Call(c, e) /\ UNCHANGED netvars

LSpec == LInit /\ [][LNext]_lvars

(* Every goroutine that can go on does: callers, the network goroutine,    *)
(* processReq with its timers, handlers that were started, and the one     *)
(* that drains a reply.  A handler need not return and nobody need call.   *)
LFairness ==
    \A c \in Calls :
        /\ WF_lvars((SendRequest(c) \/ NetworkDestroyed(c)) /\ UNCHANGED netvars)
        /\ WF_lvars(ProcessStep(c) /\ UNCHANGED netvars)
        /\ WF_lvars((RunHandler(c) \/ DrainReply(c)) /\ UNCHANGED netvars)

LFairSpec == LSpec /\ LFairness
-----------------------------------------------------------------------------
Executed(c) == handler[c] \in {"running", "returning", "ended"}

Service == INSTANCE RPCService
           WITH outcome <- [c \in Calls |-> CASE caller[c] = "idle" -> "idle"
                                              [] caller[c] = "true" -> "ok"
                                              [] caller[c] = "false" -> "failed"
                                              [] OTHER -> "pending"],
                executed <- {c \in Calls : Executed(c)}

(* labrpc keeps the promise of its header comment (labrpc.go:29-32): Call  *)
(* returns once, a request is executed at most once, and true means that   *)
(* the server executed it, whatever the tester does to the network.        *)
ImplementsService == Service!SSpec

InProgress(c) == caller[c] \in {"sending", "waiting"}

(* The end of call c is usable: it leads to the Server object k. *)
Usable(c, k) == /\ reliable /\ ~done
                /\ enabled[endname[c]]
                /\ connections[endname[c]] # NoServer
                /\ servers[connections[endname[c]]] = k

(* Call fails for a reason (labrpc.go:31-32): if for as long as the call   *)
(* is in progress the network is reliable and the end enabled and          *)
(* connected to one and the same live server, Call does not return false.  *)
FailsForAReason ==
    \A c \in Calls, k \in Objects :
        [](InProgress(c) => Usable(c, k)) => [](caller[c] # "false")

(* The server processReq waits for is there and its end is enabled. *)
Reachable(c) == /\ process[c] = "waiting"
                /\ enabled[endname[c]]
                /\ servers[info[c].servername] = info[c].server

(* Call returns unless the handler never does (labrpc.go:37-38), and even  *)
(* then if the server stays deleted, replaced or cut off: processReq stops *)
(* waiting (labrpc.go:250-262).                                            *)
CallReturns ==
    \A c \in Calls :
        InProgress(c) ~> (~InProgress(c) \/ ([](handler[c] = "running") /\ []<>Reachable(c)))

(* No handler goroutine stays blocked on its reply: when processReq has    *)
(* stopped waiting, the channel is drained (labrpc.go:256-260).            *)
HandlersEnd == \A c \in Calls : handler[c] = "returning" ~> handler[c] = "ended"
=============================================================================
