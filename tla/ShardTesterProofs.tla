-------------------------- MODULE ShardTesterProofs -------------------------
(***************************************************************************)
(* Proofs about the simulated network and the tester of the sharded store  *)
(* that runs on it.  First, labrpc implements RPCService, whoever calls    *)
(* and whatever is done to the network.  Then what the tester promises     *)
(* about acknowledged updates and about instances that were shut down      *)
(* holds for any number of groups, servers, clerks, restarts and requests: *)
(* the inductive invariant, the facts about names, the steps of the        *)
(* network, of handlers and of the tester, and the theorems.               *)
(***************************************************************************)
EXTENDS ShardTester, TLAPS

(* The goroutines of a request are at points that fit each other: there is *)
(* a processReq exactly while Call waits, it has a handler's reply only    *)
(* when that handler has ended, and true is only said of such a request.   *)
CallTypes ==
    /\ caller \in [Calls -> {"idle", "sending", "waiting", "true", "false"}]
    /\ process \in [Calls -> {"none", "started", "routed", "waiting", "replied", "dead",
                              "accepted", "refused", "delayed", "timeout", "returned"}]
    /\ handler \in [Calls -> {"none", "dispatched", "running", "returning", "ended"}]

CallFits(c) ==
    /\ caller[c] \in {"idle", "sending"} => process[c] = "none"
    /\ process[c] \notin {"none", "returned"} => caller[c] = "waiting"
    /\ process[c] \in {"none", "started", "routed", "timeout"} => handler[c] = "none"
    /\ process[c] \in {"replied", "accepted", "delayed"} => handler[c] = "ended"
    /\ caller[c] = "true" => handler[c] = "ended"

CallInv == CallTypes /\ \A c \in Calls : CallFits(c)

(* A Call begins, on whatever end. *)
Begins(c) == /\ caller[c] = "idle"
             /\ caller' = [caller EXCEPT ![c] = "sending"]
             /\ UNCHANGED <<listening, process, info, handler>>

CallMoves == \/ UNCHANGED <<caller, process, handler>>
             \/ \E c \in Calls : CallStep(c) \/ Begins(c)

(* Every step that any request can take keeps the points fitting. *)
LEMMA CallInvStep ==
    ASSUME CallInv, CallMoves
    PROVE  CallInv'
<1> USE DEF CallInv, CallTypes, CallFits
<1>1. CASE UNCHANGED <<caller, process, handler>>
  BY <1>1, Zenon
<1>2. ASSUME NEW c \in Calls, Begins(c) PROVE CallInv'
  BY <1>2, Zenon DEF Begins
<1>3. ASSUME NEW c \in Calls, SendRequest(c) \/ NetworkDestroyed(c) PROVE CallInv'
  BY <1>3 DEF SendRequest, NetworkDestroyed
<1>4. ASSUME NEW c \in Calls, ProcessReq(c) \/ Dispatch(c) PROVE CallInv'
  BY <1>4 DEF ProcessReq, Dispatch
<1>5. ASSUME NEW c \in Calls, ReceiveReply(c) \/ StopWaiting(c) PROVE CallInv'
  BY <1>5 DEF ReceiveReply, StopWaiting
<1>6. ASSUME NEW c \in Calls, CheckServer(c) \/ DelayReply(c) PROVE CallInv'
  BY <1>6 DEF CheckServer, DelayReply
<1>7. ASSUME NEW c \in Calls, DropRequest(c) \/ ReplyError(c) \/ DropReply(c) \/ TimeOut(c)
      PROVE  CallInv'
  BY <1>7 DEF DropRequest, ReplyError, DropReply, TimeOut, Reply
<1>8. ASSUME NEW c \in Calls, DeliverReply(c) PROVE CallInv'
  BY <1>8, Zenon DEF DeliverReply, Reply
<1>9. ASSUME NEW c \in Calls, RunHandler(c) \/ HandlerReturns(c) \/ DrainReply(c)
      PROVE  CallInv'
  BY <1>9 DEF RunHandler, HandlerReturns, DrainReply
<1> QED
  BY <1>1, <1>2, <1>3, <1>4, <1>5, <1>6, <1>7, <1>8, <1>9, Zenon
  DEF CallMoves, CallStep, ProcessStep

-----------------------------------------------------------------------------
(* The refinement mapping of LabRPC, by name. *)
Outcome(c) == CASE caller[c] = "idle" -> "idle"
                [] caller[c] = "true" -> "ok"
                [] caller[c] = "false" -> "failed"
                [] OTHER -> "pending"

Outcomes == [c \in Calls |-> Outcome(c)]
ExecutedCalls == {c \in Calls : Executed(c)}

(* A request whose outcome alone changes, and one whose execution alone    *)
(* begins.                                                                 *)
LEMMA OutcomeChanges ==
    ASSUME CallTypes, CallTypes', NEW c \in Calls,
           \A d \in Calls : d # c => caller'[d] = caller[d],
           \A d \in Calls : Executed(d)' <=> Executed(d)
    PROVE  Outcomes' = [Outcomes EXCEPT ![c] = Outcome(c)'] /\ ExecutedCalls' = ExecutedCalls
<1>1. \A d \in Calls : d # c => Outcome(d)' = Outcome(d)
  BY Zenon DEF Outcome
<1>2. Outcomes' = [Outcomes EXCEPT ![c] = Outcome(c)']
  BY <1>1, Zenon DEF Outcomes
<1>3. ExecutedCalls' = ExecutedCalls
  BY Zenon DEF ExecutedCalls
<1> QED
  BY <1>2, <1>3, Zenon

LEMMA ExecutionBegins ==
    ASSUME CallTypes, NEW c \in Calls, caller' = caller, Executed(c)',
           \A d \in Calls : d # c => (Executed(d)' <=> Executed(d))
    PROVE  Outcomes' = Outcomes /\ ExecutedCalls' = ExecutedCalls \cup {c}
BY Zenon DEF CallTypes, Outcomes, Outcome, ExecutedCalls

(* Every step of a request is a step of RPCService or leaves its variables *)
(* alone.                                                                  *)
LEMMA ServiceStep ==
    ASSUME CallInv, CallMoves
    PROVE  [Service!SNext]_Service!svars
<1>0. CallTypes /\ CallTypes' /\ \A c \in Calls : CallFits(c)
  BY CallInvStep, Zenon DEF CallInv
<1>1. ASSUME caller' = caller, \A c \in Calls : Executed(c)' <=> Executed(c)
      PROVE  UNCHANGED Service!svars
  BY <1>1, Zenon DEF Service!svars
<1>2. ASSUME NEW c \in Calls, caller[c] = "idle",
             caller' = [caller EXCEPT ![c] = "sending"], handler' = handler
      PROVE  Service!Issue(c)
  <2>1. Outcomes' = [Outcomes EXCEPT ![c] = Outcome(c)'] /\ ExecutedCalls' = ExecutedCalls
    BY <1>0, <1>2, OutcomeChanges DEF CallTypes, Executed
  <2> QED
    BY <1>0, <1>2, <2>1, Zenon DEF CallTypes, Service!Issue, Outcomes, Outcome, ExecutedCalls
<1>3. ASSUME NEW c \in Calls, caller[c] \in {"sending", "waiting"},
             caller' = [caller EXCEPT ![c] = "false"], handler' = handler
      PROVE  Service!ReturnFalse(c)
  <2>1. Outcomes' = [Outcomes EXCEPT ![c] = Outcome(c)'] /\ ExecutedCalls' = ExecutedCalls
    BY <1>0, <1>3, OutcomeChanges DEF CallTypes, Executed
  <2> QED
    BY <1>0, <1>3, <2>1, Zenon DEF CallTypes, Service!ReturnFalse, Outcomes, Outcome, ExecutedCalls
<1>4. ASSUME NEW c \in Calls, caller[c] = "waiting", handler[c] = "ended",
             caller' = [caller EXCEPT ![c] = "true"], handler' = handler
      PROVE  Service!ReturnTrue(c)
  <2>1. Outcomes' = [Outcomes EXCEPT ![c] = Outcome(c)'] /\ ExecutedCalls' = ExecutedCalls
    BY <1>0, <1>4, OutcomeChanges DEF CallTypes, Executed
  <2> QED
    BY <1>0, <1>4, <2>1, Zenon DEF CallTypes, Service!ReturnTrue, Outcomes, Outcome, ExecutedCalls, Executed
<1>5. ASSUME NEW c \in Calls, RunHandler(c) PROVE Service!Execute(c)
  <2>1. caller[c] \in {"waiting", "false"} /\ ~Executed(c)
    BY <1>0, <1>5, Zenon DEF CallTypes, CallFits, RunHandler, Executed
  <2>2. Outcomes' = Outcomes /\ ExecutedCalls' = ExecutedCalls \cup {c}
    BY <1>0, <1>5, ExecutionBegins, Zenon DEF CallTypes, RunHandler, Executed
  <2> QED
    BY <1>0, <2>1, <2>2, Zenon DEF CallTypes, Service!Execute, Outcomes, Outcome, ExecutedCalls
<1>6. ASSUME NEW c \in Calls, CallStep(c) \/ Begins(c)
      PROVE  [Service!SNext]_Service!svars
  <2>1. CASE Begins(c)
    BY <1>2, <2>1, Zenon DEF Begins, Service!SNext
  <2>2. CASE NetworkDestroyed(c)
    BY <1>3, <2>2, Zenon DEF NetworkDestroyed, Service!SNext
  <2>3. CASE DropRequest(c) \/ ReplyError(c) \/ DropReply(c) \/ TimeOut(c)
    <3>1. /\ caller[c] = "waiting" /\ handler' = handler
          /\ caller' = [caller EXCEPT ![c] = "false"]
      BY <1>0, <2>3, Zenon DEF CallFits, DropRequest, ReplyError, DropReply, TimeOut, Reply
    <3> QED
      BY <1>3, <3>1, Zenon DEF Service!SNext
  <2>4. CASE DeliverReply(c)
    <3>1. /\ caller[c] = "waiting" /\ handler[c] = "ended" /\ handler' = handler
          /\ caller' = [caller EXCEPT ![c] = "true"]
      BY <1>0, <2>4, Zenon DEF CallFits, DeliverReply, Reply
    <3> QED
      BY <1>4, <3>1, Zenon DEF Service!SNext
  <2>5. CASE RunHandler(c)
    BY <1>5, <2>5, Zenon DEF Service!SNext
  <2>6. CASE SendRequest(c)
    BY <1>0, <2>6 DEF SendRequest, CallTypes, Service!svars, Executed
  <2>7. CASE ProcessReq(c) \/ Dispatch(c) \/ StopWaiting(c) \/ CheckServer(c) \/ DelayReply(c)
    <3>1. CASE ProcessReq(c) \/ StopWaiting(c) \/ CheckServer(c) \/ DelayReply(c)
      BY <1>1, <3>1, Zenon DEF ProcessReq, StopWaiting, CheckServer, DelayReply, Executed
    <3>2. CASE Dispatch(c)
      <4>1. handler[c] = "none" /\ caller' = caller
            /\ handler' = [handler EXCEPT ![c] = "dispatched"]
        BY <1>0, <3>2, Zenon DEF CallFits, Dispatch
      <4> QED
        BY <1>0, <1>1, <4>1, Zenon DEF CallTypes, Executed
    <3> QED
      BY <2>7, <3>1, <3>2, Zenon
  <2>8. CASE ReceiveReply(c) \/ HandlerReturns(c) \/ DrainReply(c)
    BY <1>0, <1>1, <2>8 DEF CallTypes, ReceiveReply, HandlerReturns, DrainReply, Executed
  <2> QED
    BY <1>6, <2>1, <2>2, <2>3, <2>4, <2>5, <2>6, <2>7, <2>8, Zenon DEF CallStep, ProcessStep
<1>7. CASE UNCHANGED <<caller, process, handler>>
  BY <1>1, <1>7, Zenon DEF Executed
<1> QED
  BY <1>6, <1>7, Zenon DEF CallMoves

(* The steps of the network and of whoever uses it. *)
LEMMA NetworkCallMoves ==
    ASSUME [LNext]_lvars
    PROVE  CallMoves
<1>1. CASE lvars' = lvars \/ callvars' = callvars \/ NetworkReturns
  BY <1>1, Zenon DEF lvars, callvars, NetworkReturns, CallMoves
<1>2. ASSUME NEW c \in Calls, CallStep(c) \/ \E e \in Ends : Call(c, e)
      PROVE  CallMoves
  BY <1>2, Zenon DEF CallMoves, Call, Begins
<1> QED
  BY <1>1, <1>2, Zenon DEF LNext

LEMMA InitialCalls == LInit => CallInv /\ Service!SInit
BY DEF LInit, CallInv, CallTypes, CallFits, Service!SInit, Executed

(* labrpc implements RPCService: for any set of ends, servers and requests *)
(* a request is executed at most once and Call says true only of one that  *)
(* was, whatever is made, connected, enabled, deleted, replaced or cleaned *)
(* up meanwhile (labrpc.go:29-32).                                         *)
THEOREM LabRPCImplementsService == LSpec => ImplementsService
<1>1. CallInv /\ [LNext]_lvars => CallInv'
  BY NetworkCallMoves, CallInvStep, Zenon
<1>2. CallInv /\ [LNext]_lvars => [Service!SNext]_Service!svars
  BY NetworkCallMoves, ServiceStep, Zenon
<1> QED
  BY <1>1, <1>2, InitialCalls, PTL DEF LSpec, ImplementsService, Service!SSpec
-----------------------------------------------------------------------------
(* The tester.  Where it is in an operation on its target. *)
PointsFit ==
    /\ ready => \A s \in Servers : starts[s] >= 1
    /\ at = "add" => /\ running[target] /\ starts[target] >= 1
                     /\ target \in KVServers => saved[target] = Own(target)
    /\ at \in {"disable", "delete", "copy"} => ready /\ target \in KVServers
    /\ at = "copy" => servers[target] = nil

(* A server that has been started has a persister of its last instance,    *)
(* and the Server object under its name, if any, is that instance.         *)
SavedFits ==
    \A s \in KVServers : IF starts[s] = 0 THEN saved[s] = NoPersister
                          ELSE saved[s] \in {Own(s), Copy(s)}

ServersFit ==
    \A s \in Servers : servers[s] # nil =>
        /\ servers[s] <= objects
        /\ owner[servers[s]] = <<s, starts[s]>>
        /\ running[s] /\ starts[s] >= 1
        /\ s \in KVServers => saved[s] = Own(s)

OwnersFit ==
    \A o \in 1..objects : owner[o] \in Servers \X (1..MaxStarts) /\ owner[o][2] <= starts[owner[o][1]]

(* A request that got as far as a server knows that server's object. *)
RequestFits(c) ==
    /\ info[c].server # nil => /\ info[c].server <= objects
                               /\ info[c].servername = owner[info[c].server][1]
    /\ process[c] \notin {"none", "started", "timeout", "returned"} => info[c].server # nil
    /\ handler[c] # "none" => info[c].server # nil

(* What a handler has done is in its instance's persister, and what is     *)
(* acknowledged, or about to be, in the persister the next one will get.   *)
OwnerOf(c) == owner[info[c].server]

UpdateKept(c) ==
    /\ Executed(c) => c \in store[<<OwnerOf(c)[1], OwnerOf(c)[2], "own">>]
    /\ /\ process[c] \in {"accepted", "delayed"} \/ caller[c] = "true"
       /\ info[c].servername \in KVServers
       => c \in store[saved[info[c].servername]]

(* The recorded ends of instances that were shut down are disabled, those  *)
(* of instances still to come not enabled yet, and those of the server     *)
(* that is being shut down disabled as far as the loop has got.            *)
EndsFit ==
    /\ \A e \in PeerEnds \cup MendEnds : Silenced(e) \/ e[3] > starts[e[2]] => ~enabled[e]
    /\ at = "disable" => pos < NumRecorded /\ \A j \in 0..(pos - 1) : ~enabled[RecordedEnd(target, j)]
    /\ at \in {"delete", "copy"} => \A j \in 0..(NumRecorded - 1) : ~enabled[RecordedEnd(target, j)]

EndsKnown == \A c \in Calls : caller[c] # "idle" => endname[c] \in Ends

GInv == /\ GTypeOK /\ CallInv /\ EndsKnown
        /\ PointsFit /\ SavedFits /\ ServersFit /\ OwnersFit
        /\ \A c \in Calls : RequestFits(c) /\ UpdateKept(c)
        /\ EndsFit
-----------------------------------------------------------------------------
(* Names of servers, ends and persisters. *)
LEMMA NameFacts ==
    /\ KVServers \subseteq Servers /\ Ctrlers \subseteq Servers
    /\ Servers = KVServers \cup Ctrlers
    /\ PeerEnds \subseteq Ends /\ MendEnds \subseteq Ends /\ MadeEnds \subseteq Ends
    /\ ClerkEnds \subseteq Ends
    /\ NoPersister \notin Persisters /\ NoServer \notin Servers
    /\ MaxStarts \in Nat /\ MaxStarts >= 1 /\ MaxServers \in Nat
BY NamesAssumption, SizesAssumption, NoServerAssumption, MaxServersAssumption

LEMMA PersisterFacts ==
    ASSUME NEW s \in Servers, NEW k \in 1..MaxStarts, NEW x \in {"own", "copy"}
    PROVE  <<s, k, x>> \in Persisters
BY Zenon DEF Persisters

LEMMA OwnerStarted ==
    ASSUME GInv, NEW o \in 1..objects
    PROVE  /\ owner[o][1] \in Servers /\ starts[owner[o][1]] \in 1..MaxStarts
           /\ starts[owner[o][1]] >= 1
           /\ <<owner[o][1], owner[o][2], "own">> \in Persisters
<1>1. owner[o] \in Servers \X (1..MaxStarts) /\ owner[o][2] <= starts[owner[o][1]]
  BY Zenon DEF GInv, OwnersFit
<1>2. starts \in [Servers -> 0..MaxStarts] /\ MaxStarts \in Nat
  BY NameFacts, Zenon DEF GInv, GTypeOK
<1>3. owner[o][1] \in Servers /\ owner[o][2] \in 1..MaxStarts
  BY <1>1
<1>4. <<owner[o][1], owner[o][2], "own">> \in Persisters
  BY <1>3, PersisterFacts, Zenon
<1>5. starts[owner[o][1]] \in 0..MaxStarts
  BY <1>2, <1>3, Zenon
<1>6. starts[owner[o][1]] \in 1..MaxStarts /\ starts[owner[o][1]] >= 1
  BY <1>1, <1>2, <1>3, <1>5
<1> QED
  BY <1>3, <1>4, <1>6, Zenon

LEMMA RequestObject ==
    ASSUME GInv, NEW c \in Calls, info[c].server # nil
    PROVE  /\ info[c].server \in 1..objects /\ info[c].server <= objects
           /\ info[c].servername = owner[info[c].server][1]
<1>1. info[c].server \in Nat /\ objects \in Nat
  <2>1. info[c] \in Info /\ objects \in 0..MaxServers
    BY Zenon DEF GInv, GTypeOK, LTypeOK
  <2> QED
    BY <2>1, NameFacts DEF Info, Objects, nil
<1>2. RequestFits(c)
  BY Zenon DEF GInv
<1> QED
  BY <1>1, <1>2 DEF RequestFits, nil

LEMMA SavedKnown ==
    ASSUME GInv, NEW s \in KVServers, starts[s] >= 1
    PROVE  /\ saved[s] \in {Own(s), Copy(s)} /\ saved[s] \in Persisters
           /\ Own(s) \in Persisters /\ Copy(s) \in Persisters
<1>1. s \in Servers /\ starts[s] \in 1..MaxStarts
  BY NameFacts DEF GInv, GTypeOK
<1>2. Own(s) \in Persisters /\ Copy(s) \in Persisters
  BY <1>1, PersisterFacts, Zenon DEF Own, Copy
<1>3. saved[s] \in {Own(s), Copy(s)}
  BY <1>1 DEF GInv, SavedFits
<1> QED
  BY <1>2, <1>3, Zenon

(* A step of the requests that leaves info, the tester and the network     *)
(* alone, runs no handler and accepts no reply keeps what is known of each *)
(* request.                                                                *)
LEMMA QuietRequests ==
    ASSUME \A c \in Calls : RequestFits(c) /\ UpdateKept(c),
           info' = info, UNCHANGED <<netvars, tvars>>,
           \A c \in Calls :
               /\ process'[c] \notin {"none", "started", "timeout", "returned"} =>
                    process[c] \notin {"none", "started", "timeout", "returned"}
               /\ handler'[c] # "none" =>
                    handler[c] # "none" \/ process[c] \notin {"none", "started", "timeout", "returned"}
               /\ Executed(c)' => Executed(c)
               /\ process'[c] \in {"accepted", "delayed"} \/ caller'[c] = "true" =>
                    process[c] \in {"accepted", "delayed"} \/ caller[c] = "true"
    PROVE  \A c \in Calls : RequestFits(c)' /\ UpdateKept(c)'
<1> TAKE c \in Calls
<1>1. RequestFits(c)'
  BY DEF RequestFits, netvars, tvars
<1>2. UpdateKept(c)'
  BY Zenon DEF UpdateKept, OwnerOf, netvars, tvars
<1> QED
  BY <1>1, <1>2, Zenon

(* processReq learns of the Server object under a name. *)
LEMMA ProcessReqRequests ==
    ASSUME GInv, NEW c \in Calls, ProcessReq(c), UNCHANGED <<netvars, tvars>>
    PROVE  (\A d \in Calls : RequestFits(d) /\ UpdateKept(d))' /\ info' \in [Calls -> Info]
<1>0. /\ process[c] = "started" /\ caller[c] = "waiting" /\ handler[c] = "none"
      /\ endname[c] \in Ends /\ ~Executed(c)
  BY Zenon DEF GInv, GTypeOK, LTypeOK, CallInv, CallTypes, CallFits, EndsKnown, ProcessReq, Executed
<1>1. readEndnameInfo(c) \in Info
  BY <1>0, NameFacts, Zenon DEF GInv, GTypeOK, LTypeOK, readEndnameInfo, Info
<1>2. info' = [info EXCEPT ![c] = readEndnameInfo(c)] /\ info \in [Calls -> Info]
  BY Zenon DEF ProcessReq, GInv, GTypeOK, LTypeOK
<1>3. ASSUME NEW d \in Calls, d # c PROVE RequestFits(d)' /\ UpdateKept(d)'
  <2>1. /\ info'[d] = info[d] /\ process'[d] = process[d] /\ handler'[d] = handler[d]
        /\ caller'[d] = caller[d]
    BY <1>2, <1>3, Zenon DEF ProcessReq, GInv, CallInv, CallTypes
  <2>2. RequestFits(d) /\ UpdateKept(d)
    BY Zenon DEF GInv
  <2>3. RequestFits(d)'
    BY <2>1, <2>2, Zenon DEF RequestFits, netvars, tvars
  <2>4. UpdateKept(d)'
    BY <2>1, <2>2, Zenon DEF UpdateKept, OwnerOf, Executed, netvars, tvars
  <2> QED
    BY <2>3, <2>4, Zenon
<1>4. RequestFits(c)'
  <2>1. /\ info'[c] = readEndnameInfo(c) /\ handler'[c] = "none"
        /\ process'[c] \in {"routed", "timeout"}
        /\ process'[c] = "routed" => readEndnameInfo(c).server # nil
    BY <1>0, <1>2, Zenon DEF ProcessReq, GInv, CallInv, CallTypes
  <2>2. ASSUME readEndnameInfo(c).server # nil
        PROVE  /\ readEndnameInfo(c).server <= objects
               /\ readEndnameInfo(c).servername = owner[readEndnameInfo(c).server][1]
    <3>1. /\ readEndnameInfo(c).servername \in Servers
          /\ servers[readEndnameInfo(c).servername] = readEndnameInfo(c).server
      BY <1>0, <2>2, NameFacts, Zenon DEF GInv, GTypeOK, LTypeOK, readEndnameInfo
    <3> QED
      BY <2>2, <3>1 DEF GInv, ServersFit
  <2> QED
    BY <2>1, <2>2, Zenon DEF RequestFits, netvars, tvars
<1>5. UpdateKept(c)'
  <2>1. ~Executed(c)' /\ process'[c] \notin {"accepted", "delayed"} /\ caller'[c] # "true"
    BY <1>0, Zenon DEF ProcessReq, GInv, CallInv, CallTypes, Executed
  <2> QED
    BY <2>1, Zenon DEF UpdateKept
<1> QED
  BY <1>1, <1>2, <1>3, <1>4, <1>5, Zenon

(* The last look at the server: a reply that is accepted comes from the    *)
(* instance that still is under that name, so its persister is the one     *)
(* that will be copied.                                                    *)
LEMMA CheckServerRequests ==
    ASSUME GInv, NEW c \in Calls, CheckServer(c), UNCHANGED <<netvars, tvars>>
    PROVE  \A d \in Calls : RequestFits(d)' /\ UpdateKept(d)'
<1>0. /\ info' = info /\ handler' = handler /\ caller' = caller
      /\ process[c] \in {"replied", "dead"}
      /\ \A d \in Calls : d # c => process'[d] = process[d]
      /\ process'[c] \in {"refused", "accepted"}
      /\ process'[c] = "accepted" => process[c] = "replied" /\ ~isServerDead(c)
  BY Zenon DEF CheckServer, GInv, CallInv, CallTypes
<1>1. \A d \in Calls : RequestFits(d) /\ UpdateKept(d)
  BY Zenon DEF GInv
<1>2. \A d \in Calls : RequestFits(d)'
  BY <1>0, <1>1, Zenon DEF RequestFits, netvars, tvars
<1>3. ASSUME NEW d \in Calls, d # c \/ process'[c] # "accepted" PROVE UpdateKept(d)'
  BY <1>0, <1>1, <1>3, Zenon DEF UpdateKept, OwnerOf, Executed, netvars, tvars
<1>4. ASSUME process'[c] = "accepted" PROVE UpdateKept(c)'
  <2>1. Executed(c) /\ info[c].server # nil /\ servers[info[c].servername] = info[c].server
    BY <1>0, <1>1, <1>4, Zenon DEF GInv, CallInv, CallFits, RequestFits, Executed, isServerDead
  <2>2. info[c].servername \in Servers
    BY <1>1, <2>1, NameFacts DEF GInv, GTypeOK, LTypeOK, Info, RequestFits, OwnersFit, Objects
  <2>3. OwnerOf(c) = <<info[c].servername, starts[info[c].servername]>>
    BY <2>1, <2>2, Zenon DEF GInv, ServersFit, OwnerOf
  <2>4. info[c].servername \in KVServers => c \in store[saved[info[c].servername]]
    <3>1. c \in store[<<OwnerOf(c)[1], OwnerOf(c)[2], "own">>]
      BY <1>1, <2>1, Zenon DEF UpdateKept
    <3>2. c \in store[<<info[c].servername, starts[info[c].servername], "own">>]
      BY <2>3, <3>1
    <3>3. info[c].servername \in KVServers => saved[info[c].servername] = Own(info[c].servername)
      BY <2>1, <2>2, Zenon DEF GInv, ServersFit
    <3> QED
      BY <3>2, <3>3, Zenon DEF Own
  <2> QED
    BY <1>0, <1>1, <2>4, Zenon DEF UpdateKept, OwnerOf, Executed, netvars, tvars
<1> QED
  BY <1>2, <1>3, <1>4, Zenon

(* The steps of Call, of the network and of handlers that save nothing. *)
LEMMA NetworkRequests ==
    ASSUME GInv, NetworkStep, UNCHANGED <<netvars, tvars>>
    PROVE  \A c \in Calls : RequestFits(c)' /\ UpdateKept(c)'
<1>0. CallTypes /\ \A c \in Calls : CallFits(c) /\ RequestFits(c) /\ UpdateKept(c)
  BY Zenon DEF GInv, CallInv
<1>1. CASE NetworkReturns
  BY <1>0, <1>1, QuietRequests, Zenon DEF NetworkReturns, Executed
<1>2. ASSUME NEW c \in Calls, SendRequest(c) \/ NetworkDestroyed(c) \/ \E e \in Ends : Call(c, e)
      PROVE  \A d \in Calls : RequestFits(d)' /\ UpdateKept(d)'
  BY <1>0, <1>2, QuietRequests DEF CallTypes, SendRequest, NetworkDestroyed, Call, Executed
<1>3. ASSUME NEW c \in Calls, HandlerReturns(c) \/ DrainReply(c) \/ ReceiveReply(c) \/ Dispatch(c)
      PROVE  \A d \in Calls : RequestFits(d)' /\ UpdateKept(d)'
  BY <1>0, <1>3, QuietRequests
  DEF CallTypes, HandlerReturns, DrainReply, ReceiveReply, Dispatch, Executed
<1>4. ASSUME NEW c \in Calls, StopWaiting(c) \/ DelayReply(c) \/ DeliverReply(c)
      PROVE  \A d \in Calls : RequestFits(d)' /\ UpdateKept(d)'
  BY <1>0, <1>4, QuietRequests, Zenon DEF CallTypes, StopWaiting, DelayReply, DeliverReply, Reply, Executed
<1>5. ASSUME NEW c \in Calls, DropRequest(c) \/ ReplyError(c) \/ DropReply(c) \/ TimeOut(c)
      PROVE  \A d \in Calls : RequestFits(d)' /\ UpdateKept(d)'
  BY <1>0, <1>5, QuietRequests
  DEF CallTypes, DropRequest, ReplyError, DropReply, TimeOut, Reply, Executed
<1>6. ASSUME NEW c \in Calls, ProcessReq(c) \/ CheckServer(c)
      PROVE  \A d \in Calls : RequestFits(d)' /\ UpdateKept(d)'
  BY <1>6, ProcessReqRequests, CheckServerRequests, Zenon
<1> QED
  BY <1>1, <1>2, <1>3, <1>4, <1>5, <1>6, Zenon DEF NetworkStep, ProcessStep

LEMMA NetworkTypes ==
    ASSUME GInv, NetworkStep, UNCHANGED <<netvars, tvars>>
    PROVE  GTypeOK' /\ CallInv' /\ EndsKnown'
<1>1. CallMoves
  BY Zenon DEF NetworkStep, NetworkReturns, Call, CallMoves, Begins, CallStep
<1>2. CallInv'
  BY <1>1, CallInvStep, Zenon DEF GInv
<1>3. listening' \in BOOLEAN /\ endname' \in [Calls -> Ends \cup {NoEnd}] /\ EndsKnown'
  <2>0. /\ listening \in BOOLEAN /\ endname \in [Calls -> Ends \cup {NoEnd}]
        /\ EndsKnown /\ CallTypes /\ \A c \in Calls : CallFits(c)
    BY Zenon DEF GInv, GTypeOK, LTypeOK, CallInv
  <2>1. CASE NetworkReturns
    BY <2>0, <2>1, Zenon DEF NetworkReturns, EndsKnown
  <2>2. ASSUME NEW c \in Calls, NEW e \in Ends, Call(c, e)
        PROVE  listening' \in BOOLEAN /\ endname' \in [Calls -> Ends \cup {NoEnd}] /\ EndsKnown'
    BY <2>0, <2>2, Zenon DEF Call, EndsKnown, CallTypes
  <2>3. ASSUME NEW c \in Calls, SendRequest(c) \/ NetworkDestroyed(c) \/ ProcessStep(c)
                                \/ HandlerReturns(c) \/ DrainReply(c)
        PROVE  UNCHANGED <<listening, endname>> /\ \A d \in Calls : caller'[d] # "idle" => caller[d] # "idle"
    <3>1. CASE SendRequest(c) \/ NetworkDestroyed(c)
      BY <2>0, <3>1, Zenon DEF SendRequest, NetworkDestroyed, CallTypes
    <3>2. CASE HandlerReturns(c) \/ DrainReply(c) \/ ReceiveReply(c) \/ Dispatch(c)
      BY <2>0, <3>2, Zenon DEF HandlerReturns, DrainReply, ReceiveReply, Dispatch
    <3>3. CASE ProcessReq(c) \/ StopWaiting(c) \/ CheckServer(c) \/ DelayReply(c)
      BY <3>3, Zenon DEF ProcessReq, StopWaiting, CheckServer, DelayReply
    <3>4. CASE DropRequest(c) \/ ReplyError(c) \/ DropReply(c) \/ TimeOut(c) \/ DeliverReply(c)
      <4>1. caller[c] = "waiting" /\ \E ok \in BOOLEAN : Reply(c, ok)
        BY <2>0, <3>4, Zenon DEF DropRequest, ReplyError, DropReply, TimeOut, DeliverReply, CallFits
      <4> QED
        BY <2>0, <4>1, Zenon DEF Reply, CallTypes
    <3> QED
      BY <2>3, <3>1, <3>2, <3>3, <3>4, Zenon DEF ProcessStep
  <2>4. ASSUME NEW c \in Calls, SendRequest(c) \/ NetworkDestroyed(c) \/ ProcessStep(c)
                                \/ HandlerReturns(c) \/ DrainReply(c)
        PROVE  listening' \in BOOLEAN /\ endname' \in [Calls -> Ends \cup {NoEnd}] /\ EndsKnown'
    BY <2>0, <2>3, <2>4, Zenon DEF EndsKnown
  <2> QED
    BY <2>1, <2>2, <2>4, Zenon DEF NetworkStep
<1>4. info' \in [Calls -> Info]
  <2>1. ASSUME NEW c \in Calls, ProcessReq(c) PROVE info' \in [Calls -> Info]
    BY <2>1, ProcessReqRequests, Zenon
  <2>2. CASE info' = info
    BY <2>2, Zenon DEF GInv, GTypeOK, LTypeOK
  <2>3. CASE NetworkReturns
    BY <2>2, <2>3, Zenon DEF NetworkReturns
  <2>4. ASSUME NEW c \in Calls, SendRequest(c) \/ NetworkDestroyed(c) \/ HandlerReturns(c) \/ DrainReply(c)
                                \/ \E e \in Ends : Call(c, e)
        PROVE  info' = info
    BY <2>4, Zenon DEF SendRequest, NetworkDestroyed, HandlerReturns, DrainReply, Call
  <2>5. ASSUME NEW c \in Calls, ProcessStep(c), ~ProcessReq(c) PROVE info' = info
    BY <2>5, Zenon DEF ProcessStep, DropRequest, Dispatch, ReceiveReply, StopWaiting, CheckServer,
                ReplyError, DropReply, DelayReply, DeliverReply, TimeOut, Reply
  <2> QED
    BY <2>1, <2>2, <2>3, <2>4, <2>5, Zenon DEF NetworkStep
<1> QED
  BY <1>2, <1>3, <1>4 DEF GInv, GTypeOK, LTypeOK, CallInv, CallTypes, netvars, tvars

LEMMA NetworkKeepsGInv ==
    ASSUME GInv, NetworkStep, UNCHANGED <<netvars, tvars>>
    PROVE  GInv'
<1>1. PointsFit' /\ SavedFits' /\ ServersFit' /\ OwnersFit'
  BY Zenon DEF GInv, PointsFit, SavedFits, ServersFit, OwnersFit, Own, Copy, netvars, tvars
<1>2. EndsFit'
  BY Zenon DEF GInv, EndsFit, Silenced, RecordedEnd, netvars, tvars
<1> QED
  BY <1>1, <1>2, NetworkTypes, NetworkRequests, Zenon DEF GInv

(* A handler saves its update, in the persister of its own instance. *)
LEMMA SaveKeepsGInv ==
    ASSUME GInv, NEW c \in Calls, SaveUpdate(c)
    PROVE  GInv'
<1> DEFINE mine == <<OwnerOf(c)[1], OwnerOf(c)[2], "own">>
<1>0. /\ UNCHANGED <<netvars, ready, closing, starts, running, saved, owner, at, target, pos>>
      /\ UNCHANGED <<listening, caller, endname, process, info>>
      /\ store' = [store EXCEPT ![mine] = @ \cup {c}]
      /\ handler[c] = "dispatched" /\ handler' = [handler EXCEPT ![c] = "running"]
  BY Zenon DEF SaveUpdate, RunHandler, OwnerOf
<1>1. mine \in Persisters
  <2>1. info[c].server # nil
    BY <1>0, Zenon DEF GInv, RequestFits
  <2>2. info[c].server \in 1..objects
    BY <2>1, RequestObject, Zenon
  <2> QED
    BY <2>2, OwnerStarted, Zenon DEF OwnerOf
<1>2. /\ store' \in [Persisters -> SUBSET Calls] /\ c \in store'[mine]
      /\ \A p \in Persisters : store[p] \subseteq store'[p]
  <2>1. store \in [Persisters -> SUBSET Calls]
    BY Zenon DEF GInv, GTypeOK
  <2> HIDE DEF mine
  <2> QED
    BY <1>0, <1>1, <2>1, Zenon
<1>3. CallInv'
  BY CallInvStep, Zenon DEF GInv, SaveUpdate, CallMoves, CallStep
<1>4. GTypeOK' /\ EndsKnown'
  BY <1>0, <1>2, <1>3 DEF GInv, GTypeOK, LTypeOK, CallInv, CallTypes, EndsKnown, netvars
<1>5. PointsFit' /\ SavedFits' /\ ServersFit' /\ OwnersFit'
  BY <1>0, Zenon DEF GInv, PointsFit, SavedFits, ServersFit, OwnersFit, Own, Copy, netvars
<1>6. EndsFit'
  BY <1>0, Zenon DEF GInv, EndsFit, Silenced, RecordedEnd, netvars
<1>7. ASSUME NEW d \in Calls PROVE RequestFits(d)' /\ UpdateKept(d)'
  <2>0. RequestFits(d) /\ UpdateKept(d) /\ (handler'[d] # "none" => handler[d] # "none")
        /\ (d # c => handler'[d] = handler[d])
    BY <1>0, Zenon DEF GInv, CallInv, CallTypes
  <2>1. RequestFits(d)'
    BY <1>0, <2>0, Zenon DEF RequestFits, netvars
  <2>2. Executed(d)' => d \in store'[<<OwnerOf(d)'[1], OwnerOf(d)'[2], "own">>]
    <3>1. OwnerOf(d)' = OwnerOf(d) /\ (d # c => (Executed(d)' <=> Executed(d)))
      BY <1>0, <2>0, Zenon DEF OwnerOf, Executed
    <3>2. CASE d = c
      BY <1>2, <3>1, <3>2, Zenon
    <3>3. ASSUME d # c, Executed(d)
          PROVE  d \in store'[<<OwnerOf(d)[1], OwnerOf(d)[2], "own">>]
      <4>1. info[d].server # nil
        BY <2>0, <3>3, Zenon DEF RequestFits, Executed
      <4>2. <<OwnerOf(d)[1], OwnerOf(d)[2], "own">> \in Persisters
        BY <4>1, RequestObject, OwnerStarted, Zenon DEF OwnerOf
      <4>3. d \in store[<<OwnerOf(d)[1], OwnerOf(d)[2], "own">>]
        BY <2>0, <3>3, Zenon DEF UpdateKept
      <4> QED
        BY <1>2, <4>2, <4>3, Zenon
    <3> QED
      BY <3>1, <3>2, <3>3, Zenon
  <2>3. ASSUME process'[d] \in {"accepted", "delayed"} \/ caller'[d] = "true",
               info'[d].servername \in KVServers
        PROVE  d \in store'[saved'[info'[d].servername]]
    <3>1. d \in store[saved[info[d].servername]] /\ handler[d] = "ended"
      BY <1>0, <2>0, <2>3, Zenon DEF UpdateKept, GInv, CallInv, CallFits
    <3>2. info[d].server # nil
      BY <2>0, <3>1, Zenon DEF RequestFits
    <3>3. starts[info[d].servername] >= 1
      BY <3>2, RequestObject, OwnerStarted, Zenon
    <3>4. saved[info[d].servername] \in Persisters
      BY <1>0, <2>3, <3>3, SavedKnown, Zenon
    <3> HIDE DEF mine
    <3> QED
      BY <1>0, <1>2, <3>1, <3>4, Zenon
  <2>4. UpdateKept(d)'
    BY <2>2, <2>3, Zenon DEF UpdateKept
  <2> QED
    BY <2>1, <2>4, Zenon
<1> QED
  BY <1>3, <1>4, <1>5, <1>6, <1>7, Zenon DEF GInv

(* The tester keeps what is known of each request when it loses no object  *)
(* and no saved update.                                                    *)
ObjectsKept == /\ objects' \in Nat /\ objects' >= objects
               /\ \A o \in 1..objects : owner'[o] = owner[o]

StoresKept == \A o \in 1..objects : store[<<owner[o][1], owner[o][2], "own">>]
                                   \subseteq store'[<<owner[o][1], owner[o][2], "own">>]

SavedKept == \A s \in KVServers : starts[s] >= 1 => store[saved[s]] \subseteq store'[saved'[s]]

NobodyReturns == /\ UNCHANGED <<process, info, handler>>
                 /\ \A c \in Calls : caller'[c] = "true" => caller[c] = "true"

LEMMA TesterRequests ==
    ASSUME GInv, NobodyReturns, ObjectsKept, StoresKept, SavedKept
    PROVE  \A c \in Calls : RequestFits(c)' /\ UpdateKept(c)'
<1> TAKE c \in Calls
<1>0. /\ RequestFits(c) /\ UpdateKept(c) /\ CallFits(c)
      /\ process'[c] = process[c] /\ info'[c] = info[c] /\ handler'[c] = handler[c]
      /\ caller'[c] = "true" => caller[c] = "true"
  BY DEF GInv, CallInv, NobodyReturns
<1>1. info[c].server # nil => /\ info[c].server \in 1..objects /\ info[c].server <= objects'
                              /\ info[c].servername = owner[info[c].server][1]
                              /\ OwnerOf(c)' = OwnerOf(c)
  <2> SUFFICES ASSUME info[c].server # nil
               PROVE  /\ info[c].server \in 1..objects /\ info[c].server <= objects'
                      /\ info[c].servername = owner[info[c].server][1]
                      /\ OwnerOf(c)' = OwnerOf(c)
    OBVIOUS
  <2>1. /\ info[c].server \in 1..objects /\ info[c].server <= objects
        /\ info[c].servername = owner[info[c].server][1]
    BY RequestObject
  <2>2. objects \in Nat
    BY DEF GInv, GTypeOK, LTypeOK
  <2>3. owner'[info[c].server] = owner[info[c].server] /\ info[c].server <= objects'
    BY <2>1, <2>2 DEF ObjectsKept
  <2> QED
    BY <1>0, <2>1, <2>3, Zenon DEF OwnerOf
<1>2. handler[c] # "none" => info[c].server # nil
  BY <1>0, Zenon DEF RequestFits
<1>3. RequestFits(c)'
  BY <1>0, <1>1, Zenon DEF RequestFits, OwnerOf
<1>4. ASSUME Executed(c)' PROVE c \in store'[<<OwnerOf(c)'[1], OwnerOf(c)'[2], "own">>]
  <2>1. Executed(c) /\ info[c].server \in 1..objects /\ OwnerOf(c)' = OwnerOf(c)
    BY <1>0, <1>1, <1>2, <1>4, Zenon DEF Executed
  <2>2. c \in store[<<OwnerOf(c)[1], OwnerOf(c)[2], "own">>]
    BY <1>0, <2>1, Zenon DEF UpdateKept
  <2> QED
    BY <2>1, <2>2, Zenon DEF StoresKept, OwnerOf
<1>5. ASSUME process'[c] \in {"accepted", "delayed"} \/ caller'[c] = "true",
             info'[c].servername \in KVServers
      PROVE  c \in store'[saved'[info'[c].servername]]
  <2>1. c \in store[saved[info[c].servername]] /\ handler[c] = "ended"
    BY <1>0, <1>5, Zenon DEF UpdateKept, CallFits
  <2>2. starts[info[c].servername] >= 1
    BY <1>1, <1>2, <2>1, OwnerStarted, Zenon
  <2> QED
    BY <1>0, <1>5, <2>1, <2>2, Zenon DEF SavedKept
<1> QED
  BY <1>3, <1>4, <1>5, Zenon DEF UpdateKept
-----------------------------------------------------------------------------
(* The names the tester gives to servers and to ends. *)
LEMMA ServerNames ==
    /\ \A s \in KVServers : /\ s = servername(s[1], s[2]) /\ s[1] \in Gids /\ s[2] \in 0..(N - 1)
                            /\ s \notin Ctrlers
    /\ \A s \in Ctrlers : s[1] = 0 /\ s[2] \in 0..(NCtrlers - 1) /\ s = ctrlername(s[2])
    /\ \A gid \in Gids, i \in 0..(N - 1) : servername(gid, i) \in KVServers
    /\ \A i \in 0..(NCtrlers - 1) : ctrlername(i) \in Ctrlers
    /\ First \in KVServers
BY SizesAssumption DEF KVServers, Ctrlers, servername, ctrlername, Gids, First

LEMMA EndNames ==
    /\ \A e \in PeerEnds : /\ e = <<"peer", e[2], e[3], e[4]>> /\ e[2] \in Servers /\ e[4] \in Servers
                           /\ e[3] \in 1..MaxStarts /\ e[2][1] = e[4][1] /\ e[1] = "peer"
    /\ \A e \in MendEnds : /\ e = <<"mend", e[2], e[3], e[4]>> /\ e[2] \in KVServers /\ e[4] \in Ctrlers
                           /\ e[3] \in 1..MaxStarts /\ e[1] = "mend"
    /\ \A e \in MadeEnds : e[1] = "made" /\ e[4] \in KVServers
    /\ \A e \in ClerkEnds : e[1] = "clerk" /\ e[4] \in Ctrlers
BY DEF PeerEnds, MendEnds, MadeEnds, ClerkEnds

(* The ends a shutdown goes through are those made for the instance. *)
LEMMA RecordedKnown ==
    ASSUME GInv, NEW s \in KVServers, starts[s] >= 1, NEW j \in 0..(NumRecorded - 1)
    PROVE  RecordedEnd(s, j) \in PeerEnds \cup MendEnds
<1>1. s \in Servers /\ starts[s] \in 1..MaxStarts /\ s[1] \in Gids
  BY NameFacts, ServerNames DEF GInv, GTypeOK
<1>2. CASE j < N
  <2>1. servername(s[1], j) \in Servers /\ servername(s[1], j)[1] = s[1]
    BY <1>1, <1>2, NameFacts, ServerNames, SizesAssumption DEF servername
  <2>2. RecordedEnd(s, j) = <<"peer", s, starts[s], servername(s[1], j)>>
    BY <1>2, Zenon DEF RecordedEnd
  <2> QED
    BY <1>1, <2>1, <2>2 DEF PeerEnds
<1>3. CASE ~(j < N)
  <2>1. ctrlername(j - N) \in Ctrlers
    BY <1>3, ServerNames, SizesAssumption DEF NumRecorded
  <2>2. RecordedEnd(s, j) = <<"mend", s, starts[s], ctrlername(j - N)>>
    BY <1>3, Zenon DEF RecordedEnd
  <2> QED
    BY <1>1, <2>1, <2>2 DEF MendEnds
<1> QED
  BY <1>2, <1>3, Zenon

LEMMA RecordedAll ==
    ASSUME NEW s \in KVServers, NEW e \in PeerEnds \cup MendEnds, e[2] = s, e[3] = starts[s]
    PROVE  \E j \in 0..(NumRecorded - 1) : e = RecordedEnd(s, j)
<1>1. CASE e \in PeerEnds
  <2>1. e = <<"peer", s, starts[s], e[4]>> /\ e[4] \in Servers /\ e[4][1] = s[1]
    BY <1>1, EndNames, Zenon
  <2>2. e[4] \notin Ctrlers
    BY <2>1, ServerNames DEF Gids
  <2>3. e[4] = servername(s[1], e[4][2]) /\ e[4][2] \in 0..(N - 1)
    BY <2>1, <2>2, NameFacts, ServerNames, Zenon
  <2>4. e = RecordedEnd(s, e[4][2]) /\ e[4][2] \in 0..(NumRecorded - 1)
    BY <2>1, <2>3, SizesAssumption DEF RecordedEnd, NumRecorded
  <2> QED
    BY <2>4, Zenon
<1>2. CASE e \in MendEnds
  <2>1. e = <<"mend", s, starts[s], e[4]>> /\ e[4] \in Ctrlers
    BY <1>2, EndNames, Zenon
  <2>2. e[4][2] \in 0..(NCtrlers - 1) /\ e[4] = ctrlername(e[4][2])
    BY <2>1, ServerNames, Zenon
  <2>3. /\ N + e[4][2] \in 0..(NumRecorded - 1) /\ ~(N + e[4][2] < N)
        /\ (N + e[4][2]) - N = e[4][2]
    BY <2>2, SizesAssumption DEF NumRecorded
  <2>4. e = RecordedEnd(s, N + e[4][2])
    BY <2>1, <2>2, <2>3, Zenon DEF RecordedEnd
  <2> QED
    BY <2>3, <2>4, Zenon
<1> QED
  BY <1>1, <1>2, Zenon

LEMMA NewEndsTypes ==
    ASSUME GInv, NEW new \in SUBSET Ends, \A e \in new : e[4] \in Servers, NewEnds(new)
    PROVE  /\ ends' \subseteq Ends /\ enabled' \in [Ends -> BOOLEAN]
           /\ connections' \in [Ends -> Servers \cup {NoServer}]
BY Zenon DEF GInv, GTypeOK, LTypeOK, NewEnds

(* New ends of clerks and of make_end. *)
LEMMA OtherEndsFit ==
    ASSUME GInv, NEW new \in SUBSET (MadeEnds \cup ClerkEnds), NewEnds(new), UNCHANGED tvars
    PROVE  /\ ends' \subseteq Ends /\ enabled' \in [Ends -> BOOLEAN]
           /\ connections' \in [Ends -> Servers \cup {NoServer}]
           /\ PointsFit' /\ SavedFits' /\ ServersFit' /\ OwnersFit' /\ EndsFit'
<1>1. new \in SUBSET Ends /\ \A e \in new : e[4] \in Servers
  BY NameFacts, EndNames, Zenon
<1>2. PointsFit' /\ SavedFits' /\ ServersFit' /\ OwnersFit'
  BY Zenon DEF GInv, PointsFit, SavedFits, ServersFit, OwnersFit, Own, Copy, NewEnds, tvars
<1>3. \A e \in PeerEnds \cup MendEnds : enabled'[e] = enabled[e]
  <2>1. \A e \in PeerEnds \cup MendEnds : e \in Ends /\ e \notin new
    BY NameFacts, EndNames, Zenon
  <2> QED
    BY <2>1, Zenon DEF NewEnds
<1>4. \A s : \A j : RecordedEnd(s, j)' = RecordedEnd(s, j)
  BY Zenon DEF RecordedEnd, tvars
<1>5. \A e : Silenced(e)' <=> Silenced(e)
  BY Zenon DEF Silenced, tvars
<1>6. at \in {"disable", "delete", "copy"} =>
         \A j \in 0..(NumRecorded - 1) : RecordedEnd(target, j) \in PeerEnds \cup MendEnds
  BY RecordedKnown, NameFacts, Zenon DEF GInv, PointsFit
<1>7. EndsFit'
  <2>1. EndsFit /\ pos \in Nat /\ NumRecorded \in Nat
    BY SizesAssumption DEF GInv, GTypeOK, NumRecorded
  <2> QED
    BY <1>3, <1>4, <1>5, <1>6, <2>1 DEF EndsFit, tvars
<1> QED
  BY <1>1, <1>2, <1>7, NewEndsTypes, Zenon
-----------------------------------------------------------------------------
(* What does not depend on the network stays as it is while no request     *)
(* moves.                                                                  *)
LEMMA CallsStay ==
    ASSUME GInv, UNCHANGED callvars
    PROVE  CallInv' /\ EndsKnown'
BY Zenon DEF GInv, CallInv, CallTypes, CallFits, EndsKnown, callvars

LEMMA RequestsStay ==
    ASSUME GInv, UNCHANGED <<process, info, handler, objects, owner, store, saved>>, objects \in Nat,
           \A c \in Calls : caller'[c] = "true" => caller[c] = "true"
    PROVE  \A c \in Calls : RequestFits(c)' /\ UpdateKept(c)'
<1>1. NobodyReturns /\ StoresKept /\ SavedKept
  BY Zenon DEF NobodyReturns, StoresKept, SavedKept
<1>2. ObjectsKept
  BY DEF ObjectsKept
<1> QED
  BY <1>1, <1>2, TesterRequests, Zenon

LEMMA ClientKeepsGInv ==
    ASSUME GInv, shardclerk \/ \E ck \in Clerks : makeClient(ck)
    PROVE  GInv'
<1>1. PICK ck \in Clerks \cup {Mck} : NewEnds(CtrlerEndsOf(ck)) /\ UNCHANGED <<callvars, tvars>>
  BY Zenon DEF shardclerk, makeClient
<1>2. CtrlerEndsOf(ck) \in SUBSET (MadeEnds \cup ClerkEnds)
  BY Zenon DEF CtrlerEndsOf, ClerkEnds
<1>3. GTypeOK'
  <2>1. /\ ends' \subseteq Ends /\ enabled' \in [Ends -> BOOLEAN]
        /\ connections' \in [Ends -> Servers \cup {NoServer}]
    BY <1>1, <1>2, OtherEndsFit, Zenon
  <2>2. UNCHANGED <<servers, objects, reliable, longReordering, done>>
    BY <1>1, Zenon DEF NewEnds
  <2>3. LTypeOK'
    BY <1>1, <2>1, <2>2, Zenon DEF GInv, GTypeOK, LTypeOK, callvars
  <2> QED
    BY <1>1, <2>3, Zenon DEF GInv, GTypeOK, tvars
<1>4. \A c \in Calls : RequestFits(c)' /\ UpdateKept(c)'
  <2>1. UNCHANGED <<process, info, handler, caller, objects, owner, store, saved>> /\ objects \in Nat
    BY <1>1 DEF NewEnds, callvars, tvars, GInv, GTypeOK, LTypeOK
  <2> QED
    BY <2>1, RequestsStay, Zenon
<1> QED
  BY <1>1, <1>2, <1>3, <1>4, CallsStay, OtherEndsFit, Zenon DEF GInv

LEMMA MakeEndKeepsGInv ==
    ASSUME GInv, NEW c \in Calls, NEW user \in KVServers \cup Clerks, NEW k \in 1..MaxStarts,
           NEW s \in KVServers, make_end(c, user, k, s)
    PROVE  GInv'
<1> DEFINE e == <<"made", user, k, s>>
<1>1. /\ NewEnds({e}) /\ UNCHANGED <<listening, process, info, handler, tvars>>
      /\ caller[c] = "idle" /\ caller' = [caller EXCEPT ![c] = "sending"]
      /\ endname' = [endname EXCEPT ![c] = e]
  BY Zenon DEF make_end
<1>2. e \in MadeEnds
  BY Zenon DEF make_end, Exists, MadeEnds
<1>3. CallInv'
  BY <1>1, CallInvStep, Zenon DEF GInv, CallMoves, Begins
<1>4. EndsKnown' /\ endname' \in [Calls -> Ends \cup {NoEnd}]
  BY <1>1, <1>2, NameFacts, Zenon DEF GInv, GTypeOK, LTypeOK, CallInv, CallTypes, EndsKnown
<1>5. GTypeOK'
  <2>1. {e} \in SUBSET (MadeEnds \cup ClerkEnds)
    BY <1>2, Zenon
  <2> HIDE DEF e
  <2>2. /\ ends' \subseteq Ends /\ enabled' \in [Ends -> BOOLEAN]
        /\ connections' \in [Ends -> Servers \cup {NoServer}]
    BY <1>1, <2>1, OtherEndsFit, Zenon
  <2>3. UNCHANGED <<servers, objects, reliable, longReordering, done, listening, info>>
    BY <1>1, Zenon DEF NewEnds
  <2>4. LTypeOK'
    BY <1>3, <1>4, <2>2, <2>3, Zenon DEF GInv, GTypeOK, LTypeOK, CallInv, CallTypes
  <2> QED
    BY <1>1, <2>4, Zenon DEF GInv, GTypeOK, tvars
<1>6. \A d \in Calls : RequestFits(d)' /\ UpdateKept(d)'
  <2>1. /\ UNCHANGED <<process, info, handler, objects, owner, store, saved>> /\ objects \in Nat
        /\ \A d \in Calls : caller'[d] = "true" => caller[d] = "true"
    BY <1>1 DEF NewEnds, tvars, GInv, GTypeOK, LTypeOK, CallInv, CallTypes
  <2> QED
    BY <2>1, RequestsStay, Zenon
<1> HIDE DEF e
<1> QED
  BY <1>1, <1>2, <1>3, <1>4, <1>5, <1>6, OtherEndsFit, Zenon DEF GInv

(* make_config returns, cleanup begins or ends, a shutdown begins, or a    *)
(* server is deleted: nothing is saved and no end enabled.                 *)
LEMMA ReadyKeepsGInv ==
    ASSUME GInv, CleanupEnds \/ \E unreliable \in BOOLEAN : make_config(unreliable)
    PROVE  GInv'
<1>1. /\ UNCHANGED <<ends, enabled, connections, servers, objects, longReordering>>
      /\ UNCHANGED <<callvars, closing, starts, running, saved, store, owner, at, target, pos>>
      /\ reliable' \in BOOLEAN /\ done' \in BOOLEAN /\ ready' \in BOOLEAN
      /\ ready' => ready \/ \A s \in Servers : starts[s] # 0
      /\ ready => ready'
  <2>0. reliable \in BOOLEAN /\ done \in BOOLEAN /\ ready \in BOOLEAN
    BY Zenon DEF GInv, GTypeOK, LTypeOK
  <2>1. CASE CleanupEnds
    BY <2>0, <2>1, Zenon DEF CleanupEnds, Cleanup, tvars
  <2>2. ASSUME NEW unreliable \in BOOLEAN, make_config(unreliable)
        PROVE  /\ UNCHANGED <<ends, enabled, connections, servers, objects, longReordering, done>>
               /\ UNCHANGED <<callvars, closing, starts, running, saved, store, owner, at, target, pos>>
               /\ reliable' \in BOOLEAN /\ ready' = TRUE /\ \A s \in Servers : starts[s] # 0
    BY <2>0, <2>2, Zenon DEF make_config, Reliable
  <2> QED
    BY <2>0, <2>1, <2>2, Zenon
<1>2. GTypeOK'
  BY <1>1, Zenon DEF GInv, GTypeOK, LTypeOK, callvars
<1>3. PointsFit'
  BY <1>1 DEF GInv, GTypeOK, PointsFit, Own
<1>4. SavedFits' /\ ServersFit' /\ OwnersFit'
  BY <1>1, Zenon DEF GInv, SavedFits, ServersFit, OwnersFit, Own, Copy
<1>5. EndsFit'
  BY <1>1, Zenon DEF GInv, EndsFit, Silenced, RecordedEnd
<1>6. \A c \in Calls : RequestFits(c)' /\ UpdateKept(c)'
  <2>1. UNCHANGED <<process, info, handler, caller, objects, owner, store, saved>> /\ objects \in Nat
    BY <1>1 DEF callvars, GInv, GTypeOK, LTypeOK
  <2> QED
    BY <2>1, RequestsStay, Zenon
<1> QED
  BY <1>1, <1>2, <1>3, <1>4, <1>5, <1>6, CallsStay, Zenon DEF GInv

LEMMA ShutdownKeepsGInv ==
    ASSUME GInv, NEW s \in KVServers, ready, closing' \in BOOLEAN, Shutdown(s),
           UNCHANGED <<lvars, ready, starts, running, saved, store, owner>>
    PROVE  GInv'
<1>1. UNCHANGED netvars /\ UNCHANGED callvars /\ UNCHANGED <<ready, starts, running, saved, store, owner>>
      /\ at' = "disable" /\ target' = s /\ pos' = 0
  BY Zenon DEF lvars, Shutdown
<1>2. GTypeOK'
  BY <1>1, NameFacts DEF GInv, GTypeOK, LTypeOK, netvars, callvars
<1>3. PointsFit'
  BY <1>1 DEF GInv, PointsFit
<1>4. SavedFits' /\ ServersFit' /\ OwnersFit'
  BY <1>1, Zenon DEF GInv, SavedFits, ServersFit, OwnersFit, Own, Copy, netvars
<1>5. EndsFit'
  <2>1. \A e \in PeerEnds \cup MendEnds : (Silenced(e) \/ e[3] > starts[e[2]] => ~enabled[e])'
    BY <1>1, Zenon DEF GInv, EndsFit, Silenced, netvars
  <2>2. 0 < NumRecorded /\ \A j : j \notin 0..(0 - 1)
    BY SizesAssumption DEF NumRecorded
  <2> QED
    BY <1>1, <2>1, <2>2, Zenon DEF EndsFit
<1>6. \A c \in Calls : RequestFits(c)' /\ UpdateKept(c)'
  <2>1. UNCHANGED <<process, info, handler, caller, objects, owner, store, saved>> /\ objects \in Nat
    BY <1>1 DEF netvars, callvars, GInv, GTypeOK, LTypeOK
  <2> QED
    BY <2>1, RequestsStay, Zenon
<1> QED
  BY <1>1, <1>2, <1>3, <1>4, <1>5, <1>6, CallsStay, Zenon DEF GInv

LEMMA DeleteKeepsGInv ==
    ASSUME GInv, DeleteNext
    PROVE  GInv'
<1>1. /\ at = "delete" /\ at' = "copy" /\ target \in KVServers /\ target \in Servers
      /\ servers' = [servers EXCEPT ![target] = nil]
      /\ UNCHANGED <<ends, enabled, connections, objects, reliable, longReordering, done>>
      /\ UNCHANGED <<callvars, ready, closing, starts, running, saved, store, owner, target, pos>>
  BY NameFacts, Zenon DEF DeleteNext, DeleteServer, GInv, PointsFit
<1>2. GTypeOK'
  BY <1>1, Zenon DEF GInv, GTypeOK, LTypeOK, callvars
<1>3. /\ servers'[target] = nil
      /\ \A s \in Servers : servers'[s] # nil => servers'[s] = servers[s]
  BY <1>1, Zenon DEF GInv, GTypeOK, LTypeOK
<1>4. PointsFit'
  BY <1>1, <1>3, Zenon DEF GInv, PointsFit, Own
<1>5. SavedFits' /\ OwnersFit'
  BY <1>1, Zenon DEF GInv, SavedFits, OwnersFit, Own, Copy
<1>6. ServersFit'
  BY <1>1, <1>3, Zenon DEF GInv, ServersFit, Own
<1>7. EndsFit'
  BY <1>1, Zenon DEF GInv, EndsFit, Silenced, RecordedEnd
<1>8. \A c \in Calls : RequestFits(c)' /\ UpdateKept(c)'
  <2>1. UNCHANGED <<process, info, handler, caller, objects, owner, store, saved>> /\ objects \in Nat
    BY <1>1 DEF callvars, GInv, GTypeOK, LTypeOK
  <2> QED
    BY <2>1, RequestsStay, Zenon
<1> QED
  BY <1>1, <1>2, <1>4, <1>5, <1>6, <1>7, <1>8, CallsStay, Zenon DEF GInv

LEMMA DisableKeepsGInv ==
    ASSUME GInv, DisableNext
    PROVE  GInv'
<1> DEFINE e == RecordedEnd(target, pos)
<1>1. /\ at = "disable" /\ at' = IF pos + 1 < NumRecorded THEN "disable" ELSE "delete"
      /\ pos' = pos + 1 /\ e \in ends
      /\ enabled' = [enabled EXCEPT ![e] = FALSE]
      /\ UNCHANGED <<ends, connections, servers, objects, reliable, longReordering, done>>
      /\ UNCHANGED <<callvars, ready, closing, starts, running, saved, store, owner, target>>
  BY Zenon DEF DisableNext, Enable
<1>2. /\ ready /\ target \in KVServers /\ starts[target] >= 1 /\ pos \in Nat /\ pos < NumRecorded
      /\ NumRecorded \in Nat
  BY <1>1, NameFacts, SizesAssumption DEF GInv, PointsFit, GTypeOK, EndsFit, NumRecorded
<1>3. /\ e \in Ends /\ ~enabled'[e]
      /\ \A x \in Ends : enabled'[x] => enabled[x]
  <2>1. enabled \in [Ends -> BOOLEAN] /\ e \in Ends
    BY <1>1, Zenon DEF GInv, GTypeOK, LTypeOK
  <2> HIDE DEF e
  <2> QED
    BY <1>1, <2>1, Zenon
<1>4. GTypeOK'
  <2> HIDE DEF e
  <2> QED
    BY <1>1, <1>2 DEF GInv, GTypeOK, LTypeOK, callvars
<1>5. PointsFit'
  BY <1>1, Zenon DEF GInv, PointsFit
<1>6. SavedFits' /\ ServersFit' /\ OwnersFit'
  BY <1>1, Zenon DEF GInv, SavedFits, ServersFit, OwnersFit, Own, Copy
<1>7. EndsFit'
  <2>1. \A x \in PeerEnds \cup MendEnds : (Silenced(x) \/ x[3] > starts[x[2]] => ~enabled[x])'
    BY <1>1, <1>3, NameFacts, Zenon DEF GInv, EndsFit, Silenced
  <2>2. \A j : RecordedEnd(target, j)' = RecordedEnd(target, j)
    BY <1>1, Zenon DEF RecordedEnd
  <2>3. \A j \in 0..(NumRecorded - 1) : RecordedEnd(target, j) \in Ends
    BY <1>2, RecordedKnown, NameFacts, Zenon
  <2>4. \A j \in 0..(pos - 1) : ~enabled[RecordedEnd(target, j)]
    BY <1>1, Zenon DEF GInv, EndsFit
  <2>5. \A j \in 0..pos : ~enabled'[RecordedEnd(target, j)]
    <3> TAKE j \in 0..pos
    <3>1. CASE j = pos
      BY <1>3, <3>1
    <3>2. CASE j # pos
      <4>1. j \in 0..(pos - 1) /\ j \in 0..(NumRecorded - 1)
        BY <1>2, <3>2
      <4> QED
        BY <1>3, <2>3, <2>4, <4>1, Zenon
    <3> QED
      BY <3>1, <3>2, Zenon
  <2>6. pos' - 1 = pos /\ (~(pos + 1 < NumRecorded) => NumRecorded - 1 = pos)
    BY <1>1, <1>2
  <2> HIDE DEF e
  <2> QED
    BY <1>1, <1>2, <2>1, <2>2, <2>5, <2>6, Zenon DEF EndsFit
<1>8. \A c \in Calls : RequestFits(c)' /\ UpdateKept(c)'
  <2>1. UNCHANGED <<process, info, handler, caller, objects, owner, store, saved>> /\ objects \in Nat
    BY <1>1 DEF callvars, GInv, GTypeOK, LTypeOK
  <2> QED
    BY <2>1, RequestsStay, Zenon
<1> QED
  BY <1>1, <1>4, <1>5, <1>6, <1>7, <1>8, CallsStay, Zenon DEF GInv

LEMMA AddKeepsGInv ==
    ASSUME GInv, AddNext
    PROVE  GInv'
<1>1. /\ at = "add" /\ at' = "idle" /\ target' = First
      /\ objects < MaxServers /\ objects' = objects + 1
      /\ servers' = [servers EXCEPT ![target] = objects + 1]
      /\ owner' = [owner EXCEPT ![objects + 1] = <<target, starts[target]>>]
      /\ UNCHANGED <<ends, enabled, connections, reliable, longReordering, done>>
      /\ UNCHANGED <<callvars, ready, closing, starts, running, saved, store, pos>>
  BY Zenon DEF AddNext, AddServer
<1>2. /\ target \in Servers /\ running[target] /\ starts[target] \in 1..MaxStarts
      /\ target \in KVServers => saved[target] = Own(target)
      /\ objects \in Nat /\ objects + 1 \in Objects /\ objects + 1 # nil
  BY <1>1, NameFacts DEF GInv, PointsFit, GTypeOK, LTypeOK, Objects, nil
<1>3. GTypeOK'
  <2>1. owner' \in [Objects -> Servers \X (0..MaxStarts)]
    BY <1>1, <1>2, NameFacts, Zenon DEF GInv, GTypeOK
  <2>2. LTypeOK'
    BY <1>1, <1>2, NameFacts DEF GInv, GTypeOK, LTypeOK, callvars
  <2> QED
    BY <1>1, <2>1, <2>2, ServerNames, NameFacts, Zenon DEF GInv, GTypeOK
<1>4. /\ servers'[target] = objects + 1
      /\ \A s \in Servers : s # target => servers'[s] = servers[s]
      /\ owner'[objects + 1] = <<target, starts[target]>>
      /\ \A o \in 1..objects : owner'[o] = owner[o]
  BY <1>1, <1>2 DEF GInv, GTypeOK, LTypeOK, Objects
<1>5. PointsFit' /\ SavedFits'
  BY <1>1, Zenon DEF GInv, PointsFit, SavedFits, Own, Copy
<1>6. ServersFit'
  <2>1. ASSUME NEW s \in Servers, s # target, servers'[s] # nil
        PROVE  servers[s] # nil /\ servers[s] \in 1..objects
    BY <1>2, <1>4, <2>1 DEF GInv, ServersFit, GTypeOK, LTypeOK, Objects, nil
  <2>2. \A o \in 1..objects : o <= objects + 1
    BY <1>2
  <2>3. ASSUME NEW s \in Servers, servers'[s] # nil
        PROVE  (/\ servers[s] <= objects /\ owner[servers[s]] = <<s, starts[s]>>
                /\ running[s] /\ starts[s] >= 1
                /\ s \in KVServers => saved[s] = Own(s))'
    <3>1. CASE s = target
      BY <1>1, <1>2, <1>4, <3>1 DEF Own
    <3>2. CASE s # target
      BY <1>1, <1>4, <2>1, <2>2, <2>3, <3>2 DEF GInv, ServersFit, Own
    <3> QED
      BY <3>1, <3>2, Zenon
  <2> QED
    BY <2>3, Zenon DEF ServersFit
<1>7. OwnersFit'
  <2>1. \A o \in 1..objects' : o = objects + 1 \/ o \in 1..objects
    BY <1>1, <1>2
  <2> QED
    BY <1>1, <1>2, <1>4, <2>1, NameFacts DEF GInv, OwnersFit
<1>8. EndsFit'
  BY <1>1, Zenon DEF GInv, EndsFit, Silenced
<1>9. \A c \in Calls : RequestFits(c)' /\ UpdateKept(c)'
  <2>1. UNCHANGED <<process, info, handler, caller, store, saved>>
    BY <1>1, Zenon DEF callvars
  <2>2. NobodyReturns /\ SavedKept /\ StoresKept
    BY <2>1, Zenon DEF NobodyReturns, SavedKept, StoresKept
  <2>3. ObjectsKept
    BY <1>1, <1>2, <1>4 DEF ObjectsKept
  <2> QED
    BY <2>2, <2>3, TesterRequests, Zenon
<1> QED
  BY <1>1, <1>3, <1>5, <1>6, <1>7, <1>8, <1>9, CallsStay, Zenon DEF GInv

(* The copy is complete and becomes the one the next instance starts with. *)
LEMMA CopyKeepsGInv ==
    ASSUME GInv, CopyNext
    PROVE  GInv'
<1>1. /\ at = "copy"
      /\ saved' = [saved EXCEPT ![target] = Copy(target)]
      /\ store' = [store EXCEPT ![Copy(target)] = store[saved[target]]]
      /\ running' = [running EXCEPT ![target] = FALSE]
      /\ \/ /\ closing /\ target # Last
            /\ at' = "disable" /\ target' = After(target) /\ pos' = 0
         \/ at' \in {"idle", "closed"} /\ target' = First /\ pos' = 0
      /\ UNCHANGED netvars /\ UNCHANGED callvars /\ UNCHANGED <<ready, closing, starts, owner>>
  BY Zenon DEF CopyNext, Shutdown, lvars
<1>2. /\ ready /\ target \in KVServers /\ target \in Servers /\ starts[target] >= 1
      /\ servers[target] = nil
  BY <1>1, NameFacts, Zenon DEF GInv, PointsFit
<1>3. /\ saved[target] \in Persisters /\ Copy(target) \in Persisters
      /\ saved[target] \in {Own(target), Copy(target)}
  BY <1>2, SavedKnown, Zenon
<1>4. target # Last => After(target) \in KVServers
  <2>1. /\ target = servername(target[1], target[2]) /\ target[1] \in Gids /\ target[2] \in 0..(N - 1)
    BY <1>2, ServerNames, Zenon
  <2>2. CASE target[2] < N - 1
    BY <2>1, <2>2, ServerNames, SizesAssumption DEF After
  <2>3. CASE ~(target[2] < N - 1)
    <3>1. target[2] = N - 1
      BY <2>1, <2>3, SizesAssumption
    <3>2. target # Last => target[1] # 99 + NGroups
      BY <2>1, <3>1, Zenon DEF Last
    <3>3. target # Last => target[1] + 1 \in Gids
      BY <2>1, <3>2, SizesAssumption DEF Gids
    <3> QED
      BY <2>3, <3>3, ServerNames, SizesAssumption DEF After
  <2> QED
    BY <2>2, <2>3, Zenon
<1>5. GTypeOK'
  <2>1. saved' \in [KVServers -> Persisters \cup {NoPersister}] /\ store' \in [Persisters -> SUBSET Calls]
        /\ running' \in [Servers -> BOOLEAN]
    BY <1>1, <1>2, <1>3, Zenon DEF GInv, GTypeOK
  <2>2. target' \in Servers /\ pos' \in Nat
        /\ at' \in {"idle", "disable", "delete", "copy", "add", "closed"}
    BY <1>1, <1>4, NameFacts, ServerNames
  <2>3. LTypeOK'
    BY <1>1, Zenon DEF GInv, GTypeOK, LTypeOK, netvars, callvars
  <2> QED
    BY <1>1, <2>1, <2>2, <2>3, Zenon DEF GInv, GTypeOK
<1>6. PointsFit'
  BY <1>1, <1>2, <1>4, Zenon DEF GInv, PointsFit
<1>7. SavedFits'
  <2>1. /\ saved'[target] = Copy(target)
        /\ \A s \in KVServers : s # target => saved'[s] = saved[s]
    BY <1>1, <1>2, Zenon DEF GInv, GTypeOK
  <2>2. \A s \in KVServers : Own(s)' = Own(s) /\ Copy(s)' = Copy(s)
    BY <1>1, Zenon DEF Own, Copy
  <2>3. starts[target] # 0
    BY <1>2, NameFacts DEF GInv, GTypeOK
  <2> QED
    BY <1>1, <2>1, <2>2, <2>3, Zenon DEF GInv, SavedFits
<1>8. ServersFit'
  <2>1. \A s \in Servers : s # target =>
           /\ running'[s] = running[s]
           /\ s \in KVServers => saved'[s] = saved[s]
    BY <1>1, <1>2, Zenon DEF GInv, GTypeOK
  <2> QED
    BY <1>1, <1>2, <2>1, Zenon DEF GInv, ServersFit, Own, netvars
<1>9. OwnersFit'
  BY <1>1, Zenon DEF GInv, OwnersFit, netvars
<1>10. EndsFit'
  <2>1. \A s \in Servers : s # target => running'[s] = running[s]
    BY <1>1, <1>2, Zenon DEF GInv, GTypeOK
  <2>2. ASSUME NEW e \in PeerEnds \cup MendEnds, Silenced(e)' \/ e[3] > starts'[e[2]]
        PROVE  ~enabled'[e]
    <3>1. CASE e[2] = target /\ e[3] = starts[target]
      <4>1. PICK j \in 0..(NumRecorded - 1) : e = RecordedEnd(target, j)
        BY <1>2, <3>1, RecordedAll, Zenon
      <4> QED
        BY <1>1, <4>1, Zenon DEF GInv, EndsFit, netvars
    <3>2. CASE ~(e[2] = target /\ e[3] = starts[target])
      <4>1. e[2] \in Servers /\ e[3] \in Nat /\ starts[e[2]] \in Nat
        BY EndNames, NameFacts DEF GInv, GTypeOK
      <4>2. Silenced(e) \/ e[3] > starts[e[2]]
        BY <1>1, <2>1, <2>2, <3>2, <4>1 DEF Silenced
      <4> QED
        BY <1>1, <4>2, Zenon DEF GInv, EndsFit, netvars
    <3> QED
      BY <3>1, <3>2, Zenon
  <2>3. 0 < NumRecorded /\ \A j : j \notin 0..(0 - 1)
    BY SizesAssumption DEF NumRecorded
  <2> QED
    BY <1>1, <2>2, <2>3, Zenon DEF EndsFit
<1>11. \A c \in Calls : RequestFits(c)' /\ UpdateKept(c)'
  <2>1. UNCHANGED <<process, info, handler, caller, objects, owner>> /\ objects \in Nat
    BY <1>1 DEF netvars, callvars, GInv, GTypeOK, LTypeOK
  <2>2. \A o \in 1..objects : store[<<owner[o][1], owner[o][2], "own">>]
                               \subseteq store'[<<owner[o][1], owner[o][2], "own">>]
    <3> TAKE o \in 1..objects
    <3>1. <<owner[o][1], owner[o][2], "own">> \in Persisters
      BY OwnerStarted
    <3>2. <<owner[o][1], owner[o][2], "own">> # Copy(target)
      BY Zenon DEF Copy
    <3> QED
      BY <1>1, <3>1, <3>2, Zenon DEF GInv, GTypeOK
  <2>3. ASSUME NEW s \in KVServers, starts[s] >= 1 PROVE store[saved[s]] \subseteq store'[saved'[s]]
    <3>1. CASE s = target
      BY <1>1, <1>2, <1>3, <3>1, Zenon DEF GInv, GTypeOK
    <3>2. CASE s # target
      <4>1. saved'[s] = saved[s] /\ saved[s] \in Persisters /\ saved[s] \in {Own(s), Copy(s)}
        BY <1>1, <1>2, <2>3, <3>2, SavedKnown, Zenon DEF GInv, GTypeOK
      <4>2. saved[s] # Copy(target)
        BY <3>2, <4>1 DEF Own, Copy
      <4> QED
        BY <1>1, <4>1, <4>2, Zenon DEF GInv, GTypeOK
    <3> QED
      BY <3>1, <3>2, Zenon
  <2>4. NobodyReturns /\ SavedKept /\ StoresKept
    BY <2>1, <2>2, <2>3, Zenon DEF NobodyReturns, SavedKept, StoresKept
  <2>5. ObjectsKept
    BY <2>1 DEF ObjectsKept
  <2> QED
    BY <2>4, <2>5, TesterRequests, Zenon
<1> QED
  BY <1>1, <1>5, <1>6, <1>7, <1>8, <1>9, <1>10, <1>11, CallsStay, Zenon DEF GInv

(* Starting a server makes ends for an instance there has not been yet. *)
LEMMA StartTypes ==
    ASSUME GInv, NEW s \in Servers, NEW k \in 1..MaxStarts, k > starts[s],
           starts' = [starts EXCEPT ![s] = k], running' = [running EXCEPT ![s] = TRUE]
    PROVE  /\ starts' \in [Servers -> 0..MaxStarts] /\ running' \in [Servers -> BOOLEAN]
           /\ starts'[s] = k /\ running'[s]
           /\ \A t \in Servers : t # s => starts'[t] = starts[t] /\ running'[t] = running[t]
           /\ \A t \in Servers : starts'[t] >= starts[t]
BY DEF GInv, GTypeOK

LEMMA StartEnds ==
    ASSUME GInv, NEW s \in Servers, NEW k \in 1..MaxStarts, k > starts[s],
           starts' = [starts EXCEPT ![s] = k], running' = [running EXCEPT ![s] = TRUE],
           s \in KVServers => ~running[s], at' = "add",
           NEW new \in SUBSET (PeerEnds \cup MendEnds),
           \A e \in new : e[2] = s /\ e[3] = k, NewEnds(new)
    PROVE  EndsFit'
<1>0. /\ starts'[s] = k /\ running'[s]
      /\ \A t \in Servers : t # s => starts'[t] = starts[t] /\ running'[t] = running[t]
  BY StartTypes, Zenon
<1>1. ASSUME NEW e \in PeerEnds \cup MendEnds, Silenced(e)' \/ e[3] > starts'[e[2]]
      PROVE  ~enabled'[e]
  <2>1. e[2] \in Servers /\ e[3] \in Nat /\ starts[e[2]] \in Nat /\ e \in Ends /\ k \in Nat
    BY EndNames, NameFacts DEF GInv, GTypeOK
  <2>2. ~(e[2] = s /\ e[3] = k)
    BY <1>0, <1>1, <2>1 DEF Silenced
  <2>3. Silenced(e) \/ e[3] > starts[e[2]]
    <3>1. CASE e[2] = s
      <4>1. CASE e[3] > k
        BY <2>1, <3>1, <4>1
      <4>2. CASE ~(e[3] > k)
        <5>1. e[3] < k /\ Silenced(e)'
          BY <1>0, <1>1, <2>1, <2>2, <3>1, <4>2
        <5>2. e[2] \in KVServers
          BY <5>1, Zenon DEF Silenced
        <5> QED
          BY <2>1, <3>1, <5>2 DEF Silenced
      <4> QED
        BY <4>1, <4>2, Zenon
    <3>2. CASE e[2] # s
      BY <1>0, <1>1, <2>1, <3>2, Zenon DEF Silenced
    <3> QED
      BY <3>1, <3>2, Zenon
  <2>4. e \notin new /\ ~enabled[e]
    BY <1>1, <2>2, <2>3, Zenon DEF GInv, EndsFit
  <2> QED
    BY <2>1, <2>4, Zenon DEF NewEnds
<1> QED
  BY <1>1, Zenon DEF EndsFit

LEMMA StartServers ==
    ASSUME GInv, NEW s \in Servers, NEW k \in 1..MaxStarts, k > starts[s],
           starts' = [starts EXCEPT ![s] = k], running' = [running EXCEPT ![s] = TRUE],
           servers[s] = nil, UNCHANGED <<servers, objects, owner>>,
           \A t \in KVServers : t # s => saved'[t] = saved[t]
    PROVE  ServersFit' /\ OwnersFit'
<1>1. ASSUME NEW t \in Servers, servers[t] # nil
      PROVE  (/\ servers[t] <= objects /\ owner[servers[t]] = <<t, starts[t]>>
              /\ running[t] /\ starts[t] >= 1
              /\ t \in KVServers => saved[t] = Own(t))'
  <2>1. t # s
    BY <1>1, Zenon
  <2> QED
    <3>1. starts'[t] = starts[t] /\ running'[t] = running[t]
      BY <2>1, StartTypes, Zenon
    <3>2. t \in KVServers => saved'[t] = saved[t]
      BY <2>1, Zenon
    <3>3. /\ servers[t] <= objects /\ owner[servers[t]] = <<t, starts[t]>>
          /\ running[t] /\ starts[t] >= 1
          /\ t \in KVServers => saved[t] = Own(t)
      BY <1>1, Zenon DEF GInv, ServersFit
    <3> QED
      BY <3>1, <3>2, <3>3, Zenon DEF Own
<1>2. ASSUME NEW o \in 1..objects
      PROVE  owner[o] \in Servers \X (1..MaxStarts) /\ owner[o][2] <= starts'[owner[o][1]]
  <2>1. owner[o] \in Servers \X (1..MaxStarts) /\ owner[o][2] <= starts[owner[o][1]]
    BY Zenon DEF GInv, OwnersFit
  <2>2. owner[o][1] \in Servers /\ starts'[owner[o][1]] >= starts[owner[o][1]]
        /\ starts'[owner[o][1]] \in Nat /\ starts[owner[o][1]] \in Nat /\ owner[o][2] \in Nat
    BY <2>1, StartTypes DEF GInv, GTypeOK
  <2> QED
    BY <2>1, <2>2
<1> QED
  BY <1>1, <1>2, Zenon DEF ServersFit, OwnersFit

LEMMA StartCtrlerKeepsGInv ==
    ASSUME GInv, NEW s \in Servers, StartCtrlerserver(s)
    PROVE  GInv'
<1> DEFINE new == {"peer"} \X {s} \X {1} \X Ctrlers
<1>1. /\ s \in Ctrlers /\ ~ready /\ StartsNext(s)
      /\ starts' = [starts EXCEPT ![s] = 1] /\ running' = [running EXCEPT ![s] = TRUE]
      /\ NewEnds(new) /\ at' = "add" /\ target' = s
      /\ UNCHANGED callvars /\ UNCHANGED <<ready, closing, saved, store, owner, pos>>
  BY Zenon DEF StartCtrlerserver
<1>2. starts[s] = 0 /\ servers[s] = nil /\ s \notin KVServers
  <2>1. ~Before(s, s) /\ s \notin KVServers
    BY <1>1, ServerNames DEF Before
  <2>2. starts[s] = 0
    BY <1>1, <2>1, Zenon DEF StartsNext
  <2> QED
    BY <2>1, <2>2 DEF GInv, ServersFit
<1>3. 1 \in 1..MaxStarts /\ 1 > starts[s]
  BY <1>2, NameFacts
<1>4. new \in SUBSET PeerEnds /\ \A e \in new : e[2] = s /\ e[3] = 1 /\ e[4] \in Servers
  <2>1. \A t \in Ctrlers : t \in Servers /\ t[1] = 0
    BY NameFacts, ServerNames, Zenon
  <2> QED
    BY <1>1, <1>3, <2>1 DEF PeerEnds
<1> HIDE DEF new
<1>5. /\ ends' \subseteq Ends /\ enabled' \in [Ends -> BOOLEAN]
      /\ connections' \in [Ends -> Servers \cup {NoServer}]
      /\ UNCHANGED <<servers, objects, reliable, longReordering, done>>
  BY <1>1, <1>4, NameFacts, NewEndsTypes, Zenon DEF NewEnds
<1>6. GTypeOK'
  <2>1. LTypeOK'
    BY <1>1, <1>5, Zenon DEF GInv, GTypeOK, LTypeOK, callvars
  <2> QED
    BY <1>1, <1>3, <2>1, StartTypes, Zenon DEF GInv, GTypeOK
<1>7. PointsFit'
  <2>1. starts'[s] = 1 /\ running'[s]
    BY <1>1, <1>3, StartTypes, Zenon
  <2> QED
    BY <1>1, <1>2, <2>1 DEF PointsFit
<1>8. SavedFits'
  <2>1. \A t \in KVServers : starts'[t] = starts[t]
    BY <1>1, <1>2, <1>3, StartTypes, NameFacts, Zenon
  <2> QED
    BY <1>1, <2>1, Zenon DEF GInv, SavedFits, Own, Copy
<1>9. ServersFit' /\ OwnersFit'
  BY <1>1, <1>2, <1>3, <1>5, StartServers, Zenon
<1>10. EndsFit'
  <2>1. new \in SUBSET (PeerEnds \cup MendEnds) /\ \A e \in new : e[2] = s /\ e[3] = 1
    BY <1>4, Zenon
  <2>2. s \in KVServers => ~running[s]
    BY <1>2, Zenon
  <2> QED
    BY <1>1, <1>3, <2>1, <2>2, StartEnds, Zenon
<1>11. \A c \in Calls : RequestFits(c)' /\ UpdateKept(c)'
  <2>1. UNCHANGED <<process, info, handler, caller, objects, owner, store, saved>> /\ objects \in Nat
    BY <1>1, <1>5 DEF callvars, GInv, GTypeOK, LTypeOK
  <2> QED
    BY <2>1, RequestsStay, Zenon
<1> QED
  BY <1>1, <1>6, <1>7, <1>8, <1>9, <1>10, <1>11, CallsStay, Zenon DEF GInv

(* StartServer gives the new instance a copy of what was saved last. *)
LEMMA StartKeepsGInv ==
    ASSUME GInv, NEW s \in Servers, StartServer(s)
    PROVE  GInv'
<1> DEFINE k == starts[s] + 1
           new == ({"peer"} \X {s} \X {k} \X {t \in KVServers : t[1] = s[1]})
                  \cup ({"mend"} \X {s} \X {k} \X Ctrlers)
           mine == <<s, k, "own">>
<1>0. s \in KVServers /\ ~running[s] /\ starts[s] < MaxStarts /\ starts[s] \in Nat
      /\ starts' = [starts EXCEPT ![s] = k]
  BY DEF StartServer, GInv, GTypeOK
<1>1. k \in 1..MaxStarts /\ k > starts[s] /\ starts'[s] = k
  BY <1>0, NameFacts DEF GInv, GTypeOK
<1>2. mine \in Persisters /\ Own(s)' = mine
  BY <1>1, PersisterFacts, Zenon DEF Own
<1>3. /\ saved' = [saved EXCEPT ![s] = mine]
      /\ store' = [store EXCEPT ![mine] = IF saved[s] = NoPersister THEN {} ELSE store[saved[s]]]
      /\ running' = [running EXCEPT ![s] = TRUE]
      /\ NewEnds(new) /\ at' = "add" /\ target' = s
      /\ UNCHANGED callvars /\ UNCHANGED <<ready, closing, owner, pos>>
  BY <1>1, <1>2, Zenon DEF StartServer
<1>4. new \in SUBSET (PeerEnds \cup MendEnds)
      /\ \A e \in new : e[2] = s /\ e[3] = k /\ e[4] \in Servers
  BY <1>0, <1>1, NameFacts, Zenon DEF PeerEnds, MendEnds
<1> HIDE DEF new, mine, k
<1>5. /\ ends' \subseteq Ends /\ enabled' \in [Ends -> BOOLEAN]
      /\ connections' \in [Ends -> Servers \cup {NoServer}]
      /\ UNCHANGED <<servers, objects, reliable, longReordering, done>>
  BY <1>3, <1>4, NameFacts, NewEndsTypes, Zenon DEF NewEnds
<1>6. /\ starts' \in [Servers -> 0..MaxStarts] /\ running' \in [Servers -> BOOLEAN]
      /\ running'[s]
      /\ \A t \in Servers : t # s => starts'[t] = starts[t]
      /\ \A t \in Servers : starts'[t] >= starts[t]
  BY <1>0, <1>1, <1>3, StartTypes, Zenon
<1>7. /\ saved'[s] = mine
      /\ \A t \in KVServers : t # s => saved'[t] = saved[t]
  BY <1>0, <1>3, Zenon DEF GInv, GTypeOK
<1>8. GTypeOK'
  <2>1. LTypeOK'
    BY <1>3, <1>5, Zenon DEF GInv, GTypeOK, LTypeOK, callvars
  <2>2. saved[s] = NoPersister \/ saved[s] \in Persisters
    BY <1>0, Zenon DEF GInv, GTypeOK
  <2>3. saved' \in [KVServers -> Persisters \cup {NoPersister}] /\ store' \in [Persisters -> SUBSET Calls]
    BY <1>0, <1>2, <1>3, <2>2, Zenon DEF GInv, GTypeOK
  <2> QED
    BY <1>3, <1>6, <2>1, <2>3, Zenon DEF GInv, GTypeOK
<1>9. PointsFit'
  <2>1. ready' => \A t \in Servers : starts'[t] >= 1
    <3>1. \A t \in Servers : starts'[t] \in Nat /\ starts[t] \in Nat
      BY <1>6 DEF GInv, GTypeOK
    <3> QED
      BY <1>3, <1>6, <3>1 DEF GInv, PointsFit
  <2> QED
    BY <1>1, <1>2, <1>3, <1>6, <1>7, <2>1 DEF PointsFit
<1>10. SavedFits'
  <2>1. ASSUME NEW t \in KVServers, t # s
        PROVE  IF starts'[t] = 0 THEN saved'[t] = NoPersister ELSE saved'[t] \in {Own(t)', Copy(t)'}
    BY <1>6, <1>7, <2>1, NameFacts, Zenon DEF GInv, SavedFits, Own, Copy
  <2>2. starts'[s] # 0
    BY <1>1
  <2> QED
    BY <1>2, <1>7, <2>1, <2>2, Zenon DEF SavedFits
<1>11. ServersFit' /\ OwnersFit'
  <2>1. servers[s] = nil
    BY <1>0, Zenon DEF GInv, ServersFit
  <2> QED
    BY <1>0, <1>1, <1>3, <1>5, <1>7, <2>1, StartServers, Zenon
<1>12. EndsFit'
  <2>1. \A e \in new : e[2] = s /\ e[3] = k
    BY <1>4, Zenon
  <2> QED
    BY <1>0, <1>1, <1>3, <1>4, <2>1, StartEnds, Zenon
<1>13. \A c \in Calls : RequestFits(c)' /\ UpdateKept(c)'
  <2>1. UNCHANGED <<process, info, handler, caller, objects, owner>> /\ objects \in Nat
    BY <1>3, <1>5 DEF callvars, GInv, GTypeOK, LTypeOK
  <2>2. \A o \in 1..objects : store[<<owner[o][1], owner[o][2], "own">>]
                               \subseteq store'[<<owner[o][1], owner[o][2], "own">>]
    <3> TAKE o \in 1..objects
    <3>1. owner[o] \in Servers \X (1..MaxStarts) /\ owner[o][2] <= starts[owner[o][1]]
      BY DEF GInv, OwnersFit
    <3>2. <<owner[o][1], owner[o][2], "own">> \in Persisters
      BY OwnerStarted, Zenon
    <3>3. <<owner[o][1], owner[o][2], "own">> # mine
      BY <1>0, <3>1 DEF mine, k
    <3> QED
      BY <1>3, <3>2, <3>3, Zenon DEF GInv, GTypeOK
  <2>3. ASSUME NEW t \in KVServers, starts[t] >= 1 PROVE store[saved[t]] \subseteq store'[saved'[t]]
    <3>0. saved[t] \in Persisters /\ saved[t] \in {Own(t), Copy(t)} /\ saved[t] # NoPersister
      BY <2>3, SavedKnown, NameFacts, Zenon
    <3>1. CASE t = s
      BY <1>2, <1>3, <1>7, <3>0, <3>1, Zenon DEF GInv, GTypeOK
    <3>2. CASE t # s
      <4>1. saved[t] # mine
        BY <3>0, <3>2 DEF Own, Copy, mine
      <4> QED
        BY <1>3, <1>7, <3>0, <3>2, <4>1, Zenon DEF GInv, GTypeOK
    <3> QED
      BY <3>1, <3>2, Zenon
  <2>4. NobodyReturns /\ SavedKept /\ StoresKept
    BY <2>1, <2>2, <2>3, Zenon DEF NobodyReturns, SavedKept, StoresKept
  <2>5. ObjectsKept
    BY <2>1 DEF ObjectsKept
  <2> QED
    BY <2>4, <2>5, TesterRequests, Zenon
<1> QED
  BY <1>3, <1>8, <1>9, <1>10, <1>11, <1>12, <1>13, CallsStay, Zenon DEF GInv
-----------------------------------------------------------------------------
LEMMA GInitial == GInit => GInv
<1> SUFFICES ASSUME GInit PROVE GInv
  OBVIOUS
<1>1. /\ enabled = [e \in Ends |-> FALSE] /\ servers = [s \in Servers |-> nil] /\ objects = 0
      /\ ends = {} /\ connections = [e \in Ends |-> NoServer]
      /\ reliable = TRUE /\ longReordering = FALSE /\ done = FALSE /\ listening = TRUE
      /\ caller = [c \in Calls |-> "idle"] /\ endname = [c \in Calls |-> NoEnd]
      /\ process = [c \in Calls |-> "none"] /\ info = [c \in Calls |-> NoInfo]
      /\ handler = [c \in Calls |-> "none"]
  BY DEF GInit, LInit, MakeNetwork
<1>2. LTypeOK
  <2>1. NoInfo \in Info
    BY Zenon DEF NoInfo, Info
  <2>2. info \in [Calls -> Info]
    BY <1>1, <2>1, Zenon
  <2>3. objects \in 0..MaxServers
    BY <1>1, NameFacts
  <2>4. /\ ends \subseteq Ends /\ enabled \in [Ends -> BOOLEAN]
        /\ connections \in [Ends -> Servers \cup {NoServer}]
        /\ servers \in [Servers -> Objects \cup {nil}]
        /\ reliable \in BOOLEAN /\ longReordering \in BOOLEAN
        /\ done \in BOOLEAN /\ listening \in BOOLEAN
    BY <1>1, Zenon
  <2>5. endname \in [Calls -> Ends \cup {NoEnd}]
    BY <1>1, Zenon
  <2>6. CallTypes
    BY InitialCalls, Zenon DEF GInit, CallInv
  <2> QED
    BY <2>2, <2>3, <2>4, <2>5, <2>6, Zenon DEF LTypeOK, CallTypes
<1>3. GTypeOK
  <2>1. owner \in [Objects -> Servers \X (0..MaxStarts)]
    BY NameFacts, ServerNames DEF GInit
  <2>2. starts \in [Servers -> 0..MaxStarts] /\ pos \in Nat
    BY NameFacts DEF GInit
  <2>3. running \in [Servers -> BOOLEAN] /\ ready \in BOOLEAN /\ closing \in BOOLEAN
    BY Zenon DEF GInit
  <2>4. saved \in [KVServers -> Persisters \cup {NoPersister}] /\ store \in [Persisters -> SUBSET Calls]
    BY Zenon DEF GInit
  <2>5. target \in Servers /\ at = "idle"
    BY NameFacts, ServerNames, Zenon DEF GInit
  <2> QED
    BY <1>2, <2>1, <2>2, <2>3, <2>4, <2>5, Zenon DEF GTypeOK
<1>4. CallInv /\ EndsKnown
  BY <1>1, InitialCalls, Zenon DEF GInit, EndsKnown
<1>5. PointsFit /\ SavedFits /\ ServersFit /\ OwnersFit
  BY <1>1, NameFacts DEF GInit, PointsFit, SavedFits, ServersFit, OwnersFit
<1>6. \A c \in Calls : RequestFits(c) /\ UpdateKept(c)
  BY <1>1, Zenon DEF RequestFits, UpdateKept, NoInfo, Executed
<1>7. EndsFit
  BY <1>1, NameFacts, Zenon DEF GInit, EndsFit
<1> QED
  BY <1>3, <1>4, <1>5, <1>6, <1>7, Zenon DEF GInv

LEMMA GStep ==
    ASSUME GInv, [GNext]_gvars
    PROVE  GInv'
<1>1. CASE gvars' = gvars
  <2>1. netvars' = netvars /\ callvars' = callvars /\ tvars' = tvars
    BY <1>1, Zenon DEF gvars, lvars
  <2>2. /\ ends' = ends /\ enabled' = enabled /\ connections' = connections /\ servers' = servers
        /\ objects' = objects /\ reliable' = reliable /\ longReordering' = longReordering
        /\ done' = done
    BY <2>1, Zenon DEF netvars
  <2>3. /\ listening' = listening /\ caller' = caller /\ endname' = endname
        /\ process' = process /\ info' = info /\ handler' = handler
    BY <2>1, Zenon DEF callvars
  <2>4. /\ ready' = ready /\ closing' = closing /\ starts' = starts /\ running' = running
        /\ saved' = saved /\ store' = store /\ owner' = owner /\ at' = at
        /\ target' = target /\ pos' = pos
    BY <2>1, Zenon DEF tvars
  <2>5. GTypeOK'
    BY <2>2, <2>3, <2>4, Zenon DEF GInv, GTypeOK, LTypeOK
  <2>6. CallInv' /\ EndsKnown'
    BY <2>1, CallsStay, Zenon
  <2>7. PointsFit' /\ SavedFits'
    BY <2>2, <2>4, Zenon DEF GInv, PointsFit, SavedFits, Own, Copy
  <2>8. ServersFit' /\ OwnersFit'
    BY <2>2, <2>4, Zenon DEF GInv, ServersFit, OwnersFit, Own
  <2>9. EndsFit'
    BY <2>2, <2>4, Zenon DEF GInv, EndsFit, Silenced, RecordedEnd
  <2>10. \A c \in Calls : RequestFits(c)' /\ UpdateKept(c)'
    BY <2>1, <2>3, QuietRequests, Zenon DEF GInv, Executed
  <2> QED
    BY <2>5, <2>6, <2>7, <2>8, <2>9, <2>10, Zenon DEF GInv
<1>2. CASE TesterStep
  <2>1. ASSUME NEW s \in Servers, StartCtrlerserver(s) \/ StartServer(s) \/ ShutdownServer(s)
        PROVE  GInv'
    <3>1. CASE StartCtrlerserver(s)
      BY <3>1, StartCtrlerKeepsGInv, Zenon
    <3>2. CASE StartServer(s)
      BY <3>2, StartKeepsGInv, Zenon
    <3>3. CASE ShutdownServer(s)
      <4>1. /\ s \in KVServers /\ ready /\ closing' \in BOOLEAN /\ Shutdown(s)
            /\ UNCHANGED <<lvars, ready, starts, running, saved, store, owner>>
        BY <3>3, Zenon DEF ShutdownServer, GInv, GTypeOK
      <4> QED
        BY <4>1, ShutdownKeepsGInv, Zenon
    <3> QED
      BY <2>1, <3>1, <3>2, <3>3, Zenon
  <2>2. CASE CleanupBegins
    <3>1. /\ First \in KVServers /\ ready /\ closing' \in BOOLEAN /\ Shutdown(First)
          /\ UNCHANGED <<lvars, ready, starts, running, saved, store, owner>>
      BY <2>2, ServerNames, Zenon DEF CleanupBegins
    <3> QED
      BY <3>1, ShutdownKeepsGInv, Zenon
  <2>3. CASE AddNext \/ DisableNext \/ DeleteNext \/ CopyNext
    BY <2>3, AddKeepsGInv, DisableKeepsGInv, DeleteKeepsGInv, CopyKeepsGInv, Zenon
  <2>4. CASE CleanupEnds \/ \E unreliable \in BOOLEAN : make_config(unreliable)
    BY <2>4, ReadyKeepsGInv, Zenon
  <2>5. CASE shardclerk \/ \E ck \in Clerks : makeClient(ck)
    BY <2>5, ClientKeepsGInv, Zenon
  <2>6. ASSUME NEW c \in Calls, NEW user \in KVServers \cup Clerks, NEW k \in 1..MaxStarts,
               NEW s \in KVServers, make_end(c, user, k, s)
        PROVE  GInv'
    BY <2>6, MakeEndKeepsGInv, Zenon
  <2> QED
    BY <1>2, <2>1, <2>2, <2>3, <2>4, <2>5, <2>6, Zenon DEF TesterStep
<1>3. CASE NetworkStep /\ UNCHANGED <<netvars, tvars>>
  BY <1>3, NetworkKeepsGInv, Zenon
<1>4. ASSUME NEW c \in Calls, SaveUpdate(c) PROVE GInv'
  BY <1>4, SaveKeepsGInv, Zenon
<1> QED
  BY <1>1, <1>2, <1>3, <1>4, Zenon DEF GNext

(* The inductive invariant holds of the tester of shardkv/config.go. *)
THEOREM TesterInvariant == GSpec => []GInv
BY GInitial, GStep, PTL DEF GSpec

(* The types of the tester and the network (shardkv/config.go:45-70), for  *)
(* any number of groups, servers, clerks, instances and requests.          *)
THEOREM ShardTesterTypes == GSpec => []GTypeOK
<1>1. GInv => GTypeOK
  BY DEF GInv
<1> QED
  BY <1>1, TesterInvariant, PTL

(* An acknowledged update is in the persister the next instance of its     *)
(* server starts from (config.go:171-184): between the deletion of the     *)
(* server and the copy of its persister no reply of the old instance is    *)
(* accepted any more, although clerks' ends stay enabled.                  *)
THEOREM AcknowledgedUpdatesKept == GSpec => []GroupAckedPersisted
<1>1. GInv => GroupAckedPersisted
  <2> SUFFICES ASSUME GInv, NEW c \in Calls, caller[c] = "true", info[c].servername \in KVServers
               PROVE  c \in store[saved[info[c].servername]]
    BY Zenon DEF GroupAckedPersisted
  <2>1. UpdateKept(c)
    BY Zenon DEF GInv
  <2> QED
    BY <2>1, Zenon DEF UpdateKept
<1> QED
  BY <1>1, TesterInvariant, PTL

(* A request over a silenced end that no server has, or will get; and one  *)
(* that has no positive reply and will get none.                           *)
Unsent(c) == /\ CutOff(c) /\ handler[c] = "none"
             /\ process[c] \in {"none", "started", "timeout", "returned"}

Unanswered(c) == /\ CutOff(c) /\ caller[c] # "true"
                 /\ process[c] \notin {"accepted", "delayed"}

(* An instance that was shut down stays so, whatever is started. *)
LEMMA SilencedStays ==
    ASSUME GInv, [GNext]_gvars, NEW e, Silenced(e)
    PROVE  Silenced(e)'
<1>0. /\ e \in PeerEnds \cup MendEnds /\ e[2] \in KVServers /\ e[2] \in Servers
      /\ e[3] \in Nat /\ starts[e[2]] \in Nat
  BY EndNames, NameFacts DEF Silenced, GInv, GTypeOK
<1>1. CASE UNCHANGED <<starts, running>>
  BY <1>1, Zenon DEF Silenced
<1>2. ASSUME NEW s \in Servers, StartCtrlerserver(s) PROVE Silenced(e)'
  <2>1. e[2] # s
    BY <1>0, <1>2, ServerNames, Zenon DEF StartCtrlerserver
  <2>2. starts'[e[2]] = starts[e[2]] /\ running'[e[2]] = running[e[2]]
    BY <1>0, <1>2, <2>1, Zenon DEF StartCtrlerserver, GInv, GTypeOK
  <2> QED
    BY <2>2, Zenon DEF Silenced
<1>3. ASSUME NEW s \in Servers, StartServer(s) PROVE Silenced(e)'
  <2>1. CASE e[2] # s
    <3>1. starts'[e[2]] = starts[e[2]] /\ running'[e[2]] = running[e[2]]
      BY <1>0, <1>3, <2>1, Zenon DEF StartServer, GInv, GTypeOK
    <3> QED
      BY <3>1, Zenon DEF Silenced
  <2>2. CASE e[2] = s
    <3>1. starts'[e[2]] = starts[e[2]] + 1
      BY <1>0, <1>3, <2>2, Zenon DEF StartServer, GInv, GTypeOK
    <3>2. e[3] <= starts[e[2]]
      BY <1>0 DEF Silenced
    <3>3. e[3] < starts'[e[2]]
      BY <1>0, <3>1, <3>2
    <3> QED
      BY <1>0, <3>3, Zenon DEF Silenced
  <2> QED
    BY <2>1, <2>2, Zenon
<1>4. CASE CopyNext
  <2>1. starts' = starts /\ (~running[e[2]] => ~running'[e[2]])
    BY <1>0, <1>4, Zenon DEF CopyNext, GInv, GTypeOK
  <2> QED
    BY <2>1, Zenon DEF Silenced
<1>5. CASE gvars' = gvars \/ (NetworkStep /\ UNCHANGED <<netvars, tvars>>)
  BY <1>1, <1>5, Zenon DEF gvars, tvars
<1>6. ASSUME NEW c \in Calls, SaveUpdate(c) PROVE Silenced(e)'
  BY <1>1, <1>6, Zenon DEF SaveUpdate
<1>7. CASE TesterStep
  <2>1. ASSUME NEW s \in Servers, ShutdownServer(s) PROVE Silenced(e)'
    BY <1>1, <2>1, Zenon DEF ShutdownServer
  <2>2. CASE AddNext \/ DisableNext \/ DeleteNext \/ CleanupBegins \/ CleanupEnds
    BY <1>1, <2>2, Zenon DEF AddNext, DisableNext, DeleteNext, CleanupBegins, CleanupEnds, tvars
  <2>3. CASE shardclerk \/ (\E ck \in Clerks : makeClient(ck))
             \/ \E unreliable \in BOOLEAN : make_config(unreliable)
    BY <1>1, <2>3, Zenon DEF shardclerk, makeClient, make_config, tvars
  <2>4. ASSUME NEW c, NEW user, NEW k, NEW s, make_end(c, user, k, s) PROVE Silenced(e)'
    BY <1>1, <2>4, Zenon DEF make_end, tvars
  <2> QED
    BY <1>2, <1>3, <1>4, <1>7, <2>1, <2>2, <2>3, <2>4, Zenon DEF TesterStep
<1> QED
  BY <1>5, <1>6, <1>7, Zenon DEF GNext

(* A Call keeps its end, and so stays cut off.  The only step that begins  *)
(* or ends one of its goroutines is a step of its own.                     *)
LEMMA CutOffStays ==
    ASSUME GInv, [GNext]_gvars, NEW c \in Calls, CutOff(c)
    PROVE  /\ CutOff(c)'
           /\ \/ caller'[c] = caller[c] /\ process'[c] = process[c] /\ handler'[c] = handler[c]
              \/ CallStep(c)
<1>0. CallTypes /\ CallFits(c) /\ caller[c] # "idle"
  BY Zenon DEF GInv, CallInv, CutOff
<1>1. /\ endname'[c] = endname[c]
      /\ \/ caller'[c] = caller[c] /\ process'[c] = process[c] /\ handler'[c] = handler[c]
         \/ CallStep(c)
  <2>1. CASE gvars' = gvars
    BY <2>1, Zenon DEF gvars, lvars, callvars
  <2>2. CASE TesterStep
    <3>1. ASSUME UNCHANGED callvars PROVE UNCHANGED <<caller, endname, process, handler>>
      BY <3>1, Zenon DEF callvars
    <3>2. ASSUME NEW s \in Servers, StartCtrlerserver(s) \/ StartServer(s) \/ ShutdownServer(s)
          PROVE  UNCHANGED callvars
      BY <3>2, Zenon DEF StartCtrlerserver, StartServer, ShutdownServer, lvars
    <3>3. CASE AddNext \/ DisableNext \/ DeleteNext \/ CopyNext \/ CleanupBegins \/ CleanupEnds
      BY <3>1, <3>3, Zenon DEF AddNext, DisableNext, DeleteNext, CopyNext, CleanupBegins, CleanupEnds, lvars
    <3>4. CASE shardclerk \/ (\E ck \in Clerks : makeClient(ck))
               \/ \E unreliable \in BOOLEAN : make_config(unreliable)
      BY <3>1, <3>4, Zenon DEF shardclerk, makeClient, make_config
    <3>5. ASSUME NEW d \in Calls, NEW user, NEW k, NEW s, make_end(d, user, k, s)
          PROVE  /\ endname'[c] = endname[c] /\ caller'[c] = caller[c]
                 /\ process'[c] = process[c] /\ handler'[c] = handler[c]
      BY <1>0, <3>5, Zenon DEF make_end, CallTypes, GInv, GTypeOK, LTypeOK
    <3> QED
      BY <2>2, <3>1, <3>2, <3>3, <3>4, <3>5, Zenon DEF TesterStep
  <2>3. ASSUME NEW d \in Calls, SaveUpdate(d) \/ \E e \in Ends : Call(d, e)
        PROVE  /\ endname'[c] = endname[c]
               /\ \/ caller'[c] = caller[c] /\ process'[c] = process[c] /\ handler'[c] = handler[c]
                  \/ CallStep(c)
    BY <1>0, <2>3, Zenon DEF SaveUpdate, RunHandler, Call, CallStep, CallTypes, GInv, GTypeOK, LTypeOK
  <2>4. CASE NetworkReturns
    BY <2>4, Zenon DEF NetworkReturns
  <2>5. ASSUME NEW d \in Calls, SendRequest(d) \/ NetworkDestroyed(d) \/ ProcessStep(d)
                                \/ HandlerReturns(d) \/ DrainReply(d)
        PROVE  /\ endname'[c] = endname[c]
               /\ \/ caller'[c] = caller[c] /\ process'[c] = process[c] /\ handler'[c] = handler[c]
                  \/ CallStep(c)
    <3>1. endname' = endname
      BY <2>5, Zenon DEF SendRequest, NetworkDestroyed, HandlerReturns, DrainReply, ProcessStep,
             ProcessReq, DropRequest, Dispatch, ReceiveReply, StopWaiting, CheckServer,
             ReplyError, DropReply, DelayReply, DeliverReply, TimeOut, Reply
    <3>2. CASE d = c
      BY <2>5, <3>1, <3>2, Zenon DEF CallStep
    <3>3. CASE d # c
      <4>1. caller'[c] = caller[c]
        BY <1>0, <2>5, <3>3, Zenon
        DEF CallTypes, SendRequest, NetworkDestroyed, HandlerReturns, DrainReply, ProcessStep,
            ProcessReq, DropRequest, Dispatch, ReceiveReply, StopWaiting, CheckServer,
            ReplyError, DropReply, DelayReply, DeliverReply, TimeOut, Reply
      <4>2. process'[c] = process[c]
        BY <1>0, <2>5, <3>3, Zenon
        DEF CallTypes, SendRequest, NetworkDestroyed, HandlerReturns, DrainReply, ProcessStep,
            ProcessReq, DropRequest, Dispatch, ReceiveReply, StopWaiting, CheckServer,
            ReplyError, DropReply, DelayReply, DeliverReply, TimeOut, Reply
      <4>3. handler'[c] = handler[c]
        BY <1>0, <2>5, <3>3, Zenon
        DEF CallTypes, SendRequest, NetworkDestroyed, HandlerReturns, DrainReply, ProcessStep,
            ProcessReq, DropRequest, Dispatch, ReceiveReply, StopWaiting, CheckServer,
            ReplyError, DropReply, DelayReply, DeliverReply, TimeOut, Reply
      <4> QED
        BY <3>1, <4>1, <4>2, <4>3, Zenon
    <3> QED
      BY <3>2, <3>3, Zenon
  <2> QED
    BY <2>1, <2>2, <2>3, <2>4, <2>5, Zenon DEF GNext, NetworkStep
<1>2. caller'[c] # "idle"
  <2>1. CASE caller'[c] = caller[c]
    BY <1>0, <2>1
  <2>2. CASE CallStep(c)
    BY <1>0, <2>2, Zenon
    DEF CallTypes, CallStep, SendRequest, NetworkDestroyed, RunHandler, HandlerReturns, DrainReply,
        ProcessStep, ProcessReq, DropRequest, Dispatch, ReceiveReply, StopWaiting, CheckServer,
        ReplyError, DropReply, DelayReply, DeliverReply, TimeOut, Reply
  <2> QED
    BY <1>1, <2>1, <2>2, Zenon
<1>3. Silenced(endname[c])'
  <2>1. PICK e : e = endname[c]
    OBVIOUS
  <2>2. Silenced(e)'
    BY <2>1, SilencedStays, Zenon DEF CutOff
  <2> QED
    BY <1>1, <2>1, <2>2, Zenon DEF Silenced
<1> QED
  BY <1>1, <1>2, <1>3, Zenon DEF CutOff

(* Its processReq finds the end disabled, before it looks for a server and *)
(* before it accepts a reply.                                              *)
LEMMA SilenceStep ==
    ASSUME GInv, [GNext]_gvars, NEW c \in Calls
    PROVE  (Unsent(c) => Unsent(c)') /\ (Unanswered(c) => Unanswered(c)')
<1> SUFFICES ASSUME CutOff(c)
             PROVE  (Unsent(c) => Unsent(c)') /\ (Unanswered(c) => Unanswered(c)')
  BY Zenon DEF Unsent, Unanswered
<1>0. CallTypes /\ CallFits(c) /\ ~enabled[endname[c]]
  BY Zenon DEF GInv, CallInv, CutOff, EndsFit, Silenced
<1>1. /\ CutOff(c)'
      /\ \/ caller'[c] = caller[c] /\ process'[c] = process[c] /\ handler'[c] = handler[c]
         \/ CallStep(c)
  BY CutOffStays, Zenon
<1>2. CASE caller'[c] = caller[c] /\ process'[c] = process[c] /\ handler'[c] = handler[c]
  BY <1>1, <1>2, Zenon DEF Unsent, Unanswered
<1>3. CASE SendRequest(c) \/ NetworkDestroyed(c)
  BY <1>0, <1>1, <1>3, Zenon DEF SendRequest, NetworkDestroyed, CallTypes, CallFits, Unsent, Unanswered
<1>4. CASE ProcessReq(c)
  BY <1>0, <1>1, <1>4, Zenon DEF ProcessReq, CallTypes, Unsent, Unanswered
<1>5. CASE Dispatch(c) \/ ReceiveReply(c) \/ StopWaiting(c) \/ DelayReply(c)
  BY <1>0, <1>1, <1>5, Zenon
  DEF Dispatch, ReceiveReply, StopWaiting, DelayReply, CallTypes, CallFits, Unsent, Unanswered
<1>6. CASE CheckServer(c)
  BY <1>0, <1>1, <1>6, Zenon DEF CheckServer, isServerDead, CallTypes, Unsent, Unanswered
<1>7. CASE DropRequest(c) \/ ReplyError(c) \/ DropReply(c) \/ TimeOut(c)
  BY <1>0, <1>1, <1>7, Zenon
  DEF DropRequest, ReplyError, DropReply, TimeOut, Reply, CallTypes, Unsent, Unanswered
<1>8. CASE DeliverReply(c)
  BY <1>8, Zenon DEF DeliverReply, Unsent, Unanswered
<1>9. CASE RunHandler(c) \/ HandlerReturns(c) \/ DrainReply(c)
  BY <1>0, <1>1, <1>9, Zenon DEF RunHandler, HandlerReturns, DrainReply, CallTypes, Unsent, Unanswered
<1> QED
  BY <1>1, <1>2, <1>3, <1>4, <1>5, <1>6, <1>7, <1>8, <1>9, Zenon DEF CallStep, ProcessStep

(* Over the ends the tester recorded for it, a shut down instance gets no  *)
(* request to a server that was not routed before (config.go:162-169), and *)
(* no Call of it returns true whose reply was not accepted before; for     *)
(* good, with any number of groups, servers, instances and requests.       *)
THEOREM ShutdownIsSilent == GSpec => ShutdownSilences
<1> SUFFICES ASSUME NEW c \in Calls
             PROVE  GSpec =>
                      /\ [](CutOff(c) /\ process[c] \in {"none", "started"}
                              => [](handler[c] = "none"))
                      /\ [](CutOff(c) /\ process[c] \notin {"accepted", "delayed", "returned"}
                              => [](caller[c] # "true"))
  BY DEF ShutdownSilences
<1>1. GInv /\ [GNext]_gvars => (Unsent(c) => Unsent(c)') /\ (Unanswered(c) => Unanswered(c)')
  BY SilenceStep, Zenon
<1>2. GInv /\ CutOff(c) /\ process[c] \in {"none", "started"} => Unsent(c)
  BY Zenon DEF GInv, CallInv, CallFits, Unsent
<1>3. GInv /\ CutOff(c) /\ process[c] \notin {"accepted", "delayed", "returned"} => Unanswered(c)
  BY Zenon DEF GInv, CallInv, CallFits, CutOff, Unanswered
<1>4. (Unsent(c) => handler[c] = "none") /\ (Unanswered(c) => caller[c] # "true")
  BY Zenon DEF Unsent, Unanswered
<1> QED
  BY <1>1, <1>2, <1>3, <1>4, TesterInvariant, PTL DEF GSpec

(* The promise of labrpc holds on the tester's network too. *)
THEOREM ShardTesterImplementsService == GSpec => ImplementsService
<1>1. [GNext]_gvars => CallMoves
  <2>1. gvars' = gvars => CallMoves
    BY DEF gvars, lvars, callvars, CallMoves
  <2>2. TesterStep => CallMoves
    <3>1. ASSUME UNCHANGED callvars PROVE CallMoves
      BY <3>1, Zenon DEF callvars, CallMoves
    <3>2. ASSUME NEW s \in Servers, StartCtrlerserver(s) \/ StartServer(s) \/ ShutdownServer(s)
          PROVE  UNCHANGED callvars
      BY <3>2, Zenon DEF StartCtrlerserver, StartServer, ShutdownServer, lvars
    <3>3. CASE AddNext \/ DisableNext \/ DeleteNext \/ CopyNext
      BY <3>1, <3>3, Zenon DEF AddNext, DisableNext, DeleteNext, CopyNext, lvars
    <3>4. CASE CleanupBegins \/ CleanupEnds \/ shardclerk
      BY <3>1, <3>4, Zenon DEF CleanupBegins, CleanupEnds, shardclerk, lvars
    <3>5. CASE (\E ck \in Clerks : makeClient(ck)) \/ \E unreliable \in BOOLEAN : make_config(unreliable)
      BY <3>1, <3>5, Zenon DEF makeClient, make_config
    <3>6. ASSUME NEW c \in Calls, NEW user, NEW k, NEW s, make_end(c, user, k, s)
          PROVE  CallMoves
      BY <3>6, Zenon DEF make_end, CallMoves, Begins
    <3> QED
      BY <3>1, <3>2, <3>3, <3>4, <3>5, <3>6, Zenon DEF TesterStep
  <2>3. NetworkStep => CallMoves
    BY Zenon DEF NetworkStep, NetworkReturns, Call, CallMoves, Begins, CallStep
  <2>4. (\E c \in Calls : SaveUpdate(c)) => CallMoves
    BY Zenon DEF SaveUpdate, CallMoves, CallStep
  <2> QED
    BY <2>1, <2>2, <2>3, <2>4, Zenon DEF GNext
<1>2. CallInv /\ [GNext]_gvars => CallInv'
  BY <1>1, CallInvStep, Zenon
<1>3. CallInv /\ [GNext]_gvars => [Service!SNext]_Service!svars
  BY <1>1, ServiceStep, Zenon
<1>4. GInit => CallInv /\ Service!SInit
  BY InitialCalls, Zenon DEF GInit
<1> QED
  BY <1>2, <1>3, <1>4, PTL DEF GSpec, ImplementsService, Service!SSpec
=============================================================================
