--------------------------- MODULE ProcessProofs ---------------------------
(***************************************************************************)
(* Proofs about the whole coordinator process, for any number of workers,  *)
(* map tasks and reduce tasks: with the Healthcheck goroutine, its         *)
(* WorkerSync goroutines and main the coordinator keeps its own invariant, *)
(* and as long as no two registrations overlap none is lost and nothing    *)
(* indexes past the end of c.workers.                                      *)
(***************************************************************************)
EXTENDS CoordinatorProcess, CoordinatorProofs

(* Two lists of workers with the same ids at the same indices: what        *)
(* WorkerSync, which rewrites the status of an entry while a registration  *)
(* holds an older copy of the list, leaves of their equality.              *)
SameIds(s, t) == Len(s) = Len(t) /\ \A i \in 1..Len(t) : s[i].workerId = t[i].workerId

(* What sequential registrations keep.  The copy a registration under way  *)
(* has read has the ids of the list it will be stored over, so that no     *)
(* store makes the list shorter or drops an id; and a WorkerSync goroutine *)
(* has an index of the list.                                               *)
Sequential ==
    /\ \A v, w \in Workers : registering[v] = "append" /\ registering[w] = "append" => v = w
    /\ \A w \in Workers : registering[w] = "append" => SameIds(slice[w], workers)
    /\ RegistrationsKept
    /\ \A s \in syncs : s[1] \in 1..Len(workers)
    /\ coord = "dead" => mainPoint = "exited"

(* The inductive invariant of the process. *)
PInv == /\ CInv
        /\ syncs \subseteq (Nat \ {0}) \X Workers
        /\ ~overlapped => Sequential

(* Entries of the list of workers, as they are made and changed. *)
LEMMA Entries ==
    /\ \A w \in Workers : NewWorker(w) \in WorkerType
    /\ \A e \in WorkerType, err \in BOOLEAN :
         /\ [e EXCEPT !.status = StateRetrying] \in WorkerType
         /\ [e EXCEPT !.status = StateRetrying].workerId = e.workerId
         /\ AfterPing(e, err) \in WorkerType
         /\ AfterPing(e, err).workerId = e.workerId
<1>1. \A w \in Workers : NewWorker(w) \in WorkerType
  BY IdsFact, Zenon DEF NewWorker, WorkerType
<1>2. \A e \in WorkerType :
        /\ [e EXCEPT !.status = StateRetrying] \in WorkerType
        /\ [e EXCEPT !.status = StateRetrying].workerId = e.workerId
  BY DEF WorkerType
<1>3. ASSUME NEW e \in WorkerType, NEW err \in BOOLEAN
      PROVE  AfterPing(e, err) \in WorkerType /\ AfterPing(e, err).workerId = e.workerId
  <2>1. CASE err /\ e.HeartBeatChecks = 3
    <3>1. AfterPing(e, err) = [e EXCEPT !.status = StatusError]
      BY <2>1, Zenon DEF AfterPing
    <3>. QED  BY <3>1 DEF WorkerType
  <2>2. CASE err /\ e.HeartBeatChecks # 3
    <3> DEFINE r == [e EXCEPT !.status = StateRetrying]
    <3>1. AfterPing(e, err) = [r EXCEPT !.HeartBeatChecks = e.HeartBeatChecks + 1]
      BY <2>2, SMT DEF AfterPing, WorkerType
    <3>2. r \in WorkerType /\ r.workerId = e.workerId
      BY DEF WorkerType
    <3>3. e.HeartBeatChecks + 1 \in Nat
      BY DEF WorkerType
    <3>4. HIDE DEF r
    <3>. QED  BY <3>1, <3>2, <3>3 DEF WorkerType
  <2>3. CASE ~err
    <3> DEFINE r == [e EXCEPT !.status = StateConnected]
    <3>1. AfterPing(e, err) = [r EXCEPT !.HeartBeatChecks = e.HeartBeatChecks + 1]
      BY <2>3, SMT DEF AfterPing, WorkerType
    <3>2. r \in WorkerType /\ r.workerId = e.workerId
      BY DEF WorkerType
    <3>3. e.HeartBeatChecks + 1 \in Nat
      BY DEF WorkerType
    <3>4. HIDE DEF r
    <3>. QED  BY <3>1, <3>2, <3>3 DEF WorkerType
  <2>. QED  BY <2>1, <2>2, <2>3, Zenon
<1>. QED  BY <1>1, <1>2, <1>3, Zenon

(* A WorkerSync goroutine has an index and the port of a worker. *)
LEMMA SyncArguments ==
    ASSUME PInv, NEW s \in syncs
    PROVE  s[1] \in Nat \ {0} /\ s[2] \in Workers /\ <<s[1], s[2]>> = s
BY DEF PInv

(* What WorkerSync does to the list: it keeps its length and its ids. *)
LEMMA SyncKeepsIds ==
    ASSUME CInv, NEW i \in Nat \ {0}, NEW port \in Workers, <<i, port>> \in syncs,
           WorkerSync(i, port)
    PROVE  /\ workers' \in Seq(WorkerType) /\ SameIds(workers', workers)
           /\ i \in 1..Len(workers) => coord' = coord
<1>1. workers \in Seq(WorkerType)
  BY Zenon DEF CInv, CTypeOK
<1>2. CASE i > Len(workers)
  <2>1. workers' = workers
    BY <1>2, Zenon DEF WorkerSync
  <2>. QED  BY <1>1, <1>2, <2>1 DEF SameIds
<1>3. CASE ~(i > Len(workers))
  <2>1. i \in 1..Len(workers) /\ workers[i] \in WorkerType
    BY <1>1, <1>3
  <2>2. coord' = coord
    BY <1>3, Zenon DEF WorkerSync
  <2>3. PICK e \in WorkerType : /\ workers' = [workers EXCEPT ![i] = e]
                                /\ e.workerId = workers[i].workerId
    BY <1>3, <2>1, Entries, Zenon DEF WorkerSync
  <2>. QED  BY <1>1, <2>1, <2>2, <2>3 DEF SameIds
<1>. QED  BY <1>1, <1>2, <1>3

(* Lists with the same ids register the same workers, also when one more   *)
(* worker is appended.                                                     *)
LEMMA SameIdsRegister ==
    ASSUME NEW s \in Seq(WorkerType), NEW t \in Seq(WorkerType), SameIds(s, t)
    PROVE  /\ SameIds(t, s)
           /\ \A u \in Seq(WorkerType) : SameIds(u, t) => SameIds(u, s)
           /\ \A i \in DOMAIN t : i \in DOMAIN s /\ s[i].workerId = t[i].workerId
BY DEF SameIds

LEMMA AppendRegisters ==
    ASSUME NEW s \in Seq(WorkerType), NEW t \in Seq(WorkerType), SameIds(s, t),
           NEW e \in WorkerType
    PROVE  /\ Append(s, e) \in Seq(WorkerType) /\ Len(Append(s, e)) = Len(t) + 1
           /\ \A i \in DOMAIN t : /\ i \in DOMAIN Append(s, e)
                                  /\ Append(s, e)[i].workerId = t[i].workerId
           /\ Len(t) + 1 \in DOMAIN Append(s, e) /\ Append(s, e)[Len(t) + 1] = e
<1>1. /\ Append(s, e) \in Seq(WorkerType) /\ Len(Append(s, e)) = Len(s) + 1
      /\ Append(s, e)[Len(s) + 1] = e
      /\ \A i \in 1..Len(s) : Append(s, e)[i] = s[i]
  OBVIOUS
<1>2. Len(s) = Len(t) /\ Len(t) \in Nat /\ DOMAIN t = 1..Len(t)
      /\ DOMAIN Append(s, e) = 1..(Len(t) + 1)
  BY <1>1 DEF SameIds
<1>3. Len(t) + 1 \in DOMAIN Append(s, e) /\ \A i \in 1..Len(t) : i \in 1..(Len(t) + 1)
  BY <1>2
<1>. QED  BY <1>1, <1>2, <1>3, Zenon DEF SameIds

(* The process starts in the invariant. *)
LEMMA InitPInv == PInit => PInv
<1>. SUFFICES ASSUME PInit PROVE PInv
  OBVIOUS
<1>1. CInv
  BY InitCInv, Zenon DEF PInit
<1>2. syncs = {} /\ coord = "starting" /\ \A w \in Workers : registering[w] = "no"
  BY Zenon DEF PInit, CInit, MakeCoordinator
<1>. QED  BY <1>1, <1>2, Zenon DEF PInv, Sequential, RegistrationsKept

(* The handlers keep the coordinator's own invariant: a worker's calls are *)
(* among the calls CNext allows.                                           *)
LEMMA HandlersCInv ==
    ASSUME CInv, Handlers
    PROVE  CInv'
BY RegistrationCInv, RequestCInv, UpdateCInv, Zenon DEF Handlers, Calls

(* So does everything else in the process. *)
LEMMA OthersCInv ==
    ASSUME PInv, \/ HealthcheckTick \/ MainRead \/ MainLoop
                 \/ \E s \in syncs : WorkerSync(s[1], s[2])
    PROVE  CInv'
<1>1. CInv
  BY Zenon DEF PInv
<1>2. CASE HealthcheckTick \/ MainRead \/ MainLoop
  <2>1. /\ UNCHANGED <<phase, mapTasks, reduceTasks, workers, registering, slice, taskReply, updateReply>>
        /\ coord' = coord \/ coord' = "dead"
    BY <1>2, Zenon DEF HealthcheckTick, MainRead, MainLoop, cvars
  <2>2. CTypeOK'
    BY <1>1, <2>1, Zenon DEF CInv, CTypeOK
  <2>. QED  BY <1>1, <2>1, <2>2, FrameCInv, Zenon
<1>3. CASE \E s \in syncs : WorkerSync(s[1], s[2])
  <2>1. PICK i \in Nat \ {0}, port \in Workers : <<i, port>> \in syncs /\ WorkerSync(i, port)
    BY <1>3, SyncArguments, Zenon
  <2>2. /\ UNCHANGED <<phase, mapTasks, reduceTasks, registering, slice, taskReply, updateReply>>
        /\ coord' = coord \/ coord' = "dead"
    BY <2>1, Zenon DEF WorkerSync
  <2>3. workers' \in Seq(WorkerType)
    BY <1>1, <2>1, SyncKeepsIds, Zenon
  <2>4. CTypeOK'
    BY <1>1, <2>2, <2>3, Zenon DEF CInv, CTypeOK
  <2>. QED  BY <1>1, <2>2, <2>4, FrameCInv, Zenon
<1>. QED  BY <1>2, <1>3, Zenon

(* A registration reads the list: the flag says whether another one had,   *)
(* and if none had, its copy is the list.                                  *)
LEMMA ReadSequential ==
    ASSUME PInv, Handlers, NEW w \in Workers, RegisterWorkerRead(w), ~overlapped'
    PROVE  Sequential'
<1>1. /\ Sequential /\ CTypeOK /\ ~Overlap
      /\ registering' = [registering EXCEPT ![w] = "append"]
      /\ slice' = [slice EXCEPT ![w] = workers]
      /\ UNCHANGED <<coord, workers, syncs, mainPoint>>
  BY Zenon DEF PInv, CInv, Handlers, RegisterWorkerRead, pvars
<1>2. /\ registering \in [Workers -> {"no", "append", "yes"}]
      /\ slice \in [Workers -> Seq(WorkerType)] /\ workers \in Seq(WorkerType)
  BY <1>1, Zenon DEF CTypeOK
<1>3. \A v \in Workers : /\ v # w => registering'[v] = registering[v] /\ slice'[v] = slice[v]
                         /\ registering'[w] = "append" /\ slice'[w] = workers
  BY <1>1, <1>2, Zenon
<1>4. \A u, v \in Workers : registering'[u] = "append" /\ registering'[v] = "append" => u = v
  <2>. SUFFICES ASSUME NEW u \in Workers, NEW v \in Workers, registering'[u] = "append",
                       registering'[v] = "append", u # v
                PROVE  FALSE
    BY Zenon
  <2>1. {registering'[u], registering'[v]} = {"append"}
    OBVIOUS
  <2>. QED  BY <1>1, <2>1, Zenon DEF Overlap
<1>5. SameIds(workers, workers)
  BY <1>2 DEF SameIds
<1>6. \A v \in Workers : registering'[v] = "append" => SameIds(slice'[v], workers')
  BY <1>1, <1>3, <1>5, Zenon DEF Sequential
<1>7. RegistrationsKept'
  <2>1. \A id : Registered(id)' <=> Registered(id)
    BY <1>1, Zenon DEF Registered
  <2>2. \A v \in Workers : registering'[v] = "yes" => registering[v] = "yes"
    BY <1>3, Zenon
  <2>. QED  BY <1>1, <2>1, <2>2, Zenon DEF Sequential, RegistrationsKept
<1>. QED  BY <1>1, <1>4, <1>6, <1>7, Zenon DEF Sequential

(* A registration stores its copy and itself over a list with the ids of   *)
(* that copy: every id stays, and the list gets longer.                    *)
LEMMA StoreSequential ==
    ASSUME PInv, Handlers, NEW w \in Workers, RegisterWorkerStore(w), ~overlapped'
    PROVE  Sequential'
<1>1. /\ Sequential /\ CTypeOK
      /\ registering[w] = "append"
      /\ registering' = [registering EXCEPT ![w] = "yes"]
      /\ workers' = Append(slice[w], NewWorker(w))
      /\ slice' = [slice EXCEPT ![w] = <<>>]
      /\ UNCHANGED <<coord, syncs, mainPoint>>
  BY Zenon DEF PInv, CInv, Handlers, RegisterWorkerStore, pvars
<1>2. /\ registering \in [Workers -> {"no", "append", "yes"}]
      /\ slice[w] \in Seq(WorkerType) /\ workers \in Seq(WorkerType)
      /\ NewWorker(w) \in WorkerType /\ NewWorker(w).workerId = WorkerID[w]
      /\ SameIds(slice[w], workers)
  BY <1>1, Entries, Zenon DEF CTypeOK, Sequential, NewWorker
<1>3. /\ Len(workers') = Len(workers) + 1 /\ Len(workers) \in Nat
      /\ \A i \in DOMAIN workers : /\ i \in DOMAIN workers'
                                   /\ workers'[i].workerId = workers[i].workerId
      /\ \E i \in DOMAIN workers' : workers'[i].workerId = WorkerID[w]
  <2>1. Len(workers) \in Nat
    BY <1>2
  <2> DEFINE s == Append(slice[w], NewWorker(w))
  <2>2. /\ Len(s) = Len(workers) + 1
        /\ \A i \in DOMAIN workers : i \in DOMAIN s /\ s[i].workerId = workers[i].workerId
        /\ Len(workers) + 1 \in DOMAIN s /\ s[Len(workers) + 1] = NewWorker(w)
    BY <1>2, AppendRegisters, Zenon
  <2>. QED  BY <1>1, <1>2, <2>1, <2>2, Zenon
<1>4. \A v \in Workers : /\ v # w => registering'[v] = registering[v]
                         /\ registering'[w] = "yes"
  BY <1>1, <1>2, Zenon
<1>5. \A v \in Workers : registering'[v] # "append"
  BY <1>1, <1>4, Zenon DEF Sequential
<1>6. RegistrationsKept'
  <2>1. \A id : Registered(id) => Registered(id)'
    BY <1>3, Zenon DEF Registered
  <2>2. Registered(WorkerID[w])'
    BY <1>3, Zenon DEF Registered
  <2>. QED  BY <1>1, <1>4, <2>1, <2>2, Zenon DEF Sequential, RegistrationsKept
<1>7. \A s \in syncs' : s[1] \in 1..Len(workers')
  <2>1. \A i \in 1..Len(workers) : i \in 1..Len(workers')
    BY <1>3
  <2>. QED  BY <1>1, <2>1, Zenon DEF Sequential
<1>. QED  BY <1>1, <1>5, <1>6, <1>7, Zenon DEF Sequential

(* No scan of a task request panics: the store of a registration would     *)
(* have to make the list shorter.                                          *)
LEMMA NoPanic ==
    ASSUME PInv, ~overlapped, NEW w \in Workers
    PROVE  ~TaskRequestPanics(w)
<1>. SUFFICES ASSUME NEW r \in Workers, registering[r] = "append",
                     Len(Append(slice[r], NewWorker(r))) < Len(workers)
              PROVE  FALSE
  BY Zenon DEF TaskRequestPanics
<1>1. /\ slice[r] \in Seq(WorkerType) /\ workers \in Seq(WorkerType)
      /\ NewWorker(r) \in WorkerType /\ SameIds(slice[r], workers)
  BY Entries, Zenon DEF PInv, CInv, CTypeOK, Sequential
<1>2. Len(Append(slice[r], NewWorker(r))) = Len(workers) + 1
  BY <1>1, AppendRegisters, Zenon
<1>3. Len(workers) \in Nat /\ ~(Len(workers) + 1 < Len(workers))
  BY <1>1
<1>. QED  BY <1>2, <1>3, Zenon

(* The handlers keep what sequential registrations keep. *)
LEMMA HandlersSequential ==
    ASSUME PInv, Handlers, ~overlapped'
    PROVE  Sequential'
<1>1. ~overlapped /\ Sequential /\ UNCHANGED <<syncs, mainPoint>>
  BY Zenon DEF PInv, Handlers, pvars
<1>2. CASE UNCHANGED <<workers, registering, slice>> /\ (coord' = coord \/ coord' = "serving")
  BY <1>1, <1>2, Zenon DEF Sequential, RegistrationsKept, Registered
<1>3. \/ \E w \in Workers : RegisterWorkerRead(w)
      \/ \E w \in Workers : RegisterWorkerStore(w)
      \/ \E w \in Workers : TaskRequestPanics(w)
      \/ UNCHANGED <<workers, registering, slice>> /\ (coord' = coord \/ coord' = "serving")
  BY Zenon DEF Handlers, Calls, server, TaskRequestByWorker, TaskUpdateByWorker
<1>. QED  BY <1>1, <1>2, <1>3, ReadSequential, StoreSequential, NoPanic, Zenon

(* So do the goroutines and main: a WorkerSync goroutine finds its index   *)
(* in the list and keeps the ids.                                          *)
LEMMA OthersSequential ==
    ASSUME PInv, ~overlapped', \/ HealthcheckTick \/ MainRead \/ MainLoop
                               \/ \E s \in syncs : WorkerSync(s[1], s[2])
    PROVE  Sequential'
<1>1. ~overlapped /\ Sequential /\ UNCHANGED <<registering, slice>>
  <2>1. ASSUME NEW i, NEW port, WorkerSync(i, port)
        PROVE  UNCHANGED <<overlapped, registering, slice>>
    BY <2>1, Zenon DEF WorkerSync
  <2>2. ASSUME HealthcheckTick \/ MainRead \/ MainLoop
        PROVE  UNCHANGED <<overlapped, registering, slice>>
    BY <2>2, Zenon DEF HealthcheckTick, MainRead, MainLoop, cvars
  <2>3. UNCHANGED <<overlapped, registering, slice>>
    BY <2>1, <2>2, Zenon
  <2>. QED  BY <2>3, Zenon DEF PInv
<1>2. CASE HealthcheckTick
  <2>1. /\ UNCHANGED <<coord, workers, mainPoint>>
        /\ \A s \in syncs' : s \in syncs \/ s \in SyncTargets
    BY <1>2, Zenon DEF HealthcheckTick, cvars
  <2>2. workers \in Seq(WorkerType)
    BY Zenon DEF PInv, CInv, CTypeOK
  <2>3. \A s \in SyncTargets : s[1] \in 1..Len(workers)
    BY <2>2 DEF SyncTargets
  <2>. QED  BY <1>1, <2>1, <2>3, Zenon DEF Sequential, RegistrationsKept, Registered
<1>3. CASE MainRead \/ MainLoop
  <2>1. /\ UNCHANGED <<workers, syncs>>
        /\ mainPoint' = "exited" \/ (coord' = coord /\ mainPoint # "exited")
    BY <1>3, Zenon DEF MainRead, MainLoop, cvars
  <2>. QED  BY <1>1, <2>1, Zenon DEF Sequential, RegistrationsKept, Registered
<1>4. CASE \E s \in syncs : WorkerSync(s[1], s[2])
  <2>1. PICK i \in Nat \ {0}, port \in Workers : <<i, port>> \in syncs /\ WorkerSync(i, port)
    BY <1>4, SyncArguments, Zenon
  <2>2. /\ UNCHANGED mainPoint /\ syncs' \subseteq syncs
    BY <2>1, Zenon DEF WorkerSync
  <2>3. i \in 1..Len(workers)
    BY <1>1, <2>1 DEF Sequential
  <2>4. workers' \in Seq(WorkerType) /\ SameIds(workers', workers) /\ coord' = coord
    BY <2>1, <2>3, SyncKeepsIds, Zenon DEF PInv
  <2>5. workers \in Seq(WorkerType) /\ \A w \in Workers : slice[w] \in Seq(WorkerType)
    BY Zenon DEF PInv, CInv, CTypeOK
  <2>6. /\ Len(workers') = Len(workers)
        /\ \A u \in Seq(WorkerType) : SameIds(u, workers) => SameIds(u, workers')
        /\ \A k \in DOMAIN workers : k \in DOMAIN workers' /\ workers'[k].workerId = workers[k].workerId
    BY <2>4, <2>5, SameIdsRegister, Zenon DEF SameIds
  <2>7. RegistrationsKept'
    BY <1>1, <2>6, Zenon DEF Sequential, RegistrationsKept, Registered
  <2>8. \A w \in Workers : registering'[w] = "append" => SameIds(slice'[w], workers')
    BY <1>1, <2>5, <2>6, Zenon DEF Sequential
  <2>. QED  BY <1>1, <2>2, <2>4, <2>6, <2>7, <2>8, Zenon DEF Sequential
<1>. QED  BY <1>2, <1>3, <1>4, Zenon

(* Every step of the process keeps its invariant. *)
LEMMA NextPInv == PInv /\ [PNext]_allvars => PInv'
<1>1. CASE PInv /\ UNCHANGED allvars
  <2>1. CInv'
    BY <1>1, NextCInv, Zenon DEF PInv, allvars
  <2>. QED  BY <1>1, <2>1, Zenon DEF PInv, Sequential, RegistrationsKept, Registered, allvars, cvars, pvars
<1>2. ASSUME PInv, PNext PROVE PInv'
  <2>1. CInv'
    BY <1>2, HandlersCInv, OthersCInv, Zenon DEF PNext, PInv
  <2>2. ~overlapped' => Sequential'
    BY <1>2, HandlersSequential, OthersSequential, Zenon DEF PNext
  <2>3. syncs' \subseteq syncs \cup SyncTargets
    BY <1>2, Zenon DEF PNext, Handlers, HealthcheckTick, WorkerSync, MainRead, MainLoop, pvars
  <2>4. SyncTargets \subseteq (Nat \ {0}) \X Workers
    <3>1. workers \in Seq(WorkerType)
      BY <1>2, Zenon DEF PInv, CInv, CTypeOK
    <3>2. \A i \in DOMAIN workers : i \in Nat \ {0} /\ workers[i] \in WorkerType
      BY <3>1
    <3>3. \A e \in WorkerType : e.Port \in Workers
      BY DEF WorkerType
    <3>. QED  BY <3>2, <3>3 DEF SyncTargets
  <2>. QED  BY <1>2, <2>1, <2>2, <2>3, <2>4, Zenon DEF PInv
<1>. QED  BY <1>1, <1>2, Zenon

(* The invariant holds always: with the Healthcheck and WorkerSync         *)
(* goroutines, which write to c.workers, and main, the coordinator keeps   *)
(* the invariant its handlers have alone.                                  *)
THEOREM ProcessInvariant == PSpec => []PInv
BY InitPInv, NextPInv, PTL DEF PSpec

(* As long as no two RegisterWorker calls overlap, no registration is lost *)
(* and neither a task request nor a WorkerSync goroutine indexes past the  *)
(* end of c.workers, for any number of workers.                            *)
THEOREM SequentialRegistration == PSpec => []SequentialRegistrationSafe
<1>1. PInv => SequentialRegistrationSafe
  BY Zenon DEF PInv, Sequential, SequentialRegistrationSafe
<1>. QED  BY <1>1, ProcessInvariant, PTL
=============================================================================
