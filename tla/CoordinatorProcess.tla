------------------------- MODULE CoordinatorProcess -------------------------
(***************************************************************************)
(* The whole coordinator process: the handlers of Coordinator, the         *)
(* Healthcheck goroutine and the WorkerSync goroutines it starts           *)
(* (mr/coordinator.go), and main, which makes the coordinator, reads its   *)
(* phase once and loops (main/mrcoordinator.go).                           *)
(*                                                                         *)
(* Names with an underscore and a suffix are mutated forms.                *)
(***************************************************************************)
EXTENDS Coordinator

VARIABLES checker,       \* the Healthcheck goroutine: "ticking" or "returned"
          syncs,         \* <<index, port>> of each WorkerSync goroutine under way
          mainPoint,     \* main: "made", "loop" or "exited"
          currentPhase,  \* main's local variable
          overlapped     \* two RegisterWorker calls were under way together
                         \* (history, read by no action)

pvars == <<checker, syncs, mainPoint, currentPhase>>
allvars == <<cvars, pvars, overlapped>>

PInit == /\ CInit
         /\ checker = "ticking"
         /\ syncs = {}
         /\ mainPoint = "made"
         /\ currentPhase = MapPhase
         /\ overlapped = FALSE
-----------------------------------------------------------------------------
(* The handlers, as the workers call them: a worker that has registered    *)
(* asks for tasks, and reports the task it was given last.                 *)
Overlap == \E v, w \in Workers : v # w /\ {registering'[v], registering'[w]} = {"append"}

Calls(w) == \/ RegisterWorkerRead(w)
            \/ RegisterWorkerStore(w)
            \/ registering[w] = "yes" /\ (TaskRequestByWorker(w) \/ TaskRequestPanics(w))
            \/ /\ taskReply[w].TaskId # NoTask
               /\ TaskUpdateByWorker(w, WorkerID[w], taskReply[w].TaskId, taskReply[w].Type)

Handlers == /\ server \/ \E w \in Workers : Calls(w)
            /\ overlapped' = (overlapped \/ Overlap)
            /\ UNCHANGED pvars
-----------------------------------------------------------------------------
(* Done() reads c.phase without the lock; a torn read equals no phase name *)
(* and counts as not finished.                                             *)
Done == phase

(* Healthcheck, one tick of its 30 s ticker. *)
SyncTargets_OffByOne == {<<i + 1, workers[i].Port>> : i \in DOMAIN workers}

SyncTargets == {<<i, workers[i].Port>> : i \in DOMAIN workers}

HealthcheckTick ==
    /\ coord = "serving" /\ checker = "ticking"
    /\ IF Done = FinishedPhase
       THEN checker' = "returned" /\ UNCHANGED syncs
       ELSE /\ syncs' = syncs \cup SyncTargets
            /\ UNCHANGED checker
    /\ UNCHANGED <<cvars, mainPoint, currentPhase, overlapped>>

(* fmt.Sprintf("localhost:%d", port) with the string port: the verb does   *)
(* not apply to a string, and the result is not the port.                  *)
SprintfD(port) == <<"%!d(string=", port, ")">>

(* rpc.Dial reaches a worker that listens on that very port. *)
DialFails(addr) == \A w \in Workers : addr # <<w>>

(* A worker entry after the Ping call, as the code under the lock has it. *)
AfterPing(entry, err) ==
    IF err THEN IF entry.HeartBeatChecks = 3
                THEN [entry EXCEPT !.status = StatusError]
                ELSE [entry EXCEPT !.status = StateRetrying, !.HeartBeatChecks = @ + 1]
           ELSE [entry EXCEPT !.status = StateConnected, !.HeartBeatChecks = @ + 1]

(* WorkerSync for index i and the port it was started with.  An index      *)
(* past the end of c.workers, which the unlocked append can make shorter,  *)
(* panics.                                                                 *)
WorkerSync(i, port) ==
    /\ coord = "serving" /\ <<i, port>> \in syncs
    /\ syncs' = syncs \ {<<i, port>>}
    /\ IF i > Len(workers)
       THEN coord' = "dead" /\ UNCHANGED workers
       ELSE /\ IF DialFails(SprintfD(port))
               THEN workers' = [workers EXCEPT ![i] = [@ EXCEPT !.status = StateRetrying]]
               ELSE \E err \in BOOLEAN :
                       workers' = [workers EXCEPT ![i] = AfterPing(@, err)]
            /\ UNCHANGED coord
    /\ UNCHANGED <<phase, mapTasks, reduceTasks, registering, slice, taskReply,
                   updateReply, checker, mainPoint, currentPhase, overlapped>>
-----------------------------------------------------------------------------
(* main: currentPhase := m.Done() *)
MainRead == /\ coord # "dead" /\ mainPoint = "made"
            /\ currentPhase' = Done
            /\ mainPoint' = "loop"
            /\ UNCHANGED <<cvars, checker, syncs, overlapped>>

(* The loop tests the local variable, which no iteration assigns; an       *)
(* iteration prints a count of the workers and changes nothing.            *)
MainLoop == /\ coord # "dead" /\ mainPoint = "loop"
            /\ currentPhase = FinishedPhase
            /\ mainPoint' = "exited"
            /\ coord' = "dead"
            /\ UNCHANGED <<phase, mapTasks, reduceTasks, workers, registering, slice,
                           taskReply, updateReply, checker, syncs, currentPhase, overlapped>>
-----------------------------------------------------------------------------
PNext == \/ Handlers
         \/ HealthcheckTick
         \/ \E s \in syncs : WorkerSync(s[1], s[2])
         \/ MainRead
         \/ MainLoop

PSpec == PInit /\ [][PNext]_allvars

(* The goroutines of the process run; the workers need not call. *)
PFairSpec == /\ PSpec
             /\ WF_allvars(HealthcheckTick)
             /\ WF_allvars(\E s \in syncs : WorkerSync(s[1], s[2]))
             /\ WF_allvars(MainRead) /\ WF_allvars(MainLoop)
-----------------------------------------------------------------------------
RegistrationsKept == \A w \in Workers : registering[w] = "yes" => Registered(WorkerID[w])

(* As long as no two RegisterWorker calls overlap, no registration is lost *)
(* and nothing in the process indexes past the end of c.workers: neither   *)
(* the unlocked scan of a task request nor a WorkerSync goroutine started  *)
(* from an older copy of the list (the append at coordinator.go:34 is the  *)
(* only unlocked change of the list's length).                             *)
SequentialRegistrationSafe ==
    ~overlapped => RegistrationsKept /\ (coord = "dead" => mainPoint = "exited")

(* Once the job is finished main returns (test-mr.sh:98). *)
CoordinatorExits == phase = FinishedPhase ~> mainPoint = "exited"
=============================================================================
