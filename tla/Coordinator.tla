---------------------------- MODULE Coordinator ----------------------------
(***************************************************************************)
(* The coordinator of the MapReduce job (mr/coordinator.go, mr/types.go,   *)
(* mr/rpc.go): its task tables, its phase, its list of workers, and the    *)
(* RPC handlers that change them.                                          *)
(*                                                                         *)
(* net/rpc serves every call in a goroutine of its own.  A handler that    *)
(* holds c.mu from its first access to its return is one action.           *)
(* RegisterWorker takes no lock: its append is a read of the slice and a   *)
(* later store, with any other step in between.                            *)
(*                                                                         *)
(* CSpec leaves the callers open: a worker process may call any handler    *)
(* at any time with any task id, type and either its own id or none.       *)
(***************************************************************************)
EXTENDS Integers, Sequences, FiniteSets

CONSTANTS Workers,   \* the worker processes
          WorkerID,  \* WorkerID[w]: "worker-<UnixMicro>", not always distinct
          NoID,      \* the empty worker id ""
          NMap,      \* number of input files
          NReduce    \* nReduce of MakeCoordinator

ASSUME WorkerIDAssumption == /\ WorkerID \in [Workers -> {WorkerID[w] : w \in Workers}]
                             /\ \A w \in Workers : WorkerID[w] # NoID
ASSUME TaskCountAssumption == NMap \in Nat \ {0} /\ NReduce \in Nat \ {0}

VARIABLES coord,        \* the coordinator process: starting, serving, dead
          phase,        \* c.phase
          mapTasks,     \* c.mapTasks
          reduceTasks,  \* c.reduceTasks
          workers,      \* c.workers
          registering,  \* how far the RegisterWorker call of each process is
          slice,        \* the c.workers that call has read, until it stores
          taskReply,    \* last reply of TaskRequestByWorker to each process
          updateReply   \* last reply of TaskUpdateByWorker to each process

cvars == <<coord, phase, mapTasks, reduceTasks, workers, registering, slice,
           taskReply, updateReply>>

Ids == {WorkerID[w] : w \in Workers}

Waiting == "WAITING"
Pending == "PENDING"
DONE == "DONE"
Invalid == "INVALID"

MapTask == "MAP"
ReduceTask == "REDUCE"
NoType == ""

MapPhase == "MAP-PHASE"
ReducePhase == "REDUCE-PHASE"
FinishedPhase == "FINISHED-PHASE"
NoPhase == ""
Phases == {MapPhase, ReducePhase, FinishedPhase}

StateConnected == "CONNECTED"
StateRetrying == "RETRYING"
StatusError == "ERROR"

(* The id "task-<n>" is the number n; NoTask is the empty id. *)
NoTask == -1

Job == [taskId : Nat, status : {Waiting, Pending, DONE}, worker : Ids \cup {NoID},
        partition : Nat]

WorkerType == [workerId : Ids, status : {StateConnected, StateRetrying, StatusError},
               Port : Workers, HeartBeatChecks : Nat]

TaskRequestReply == [TaskId : Nat \cup {NoTask}, Type : {MapTask, ReduceTask, NoType},
                     TaskAvailable : BOOLEAN, Phase : Phases \cup {NoPhase},
                     Partition : Nat]

TaskUpdateReply == [Status : {Invalid, DONE}, Phase : Phases \cup {NoPhase}]

(* A WorkerTaskRequestReply in which only the phase was set, and its zero  *)
(* value, what a handler that returns early sends.                         *)
PhaseReply(p) == [TaskId |-> NoTask, Type |-> NoType, TaskAvailable |-> FALSE,
                  Phase |-> p, Partition |-> 0]

ZeroReply == PhaseReply(NoPhase)

InvalidReply == [Status |-> Invalid, Phase |-> NoPhase]

(* The types of the coordinator's fields and of the replies under way. *)
CTypeOK == /\ coord \in {"starting", "serving", "dead"}
           /\ phase \in Phases
           /\ mapTasks \in Seq(Job)
           /\ reduceTasks \in Seq(Job)
           /\ workers \in Seq(WorkerType)
           /\ registering \in [Workers -> {"no", "append", "yes"}]
           /\ slice \in [Workers -> Seq(WorkerType)]
           /\ taskReply \in [Workers -> TaskRequestReply]
           /\ updateReply \in [Workers -> TaskUpdateReply]
-----------------------------------------------------------------------------
(* Names with an underscore are mutated forms: the definition that follows *)
(* them with one plausible bug in it, for the properties to reject.        *)
NewTask(n, p) == [taskId |-> n, status |-> Waiting, worker |-> NoID, partition |-> p]

(* MakeCoordinator builds the map tasks before it starts the server. *)
MakeCoordinator == /\ coord = "starting"
                   /\ phase = MapPhase
                   /\ mapTasks = [i \in 1..NMap |-> NewTask(i - 1, 0)]
                   /\ reduceTasks = <<>>
                   /\ workers = <<>>

CInit == /\ MakeCoordinator
         /\ registering = [w \in Workers |-> "no"]
         /\ slice = [w \in Workers |-> <<>>]
         /\ taskReply = [w \in Workers |-> ZeroReply]
         /\ updateReply = [w \in Workers |-> InvalidReply]

(* server: from here on calls are accepted. *)
server == /\ coord = "starting"
          /\ coord' = "serving"
          /\ UNCHANGED <<phase, mapTasks, reduceTasks, workers, registering, slice,
                         taskReply, updateReply>>
-----------------------------------------------------------------------------
(* RegisterWorker: c.workers = append(c.workers, worker) without the lock. *)
NewWorker(w) == [workerId |-> WorkerID[w], status |-> StateConnected, Port |-> w,
                 HeartBeatChecks |-> 0]

RegisterWorkerRead(w) ==
    /\ coord = "serving"
    /\ registering[w] = "no"
    /\ registering' = [registering EXCEPT ![w] = "append"]
    /\ slice' = [slice EXCEPT ![w] = workers]
    /\ UNCHANGED <<coord, phase, mapTasks, reduceTasks, workers, taskReply, updateReply>>

RegisterWorkerStore(w) ==
    /\ coord = "serving"
    /\ registering[w] = "append"
    /\ registering' = [registering EXCEPT ![w] = "yes"]
    /\ workers' = Append(slice[w], NewWorker(w))
    /\ slice' = [slice EXCEPT ![w] = <<>>]
    /\ UNCHANGED <<coord, phase, mapTasks, reduceTasks, taskReply, updateReply>>
-----------------------------------------------------------------------------
FirstWaiting(tasks, i) == /\ tasks[i].status = Waiting
                          /\ \A j \in 1..(i - 1) : tasks[j].status # Waiting

NoneWaiting(tasks) == \A i \in DOMAIN tasks : tasks[i].status # Waiting

Assign_StillWaiting(tasks, i, id) == [tasks EXCEPT ![i] = [@ EXCEPT !.worker = id]]

Assign_NoOwner(tasks, i, id) == [tasks EXCEPT ![i] = [@ EXCEPT !.status = Pending]]

Assign_NoBreak(tasks, i, id) ==
    [j \in DOMAIN tasks |-> IF tasks[j].status = Waiting
                            THEN [tasks[j] EXCEPT !.status = Pending, !.worker = id]
                            ELSE tasks[j]]

Assign(tasks, i, id) == [tasks EXCEPT ![i] = [@ EXCEPT !.status = Pending, !.worker = id]]

Registered(id) == \E i \in DOMAIN workers : workers[i].workerId = id

(* With no map task waiting the reply stays the zero value, Phase included. *)
assignMapTask(w) ==
    /\ \/ \E i \in DOMAIN mapTasks :
             /\ FirstWaiting(mapTasks, i)
             /\ mapTasks' = Assign(mapTasks, i, WorkerID[w])
             /\ taskReply' = [taskReply EXCEPT ![w] =
                    [TaskId |-> mapTasks[i].taskId, Type |-> MapTask,
                     TaskAvailable |-> TRUE, Phase |-> phase, Partition |-> 0]]
       \/ /\ NoneWaiting(mapTasks)
          /\ taskReply' = [taskReply EXCEPT ![w] = ZeroReply]
          /\ UNCHANGED mapTasks
    /\ UNCHANGED reduceTasks

(* With no reduce task waiting the reply still carries the phase. *)
assignReduceTask(w) ==
    /\ \/ \E i \in DOMAIN reduceTasks :
             /\ FirstWaiting(reduceTasks, i)
             /\ reduceTasks' = Assign(reduceTasks, i, WorkerID[w])
             /\ taskReply' = [taskReply EXCEPT ![w] =
                    [TaskId |-> reduceTasks[i].taskId, Type |-> ReduceTask,
                     TaskAvailable |-> TRUE, Phase |-> phase,
                     Partition |-> reduceTasks[i].partition]]
       \/ /\ NoneWaiting(reduceTasks)
          /\ taskReply' = [taskReply EXCEPT ![w] = PhaseReply(phase)]
          /\ UNCHANGED reduceTasks
    /\ UNCHANGED mapTasks

TaskRequestByWorker(w) ==
    /\ coord = "serving"
    /\ \/ /\ ~Registered(WorkerID[w])
          /\ taskReply' = [taskReply EXCEPT ![w] = ZeroReply]
          /\ UNCHANGED <<mapTasks, reduceTasks>>
       \/ Registered(WorkerID[w]) /\ phase = MapPhase /\ assignMapTask(w)
       \/ Registered(WorkerID[w]) /\ phase = ReducePhase /\ assignReduceTask(w)
       \/ /\ Registered(WorkerID[w])
          /\ phase = FinishedPhase
          /\ taskReply' = [taskReply EXCEPT ![w] = PhaseReply(phase)]
          /\ UNCHANGED <<mapTasks, reduceTasks>>
    /\ UNCHANGED <<coord, phase, workers, registering, slice, updateReply>>

(* The scan for the caller in TaskRequestByWorker ranges over the length   *)
(* c.workers had when it began, and reloads c.workers at each index.  When *)
(* the unlocked store of a registration r makes the slice shorter after    *)
(* the scan has passed the indices below i, an index past the new end      *)
(* panics, and a panic in a handler ends the process.                      *)
TaskRequestPanics(w) ==
    /\ coord = "serving"
    /\ \E r \in Workers :
         LET stored == Append(slice[r], NewWorker(r))
         IN  /\ registering[r] = "append"
             /\ Len(stored) < Len(workers)
             /\ \E i \in 1..(Len(stored) + 1) :
                  /\ \A j \in 1..(i - 1) : workers[j].workerId # WorkerID[w]
                  /\ \A j \in i..Len(stored) : stored[j].workerId # WorkerID[w]
    /\ coord' = "dead"
    /\ UNCHANGED <<phase, mapTasks, reduceTasks, workers, registering, slice,
                   taskReply, updateReply>>
-----------------------------------------------------------------------------
(* TaskTransitionManager, called after the task's status was set: it reads *)
(* the task tables as the handler has left them.                           *)
NewReduceTasks == [i \in 1..NReduce |-> NewTask(i - 1, i - 1)]

TaskTransitionManager_WaitingOnly(t) ==
    \/ /\ t = MapTask
       /\ IF \E i \in DOMAIN mapTasks' : mapTasks'[i].status = Waiting
          THEN UNCHANGED <<phase, reduceTasks>>
          ELSE phase' = ReducePhase /\ reduceTasks' = reduceTasks \o NewReduceTasks
    \/ /\ t = ReduceTask
       /\ IF \A i \in DOMAIN reduceTasks' : reduceTasks'[i].status # Waiting
          THEN phase' = FinishedPhase
          ELSE UNCHANGED phase

TaskTransitionManager_MapOnly(t) ==
    \/ /\ t = MapTask
       /\ IF \E i \in DOMAIN mapTasks' : mapTasks'[i].status \in {Pending, Waiting}
          THEN UNCHANGED <<phase, reduceTasks>>
          ELSE phase' = ReducePhase /\ reduceTasks' = reduceTasks \o NewReduceTasks
    \/ t = ReduceTask /\ UNCHANGED phase

TaskTransitionManager(t) ==
    \/ /\ t = MapTask
       /\ IF \E i \in DOMAIN mapTasks' : mapTasks'[i].status \in {Pending, Waiting}
          THEN UNCHANGED <<phase, reduceTasks>>
          ELSE phase' = ReducePhase /\ reduceTasks' = reduceTasks \o NewReduceTasks
    \/ /\ t = ReduceTask
       /\ IF \A i \in DOMAIN reduceTasks' : reduceTasks'[i].status = DONE
          THEN phase' = FinishedPhase
          ELSE UNCHANGED phase

(* The index at which the loop over jobs stops. *)
FirstWithId(jobs, i, tid) == /\ jobs[i].taskId = tid
                             /\ \A j \in 1..(i - 1) : jobs[j].taskId # tid

Jobs(type) == IF type = MapTask THEN mapTasks ELSE reduceTasks

(* The branch of TaskUpdateByWorker that completes the i-th task. *)
SetDone(tasks, i) == [tasks EXCEPT ![i] = [@ EXCEPT !.status = DONE]]

CompleteTask_ReplyAfter(w, i, type) ==
    /\ \/ type = MapTask /\ mapTasks' = SetDone(mapTasks, i)
       \/ type = ReduceTask /\ reduceTasks' = SetDone(reduceTasks, i) /\ UNCHANGED mapTasks
    /\ TaskTransitionManager(type)
    /\ updateReply' = [updateReply EXCEPT ![w] = [Status |-> DONE, Phase |-> phase']]

(* The reply has the phase from before the transition. *)
CompleteTask(w, i, type) ==
    /\ \/ type = MapTask /\ mapTasks' = SetDone(mapTasks, i)
       \/ type = ReduceTask /\ reduceTasks' = SetDone(reduceTasks, i) /\ UNCHANGED mapTasks
    /\ updateReply' = [updateReply EXCEPT ![w] = [Status |-> DONE, Phase |-> phase]]
    /\ TaskTransitionManager(type)

(* Every return of TaskUpdateByWorker that changes no task. *)
RefuseUpdate(w, reply) == /\ updateReply' = [updateReply EXCEPT ![w] = reply]
                          /\ UNCHANGED <<phase, mapTasks, reduceTasks>>

MissingArgument_NoWorkerCheck(id, tid, type) == tid = NoTask \/ type \notin {MapTask, ReduceTask}

MissingArgument(id, tid, type) == \/ tid = NoTask
                                  \/ id = NoID
                                  \/ type \notin {MapTask, ReduceTask}

TaskUpdateByWorker(w, id, tid, type) ==
    /\ coord = "serving"
    /\ \/ /\ \/ MissingArgument(id, tid, type)
             \/ \A i \in DOMAIN Jobs(type) : Jobs(type)[i].taskId # tid
          /\ RefuseUpdate(w, InvalidReply)
       \/ /\ ~MissingArgument(id, tid, type)
          /\ \E i \in DOMAIN Jobs(type) :
               /\ FirstWithId(Jobs(type), i, tid)
               /\ \/ /\ Jobs(type)[i].worker # id
                     /\ RefuseUpdate(w, InvalidReply)
                  \/ /\ Jobs(type)[i].worker = id /\ Jobs(type)[i].status = DONE
                     /\ RefuseUpdate(w, [Status |-> DONE, Phase |-> NoPhase])
                  \/ /\ Jobs(type)[i].worker = id /\ Jobs(type)[i].status # DONE
                     /\ CompleteTask(w, i, type)
    /\ UNCHANGED <<coord, workers, registering, slice, taskReply>>
-----------------------------------------------------------------------------
AnyTaskId == {NoTask} \cup 0..(NMap + NReduce)

CNext == \/ server
         \/ \E w \in Workers :
              \/ RegisterWorkerRead(w)
              \/ RegisterWorkerStore(w)
              \/ TaskRequestByWorker(w)
              \/ TaskRequestPanics(w)
              \/ \E id \in {WorkerID[w], NoID}, tid \in AnyTaskId,
                    type \in {MapTask, ReduceTask, NoType} :
                   TaskUpdateByWorker(w, id, tid, type)

CSpec == CInit /\ [][CNext]_cvars
-----------------------------------------------------------------------------
Completed(tasks) == {tasks[i].taskId : i \in {k \in DOMAIN tasks : tasks[k].status = DONE}}

(* The phase says exactly how far the task tables are.  Map phase: a map   *)
(* task is unfinished and no reduce task exists.  Reduce phase: all map    *)
(* tasks are DONE, the reduce tasks were created exactly once and one is   *)
(* unfinished.  Finished: all are DONE.  (TaskTransitionManager runs under *)
(* the lock of the update that completes a task, whoever sends it.)        *)
PhaseMatchesTasks ==
    /\ phase = MapPhase => /\ reduceTasks = <<>>
                           /\ \E i \in DOMAIN mapTasks : mapTasks[i].status # DONE
    /\ phase # MapPhase => /\ \A i \in DOMAIN mapTasks : mapTasks[i].status = DONE
                           /\ Len(reduceTasks) = NReduce
    /\ phase = ReducePhase => \E i \in DOMAIN reduceTasks : reduceTasks[i].status # DONE
    /\ phase = FinishedPhase => \A i \in DOMAIN reduceTasks : reduceTasks[i].status = DONE

(* No reply of TaskUpdateByWorker carries FinishedPhase: the phase is read *)
(* before the transition, and no task is left to complete after it.  So    *)
(* the test `resultTaskUpdate.Phase != FinishedPhase` in the worker never  *)
(* stops its loop; only the next task request can.                         *)
UpdateNeverSaysFinished == \A w \in Workers : updateReply[w].Phase # FinishedPhase

(* One task over a step: it keeps its id and partition, it goes from       *)
(* Waiting to Pending to DONE and never back or past Pending, and its      *)
(* owner is recorded when it leaves Waiting and never changes afterwards.  *)
TaskStep(old, new) ==
    \/ new = old
    \/ /\ old.status = Waiting
       /\ new.worker \in Ids
       /\ new = [old EXCEPT !.status = Pending, !.worker = new.worker]
    \/ /\ old.status = Pending
       /\ new = [old EXCEPT !.status = DONE]

(* Whatever the callers send (an empty worker id included, which equals    *)
(* the owner of a task nobody was given), every task of both tables only   *)
(* ever makes a TaskStep, and no task disappears.                          *)
TaskLifecycle ==
    [][/\ \A i \in DOMAIN mapTasks : TaskStep(mapTasks[i], mapTasks'[i])
       /\ \A i \in DOMAIN reduceTasks : TaskStep(reduceTasks[i], reduceTasks'[i])]_cvars

(* The coordinator implements the abstract job. *)
Stage == CASE phase = MapPhase -> "map"
           [] phase = ReducePhase -> "reduce"
           [] phase = FinishedPhase -> "finished"

JobModule == INSTANCE MapReduceJob WITH stage <- Stage,
                                        mapsDone <- Completed(mapTasks),
                                        reducesDone <- Completed(reduceTasks)

(* Every handler step is a step of the abstract job or changes nothing of  *)
(* it: tasks complete once each, and both phase changes happen in the step *)
(* that completes the last task of the phase (coordinator.go:135-141).     *)
ImplementsJob == JobModule!JSpec
=============================================================================
