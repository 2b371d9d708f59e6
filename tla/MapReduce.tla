----------------------------- MODULE MapReduce -----------------------------
(***************************************************************************)
(* The running job: the coordinator composed with the worker processes of  *)
(* mr/worker.go and the files they share under mr-data/.                   *)
(*                                                                         *)
(* A worker is a chain of goroutines, one after the other: register,       *)
(* fetch a task, run it, report it, fetch again.  pc[w] is the point the   *)
(* chain of w has reached; it stays there when the process dies.           *)
(*                                                                         *)
(* A file is written in chunks.  os.Create empties it; a writer then       *)
(* writes chunk after chunk, each at its own offset, so two writers of one *)
(* file do not disturb each other's chunks, but the os.Create of one       *)
(* removes what the other has written.  Nothing clears mr-data/ between    *)
(* two jobs.                                                               *)
(*                                                                         *)
(* Names with an underscore and a suffix are mutated forms.                *)
(***************************************************************************)
EXTENDS Coordinator

CONSTANTS NChunks,    \* chunks in a file: how finely a write can be cut
          MaxCrashes  \* bound on the processes that die

ASSUME ChunkAssumption == NChunks \in Nat \ {0}
ASSUME CrashAssumption == MaxCrashes \in Nat

VARIABLES alive,    \* the worker processes that run
          pc,       \* the point each worker's chain has reached
          part,     \* partition of the file being read or written
          chunk,    \* next chunk to write
          input,    \* what ReducerTask read, or none
          inter,    \* mr-data/intermediate/mr-task-<n>-<p>: the chunks on disk
          output,   \* mr-data/output/mr-out-<p>: each chunk's input
          crashes   \* processes that died

wvars == <<alive, pc, part, chunk, input>>
files == <<inter, output>>
vars == <<cvars, wvars, files, crashes>>

Maps == 0..(NMap - 1)
Partitions == 0..(NReduce - 1)
Chunks == 1..NChunks

(* The task numbers of intermediate files.  NMap stands for every number   *)
(* from NMap on: files an earlier job with more inputs left, which no task *)
(* of this job writes.                                                     *)
FileTasks == 0..NMap

(* Chunk 0 of an intermediate file is what an earlier job left. *)
Stale == 0

(* What a chunk of output was computed from: the complete output of the    *)
(* map tasks, that and files of other task numbers, or less.  A chunk not  *)
(* written yet is "none", one of an earlier job "old".                     *)
Inputs == {"none", "exact", "mixed", "part"}

MapPoints == {"mapCreate", "mapWrite"}
ReducePoints == {"reduceRead", "reduceCreate", "reduceWrite"}
Points == {"new", "registering", "fetch", "update", "stopped"}
              \cup MapPoints \cup ReducePoints

(* The types of the state above. *)
TypeOK == /\ CTypeOK
          /\ alive \in [Workers -> BOOLEAN]
          /\ pc \in [Workers -> Points]
          /\ part \in [Workers -> Partitions]
          /\ chunk \in [Workers -> Chunks]
          /\ input \in [Workers -> Inputs]
          /\ inter \in [FileTasks \X Partitions -> SUBSET (Chunks \cup {Stale})]
          /\ output \in [Partitions -> [Chunks -> Inputs \cup {"old"}]]
          /\ crashes \in 0..MaxCrashes

Init == /\ CInit
        /\ alive = [w \in Workers |-> TRUE]
        /\ pc = [w \in Workers |-> "new"]
        /\ part = [w \in Workers |-> 0]
        /\ chunk = [w \in Workers |-> 1]
        /\ input = [w \in Workers |-> "none"]
        /\ \E left, more \in {{}, {Stale}} :
             /\ inter = [f \in FileTasks \X Partitions |-> IF f[1] = NMap THEN more ELSE left]
             /\ output = [p \in Partitions |->
                            [k \in Chunks |-> IF left = {} THEN "none" ELSE "old"]]
        /\ crashes = 0

GoTo(w, point) == pc' = [pc EXCEPT ![w] = point]
-----------------------------------------------------------------------------
(* WorkerRegistrationRequest.  The handler finishes even when its caller   *)
(* has died in the meantime.                                               *)
WorkerRegistrationRequest(w) ==
    /\ alive[w] /\ pc[w] = "new"
    /\ RegisterWorkerRead(w)
    /\ GoTo(w, "registering")
    /\ UNCHANGED <<alive, part, chunk, input, files, crashes>>

RegistrationReply(w) ==
    /\ RegisterWorkerStore(w)
    /\ GoTo(w, "fetch")
    /\ UNCHANGED <<alive, part, chunk, input, files, crashes>>

(* WorkerFetchTasks looks at the phase of the reply and at nothing else. *)
Dispatch(reply) == CASE reply.Phase = MapPhase -> "mapCreate"
                     [] reply.Phase = ReducePhase -> "reduceRead"
                     [] OTHER -> "stopped"

WorkerFetchTasks(w) ==
    /\ alive[w] /\ pc[w] = "fetch"
    /\ TaskRequestByWorker(w)
    /\ GoTo(w, Dispatch(taskReply'[w]))
    /\ part' = [part EXCEPT ![w] = taskReply'[w].Partition]
    /\ UNCHANGED <<alive, chunk, input, files, crashes>>
-----------------------------------------------------------------------------
(* MapperTask: the files of partitions 0, 1, ... one after the other. *)
MapperCreate(w) ==
    /\ alive[w] /\ pc[w] = "mapCreate"
    /\ inter' = [inter EXCEPT ![<<taskReply[w].TaskId, part[w]>>] = {}]
    /\ GoTo(w, "mapWrite")
    /\ UNCHANGED <<cvars, alive, part, chunk, input, output, crashes>>

LastPartition_Inclusive(p) == p = NReduce

LastPartition(p) == p + 1 = NReduce

MapperWrite(w) ==
    /\ alive[w] /\ pc[w] = "mapWrite"
    /\ inter' = [inter EXCEPT ![<<taskReply[w].TaskId, part[w]>>] = @ \cup {chunk[w]}]
    /\ \/ /\ chunk[w] < NChunks
          /\ chunk' = [chunk EXCEPT ![w] = @ + 1]
          /\ UNCHANGED <<pc, part>>
       \/ /\ chunk[w] = NChunks /\ ~LastPartition(part[w])
          /\ chunk' = [chunk EXCEPT ![w] = 1]
          /\ part' = [part EXCEPT ![w] = @ + 1]
          /\ GoTo(w, "mapCreate")
       \/ /\ chunk[w] = NChunks /\ LastPartition(part[w])
          /\ chunk' = [chunk EXCEPT ![w] = 1]
          /\ GoTo(w, "update")
          /\ UNCHANGED part
    /\ UNCHANGED <<cvars, alive, input, output, crashes>>

(* ReducerTask: read the partition's intermediate files, then create and   *)
(* write mr-out-<partition>.  The glob mr-task-*-<partition> takes the     *)
(* files of all task numbers.                                              *)
Full(p) == IF inter[<<NMap, p>>] = {} THEN "exact" ELSE "mixed"

ReducerRead(w) ==
    /\ alive[w] /\ pc[w] = "reduceRead"
    /\ input' = [input EXCEPT ![w] = IF \A m \in Maps : inter[<<m, part[w]>>] = Chunks
                                     THEN Full(part[w]) ELSE "part"]
    /\ GoTo(w, "reduceCreate")
    /\ UNCHANGED <<cvars, alive, part, chunk, files, crashes>>

ReducerCreate_ReportsFirst(w) ==
    /\ alive[w] /\ pc[w] = "reduceCreate"
    /\ output' = [output EXCEPT ![part[w]] = [k \in Chunks |-> "none"]]
    /\ GoTo(w, "update")
    /\ UNCHANGED <<cvars, alive, part, chunk, input, inter, crashes>>

ReducerCreate(w) ==
    /\ alive[w] /\ pc[w] = "reduceCreate"
    /\ output' = [output EXCEPT ![part[w]] = [k \in Chunks |-> "none"]]
    /\ GoTo(w, "reduceWrite")
    /\ UNCHANGED <<cvars, alive, part, chunk, input, inter, crashes>>

ReducerWrite(w) ==
    /\ alive[w] /\ pc[w] = "reduceWrite"
    /\ output' = [output EXCEPT ![part[w]][chunk[w]] = input[w]]
    /\ \/ /\ chunk[w] < NChunks
          /\ chunk' = [chunk EXCEPT ![w] = @ + 1]
          /\ UNCHANGED pc
       \/ /\ chunk[w] = NChunks
          /\ chunk' = [chunk EXCEPT ![w] = 1]
          /\ GoTo(w, "update")
    /\ UNCHANGED <<cvars, alive, part, input, inter, crashes>>

(* DoWorkerTaskUpdate; its caller's locals are gone when it returns. *)
FetchAgain_MapPhaseOnly(reply) == reply.Phase = MapPhase

FetchAgain(reply) == reply.Phase # FinishedPhase

DoWorkerTaskUpdate(w) ==
    /\ alive[w] /\ pc[w] = "update"
    /\ TaskUpdateByWorker(w, WorkerID[w], taskReply[w].TaskId, taskReply[w].Type)
    /\ GoTo(w, IF FetchAgain(updateReply'[w]) THEN "fetch" ELSE "stopped")
    /\ part' = [part EXCEPT ![w] = 0]
    /\ input' = [input EXCEPT ![w] = "none"]
    /\ UNCHANGED <<alive, chunk, files, crashes>>
-----------------------------------------------------------------------------
(* call: a failed Dial ends the process (log.Fatal); a connection that     *)
(* breaks during the call makes it return false, which ends the chain.     *)
DialFails(w) ==
    /\ alive[w] /\ pc[w] \in {"new", "fetch", "update"}
    /\ coord # "serving"
    /\ alive' = [alive EXCEPT ![w] = FALSE]
    /\ UNCHANGED <<cvars, pc, part, chunk, input, files, crashes>>

CallBreaks(w) ==
    /\ alive[w] /\ pc[w] \in {"registering", "fetch", "update"}
    /\ coord = "dead"
    /\ GoTo(w, "stopped")
    /\ UNCHANGED <<cvars, alive, part, chunk, input, files, crashes>>

(* A worker dies: killed, log.Fatal on a file error, or an application     *)
(* that exits as mrapps/crash.go does.                                     *)
WorkerCrash(w) ==
    /\ alive[w] /\ crashes < MaxCrashes
    /\ alive' = [alive EXCEPT ![w] = FALSE]
    /\ crashes' = crashes + 1
    /\ UNCHANGED <<cvars, pc, part, chunk, input, files>>

(* The coordinator dies: killed, or by the panic TaskRequestPanics of      *)
(* Coordinator, which this action stands for at any moment.  Nothing it    *)
(* held is on disk and nothing restarts.                                   *)
CoordinatorCrash ==
    /\ coord = "serving" /\ crashes < MaxCrashes
    /\ coord' = "dead"
    /\ crashes' = crashes + 1
    /\ UNCHANGED <<phase, mapTasks, reduceTasks, workers, registering, slice,
                   taskReply, updateReply, wvars, files>>

Listen == server /\ UNCHANGED <<wvars, files, crashes>>

WorkerStep(w) == \/ WorkerRegistrationRequest(w) \/ RegistrationReply(w)
                 \/ WorkerFetchTasks(w)
                 \/ MapperCreate(w) \/ MapperWrite(w)
                 \/ ReducerRead(w) \/ ReducerCreate(w) \/ ReducerWrite(w)
                 \/ DoWorkerTaskUpdate(w)
                 \/ DialFails(w) \/ CallBreaks(w)

Next == \/ Listen
        \/ CoordinatorCrash
        \/ \E w \in Workers : WorkerStep(w) \/ WorkerCrash(w)

Spec == Init /\ [][Next]_vars

(* Goroutines that can run do run, on both sides; nothing has to crash. *)
Fairness == WF_vars(Listen) /\ \A w \in Workers : WF_vars(WorkerStep(w))

FairSpec == Spec /\ Fairness
-----------------------------------------------------------------------------
Running == MapPoints \cup ReducePoints \cup {"update"}

(* w runs, or died running, a task the coordinator gave it. *)
Holds(w) == pc[w] \in Running /\ taskReply[w].TaskId # NoTask

(* w runs ReducerTask on a reply with no task in it. *)
Reruns(w) == pc[w] \in ReducePoints /\ taskReply[w].TaskId = NoTask

Held(w) == Jobs(taskReply[w].Type)[taskReply[w].TaskId + 1]

(* No two workers run the same task, dead workers included, whatever ids   *)
(* they have: the lock of TaskRequestByWorker (coordinator.go:204-213).    *)
ExclusiveTask ==
    \A v, w \in Workers :
        v # w /\ Holds(v) /\ Holds(w) =>
            \/ taskReply[v].Type # taskReply[w].Type
            \/ taskReply[v].TaskId # taskReply[w].TaskId

(* The coordinator's record agrees with the worker for as long as the      *)
(* worker runs the task: the task is Pending, its owner is the worker and  *)
(* the phase has not moved on.  So TaskUpdateByWorker never refuses a      *)
(* worker that reports a task it was given.                                *)
HolderIsOwner ==
    \A w \in Workers : Holds(w) =>
        /\ Held(w).status = Pending
        /\ Held(w).worker = WorkerID[w]
        /\ phase = IF taskReply[w].Type = MapTask THEN MapPhase ELSE ReducePhase

(* Conversely, while the coordinator runs, a Pending task always has a     *)
(* worker that runs it or died with it; none is lost in a reply.           *)
PendingHasHolder ==
    coord # "dead" => \A type \in {MapTask, ReduceTask} : \A i \in DOMAIN Jobs(type) :
        Jobs(type)[i].status = Pending =>
            \E w \in Workers : /\ Holds(w)
                               /\ taskReply[w].Type = type
                               /\ taskReply[w].TaskId = i - 1

(* A worker about to read the intermediate files of a partition finds the  *)
(* complete output of every map task of this job there: under its task     *)
(* number nothing that a dead mapper left unfinished, and nothing of an    *)
(* earlier job.  Also when it was given no task.  That it reads no other   *)
(* file is not claimed: the glob of worker.go:210 takes those of higher    *)
(* task numbers too, and nothing removes them.                             *)
ReducerReadsCompleteInput ==
    \A w \in Workers : pc[w] = "reduceRead" =>
        \A m \in Maps : inter[<<m, part[w]>>] = Chunks

(* From the reduce phase on no intermediate file is opened for writing, so *)
(* a reducer that reads them one after the other sees one state of them.   *)
IntermediateFrozen == [][phase # MapPhase => inter' = inter]_vars

(* Once its task is DONE, an output file has all its chunks, each computed *)
(* from the complete output of every map task (and from the files that an  *)
(* earlier job with more inputs left, exactly when there are any), or is   *)
(* mr-out-0 and a worker without a task is rewriting it or died doing so.  *)
OutputComplete(p) == \A k \in Chunks : output[p][k] = Full(p)

DoneOutputComplete ==
    \A i \in DOMAIN reduceTasks :
        reduceTasks[i].status = DONE =>
            \/ OutputComplete(i - 1)
            \/ i = 1 /\ \E w \in Workers : Reruns(w) /\ pc[w] = "reduceWrite"

(* Finished means that all output files are final, as test-mr.sh:226-227   *)
(* has it ("i.e., all output files have been finalized").                  *)
FinishedOutputFinal == phase = FinishedPhase => \A p \in Partitions : OutputComplete(p)

RegistrationsKept == \A w \in Workers : registering[w] = "yes" => Registered(WorkerID[w])

(* Nothing can finish the job any more. *)
Abandoned == \/ coord = "dead"
             \/ \A w \in Workers : ~alive[w] \/ pc[w] = "stopped"
             \/ \E w \in Workers : ~alive[w] /\ Holds(w)

(* The job finishes unless the coordinator died, every worker stopped, or  *)
(* a worker died with a task: nothing else makes it hang.                  *)
FinishesUnlessAbandoned == <>(phase = FinishedPhase \/ Abandoned)

(* When no process dies and the unlocked append loses no registration, the *)
(* job finishes, although workers that find no map task waiting stop for   *)
(* good: the one that completes the last map task goes on.                 *)
JobFinishes ==
    [](coord # "dead" /\ RegistrationsKept /\ \A w \in Workers : alive[w])
        => <>(phase = FinishedPhase)
=============================================================================
