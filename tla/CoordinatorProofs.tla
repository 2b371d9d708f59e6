------------------------- MODULE CoordinatorProofs -------------------------
(***************************************************************************)
(* Proofs about Coordinator, for any number of workers, map tasks and      *)
(* reduce tasks: the inductive invariant, that each handler keeps it       *)
(* whoever calls it and with whatever arguments, what a step may do to a   *)
(* task, and that the coordinator implements MapReduceJob.                 *)
(***************************************************************************)
EXTENDS Coordinator, TLAPS

(* A task table of n tasks: the task at index i has id i - 1, and has an   *)
(* owner exactly when it is not Waiting.                                   *)
Table(tasks, n) ==
    /\ tasks \in [1..n -> Job]
    /\ \A i \in 1..n : /\ tasks[i].taskId = i - 1
                       /\ tasks[i].status = Waiting <=> tasks[i].worker = NoID

(* The tables alone: what the updates of one task and the creation of the  *)
(* reduce tasks must keep.                                                 *)
Tables == /\ Table(mapTasks, NMap)
          /\ reduceTasks = <<>> \/ Table(reduceTasks, NReduce)
          /\ \A i \in DOMAIN reduceTasks : reduceTasks[i].partition = i - 1

(* The inductive invariant.  PhaseMatchesTasks alone is not inductive: a   *)
(* table with a repeated task id would let one update complete another     *)
(* task, and the lengths of the tables decide when a phase ends.           *)
CInv == /\ CTypeOK
        /\ Tables
        /\ PhaseMatchesTasks
        /\ UpdateNeverSaysFinished

(* Distinct names of the statuses, phases and types. *)
LEMMA Names ==
    /\ Waiting # Pending /\ Waiting # DONE /\ Pending # DONE
    /\ MapPhase # ReducePhase /\ MapPhase # FinishedPhase /\ ReducePhase # FinishedPhase
    /\ NoPhase # FinishedPhase /\ MapTask # ReduceTask
BY Zenon DEF Waiting, Pending, DONE, MapPhase, ReducePhase, FinishedPhase, NoPhase, MapTask,
       ReduceTask

(* The empty id is no worker's id. *)
LEMMA IdsFact == /\ NoID \notin Ids
                 /\ \A w \in Workers : WorkerID[w] \in Ids
BY WorkerIDAssumption, Zenon DEF Ids

(* A table is a sequence of n jobs. *)
LEMMA TableIsSeq ==
    ASSUME NEW tasks, NEW n \in Nat, Table(tasks, n)
    PROVE  tasks \in Seq(Job) /\ Len(tasks) = n /\ DOMAIN tasks = 1..n
<1>1. tasks \in [1..n -> Job]
  BY Zenon DEF Table
<1>2. tasks \in Seq(Job)
  BY SMT, <1>1
<1> QED
  BY SMT, <1>1, <1>2

(* The table MakeCoordinator builds, and the one the transition builds. *)
LEMMA NewTables ==
    /\ Table([i \in 1..NMap |-> NewTask(i - 1, 0)], NMap)
    /\ Table(NewReduceTasks, NReduce)
    /\ \A i \in 1..NReduce : NewReduceTasks[i].partition = i - 1
    /\ \A i \in 1..NReduce : NewReduceTasks[i].status = Waiting
    /\ \A i \in 1..NMap : [j \in 1..NMap |-> NewTask(j - 1, 0)][i].status = Waiting
BY TaskCountAssumption DEF Table, NewReduceTasks, NewTask, Job

(* Giving a Waiting task to a worker keeps a table a table. *)
LEMMA AssignTable ==
    ASSUME NEW tasks, NEW n \in Nat, Table(tasks, n), NEW i \in 1..n, NEW id \in Ids
    PROVE  /\ Table(Assign(tasks, i, id), n)
           /\ \A j \in 1..n : /\ j # i => Assign(tasks, i, id)[j] = tasks[j]
                              /\ Assign(tasks, i, id)[j].partition = tasks[j].partition
           /\ Assign(tasks, i, id)[i].status = Pending
           /\ Assign(tasks, i, id)[i].worker = id
BY ZenonT(60), IdsFact, Names DEF Table, Assign, Job

(* So does completing a task that has an owner. *)
LEMMA DoneTable ==
    ASSUME NEW tasks, NEW n \in Nat, Table(tasks, n), NEW i \in 1..n,
           tasks[i].status = Pending
    PROVE  /\ Table(SetDone(tasks, i), n)
           /\ \A j \in 1..n : /\ j # i => SetDone(tasks, i)[j] = tasks[j]
                              /\ SetDone(tasks, i)[j].partition = tasks[j].partition
           /\ SetDone(tasks, i)[i].status = DONE
BY Names DEF Table, SetDone, Job

(* The two tables as sequences. *)
LEMMA TablesAreSeqs ==
    ASSUME Tables
    PROVE  /\ mapTasks \in Seq(Job) /\ DOMAIN mapTasks = 1..NMap
           /\ reduceTasks \in Seq(Job) /\ DOMAIN reduceTasks = 1..Len(reduceTasks)
           /\ reduceTasks # <<>> => DOMAIN reduceTasks = 1..NReduce
           /\ Len(reduceTasks) = IF reduceTasks = <<>> THEN 0 ELSE NReduce
<1>1. mapTasks \in Seq(Job) /\ DOMAIN mapTasks = 1..NMap
  BY TableIsSeq, TaskCountAssumption, Zenon DEF Tables
<1>2. CASE reduceTasks = <<>>
  BY <1>1, <1>2
<1>3. CASE reduceTasks # <<>>
  BY <1>1, <1>3, TableIsSeq, TaskCountAssumption, Zenon DEF Tables
<1> QED
  BY <1>2, <1>3, Zenon

(* The same in the next state. *)
LEMMA TablesAreSeqsNext ==
    ASSUME Tables'
    PROVE  /\ mapTasks' \in Seq(Job) /\ DOMAIN mapTasks' = 1..NMap
           /\ reduceTasks' \in Seq(Job) /\ DOMAIN reduceTasks' = 1..Len(reduceTasks')
           /\ reduceTasks' # <<>> => DOMAIN reduceTasks' = 1..NReduce
           /\ Len(reduceTasks') = IF reduceTasks' = <<>> THEN 0 ELSE NReduce
<1>1. mapTasks' \in Seq(Job) /\ DOMAIN mapTasks' = 1..NMap
  BY TableIsSeq, TaskCountAssumption, Zenon DEF Tables
<1>2. CASE reduceTasks' = <<>>
  BY <1>1, <1>2
<1>3. CASE reduceTasks' # <<>>
  BY <1>1, <1>3, TableIsSeq, TaskCountAssumption, Zenon DEF Tables
<1> QED
  BY <1>2, <1>3, Zenon
-----------------------------------------------------------------------------
(* The coordinator starts in the invariant. *)
LEMMA InitCInv == CInit => CInv
<1> SUFFICES ASSUME CInit PROVE CInv
  OBVIOUS
<1>1. Tables
  BY NewTables DEF CInit, MakeCoordinator, Tables
<1>2. CTypeOK
  BY <1>1, TablesAreSeqs
  DEF CInit, MakeCoordinator, CTypeOK, Phases, ZeroReply, PhaseReply, InvalidReply, TaskRequestReply,
      TaskUpdateReply
<1>3. PhaseMatchesTasks
  <2>1. phase = MapPhase /\ reduceTasks = <<>>
    BY Zenon DEF CInit, MakeCoordinator
  <2>2. 1 \in DOMAIN mapTasks /\ mapTasks[1].status # DONE
    BY Names, TaskCountAssumption DEF CInit, MakeCoordinator, NewTask
  <2> QED
    BY <2>1, <2>2, Names, Zenon DEF PhaseMatchesTasks
<1>4. UpdateNeverSaysFinished
  BY Names, Zenon DEF CInit, UpdateNeverSaysFinished, InvalidReply
<1> QED
  BY <1>1, <1>2, <1>3, <1>4, Zenon DEF CInv

(* A step that leaves the tables, the phase and the update replies alone   *)
(* keeps the invariant when it keeps the types.                            *)
LEMMA FrameCInv ==
    ASSUME CInv, CTypeOK',
           UNCHANGED <<phase, mapTasks, reduceTasks, updateReply>>
    PROVE  CInv'
BY Zenon DEF CInv, Tables, PhaseMatchesTasks, UpdateNeverSaysFinished, Table

(* server and both halves of RegisterWorker keep the invariant. *)
LEMMA RegistrationCInv ==
    ASSUME CInv,
           \/ server
           \/ \E w \in Workers : \/ RegisterWorkerRead(w) \/ RegisterWorkerStore(w)
                                 \/ TaskRequestPanics(w)
    PROVE  CInv'
<1>1. CTypeOK'
  <2>1. CASE server
    BY <2>1, Zenon DEF server, CInv, CTypeOK
  <2>2. ASSUME NEW w \in Workers, RegisterWorkerRead(w) PROVE CTypeOK'
    BY <2>2, Zenon DEF RegisterWorkerRead, CInv, CTypeOK
  <2>3. ASSUME NEW w \in Workers, RegisterWorkerStore(w) PROVE CTypeOK'
    <3>1. NewWorker(w) \in WorkerType
      BY IdsFact, Zenon DEF NewWorker, WorkerType
    <3>2. Append(slice[w], NewWorker(w)) \in Seq(WorkerType)
      BY <3>1 DEF CInv, CTypeOK
    <3> QED
      BY <2>3, <3>2 DEF RegisterWorkerStore, CInv, CTypeOK
  <2>4. ASSUME NEW w \in Workers, TaskRequestPanics(w) PROVE CTypeOK'
    BY <2>4, Zenon DEF TaskRequestPanics, CInv, CTypeOK
  <2> QED
    BY <2>1, <2>2, <2>3, <2>4, Zenon
<1>2. UNCHANGED <<phase, mapTasks, reduceTasks, updateReply>>
  BY Zenon DEF server, RegisterWorkerRead, RegisterWorkerStore, TaskRequestPanics
<1> QED
  BY <1>1, <1>2, FrameCInv, Zenon

(* TaskRequestByWorker keeps the invariant: it changes the status of one   *)
(* Waiting task of the table of the current phase, never to DONE.          *)
LEMMA RequestCInv ==
    ASSUME CInv, NEW w \in Workers, TaskRequestByWorker(w)
    PROVE  CInv'
<1> DEFINE id == WorkerID[w]
<1>0. /\ CTypeOK /\ Tables /\ PhaseMatchesTasks /\ UpdateNeverSaysFinished
      /\ id \in Ids
      /\ UNCHANGED <<coord, phase, workers, registering, slice, updateReply>>
  BY IdsFact, Zenon DEF CInv, TaskRequestByWorker
<1> DEFINE Quiet == /\ UNCHANGED <<mapTasks, reduceTasks>>
                    /\ \E p \in Phases \cup {NoPhase} :
                         taskReply' = [taskReply EXCEPT ![w] = PhaseReply(p)]
<1>1. CASE Quiet
  <2>1. CTypeOK'
    BY <1>0, <1>1 DEF CTypeOK, PhaseReply, TaskRequestReply
  <2> QED
    BY <2>1, <1>0, <1>1, FrameCInv, Zenon
<1>2. ASSUME phase = MapPhase, UNCHANGED reduceTasks, NEW i \in DOMAIN mapTasks,
             FirstWaiting(mapTasks, i),
             mapTasks' = Assign(mapTasks, i, id),
             taskReply' = [taskReply EXCEPT ![w] =
                    [TaskId |-> mapTasks[i].taskId, Type |-> MapTask,
                     TaskAvailable |-> TRUE, Phase |-> phase, Partition |-> 0]]
      PROVE  CInv'
  <2>0. i \in 1..NMap /\ DOMAIN mapTasks = 1..NMap
    BY <1>0, <1>2, TablesAreSeqs, Zenon
  <2>1. /\ Table(mapTasks', NMap)
        /\ \A j \in 1..NMap : j # i => mapTasks'[j] = mapTasks[j]
        /\ mapTasks'[i].status = Pending
    <3>1. NMap \in Nat /\ Table(mapTasks, NMap) /\ i \in 1..NMap /\ id \in Ids
      BY <1>0, <1>2, <2>0, TaskCountAssumption, Zenon DEF Tables
    <3>2. /\ Table(Assign(mapTasks, i, id), NMap)
          /\ \A j \in 1..NMap : /\ j # i => Assign(mapTasks, i, id)[j] = mapTasks[j]
                                /\ Assign(mapTasks, i, id)[j].partition = mapTasks[j].partition
          /\ Assign(mapTasks, i, id)[i].status = Pending
          /\ Assign(mapTasks, i, id)[i].worker = id
      BY <3>1, AssignTable
    <3> QED
      BY <1>2, <3>2, Zenon
  <2>2. Tables'
    BY <1>0, <1>2, <2>1 DEF Tables, Table
  <2>3. CTypeOK'
    <3>1. mapTasks[i].taskId \in Nat
      BY <1>0, <2>0, Zenon DEF Tables, Table, Job
    <3> QED
      BY <1>0, <1>2, <2>2, <3>1, TablesAreSeqsNext, Zenon DEF CTypeOK, TaskRequestReply
  <2>4. PhaseMatchesTasks'
    <3>1. i \in DOMAIN mapTasks' /\ mapTasks'[i].status # DONE
      BY <2>0, <2>1, <2>2, TablesAreSeqsNext, Names, Zenon
    <3> QED
      BY <1>0, <1>2, <3>1, Names, Zenon DEF PhaseMatchesTasks
  <2> QED
    BY <1>0, <2>2, <2>3, <2>4, Zenon DEF CInv, UpdateNeverSaysFinished
<1>3. ASSUME phase = ReducePhase, UNCHANGED mapTasks, NEW i \in DOMAIN reduceTasks,
             FirstWaiting(reduceTasks, i),
             reduceTasks' = Assign(reduceTasks, i, id),
             taskReply' = [taskReply EXCEPT ![w] =
                    [TaskId |-> reduceTasks[i].taskId, Type |-> ReduceTask,
                     TaskAvailable |-> TRUE, Phase |-> phase,
                     Partition |-> reduceTasks[i].partition]]
      PROVE  CInv'
  <2>0. i \in 1..NReduce /\ DOMAIN reduceTasks = 1..NReduce /\ Table(reduceTasks, NReduce)
    BY <1>0, <1>3, TablesAreSeqs DEF Tables
  <2>1. /\ Table(reduceTasks', NReduce)
        /\ \A j \in 1..NReduce : reduceTasks'[j].partition = reduceTasks[j].partition
        /\ reduceTasks'[i].status = Pending
    <3>1. NReduce \in Nat /\ Table(reduceTasks, NReduce) /\ i \in 1..NReduce /\ id \in Ids
      BY <1>0, <1>3, <2>0, TaskCountAssumption, Zenon
    <3>2. /\ Table(Assign(reduceTasks, i, id), NReduce)
          /\ \A j \in 1..NReduce : /\ j # i => Assign(reduceTasks, i, id)[j] = reduceTasks[j]
                                /\ Assign(reduceTasks, i, id)[j].partition = reduceTasks[j].partition
          /\ Assign(reduceTasks, i, id)[i].status = Pending
          /\ Assign(reduceTasks, i, id)[i].worker = id
      BY <3>1, AssignTable
    <3> QED
      BY <1>3, <3>2, Zenon
  <2>2. DOMAIN reduceTasks' = 1..NReduce /\ Len(reduceTasks') = NReduce
    BY <2>1, TableIsSeq, TaskCountAssumption, Zenon
  <2>3. Tables'
    BY <1>0, <1>3, <2>0, <2>1, <2>2, Zenon DEF Tables, Table
  <2>4. CTypeOK'
    <3>1. reduceTasks[i].taskId \in Nat /\ reduceTasks[i].partition \in Nat
      BY <2>0, Zenon DEF Table, Job
    <3> QED
      BY Zenon, <1>0, <1>3, <2>3, <3>1, TablesAreSeqsNext DEF CTypeOK, TaskRequestReply
  <2>5. PhaseMatchesTasks'
    <3>1. i \in DOMAIN reduceTasks' /\ reduceTasks'[i].status # DONE
      BY <2>0, <2>1, <2>2, Names
    <3> QED
      BY <1>0, <1>3, <2>2, <3>1, Names, Zenon DEF PhaseMatchesTasks
  <2> QED
    BY <1>0, <2>3, <2>4, <2>5, Zenon DEF CInv, UpdateNeverSaysFinished
<1>4. ZeroReply = PhaseReply(NoPhase)
  BY Zenon DEF ZeroReply
<1>5. phase \in Phases
  BY <1>0, Zenon DEF CTypeOK
<1>6. CASE ~Registered(id)
  BY <1>6, <1>4, <1>1, Zenon DEF TaskRequestByWorker
<1>7. CASE Registered(id) /\ phase = MapPhase /\ assignMapTask(w)
  BY <1>7, <1>4, <1>1, <1>2, Zenon DEF assignMapTask
<1>8. CASE Registered(id) /\ phase = ReducePhase /\ assignReduceTask(w)
  BY <1>8, <1>5, <1>1, <1>3, Zenon DEF assignReduceTask
<1>9. CASE Registered(id) /\ phase = FinishedPhase
  BY <1>9, <1>5, <1>1, Names, Zenon DEF TaskRequestByWorker
<1> QED
  BY <1>6, <1>7, <1>8, <1>9, Zenon DEF TaskRequestByWorker

(* Concatenation to an empty table. *)
LEMMA EmptyConcat ==
    reduceTasks = <<>> => reduceTasks \o NewReduceTasks = NewReduceTasks
<1>1. NewReduceTasks \in Seq(Job)
  BY NewTables, TableIsSeq, TaskCountAssumption, Zenon
<1> QED
  BY <1>1

(* What the branch that completes a task does: the task was Pending in the *)
(* table of the current phase, and exactly that task becomes DONE.         *)
LEMMA CompleteFacts ==
    ASSUME CInv, NEW w \in Workers, NEW type \in {MapTask, ReduceTask},
           NEW i \in DOMAIN Jobs(type), Jobs(type)[i].worker # NoID,
           Jobs(type)[i].status # DONE, CompleteTask(w, i, type)
    PROVE  /\ Jobs(type)[i].status = Pending
           /\ type = MapTask =>
                /\ phase = MapPhase /\ i \in 1..NMap /\ reduceTasks = <<>>
                /\ mapTasks' = SetDone(mapTasks, i)
                /\ \/ /\ \E j \in 1..NMap : mapTasks'[j].status # DONE
                      /\ UNCHANGED <<phase, reduceTasks>>
                   \/ /\ \A j \in 1..NMap : mapTasks'[j].status = DONE
                      /\ phase' = ReducePhase /\ reduceTasks' = NewReduceTasks
           /\ type = ReduceTask =>
                /\ phase = ReducePhase /\ i \in 1..NReduce /\ Table(reduceTasks, NReduce)
                /\ reduceTasks' = SetDone(reduceTasks, i) /\ UNCHANGED mapTasks
                /\ \/ /\ \E j \in 1..NReduce : reduceTasks'[j].status # DONE
                      /\ UNCHANGED phase
                   \/ /\ \A j \in 1..NReduce : reduceTasks'[j].status = DONE
                      /\ phase' = FinishedPhase
<1>0. CTypeOK /\ Tables /\ PhaseMatchesTasks /\ phase \in {MapPhase, ReducePhase, FinishedPhase}
  BY Zenon DEF CInv, CTypeOK, Phases
<1>1. CASE type = MapTask
  <2>1. Jobs(type) = mapTasks /\ i \in 1..NMap /\ Table(mapTasks, NMap)
    BY ZenonT(30), <1>0, <1>1, TablesAreSeqs DEF Jobs, Tables
  <2>2. mapTasks[i].status = Pending
    BY <2>1, Zenon DEF Table, Job
  <2>3. phase = MapPhase /\ reduceTasks = <<>>
    BY <1>0, <2>1, TablesAreSeqs, Zenon DEF PhaseMatchesTasks
  <2>4. mapTasks' = SetDone(mapTasks, i) /\ TaskTransitionManager(MapTask)
    BY <1>1, Names, Zenon DEF CompleteTask
  <2>5. Table(mapTasks', NMap) /\ DOMAIN mapTasks' = 1..NMap
    BY <2>1, <2>2, <2>4, DoneTable, TableIsSeq, TaskCountAssumption
  <2>6. \A j \in 1..NMap : mapTasks'[j].status \in {Pending, Waiting} <=> mapTasks'[j].status # DONE
    BY <2>5, Names, Zenon DEF Table, Job
  <2>7. IF \E j \in 1..NMap : mapTasks'[j].status # DONE
        THEN UNCHANGED <<phase, reduceTasks>>
        ELSE phase' = ReducePhase /\ reduceTasks' = reduceTasks \o NewReduceTasks
    BY <2>4, <2>5, <2>6, Names, Zenon DEF TaskTransitionManager
  <2> QED
    BY <1>1, <2>1, <2>2, <2>3, <2>4, <2>7, EmptyConcat, Names, Zenon
<1>2. CASE type = ReduceTask
  <2>0. Jobs(type) = reduceTasks /\ reduceTasks # <<>>
    BY <1>2, Names DEF Jobs
  <2>1. i \in 1..NReduce /\ Table(reduceTasks, NReduce) /\ DOMAIN reduceTasks = 1..NReduce
    BY <1>0, <2>0, TablesAreSeqs, Zenon DEF Tables
  <2>2. reduceTasks[i].status = Pending
    BY <2>0, <2>1, Zenon DEF Table, Job
  <2>3. phase = ReducePhase
    BY <1>0, <2>0, <2>1, Zenon DEF PhaseMatchesTasks
  <2>4. /\ reduceTasks' = SetDone(reduceTasks, i) /\ UNCHANGED mapTasks
        /\ TaskTransitionManager(ReduceTask)
    BY <1>2, Names, Zenon DEF CompleteTask
  <2>5. DOMAIN reduceTasks' = 1..NReduce
    BY <2>1, <2>2, <2>4, DoneTable, TableIsSeq, TaskCountAssumption, Zenon
  <2>6. IF \A j \in 1..NReduce : reduceTasks'[j].status = DONE
        THEN phase' = FinishedPhase
        ELSE UNCHANGED phase
    BY <2>4, <2>5, Names, Zenon DEF TaskTransitionManager
  <2> QED
    BY <1>2, <2>0, <2>1, <2>2, <2>3, <2>4, <2>6, Names, Zenon
<1> QED
  BY <1>1, <1>2, Zenon

(* TaskUpdateByWorker keeps the invariant, whatever its arguments. *)
LEMMA UpdateCInv ==
    ASSUME CInv, NEW w \in Workers, NEW id, NEW tid, NEW type,
           TaskUpdateByWorker(w, id, tid, type)
    PROVE  CInv'
<1>0. /\ CTypeOK /\ Tables /\ PhaseMatchesTasks /\ UpdateNeverSaysFinished
      /\ UNCHANGED <<coord, workers, registering, slice, taskReply>>
  BY Zenon DEF CInv, TaskUpdateByWorker
<1>1. ASSUME NEW reply \in TaskUpdateReply, reply.Phase # FinishedPhase, RefuseUpdate(w, reply)
      PROVE  CInv'
  <2>1. CTypeOK'
    BY <1>0, <1>1, Zenon DEF CTypeOK, RefuseUpdate
  <2>2. UpdateNeverSaysFinished'
    BY <1>0, <1>1, Zenon DEF CTypeOK, RefuseUpdate, UpdateNeverSaysFinished
  <2> QED
    BY <1>0, <1>1, <2>1, <2>2, Zenon DEF CInv, RefuseUpdate, Tables, Table, PhaseMatchesTasks
<1>2. ASSUME NEW i \in DOMAIN Jobs(type), Jobs(type)[i].worker # NoID,
             Jobs(type)[i].status # DONE, CompleteTask(w, i, type),
             type \in {MapTask, ReduceTask}
      PROVE  CInv'
  <2>0. updateReply' = [updateReply EXCEPT ![w] = [Status |-> DONE, Phase |-> phase]]
    BY <1>2, Zenon DEF CompleteTask
  <2>1. phase \in {MapPhase, ReducePhase}
    BY <1>2, CompleteFacts, Zenon
  <2>2. UpdateNeverSaysFinished'
    BY <1>0, <2>0, <2>1, Names, Zenon DEF UpdateNeverSaysFinished, CTypeOK
  <2>3. updateReply' \in [Workers -> TaskUpdateReply]
    BY <1>0, <2>0, <2>1, Zenon DEF CTypeOK, TaskUpdateReply, Phases
  <2>4. Tables' /\ PhaseMatchesTasks' /\ phase' \in Phases
    <3>1. CASE type = MapTask
      <4>1. /\ Jobs(type) = mapTasks /\ mapTasks[i].status = Pending
            /\ phase = MapPhase /\ i \in 1..NMap /\ reduceTasks = <<>>
            /\ mapTasks' = SetDone(mapTasks, i)
            /\ \/ /\ \E j \in 1..NMap : mapTasks'[j].status # DONE
                  /\ UNCHANGED <<phase, reduceTasks>>
               \/ /\ \A j \in 1..NMap : mapTasks'[j].status = DONE
                  /\ phase' = ReducePhase /\ reduceTasks' = NewReduceTasks
        BY <1>2, <3>1, CompleteFacts, Zenon DEF Jobs
      <4>2. Table(mapTasks', NMap) /\ DOMAIN mapTasks' = 1..NMap
        BY SMTT(30), <1>0, <4>1, DoneTable, TableIsSeq, TaskCountAssumption DEF Tables
      <4>3. CASE /\ \E j \in 1..NMap : mapTasks'[j].status # DONE
                 /\ UNCHANGED <<phase, reduceTasks>>
        BY <4>1, <4>2, <4>3, Names DEF Tables, PhaseMatchesTasks, Phases
      <4>4. CASE /\ \A j \in 1..NMap : mapTasks'[j].status = DONE
                 /\ phase' = ReducePhase /\ reduceTasks' = NewReduceTasks
        <5>1. /\ Table(reduceTasks', NReduce)
              /\ DOMAIN reduceTasks' = 1..NReduce /\ Len(reduceTasks') = NReduce
              /\ \A j \in 1..NReduce : /\ reduceTasks'[j].partition = j - 1
                                       /\ reduceTasks'[j].status = Waiting
          BY <4>4, NewTables, TableIsSeq, TaskCountAssumption, Zenon
        <5>2. 1 \in DOMAIN reduceTasks' /\ reduceTasks'[1].status # DONE
          BY <5>1, Names, TaskCountAssumption
        <5> QED
          BY <4>2, <4>4, <5>1, <5>2, Names, Zenon DEF Tables, PhaseMatchesTasks, Phases
      <4> QED
        BY <4>1, <4>3, <4>4, Zenon
    <3>2. CASE type = ReduceTask
      <4>1. /\ Jobs(type) = reduceTasks /\ reduceTasks[i].status = Pending
            /\ phase = ReducePhase /\ i \in 1..NReduce /\ Table(reduceTasks, NReduce)
            /\ reduceTasks' = SetDone(reduceTasks, i) /\ UNCHANGED mapTasks
            /\ \/ /\ \E j \in 1..NReduce : reduceTasks'[j].status # DONE
                  /\ UNCHANGED phase
               \/ /\ \A j \in 1..NReduce : reduceTasks'[j].status = DONE
                  /\ phase' = FinishedPhase
        BY <1>2, <3>2, CompleteFacts, Names, Zenon DEF Jobs
      <4>2. /\ Table(reduceTasks', NReduce)
            /\ DOMAIN reduceTasks' = 1..NReduce /\ Len(reduceTasks') = NReduce
            /\ \A j \in 1..NReduce : reduceTasks'[j].partition = reduceTasks[j].partition
        BY <4>1, DoneTable, TableIsSeq, TaskCountAssumption
      <4>3. DOMAIN reduceTasks = 1..NReduce
        BY <4>1, TableIsSeq, TaskCountAssumption, Zenon
      <4>4. Tables'
        BY <1>0, <4>1, <4>2, <4>3 DEF Tables, Table
      <4>5. PhaseMatchesTasks' /\ phase' \in Phases
        BY <1>0, <4>1, <4>2, Names, Zenon DEF PhaseMatchesTasks, Phases
      <4> QED
        BY Zenon, <4>4, <4>5
    <3> QED
      BY <1>2, <3>1, <3>2
  <2>5. CTypeOK'
    BY <1>0, <2>3, <2>4, TablesAreSeqsNext, Zenon DEF CTypeOK
  <2> QED
    BY <2>2, <2>4, <2>5, Zenon DEF CInv
<1>3. /\ InvalidReply \in TaskUpdateReply /\ InvalidReply.Phase # FinishedPhase
      /\ [Status |-> DONE, Phase |-> NoPhase] \in TaskUpdateReply
  BY Names, Zenon DEF InvalidReply, TaskUpdateReply
<1>4. ASSUME ~MissingArgument(id, tid, type)
      PROVE  id # NoID /\ type \in {MapTask, ReduceTask}
  BY <1>4, Zenon DEF MissingArgument
<1> QED
  BY <1>1, <1>2, <1>3, <1>4, Names, Zenon DEF TaskUpdateByWorker
-----------------------------------------------------------------------------
(* Every step of the coordinator keeps the invariant. *)
LEMMA NextCInv == CInv /\ [CNext]_cvars => CInv'
<1> SUFFICES ASSUME CInv, [CNext]_cvars PROVE CInv'
  OBVIOUS
<1>1. CASE UNCHANGED cvars
  <2>1. CTypeOK'
    BY <1>1 DEF CInv, CTypeOK, cvars
  <2> QED
    BY <1>1, <2>1, FrameCInv, Zenon DEF cvars
<1>2. CASE CNext
  BY <1>2, RegistrationCInv, RequestCInv, UpdateCInv, Zenon DEF CNext
<1> QED
  BY <1>1, <1>2, Zenon

(* The inductive invariant holds always, for any number of workers and     *)
(* tasks and any calls: types, tables, phase and replies agree.            *)
THEOREM CoordinatorInvariant == CSpec => []CInv
BY InitCInv, NextCInv, PTL DEF CSpec

(* The state of the coordinator keeps its types: no handler leaves a       *)
(* status, owner, phase or reply outside its set.                          *)
THEOREM CoordinatorTypes == CSpec => []CTypeOK
BY CoordinatorInvariant, PTL DEF CInv

(* The phase always says exactly how far the task tables are               *)
(* (TaskTransitionManager).                                                *)
THEOREM PhaseCorrect == CSpec => []PhaseMatchesTasks
BY CoordinatorInvariant, PTL DEF CInv

(* No reply of TaskUpdateByWorker ever carries FinishedPhase. *)
THEOREM UpdatesNeverFinish == CSpec => []UpdateNeverSaysFinished
BY CoordinatorInvariant, PTL DEF CInv
-----------------------------------------------------------------------------
(* What each kind of step does to the two tables: nothing, or one task of  *)
(* one table is assigned or completed, or the reduce tasks are created.    *)
LEMMA AssignIsTaskStep ==
    ASSUME NEW tasks, NEW n \in Nat, Table(tasks, n), NEW i \in 1..n,
           tasks[i].status = Waiting, NEW id \in Ids
    PROVE  \A j \in 1..n : TaskStep(tasks[j], Assign(tasks, i, id)[j])
<1>1. \A j \in 1..n : j # i => Assign(tasks, i, id)[j] = tasks[j]
  BY AssignTable
<1>2. Assign(tasks, i, id)[i] = [tasks[i] EXCEPT !.status = Pending, !.worker = id]
  BY Zenon DEF Assign, Table
<1>3. Assign(tasks, i, id)[i].worker = id
  BY AssignTable
<1> QED
  BY ZenonT(30), <1>1, <1>2, <1>3 DEF TaskStep

(* Completing a Pending task is a TaskStep of it. *)
LEMMA DoneIsTaskStep ==
    ASSUME NEW tasks, NEW n \in Nat, Table(tasks, n), NEW i \in 1..n,
           tasks[i].status = Pending
    PROVE  \A j \in 1..n : TaskStep(tasks[j], SetDone(tasks, i)[j])
<1>1. \A j \in 1..n : j # i => SetDone(tasks, i)[j] = tasks[j]
  BY DoneTable, Zenon
<1>2. SetDone(tasks, i)[i] = [tasks[i] EXCEPT !.status = DONE]
  BY Zenon DEF SetDone, Table
<1> QED
  BY <1>1, <1>2, Zenon DEF TaskStep

TableSteps == /\ \A i \in DOMAIN mapTasks : TaskStep(mapTasks[i], mapTasks'[i])
              /\ \A i \in DOMAIN reduceTasks : TaskStep(reduceTasks[i], reduceTasks'[i])

(* A task request moves at most one task, from Waiting to Pending. *)
LEMMA RequestSteps ==
    ASSUME CInv, NEW w \in Workers, TaskRequestByWorker(w)
    PROVE  TableSteps
<1>0. Tables /\ WorkerID[w] \in Ids
  BY IdsFact, Zenon DEF CInv
<1>1. CASE UNCHANGED <<mapTasks, reduceTasks>>
  BY Zenon, <1>1 DEF TableSteps, TaskStep
<1>2. ASSUME NEW i \in DOMAIN mapTasks, FirstWaiting(mapTasks, i), UNCHANGED reduceTasks,
             mapTasks' = Assign(mapTasks, i, WorkerID[w])
      PROVE  TableSteps
  <2>1. DOMAIN mapTasks = 1..NMap /\ Table(mapTasks, NMap)
    BY <1>0, TablesAreSeqs DEF Tables
  <2>2. \A j \in 1..NMap : TaskStep(mapTasks[j], mapTasks'[j])
    BY Zenon, <1>0, <1>2, <2>1, AssignIsTaskStep, TaskCountAssumption DEF FirstWaiting
  <2> QED
    BY ZenonT(30), <1>2, <2>1, <2>2 DEF TableSteps, TaskStep
<1>3. ASSUME NEW i \in DOMAIN reduceTasks, FirstWaiting(reduceTasks, i), UNCHANGED mapTasks,
             reduceTasks' = Assign(reduceTasks, i, WorkerID[w])
      PROVE  TableSteps
  <2>1. DOMAIN reduceTasks = 1..NReduce /\ Table(reduceTasks, NReduce)
    BY <1>0, <1>3, TablesAreSeqs DEF Tables
  <2>2. \A j \in 1..NReduce : TaskStep(reduceTasks[j], reduceTasks'[j])
    BY Zenon, <1>0, <1>3, <2>1, AssignIsTaskStep, TaskCountAssumption DEF FirstWaiting
  <2> QED
    BY ZenonT(30), <1>3, <2>1, <2>2 DEF TableSteps, TaskStep
<1> QED
  BY <1>1, <1>2, <1>3 DEF TaskRequestByWorker, assignMapTask, assignReduceTask

(* An update completes at most one task, which was Pending. *)
LEMMA UpdateSteps ==
    ASSUME CInv, NEW w \in Workers, NEW id, NEW tid, NEW type,
           TaskUpdateByWorker(w, id, tid, type)
    PROVE  TableSteps
<1>0. Tables
  BY Zenon DEF CInv
<1>1. CASE UNCHANGED <<mapTasks, reduceTasks>>
  BY <1>1, Zenon DEF TableSteps, TaskStep
<1>2. ASSUME NEW i \in DOMAIN Jobs(type), Jobs(type)[i].worker # NoID,
             Jobs(type)[i].status # DONE, CompleteTask(w, i, type),
             type \in {MapTask, ReduceTask}
      PROVE  TableSteps
  <2>1. CASE type = MapTask
    <3>1. /\ mapTasks[i].status = Pending /\ i \in 1..NMap /\ reduceTasks = <<>>
          /\ mapTasks' = SetDone(mapTasks, i)
      BY <1>2, <2>1, CompleteFacts, Zenon DEF Jobs
    <3>2. DOMAIN mapTasks = 1..NMap /\ Table(mapTasks, NMap)
      BY <1>0, TablesAreSeqs, Zenon DEF Tables
    <3>3. \A j \in 1..NMap : TaskStep(mapTasks[j], mapTasks'[j])
      BY <3>1, <3>2, DoneIsTaskStep, TaskCountAssumption, Zenon
    <3>4. DOMAIN reduceTasks = {}
      BY SMTT(30), <3>1
    <3> QED
      BY <3>2, <3>3, <3>4 DEF TableSteps
  <2>2. CASE type = ReduceTask
    <3>1. /\ reduceTasks[i].status = Pending /\ i \in 1..NReduce
          /\ Table(reduceTasks, NReduce)
          /\ reduceTasks' = SetDone(reduceTasks, i) /\ UNCHANGED mapTasks
      BY <1>2, <2>2, CompleteFacts, Names, Zenon DEF Jobs
    <3>2. DOMAIN reduceTasks = 1..NReduce
      BY <3>1, TableIsSeq, TaskCountAssumption, Zenon
    <3>3. \A j \in 1..NReduce : TaskStep(reduceTasks[j], reduceTasks'[j])
      BY <3>1, DoneIsTaskStep, TaskCountAssumption, Zenon
    <3> QED
      BY ZenonT(30), <3>1, <3>2, <3>3 DEF TableSteps, TaskStep
  <2> QED
    BY Zenon, <1>2, <2>1, <2>2
<1>3. ASSUME ~MissingArgument(id, tid, type)
      PROVE  id # NoID /\ type \in {MapTask, ReduceTask}
  BY <1>3 DEF MissingArgument
<1> QED
  BY <1>1, <1>2, <1>3, Zenon DEF TaskUpdateByWorker, RefuseUpdate

(* A task goes from Waiting to Pending to DONE, is owned by the worker it  *)
(* was given to from then on, and is completed by nobody else: whatever    *)
(* calls TaskRequestByWorker and TaskUpdateByWorker get.                   *)
THEOREM LifecycleCorrect == CSpec => TaskLifecycle
<1>1. CInv /\ [CNext]_cvars => [TableSteps]_cvars
  <2> SUFFICES ASSUME CInv, CNext PROVE TableSteps
    OBVIOUS
  <2>1. CASE UNCHANGED <<mapTasks, reduceTasks>>
    BY <2>1 DEF TableSteps, TaskStep
  <2> QED
    BY <2>1, RequestSteps, UpdateSteps, Zenon
    DEF CNext, server, RegisterWorkerRead, RegisterWorkerStore, TaskRequestPanics
<1> QED
  BY <1>1, CoordinatorInvariant, PTL DEF CSpec, TaskLifecycle, TableSteps
-----------------------------------------------------------------------------
(* The completed tasks of a table, by id. *)
LEMMA CompletedOfTable ==
    ASSUME NEW tasks, NEW n \in Nat, Table(tasks, n)
    PROVE  /\ Completed(tasks) \subseteq 0..(n - 1)
           /\ \A j \in 1..n : j - 1 \in Completed(tasks) <=> tasks[j].status = DONE
           /\ Completed(tasks) = 0..(n - 1) <=> \A j \in 1..n : tasks[j].status = DONE
<1>1. DOMAIN tasks = 1..n /\ \A j \in 1..n : tasks[j].taskId = j - 1
  BY TableIsSeq DEF Table
<1>2. Completed(tasks) = {j - 1 : j \in {k \in 1..n : tasks[k].status = DONE}}
  BY <1>1, Zenon DEF Completed
<1>3. Completed(tasks) \subseteq 0..(n - 1)
  BY <1>2
<1>4. \A j \in 1..n : j - 1 \in Completed(tasks) <=> tasks[j].status = DONE
  BY <1>2
<1>5. ASSUME Completed(tasks) = 0..(n - 1) PROVE \A j \in 1..n : tasks[j].status = DONE
  BY <1>4, <1>5
<1>6. ASSUME \A j \in 1..n : tasks[j].status = DONE PROVE Completed(tasks) = 0..(n - 1)
  <2>1. ASSUME NEW m \in 0..(n - 1) PROVE m \in Completed(tasks)
    <3>1. m + 1 \in 1..n /\ (m + 1) - 1 = m
      OBVIOUS
    <3> QED
      BY <1>4, <1>6, <3>1
  <2> QED
    BY ZenonT(30), <1>3, <2>1
<1> QED
  BY <1>3, <1>4, <1>5, <1>6, Zenon

(* Assigning a task completes none. *)
LEMMA CompletedAssign ==
    ASSUME NEW tasks, NEW n \in Nat, Table(tasks, n), NEW i \in 1..n,
           tasks[i].status = Waiting, NEW id \in Ids
    PROVE  Completed(Assign(tasks, i, id)) = Completed(tasks)
<1> DEFINE new == Assign(tasks, i, id)
<1>1. Table(new, n) /\ \A j \in 1..n : (new[j].status = DONE <=> tasks[j].status = DONE)
  BY SMTT(30), AssignTable, Names
<1>2. DOMAIN tasks = 1..n /\ DOMAIN new = 1..n
  BY <1>1, TableIsSeq
<1>3. \A j \in 1..n : new[j].taskId = tasks[j].taskId
  BY <1>1, Zenon DEF Table
<1> HIDE DEF new
<1>4. Completed(new) = Completed(tasks)
  BY <1>1, <1>2, <1>3, Zenon DEF Completed
<1> QED
  BY <1>4, Zenon DEF new

(* Completing the i-th task completes exactly it, for the first time. *)
LEMMA CompletedDone ==
    ASSUME NEW tasks, NEW n \in Nat, Table(tasks, n), NEW i \in 1..n,
           tasks[i].status = Pending
    PROVE  /\ i - 1 \in 0..(n - 1) /\ i - 1 \notin Completed(tasks)
           /\ Completed(SetDone(tasks, i)) = Completed(tasks) \cup {i - 1}
<1> DEFINE new == SetDone(tasks, i)
<1>1. /\ Table(new, n) /\ new[i].status = DONE
      /\ \A j \in 1..n : j # i => new[j] = tasks[j]
  BY DoneTable, Zenon
<1>2. DOMAIN tasks = 1..n /\ DOMAIN new = 1..n
  BY <1>1, TableIsSeq, Zenon
<1>3. \A j \in 1..n : new[j].taskId = j - 1 /\ tasks[j].taskId = j - 1
  BY <1>1, Zenon DEF Table
<1>4. i - 1 \notin Completed(tasks)
  BY CompletedOfTable, Names, Zenon
<1> HIDE DEF new
<1>5. /\ Completed(new) = {j - 1 : j \in {k \in 1..n : new[k].status = DONE}}
      /\ Completed(tasks) = {j - 1 : j \in {k \in 1..n : tasks[k].status = DONE}}
  BY ZenonT(30), <1>2, <1>3 DEF Completed
<1>6. Completed(new) = Completed(tasks) \cup {i - 1}
  BY <1>1, <1>5, Zenon
<1> QED
  BY <1>4, <1>6 DEF new

(* Fresh or absent tasks are not completed. *)
LEMMA CompletedNone ==
    ASSUME NEW tasks, \A j \in DOMAIN tasks : tasks[j].status # DONE
    PROVE  Completed(tasks) = {}
BY Zenon DEF Completed

(* The stage by phase. *)
LEMMA StageOfPhase ==
    /\ phase = MapPhase => Stage = "map"
    /\ phase = ReducePhase => Stage = "reduce"
    /\ phase = FinishedPhase => Stage = "finished"
BY Names, Zenon DEF Stage

(* The same in the next state. *)
LEMMA StageOfPhaseNext ==
    /\ phase' = MapPhase => Stage' = "map"
    /\ phase' = ReducePhase => Stage' = "reduce"
    /\ phase' = FinishedPhase => Stage' = "finished"
BY Names, Zenon DEF Stage

(* A request is no step of the job. *)
LEMMA RequestStutters ==
    ASSUME CInv, NEW w \in Workers, TaskRequestByWorker(w)
    PROVE  /\ phase' = phase /\ Completed(mapTasks') = Completed(mapTasks)
           /\ Completed(reduceTasks') = Completed(reduceTasks)
<1>0. Tables /\ WorkerID[w] \in Ids /\ UNCHANGED phase
  BY Zenon, IdsFact DEF CInv, TaskRequestByWorker
<1>1. ASSUME NEW i \in DOMAIN mapTasks, FirstWaiting(mapTasks, i)
      PROVE  Completed(Assign(mapTasks, i, WorkerID[w])) = Completed(mapTasks)
  BY <1>0, <1>1, CompletedAssign, TablesAreSeqs, TaskCountAssumption DEF Tables, FirstWaiting
<1>2. ASSUME NEW i \in DOMAIN reduceTasks, FirstWaiting(reduceTasks, i)
      PROVE  Completed(Assign(reduceTasks, i, WorkerID[w])) = Completed(reduceTasks)
  <2>1. reduceTasks # <<>>
    BY <1>2
  <2>2. Table(reduceTasks, NReduce) /\ i \in 1..NReduce
    BY <1>0, <1>2, <2>1, TablesAreSeqs, Zenon DEF Tables
  <2> QED
    BY <1>0, <1>2, <2>2, CompletedAssign, TaskCountAssumption, Zenon DEF FirstWaiting
<1> QED
  BY <1>0, <1>1, <1>2 DEF TaskRequestByWorker, assignMapTask, assignReduceTask

(* An update that completes a task is the step of the job that finishes it, *)
(* phase change included; any other update is no step of the job.           *)
LEMMA UpdateRefines ==
    ASSUME CInv, NEW w \in Workers, NEW id, NEW tid, NEW type,
           TaskUpdateByWorker(w, id, tid, type)
    PROVE  \/ UNCHANGED <<phase, mapTasks, reduceTasks>>
           \/ JobModule!JNext
<1>0. Tables
  BY Zenon DEF CInv
<1>2. ASSUME NEW i \in DOMAIN Jobs(type), Jobs(type)[i].worker # NoID,
             Jobs(type)[i].status # DONE, CompleteTask(w, i, type),
             type \in {MapTask, ReduceTask}
      PROVE  JobModule!JNext
  <2>1. CASE type = MapTask
    <3>1. /\ mapTasks[i].status = Pending /\ phase = MapPhase /\ i \in 1..NMap
          /\ reduceTasks = <<>> /\ mapTasks' = SetDone(mapTasks, i)
          /\ \/ /\ \E j \in 1..NMap : mapTasks'[j].status # DONE
                /\ UNCHANGED <<phase, reduceTasks>>
             \/ /\ \A j \in 1..NMap : mapTasks'[j].status = DONE
                /\ phase' = ReducePhase /\ reduceTasks' = NewReduceTasks
      BY <1>2, <2>1, CompleteFacts, Zenon DEF Jobs
    <3>2. Table(mapTasks, NMap) /\ Table(mapTasks', NMap)
      BY <1>0, <3>1, DoneTable, TaskCountAssumption, Zenon DEF Tables
    <3>3. /\ i - 1 \in 0..(NMap - 1) /\ i - 1 \notin Completed(mapTasks)
          /\ Completed(mapTasks') = Completed(mapTasks) \cup {i - 1}
      BY <3>1, <3>2, CompletedDone, TaskCountAssumption, Zenon
    <3>4. Completed(mapTasks') = 0..(NMap - 1) <=> \A j \in 1..NMap : mapTasks'[j].status = DONE
      BY <3>2, CompletedOfTable, TaskCountAssumption, Zenon
    <3>5. Completed(reduceTasks) = {} /\ Completed(reduceTasks') = {}
      <4>1. DOMAIN NewReduceTasks = 1..NReduce
        BY NewTables, TableIsSeq, TaskCountAssumption, Zenon
      <4>2. Completed(NewReduceTasks) = {}
        BY ZenonT(30), <4>1, NewTables, CompletedNone, Names
      <4>3. Completed(<<>>) = {}
        BY CompletedNone
      <4> QED
        BY <3>1, <4>2, <4>3, Zenon
    <3>6. Stage = "map" /\ Stage' = IF Completed(mapTasks') = 0..(NMap - 1)
                                    THEN "reduce" ELSE "map"
      BY <3>1, <3>4, StageOfPhase, StageOfPhaseNext, Zenon
    <3>7. JobModule!FinishMap(i - 1)
      BY <3>3, <3>5, <3>6, Zenon DEF JobModule!FinishMap, JobModule!Maps
    <3> QED
      BY <3>3, <3>7, Zenon DEF JobModule!JNext, JobModule!Maps
  <2>2. CASE type = ReduceTask
    <3>1. /\ reduceTasks[i].status = Pending /\ phase = ReducePhase /\ i \in 1..NReduce
          /\ Table(reduceTasks, NReduce)
          /\ reduceTasks' = SetDone(reduceTasks, i) /\ UNCHANGED mapTasks
          /\ \/ /\ \E j \in 1..NReduce : reduceTasks'[j].status # DONE
                /\ UNCHANGED phase
             \/ /\ \A j \in 1..NReduce : reduceTasks'[j].status = DONE
                /\ phase' = FinishedPhase
      BY <1>2, <2>2, CompleteFacts, Names, Zenon DEF Jobs
    <3>2. Table(reduceTasks', NReduce)
      BY <3>1, DoneTable, TaskCountAssumption, Zenon
    <3>3. /\ i - 1 \in 0..(NReduce - 1) /\ i - 1 \notin Completed(reduceTasks)
          /\ Completed(reduceTasks') = Completed(reduceTasks) \cup {i - 1}
      BY <3>1, CompletedDone, TaskCountAssumption, Zenon
    <3>4. Completed(reduceTasks') = 0..(NReduce - 1)
              <=> \A j \in 1..NReduce : reduceTasks'[j].status = DONE
      BY <3>2, CompletedOfTable, TaskCountAssumption, Zenon
    <3>5. Stage = "reduce" /\ Stage' = IF Completed(reduceTasks') = 0..(NReduce - 1)
                                       THEN "finished" ELSE "reduce"
      BY <3>1, <3>4, StageOfPhase, StageOfPhaseNext, Zenon
    <3>6. JobModule!FinishReduce(i - 1)
      BY <3>1, <3>3, <3>5, Zenon DEF JobModule!FinishReduce, JobModule!Reduces
    <3> QED
      BY <3>3, <3>6, Zenon DEF JobModule!JNext, JobModule!Reduces
  <2> QED
    BY <1>2, <2>1, <2>2, Zenon
<1>3. ASSUME ~MissingArgument(id, tid, type)
      PROVE  id # NoID /\ type \in {MapTask, ReduceTask}
  BY <1>3, Zenon DEF MissingArgument
<1> QED
  BY <1>2, <1>3, Zenon DEF TaskUpdateByWorker, RefuseUpdate

(* The coordinator, under any calls, implements the abstract job: tasks    *)
(* complete once each, reduce tasks only after all map tasks, and the job  *)
(* finishes in the step that completes the last one.                       *)
THEOREM CoordinatorImplementsJob == CSpec => ImplementsJob
<1>1. CInit => JobModule!JInit
  <2> SUFFICES ASSUME CInit PROVE JobModule!JInit
    OBVIOUS
  <2>1. \A j \in DOMAIN mapTasks : mapTasks[j].status # DONE
    BY Names DEF CInit, MakeCoordinator, NewTask
  <2>2. reduceTasks = <<>> /\ DOMAIN reduceTasks = {}
    BY DEF CInit, MakeCoordinator
  <2>3. Completed(mapTasks) = {} /\ Completed(reduceTasks) = {}
    BY Zenon, <2>1, <2>2, CompletedNone
  <2> QED
    BY <2>3, StageOfPhase DEF CInit, MakeCoordinator, JobModule!JInit
<1>2. CInv /\ [CNext]_cvars => [JobModule!JNext]_(JobModule!jvars)
  <2> SUFFICES ASSUME CInv, [CNext]_cvars
               PROVE  JobModule!JNext \/ UNCHANGED JobModule!jvars
    OBVIOUS
  <2>1. CASE UNCHANGED <<phase, mapTasks, reduceTasks>>
    BY <2>1 DEF JobModule!jvars, Stage, Completed
  <2>2. ASSUME NEW w \in Workers, TaskRequestByWorker(w) PROVE UNCHANGED JobModule!jvars
    BY ZenonT(30), <2>2, RequestStutters DEF JobModule!jvars, Stage
  <2> QED
    BY <2>1, <2>2, UpdateRefines, Zenon
    DEF CNext, cvars, server, RegisterWorkerRead, RegisterWorkerStore, TaskRequestPanics
<1> QED
  BY <1>1, <1>2, CoordinatorInvariant, PTL DEF CSpec, ImplementsJob, JobModule!JSpec
=============================================================================
