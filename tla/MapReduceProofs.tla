-------------------------- MODULE MapReduceProofs ---------------------------
(***************************************************************************)
(* Proofs about MapReduce: the coordinator with its workers and files, for *)
(* any number of workers, tasks, chunks and crashes, and any worker ids,   *)
(* distinct or not.  MapReduceInv holds the invariant and the other steps; *)
(* here are the assignment and the report of a task, and the theorems.     *)
(***************************************************************************)
EXTENDS MapReduceInv

-----------------------------------------------------------------------------
(* The task a worker holds is in its table. *)
LEMMA HeldIndex ==
    ASSUME IInv, NEW w \in Workers, Holds(w)
    PROVE  /\ taskReply[w].Type \in {MapTask, ReduceTask}
           /\ taskReply[w].TaskId \in Nat
           /\ taskReply[w].TaskId + 1 \in DOMAIN Jobs(taskReply[w].Type)
           /\ Held(w).status = Pending /\ Held(w).worker = WorkerID[w]
<1>1. /\ Held(w).status = Pending /\ Held(w).worker = WorkerID[w]
      /\ phase = IF taskReply[w].Type = MapTask THEN MapPhase ELSE ReducePhase
  BY Zenon DEF IInv, Ownership, HolderIsOwner
<1>2. CASE MapReply(w)
  <2>1. DOMAIN mapTasks = 1..NMap
    BY TablesAreSeqs, Zenon DEF IInv, CInv
  <2> QED
    BY Zenon, <1>1, <1>2, <2>1, Bounds DEF MapReply, Jobs
<1>3. CASE ReduceReply(w)
  <2>1. phase # MapPhase /\ Jobs(taskReply[w].Type) = reduceTasks
    BY <1>1, <1>3, Names, Zenon DEF ReduceReply, Jobs
  <2>2. Len(reduceTasks) = NReduce
    BY <2>1, Zenon DEF IInv, CInv, PhaseMatchesTasks
  <2>3. DOMAIN reduceTasks = 1..NReduce
    BY <2>2, TablesAreSeqs, Zenon DEF IInv, CInv
  <2> QED
    BY <1>1, <1>3, <2>1, <2>3, Bounds, Zenon DEF ReduceReply
<1> QED
  BY Zenon, <1>2, <1>3, HoldsFits

(* What a worker outside ReducerTask has read. *)
LEMMA InputNone == "none" \in Inputs
BY DEF Inputs

(* A call of w changes nothing that the other workers rely on. *)
LEMMA OthersStep ==
    ASSUME IInv, NEW w \in Workers, UNCHANGED <<chunk, inter, output>>,
           phase # MapPhase => phase' # MapPhase,
           \A v \in Workers \ {w} : /\ pc'[v] = pc[v] /\ part'[v] = part[v] /\ input'[v] = input[v]
                                    /\ taskReply'[v] = taskReply[v]
    PROVE  \A v \in Workers \ {w} : /\ ReplyFits(v)' /\ MapProgress(v)' /\ ReadFullInput(v)'
                                    /\ Holds(v)' <=> Holds(v)
<1> SUFFICES ASSUME NEW v \in Workers \ {w}
             PROVE  /\ ReplyFits(v)' /\ MapProgress(v)' /\ ReadFullInput(v)'
                    /\ Holds(v)' <=> Holds(v)
  OBVIOUS
<1>1. ReplyFits(v) /\ MapProgress(v) /\ ReadFullInput(v)
  BY DEF IInv
<1>2. ReplyFits(v)'
  BY <1>1, Zenon DEF ReplyFits, MapReply, ReduceReply, EmptyReply
<1>3. MapProgress(v)' /\ ReadFullInput(v)' /\ (Holds(v)' <=> Holds(v))
  BY ZenonT(60), <1>1 DEF MapProgress, ReadFullInput, Full, Holds
<1> QED
  BY <1>2, <1>3

(* A worker that was given the Waiting task i of a table. *)
LEMMA AssignOwnership ==
    ASSUME IInv, NEW w \in Workers, pc[w] = "fetch", pc'[w] \in Running,
           UNCHANGED <<coord, phase>>,
           \A v \in Workers \ {w} : pc'[v] = pc[v] /\ taskReply'[v] = taskReply[v],
           NEW type \in {MapTask, ReduceTask}, NEW i \in DOMAIN Jobs(type), i \in Nat, i >= 1,
           phase = IF type = MapTask THEN MapPhase ELSE ReducePhase,
           Jobs(type)[i].status = Waiting,
           Jobs(type)'[i].status = Pending, Jobs(type)'[i].worker = WorkerID[w],
           \A t \in {MapTask, ReduceTask} :
              /\ DOMAIN Jobs(t)' = DOMAIN Jobs(t)
              /\ \A j \in DOMAIN Jobs(t) : t # type \/ j # i => Jobs(t)'[j] = Jobs(t)[j],
           taskReply'[w].Type = type, taskReply'[w].TaskId = i - 1
    PROVE  Ownership'
<1>1. ~Holds(w) /\ Holds(w)' /\ taskReply'[w].TaskId + 1 = i
  BY DEF Holds, Running, MapPoints, ReducePoints, NoTask
<1>2. ASSUME NEW v \in Workers \ {w}, Holds(v)'
      PROVE  /\ Holds(v)
             /\ taskReply[v].Type # type \/ taskReply[v].TaskId # i - 1
             /\ Held(v)' = Held(v)
  <2>1. Holds(v) /\ taskReply'[v] = taskReply[v]
    BY Zenon, <1>2 DEF Holds
  <2>2. /\ taskReply[v].Type \in {MapTask, ReduceTask} /\ taskReply[v].TaskId \in Nat
        /\ taskReply[v].TaskId + 1 \in DOMAIN Jobs(taskReply[v].Type)
        /\ Jobs(taskReply[v].Type)[taskReply[v].TaskId + 1].status = Pending
    BY <2>1, HeldIndex DEF Held
  <2>3. taskReply[v].Type # type \/ taskReply[v].TaskId + 1 # i
    BY <2>2, Names, Zenon
  <2>4. taskReply[v].Type # type \/ taskReply[v].TaskId # i - 1
    BY <2>2, <2>3
  <2>5. Jobs(taskReply[v].Type)'[taskReply[v].TaskId + 1]
          = Jobs(taskReply[v].Type)[taskReply[v].TaskId + 1]
    BY <2>2, <2>3
  <2>6. Held(v)' = Held(v)
    BY <2>1, <2>5, Zenon DEF Held, Jobs
  <2> QED
    BY ZenonT(60), <2>1, <2>4, <2>6
<1>3. ExclusiveTask'
  <2>1. ASSUME NEW u \in Workers, NEW v \in Workers, u # v, Holds(u)', Holds(v)'
        PROVE  taskReply'[u].Type # taskReply'[v].Type
                 \/ taskReply'[u].TaskId # taskReply'[v].TaskId
    <3>1. CASE u = w
      BY Zenon, <1>2, <2>1, <3>1
    <3>2. CASE v = w
      BY Zenon, <1>2, <2>1, <3>2
    <3>3. CASE u # w /\ v # w
      BY <1>2, <2>1, <3>3 DEF IInv, Ownership, ExclusiveTask
    <3> QED
      BY Zenon, <3>1, <3>2, <3>3
  <2> QED
    BY Zenon, <2>1 DEF ExclusiveTask
<1>4. HolderIsOwner'
  <2>1. ASSUME NEW v \in Workers, Holds(v)'
        PROVE  /\ Held(v)'.status = Pending
               /\ Held(v)'.worker = WorkerID[v]
               /\ phase' = IF taskReply'[v].Type = MapTask THEN MapPhase ELSE ReducePhase
    <3>1. CASE v = w
      <4>1. Held(w)' = Jobs(type)'[i]
        BY <1>1, Zenon DEF Held, Jobs
      <4> QED
        BY <3>1, <4>1, Zenon
    <3>2. CASE v # w
      BY <1>2, <2>1, <3>2 DEF IInv, Ownership, HolderIsOwner
    <3> QED
      BY Zenon, <3>1, <3>2
  <2> QED
    BY Zenon, <2>1 DEF HolderIsOwner
<1>5. PendingHasHolder'
  <2>1. ASSUME coord' # "dead", NEW t \in {MapTask, ReduceTask}, NEW j \in DOMAIN Jobs(t)',
               Jobs(t)'[j].status = Pending
        PROVE  \E v \in Workers : /\ Holds(v)' /\ taskReply'[v].Type = t
                                  /\ taskReply'[v].TaskId = j - 1
    <3>1. CASE t = type /\ j = i
      BY <1>1, <3>1, Zenon
    <3>2. CASE t # type \/ j # i
      <4>1. j \in DOMAIN Jobs(t) /\ Jobs(t)[j].status = Pending /\ coord # "dead"
        BY <2>1, <3>2, Zenon
      <4>2. PICK v \in Workers : /\ Holds(v) /\ taskReply[v].Type = t
                                 /\ taskReply[v].TaskId = j - 1
        BY Zenon, <4>1 DEF IInv, Ownership, PendingHasHolder
      <4>3. v # w
        BY Zenon, <1>1, <4>2
      <4>4. Holds(v)' /\ taskReply'[v] = taskReply[v]
        BY <4>2, <4>3, Zenon DEF Holds
      <4> QED
        BY <4>2, <4>4, Zenon
    <3> QED
      BY ZenonT(60), <3>1, <3>2
  <2> QED
    BY Zenon, <2>1 DEF PendingHasHolder
<1> QED
  BY Zenon, <1>3, <1>4, <1>5 DEF Ownership

(* The three outcomes of a task request. *)
LEMMA RequestOutcomes ==
    ASSUME IInv, NEW w \in Workers, TaskRequestByWorker(w)
    PROVE  \/ /\ UNCHANGED <<mapTasks, reduceTasks>>
              /\ \E p \in {NoPhase, ReducePhase, FinishedPhase} :
                   /\ taskReply' = [taskReply EXCEPT ![w] = PhaseReply(p)]
                   /\ p = ReducePhase => phase = ReducePhase
           \/ \E i \in DOMAIN mapTasks :
                /\ phase = MapPhase /\ UNCHANGED reduceTasks
                /\ mapTasks[i].status = Waiting
                /\ mapTasks' = Assign(mapTasks, i, WorkerID[w])
                /\ taskReply' = [taskReply EXCEPT ![w] =
                     [TaskId |-> mapTasks[i].taskId, Type |-> MapTask,
                      TaskAvailable |-> TRUE, Phase |-> phase, Partition |-> 0]]
           \/ \E i \in DOMAIN reduceTasks :
                /\ phase = ReducePhase /\ UNCHANGED mapTasks
                /\ reduceTasks[i].status = Waiting
                /\ reduceTasks' = Assign(reduceTasks, i, WorkerID[w])
                /\ taskReply' = [taskReply EXCEPT ![w] =
                     [TaskId |-> reduceTasks[i].taskId, Type |-> ReduceTask,
                      TaskAvailable |-> TRUE, Phase |-> phase,
                      Partition |-> reduceTasks[i].partition]]
<1>1. CASE ~Registered(WorkerID[w])
  BY Zenon, <1>1 DEF TaskRequestByWorker, ZeroReply, NoPhase, ReducePhase
<1>2. CASE Registered(WorkerID[w]) /\ phase = MapPhase /\ assignMapTask(w)
  BY Zenon, <1>2 DEF assignMapTask, ZeroReply, FirstWaiting, NoPhase, ReducePhase
<1>3. CASE Registered(WorkerID[w]) /\ phase = ReducePhase /\ assignReduceTask(w)
  BY Zenon, <1>3 DEF assignReduceTask, FirstWaiting
<1>4. CASE Registered(WorkerID[w]) /\ phase = FinishedPhase
  BY Zenon, <1>4, Names DEF TaskRequestByWorker
<1> QED
  BY Zenon, <1>1, <1>2, <1>3, <1>4 DEF TaskRequestByWorker

(* WorkerFetchTasks: the reply, and the start of the task in it. *)
LEMMA WorkerFetchTasksIInv ==
    ASSUME IInv, NEW w \in Workers, WorkerFetchTasks(w)
    PROVE  IInv'
<1>0. /\ CInv /\ CTypeOK /\ Tables /\ WTypeOK /\ ReplyFits(w) /\ pc[w] = "fetch"
      /\ TaskRequestByWorker(w)
      /\ UNCHANGED <<coord, phase, workers, registering, slice, updateReply, alive, chunk,
                     input, inter, output, crashes>>
      /\ pc' = [pc EXCEPT ![w] = Dispatch(taskReply'[w])]
      /\ part' = [part EXCEPT ![w] = taskReply'[w].Partition]
  BY Zenon DEF IInv, CInv, WorkerFetchTasks, TaskRequestByWorker, GoTo, files
<1>1. CInv' /\ Tables' /\ CTypeOK'
  BY <1>0, RequestCInv, Zenon DEF CInv
<1>2. /\ pc'[w] = Dispatch(taskReply'[w]) /\ part'[w] = taskReply'[w].Partition
      /\ chunk[w] = 1
      /\ \A v \in Workers \ {w} : pc'[v] = pc[v] /\ part'[v] = part[v]
  BY <1>0, Zenon DEF WTypeOK, ReplyFits
<1>3. \A v \in Workers \ {w} : taskReply'[v] = taskReply[v]
  BY ZenonT(60), <1>0, RequestOutcomes DEF CTypeOK
<1>4. \A v \in Workers \ {w} : /\ ReplyFits(v)' /\ MapProgress(v)' /\ ReadFullInput(v)'
                               /\ Holds(v)' <=> Holds(v)
  BY Zenon, <1>0, <1>2, <1>3, OthersStep
<1>5. RegistrationWaits'
  BY Zenon, <1>0, <1>2 DEF IInv, RegistrationWaits
<1>6. ASSUME part'[w] \in Partitions, pc'[w] \in {"mapCreate", "reduceRead", "stopped"},
             ReplyFits(w)', Ownership',
             pc'[w] = "mapCreate" => part'[w] = 0,
             \A i \in 1..NMap : mapTasks'[i].status = DONE => mapTasks[i].status = DONE,
             \A i \in DOMAIN reduceTasks' : /\ i \in DOMAIN reduceTasks
                                            /\ reduceTasks'[i].status = DONE =>
                                                 reduceTasks[i].status = DONE
      PROVE  IInv'
  <2>1. WTypeOK'
    <3>1. pc'[w] \in Points
      BY <1>6 DEF Points, MapPoints, ReducePoints
    <3> QED
      BY Zenon, <1>0, <1>2, <1>6, <3>1 DEF WTypeOK
  <2>2. MapProgress(w)' /\ ReadFullInput(w)'
    <3>1. \A p \in Partitions : ~(p < 0)
      BY Bounds
    <3> QED
      BY <1>6, <3>1, Zenon DEF MapProgress, ReadFullInput, MapPoints
  <2>3. DoneMapsOnDisk'
    BY <1>0, <1>6, Bounds, Zenon DEF IInv, DoneMapsOnDisk
  <2>4. OutputCovered'
    <3>1. \A v \in Workers, p \in Partitions : Writes(v, p)' <=> Writes(v, p)
      BY <1>0, <1>2, <1>6, Zenon DEF Writes
    <3>2. \A p \in Partitions : Written(p)' => Written(p)
      BY Zenon, <1>2, <1>3, <1>6, <3>1 DEF Written
    <3>3. \A p \in Partitions : Covered(p) => Covered(p)'
      BY Zenon, <1>0, <3>1, FullKept DEF Covered
    <3> QED
      BY <3>2, <3>3 DEF IInv, OutputCovered
  <2> QED
    BY SMTT(30), <1>1, <1>4, <1>5, <1>6, <2>1, <2>2, <2>3, <2>4 DEF IInv
<1>7. CASE /\ UNCHANGED <<mapTasks, reduceTasks>>
           /\ \E p \in {NoPhase, ReducePhase, FinishedPhase} :
                /\ taskReply' = [taskReply EXCEPT ![w] = PhaseReply(p)]
                /\ p = ReducePhase => phase = ReducePhase
  <2>1. PICK p \in {NoPhase, ReducePhase, FinishedPhase} :
               taskReply'[w] = PhaseReply(p) /\ (p = ReducePhase => phase = ReducePhase)
    BY <1>0, <1>7 DEF CTypeOK
  <2>2. /\ taskReply'[w].Type = NoType /\ taskReply'[w].TaskId = NoTask
        /\ taskReply'[w].Phase = p /\ part'[w] = 0
    BY <1>2, <2>1 DEF PhaseReply
  <2>3. pc'[w] = IF p = ReducePhase THEN "reduceRead" ELSE "stopped"
    BY ZenonT(60), <1>2, <2>1, <2>2 DEF Dispatch, NoPhase, MapPhase, ReducePhase, FinishedPhase
  <2>4. ReplyFits(w)'
    BY SMTT(60), <1>0, <1>2, <2>1, <2>2, <2>3, Names
    DEF ReplyFits, EmptyReply, MapPoints, ReducePoints
  <2>5. ~Holds(w) /\ ~Holds(w)'
    BY Zenon, <1>0, <2>2 DEF Holds, Running, MapPoints, ReducePoints
  <2>6. \A v \in Workers : Holds(v) => Held(v)' = Held(v) /\ taskReply'[v] = taskReply[v]
    BY Zenon, <1>3, <1>7, <2>5 DEF Held, Jobs
  <2>7. Ownership'
    <3>0. \A v \in Workers : Holds(v)' <=> Holds(v)
      BY Zenon, <1>4, <2>5
    <3>1. \A v \in Workers : Holds(v)' => /\ Holds(v) /\ Held(v)' = Held(v)
                                          /\ taskReply'[v] = taskReply[v]
      BY Zenon, <2>6, <3>0
    <3>2. \A t \in {MapTask, ReduceTask} : Jobs(t)' = Jobs(t)
      BY Zenon, <1>7 DEF Jobs
    <3>3. ExclusiveTask'
      BY Zenon, <3>1 DEF IInv, Ownership, ExclusiveTask
    <3>4. HolderIsOwner'
      BY Zenon, <1>0, <1>3, <3>1 DEF IInv, Ownership, HolderIsOwner
    <3>5. PendingHasHolder'
      BY ZenonT(60), <1>0, <1>3, <3>0, <3>1, <3>2 DEF IInv, Ownership, PendingHasHolder
    <3> QED
      BY Zenon, <3>3, <3>4, <3>5 DEF Ownership
  <2> QED
    BY SMTT(30), <1>6, <1>7, <2>2, <2>3, <2>4, <2>7, Bounds
<1>8. ASSUME NEW i \in DOMAIN mapTasks, phase = MapPhase, UNCHANGED reduceTasks,
             mapTasks[i].status = Waiting, mapTasks' = Assign(mapTasks, i, WorkerID[w]),
             taskReply' = [taskReply EXCEPT ![w] =
                  [TaskId |-> mapTasks[i].taskId, Type |-> MapTask,
                   TaskAvailable |-> TRUE, Phase |-> phase, Partition |-> 0]]
      PROVE  IInv'
  <2>1. DOMAIN mapTasks = 1..NMap /\ DOMAIN mapTasks' = 1..NMap
    BY SMTT(30), <1>0, <1>1, TablesAreSeqs, TablesAreSeqsNext
  <2>2. /\ taskReply'[w].Type = MapTask /\ taskReply'[w].TaskId = i - 1
        /\ taskReply'[w].Phase = MapPhase /\ part'[w] = 0
    BY <1>0, <1>2, <1>8, <2>1 DEF CTypeOK, Tables, Table
  <2>3. pc'[w] = "mapCreate"
    BY Zenon, <1>2, <2>2, Names DEF Dispatch
  <2>4. /\ \A j \in 1..NMap : j # i => mapTasks'[j] = mapTasks[j]
        /\ mapTasks'[i].status = Pending /\ mapTasks'[i].worker = WorkerID[w]
    <3>1. /\ Table(mapTasks, NMap) /\ NMap \in Nat
          /\ i \in 1..NMap /\ WorkerID[w] \in Ids
      BY Zenon, <1>0, <1>8, <2>1, TaskCountAssumption, IdsFact DEF Tables
    <3> QED
      BY SMTT(30), <1>8, <3>1, AssignTable
  <2>5. i \in Nat /\ i >= 1 /\ i - 1 \in Maps
    BY <2>1, Bounds
  <2>6. ReplyFits(w)'
    BY ZenonT(60), <1>0, <1>2, <2>2, <2>3, <2>5 DEF ReplyFits, MapReply, MapPoints, ReducePoints
  <2>7. /\ Jobs(MapTask) = mapTasks /\ Jobs(MapTask)' = mapTasks'
        /\ Jobs(ReduceTask) = reduceTasks /\ Jobs(ReduceTask)' = reduceTasks'
    BY Names, Zenon DEF Jobs
  <2>8. \A t \in {MapTask, ReduceTask} :
              /\ DOMAIN Jobs(t)' = DOMAIN Jobs(t)
              /\ \A j \in DOMAIN Jobs(t) : t # MapTask \/ j # i => Jobs(t)'[j] = Jobs(t)[j]
    BY Zenon, <1>8, <2>1, <2>4, <2>7
  <2>9. Ownership'
    <3>1. pc'[w] \in Running
      BY <2>3, Zenon DEF Running, MapPoints
    <3>2. /\ i \in DOMAIN Jobs(MapTask) /\ Jobs(MapTask)[i].status = Waiting
          /\ Jobs(MapTask)'[i].status = Pending /\ Jobs(MapTask)'[i].worker = WorkerID[w]
      BY ZenonT(60), <1>8, <2>1, <2>4, <2>7
    <3>3. phase = IF MapTask = MapTask THEN MapPhase ELSE ReducePhase
      BY <1>8, Names, Zenon
    <3> QED
      BY ZenonT(60), <1>0, <1>2, <1>3, <2>2, <2>5, <2>8, <3>1, <3>2, <3>3, AssignOwnership
  <2> QED
    BY ZenonT(60), <1>6, <1>8, <2>2, <2>3, <2>4, <2>6, <2>9, Bounds, Names
<1>9. ASSUME NEW i \in DOMAIN reduceTasks, phase = ReducePhase, UNCHANGED mapTasks,
             reduceTasks[i].status = Waiting,
             reduceTasks' = Assign(reduceTasks, i, WorkerID[w]),
             taskReply' = [taskReply EXCEPT ![w] =
                  [TaskId |-> reduceTasks[i].taskId, Type |-> ReduceTask,
                   TaskAvailable |-> TRUE, Phase |-> phase,
                   Partition |-> reduceTasks[i].partition]]
      PROVE  IInv'
  <2>1. /\ reduceTasks # <<>> /\ Table(reduceTasks, NReduce)
        /\ DOMAIN reduceTasks = 1..NReduce
    <3>1. reduceTasks # <<>>
      BY SMTT(30), <1>9
    <3> QED
      BY Zenon, <1>0, <3>1, TablesAreSeqs DEF Tables
  <2>2. /\ taskReply'[w].Type = ReduceTask /\ taskReply'[w].TaskId = i - 1
        /\ taskReply'[w].Phase = ReducePhase /\ part'[w] = i - 1
    BY <1>0, <1>2, <1>9, <2>1 DEF CTypeOK, Tables, Table
  <2>3. pc'[w] = "reduceRead"
    BY SMTT(30), <1>2, <2>2, Names DEF Dispatch
  <2>4. /\ Table(reduceTasks', NReduce)
        /\ \A j \in 1..NReduce : j # i => reduceTasks'[j] = reduceTasks[j]
        /\ reduceTasks'[i].status = Pending /\ reduceTasks'[i].worker = WorkerID[w]
    <3>1. NReduce \in Nat /\ Table(reduceTasks, NReduce) /\ i \in 1..NReduce /\ WorkerID[w] \in Ids
      BY <1>9, <2>1, TaskCountAssumption, IdsFact, Zenon
    <3> QED
      BY SMTT(30), <1>9, <3>1, AssignTable
  <2>5. /\ i \in Nat /\ i >= 1 /\ i - 1 \in Partitions /\ i \in 1..NReduce
        /\ DOMAIN reduceTasks' = 1..NReduce
    <3>1. i \in 1..NReduce /\ i - 1 \in Partitions
      BY <1>9, <2>1, Bounds, Zenon
    <3>2. DOMAIN reduceTasks' = 1..NReduce
      BY <2>4, Bounds, TableIsSeq, Zenon
    <3>3. i \in Nat /\ i >= 1
      BY <3>1, Bounds
    <3> QED
      BY <3>1, <3>2, <3>3, Zenon
  <2>6. ReplyFits(w)'
    BY ZenonT(60), <1>0, <1>2, <1>9, <2>2, <2>3, <2>5, Names
    DEF ReplyFits, ReduceReply, MapPoints, ReducePoints
  <2>7. /\ Jobs(MapTask) = mapTasks /\ Jobs(MapTask)' = mapTasks'
        /\ Jobs(ReduceTask) = reduceTasks /\ Jobs(ReduceTask)' = reduceTasks'
    BY Names DEF Jobs
  <2>8. \A t \in {MapTask, ReduceTask} :
              /\ DOMAIN Jobs(t)' = DOMAIN Jobs(t)
              /\ \A j \in DOMAIN Jobs(t) : t # ReduceTask \/ j # i => Jobs(t)'[j] = Jobs(t)[j]
    BY Zenon, <1>9, <2>1, <2>4, <2>5, <2>7
  <2>9. Ownership'
    <3>1. pc'[w] \in Running
      BY <2>3, Zenon DEF Running, ReducePoints
    <3>2. /\ i \in DOMAIN Jobs(ReduceTask) /\ Jobs(ReduceTask)[i].status = Waiting
          /\ Jobs(ReduceTask)'[i].status = Pending /\ Jobs(ReduceTask)'[i].worker = WorkerID[w]
      BY ZenonT(60), <1>9, <2>1, <2>5, <2>4, <2>7
    <3>3. phase = IF ReduceTask = MapTask THEN MapPhase ELSE ReducePhase
      BY <1>9, Names, Zenon
    <3> QED
      BY ZenonT(60), <1>0, <1>2, <1>3, <2>2, <2>5, <2>8, <3>1, <3>2, <3>3, AssignOwnership
  <2> QED
    BY ZenonT(60), <1>6, <1>9, <2>1, <2>2, <2>3, <2>4, <2>5, <2>6, <2>9, Names
<1> QED
  BY Zenon, <1>0, <1>7, <1>8, <1>9, RequestOutcomes
-----------------------------------------------------------------------------
(* The update of a worker that holds a task completes exactly that task,   *)
(* and one without a task changes nothing.                                 *)
LEMMA UpdateOutcomes ==
    ASSUME IInv, NEW w \in Workers, pc[w] = "update",
           TaskUpdateByWorker(w, WorkerID[w], taskReply[w].TaskId, taskReply[w].Type)
    PROVE  \/ Holds(w) /\ CompleteTask(w, taskReply[w].TaskId + 1, taskReply[w].Type)
           \/ ~Holds(w) /\ EmptyReply(w) /\ UNCHANGED <<phase, mapTasks, reduceTasks>>
<1> DEFINE tid == taskReply[w].TaskId
           type == taskReply[w].Type
<1>0. pc[w] \in Running /\ CInv /\ Tables /\ ReplyFits(w)
  BY Zenon DEF Running, IInv, CInv
<1>1. CASE Holds(w)
  <2>1. /\ type \in {MapTask, ReduceTask} /\ tid \in Nat /\ tid + 1 \in DOMAIN Jobs(type)
        /\ Jobs(type)[tid + 1].status = Pending /\ Jobs(type)[tid + 1].worker = WorkerID[w]
    BY Zenon, <1>1, HeldIndex DEF Held
  <2>2. \A i \in DOMAIN Jobs(type) : i \in Nat /\ Jobs(type)[i].taskId = i - 1
    <3>1. CASE type = MapTask
      BY <1>0, <3>1, TablesAreSeqs, TaskCountAssumption DEF Jobs, Tables, Table
    <3>2. CASE type = ReduceTask
      <4>1. Jobs(type) = reduceTasks /\ reduceTasks # <<>>
        BY <2>1, <3>2, Names DEF Jobs
      <4> QED
        BY <1>0, <4>1, TablesAreSeqs, TaskCountAssumption DEF Tables, Table
    <3> QED
      BY Zenon, <2>1, <3>1, <3>2
  <2>3. Jobs(type)[tid + 1].taskId = tid
    BY <2>1, <2>2
  <2>4. \A i \in DOMAIN Jobs(type) : FirstWithId(Jobs(type), i, tid) => i = tid + 1
    BY <2>1, <2>2 DEF FirstWithId
  <2>5. ~MissingArgument(WorkerID[w], tid, type)
    BY <2>1, WorkerIDAssumption DEF MissingArgument, NoTask
  <2>6. Jobs(type)[tid + 1].status # DONE
    BY <2>1, Names, Zenon
  <2>7. CompleteTask(w, tid + 1, type)
    BY Zenon, <2>1, <2>3, <2>4, <2>5, <2>6 DEF TaskUpdateByWorker
  <2> QED
    BY <1>1, <2>7, Zenon
<1>2. CASE ~Holds(w)
  <2>1. tid = NoTask
    BY <1>0, <1>2, Zenon DEF Holds
  <2>2. EmptyReply(w)
    <3>1. NoTask \notin Maps /\ NoTask \notin Partitions
      BY TaskCountAssumption DEF NoTask, Maps, Partitions
    <3> QED
      BY <1>0, <2>1, <3>1, Zenon DEF ReplyFits, MapReply, ReduceReply
  <2>3. MissingArgument(WorkerID[w], tid, type)
    BY <2>1, Zenon DEF MissingArgument
  <2> QED
    BY Zenon, <1>2, <2>2, <2>3 DEF TaskUpdateByWorker, RefuseUpdate
<1> QED
  BY <1>1, <1>2, Zenon

(* A worker that held task i of a table and completed it. *)
LEMMA DoneOwnership ==
    ASSUME IInv, NEW w \in Workers, Holds(w), ~Holds(w)', UNCHANGED <<coord, taskReply>>,
           \A v \in Workers \ {w} : Holds(v)' <=> Holds(v),
           NEW type \in {MapTask, ReduceTask}, NEW i \in Nat,
           taskReply[w].Type = type, taskReply[w].TaskId + 1 = i,
           \A t \in {MapTask, ReduceTask} : \A j \in DOMAIN Jobs(t) :
                t # type \/ j # i => Jobs(t)'[j] = Jobs(t)[j],
           \A t \in {MapTask, ReduceTask} : \A j \in DOMAIN Jobs(t)' :
                Jobs(t)'[j].status = Pending =>
                    j \in DOMAIN Jobs(t) /\ (t # type \/ j # i),
           \/ phase' = phase
           \/ /\ phase = IF type = MapTask THEN MapPhase ELSE ReducePhase
              /\ \A j \in DOMAIN Jobs(type) : Jobs(type)'[j].status = DONE
    PROVE  Ownership'
<1>1. ASSUME NEW v \in Workers, Holds(v)'
      PROVE  /\ v # w /\ Holds(v) /\ Held(v)' = Held(v)
             /\ Held(v).status = Pending /\ Held(v).worker = WorkerID[v]
             /\ phase' = phase
  <2>1. v # w /\ Holds(v)
    BY Zenon, <1>1
  <2>2. /\ taskReply[v].Type \in {MapTask, ReduceTask} /\ taskReply[v].TaskId \in Nat
        /\ taskReply[v].TaskId + 1 \in DOMAIN Jobs(taskReply[v].Type)
        /\ Held(v).status = Pending /\ Held(v).worker = WorkerID[v]
    BY Zenon, <2>1, HeldIndex
  <2>3. taskReply[w].TaskId \in Nat
    BY Zenon, HeldIndex
  <2>4. taskReply[v].Type # type \/ taskReply[v].TaskId # taskReply[w].TaskId
    BY Zenon, <2>1 DEF IInv, Ownership, ExclusiveTask
  <2>5. taskReply[v].Type # type \/ taskReply[v].TaskId + 1 # i
    BY <2>2, <2>3, <2>4
  <2>6. Jobs(taskReply[v].Type)'[taskReply[v].TaskId + 1]
          = Jobs(taskReply[v].Type)[taskReply[v].TaskId + 1]
    BY Zenon, <2>2, <2>5
  <2>7. Held(v)' = Held(v)
    BY Zenon, <2>6 DEF Held, Jobs
  <2>8. phase' = phase
    <3> SUFFICES ASSUME phase' # phase PROVE FALSE
      BY Zenon
    <3>1. phase = IF taskReply[v].Type = MapTask THEN MapPhase ELSE ReducePhase
      BY Zenon, <2>1 DEF IInv, Ownership, HolderIsOwner
    <3>2. taskReply[v].Type = type
      BY Zenon, <2>2, <3>1, Names
    <3>3. Jobs(taskReply[v].Type)[taskReply[v].TaskId + 1].status = DONE
      BY ZenonT(60), <2>2, <2>6, <3>2
    <3> QED
      BY Zenon, <2>2, <3>3, Names DEF Held
  <2> QED
    BY Zenon, <2>1, <2>2, <2>7, <2>8
<1>2. ExclusiveTask' /\ HolderIsOwner'
  <2>1. ExclusiveTask'
    BY ZenonT(60), <1>1 DEF IInv, Ownership, ExclusiveTask
  <2>2. HolderIsOwner'
    BY ZenonT(60), <1>1 DEF IInv, Ownership, HolderIsOwner
  <2> QED
    BY Zenon, <2>1, <2>2
<1>3. PendingHasHolder'
  <2>1. ASSUME coord' # "dead", NEW t \in {MapTask, ReduceTask}, NEW j \in DOMAIN Jobs(t)',
               Jobs(t)'[j].status = Pending
        PROVE  \E v \in Workers : /\ Holds(v)' /\ taskReply'[v].Type = t
                                  /\ taskReply'[v].TaskId = j - 1
    <3>1. j \in DOMAIN Jobs(t) /\ (t # type \/ j # i)
      BY Zenon, <2>1
    <3>2. Jobs(t)[j].status = Pending
      BY Zenon, <2>1, <3>1
    <3>3. PICK v \in Workers : Holds(v) /\ taskReply[v].Type = t /\ taskReply[v].TaskId = j - 1
      BY ZenonT(60), <2>1, <3>1, <3>2 DEF IInv, Ownership, PendingHasHolder
    <3>4. j \in Nat
      <4>1. Tables
        BY Zenon DEF IInv, CInv
      <4>2. DOMAIN mapTasks \subseteq Nat /\ DOMAIN reduceTasks \subseteq Nat
        BY <4>1, TablesAreSeqs
      <4> QED
        BY Zenon, <3>1, <4>2 DEF Jobs
    <3>5. v # w
      BY <3>1, <3>3, <3>4
    <3> QED
      BY Zenon, <3>3, <3>5
  <2> QED
    BY Zenon, <2>1 DEF PendingHasHolder
<1> QED
  BY <1>2, <1>3 DEF Ownership

(* DoWorkerTaskUpdate: the report of a task, and what it does to the phase. *)
LEMMA DoWorkerTaskUpdateIInv ==
    ASSUME IInv, NEW w \in Workers, DoWorkerTaskUpdate(w)
    PROVE  IInv'
<1> DEFINE tid == taskReply[w].TaskId
           type == taskReply[w].Type
<1>0. /\ CInv /\ Tables /\ WTypeOK /\ ReplyFits(w) /\ MapProgress(w) /\ pc[w] = "update"
      /\ TaskUpdateByWorker(w, WorkerID[w], tid, type)
      /\ UNCHANGED <<coord, workers, registering, slice, taskReply, alive, chunk, inter,
                     output, crashes>>
      /\ part' = [part EXCEPT ![w] = 0] /\ input' = [input EXCEPT ![w] = "none"]
      /\ pc' = [pc EXCEPT ![w] = IF FetchAgain(updateReply'[w]) THEN "fetch" ELSE "stopped"]
  BY Zenon DEF IInv, CInv, DoWorkerTaskUpdate, TaskUpdateByWorker, GoTo, files
<1>1. CInv'
  BY Zenon, <1>0, UpdateCInv
<1>2. /\ pc'[w] \in {"fetch", "stopped"} /\ chunk[w] = 1
      /\ \A v \in Workers \ {w} : pc'[v] = pc[v] /\ part'[v] = part[v] /\ input'[v] = input[v]
  BY Zenon, <1>0 DEF WTypeOK, ReplyFits
<1>3. WTypeOK'
  <2>1. {"fetch", "stopped"} \subseteq Points /\ 0 \in Partitions
    BY Bounds, Zenon DEF Points
  <2> QED
    BY Zenon, <1>0, <2>1, InputNone DEF WTypeOK
<1>4. RegistrationWaits'
  BY Zenon, <1>0, <1>2 DEF IInv, RegistrationWaits
<1>5. /\ ReplyFits(w)' /\ MapProgress(w)' /\ ReadFullInput(w)'
      /\ ~Holds(w)'
  BY Zenon, <1>0, <1>2
  DEF ReplyFits, MapProgress, ReadFullInput, Holds, Running, MapPoints, ReducePoints
<1>6. \A v \in Workers, p \in Partitions : Writes(v, p)' <=> Writes(v, p)
  BY Zenon, <1>0, <1>2 DEF Writes
<1>7. \A p \in Partitions : Covered(p) => Covered(p)'
  BY Zenon, <1>0, <1>6, FullKept DEF Covered
<1>8. ASSUME Ownership', phase # MapPhase => phase' # MapPhase,
             \A m \in Maps : mapTasks'[m + 1].status = DONE =>
                \/ mapTasks[m + 1].status = DONE
                \/ type = MapTask /\ tid = m,
             \A p \in Partitions :
                p + 1 \in DOMAIN reduceTasks' /\ reduceTasks'[p + 1].status = DONE =>
                \/ p + 1 \in DOMAIN reduceTasks /\ reduceTasks[p + 1].status = DONE
                \/ type = ReduceTask /\ tid = p
      PROVE  IInv'
  <2>1. \A v \in Workers \ {w} : ReplyFits(v)' /\ MapProgress(v)' /\ ReadFullInput(v)'
    BY Zenon, <1>0, <1>2, <1>8, OthersStep
  <2>2. DoneMapsOnDisk'
    BY Zenon, <1>0, <1>8 DEF IInv, DoneMapsOnDisk, MapProgress
  <2>3. \A p \in Partitions : Written(p)' => Written(p)
    BY Zenon, <1>0, <1>2, <1>6, <1>8 DEF Written
  <2>4. OutputCovered'
    BY <1>7, <2>3 DEF IInv, OutputCovered
  <2> QED
    BY SMTT(30), <1>1, <1>3, <1>4, <1>5, <1>8, <2>1, <2>2, <2>4 DEF IInv
<1>9. \A v \in Workers \ {w} : Holds(v)' <=> Holds(v)
  BY Zenon, <1>0, <1>2 DEF Holds
<1>10. CASE ~Holds(w) /\ UNCHANGED <<phase, mapTasks, reduceTasks>>
  <2>1. \A v \in Workers : (Holds(v)' <=> Holds(v)) /\ Held(v)' = Held(v)
    BY Zenon, <1>0, <1>5, <1>9, <1>10 DEF Held, Jobs
  <2>2. ExclusiveTask'
    BY Zenon, <1>0, <2>1 DEF IInv, Ownership, ExclusiveTask
  <2>3. HolderIsOwner'
    BY Zenon, <1>0, <1>10, <2>1 DEF IInv, Ownership, HolderIsOwner
  <2>4. PendingHasHolder'
    <3>1. \A t \in {MapTask, ReduceTask} : Jobs(t)' = Jobs(t)
      BY Zenon, <1>10 DEF Jobs
    <3> QED
      BY ZenonT(60), <1>0, <2>1, <3>1 DEF IInv, Ownership, PendingHasHolder
  <2> QED
    BY Zenon, <1>8, <1>10, <2>2, <2>3, <2>4 DEF Ownership
<1>11. CASE Holds(w) /\ CompleteTask(w, tid + 1, type)
  <2>i. PICK i \in Nat : i = tid + 1
    BY SMTT(30), <1>11, HeldIndex
  <2>0. /\ type \in {MapTask, ReduceTask} /\ tid \in Nat /\ i = tid + 1
        /\ i \in DOMAIN Jobs(type) /\ Jobs(type)[i].status = Pending
        /\ Jobs(type)[i].worker # NoID /\ Jobs(type)[i].status # DONE
    BY Zenon, <1>11, <2>i, HeldIndex, WorkerIDAssumption, Names DEF Held
  <2>1. /\ Jobs(MapTask) = mapTasks /\ Jobs(MapTask)' = mapTasks'
        /\ Jobs(ReduceTask) = reduceTasks /\ Jobs(ReduceTask)' = reduceTasks'
    BY Names DEF Jobs
  <2>2. CASE type = MapTask
    <3>1. /\ phase = MapPhase /\ i \in 1..NMap /\ reduceTasks = <<>>
          /\ mapTasks' = SetDone(mapTasks, i)
          /\ \/ UNCHANGED <<phase, reduceTasks>>
             \/ /\ \A j \in 1..NMap : mapTasks'[j].status = DONE
                /\ reduceTasks' = NewReduceTasks
      BY ZenonT(60), <1>0, <1>11, <2>0, <2>2, CompleteFacts
    <3>2. Table(mapTasks, NMap) /\ DOMAIN mapTasks = 1..NMap
      BY ZenonT(60), <1>0, TablesAreSeqs DEF Tables
    <3>3. /\ \A j \in 1..NMap : j # i => mapTasks'[j] = mapTasks[j]
          /\ mapTasks'[i].status = DONE /\ DOMAIN mapTasks' = 1..NMap
      BY SMTT(60), <2>0, <2>1, <2>2, <3>1, <3>2, DoneTable, TableIsSeq, TaskCountAssumption
    <3>4. /\ DOMAIN reduceTasks = {}
          /\ \A j \in DOMAIN reduceTasks' : reduceTasks'[j].status = Waiting
      <4>1. DOMAIN reduceTasks = {}
        BY <3>1
      <4>2. DOMAIN NewReduceTasks = 1..NReduce
        BY Zenon DEF NewReduceTasks
      <4> QED
        BY ZenonT(60), <3>1, <4>1, <4>2, NewTables
    <3>5. \A t \in {MapTask, ReduceTask} : \A j \in DOMAIN Jobs(t) :
                t # MapTask \/ j # i => Jobs(t)'[j] = Jobs(t)[j]
      BY ZenonT(60), <2>1, <2>2, <3>2, <3>3, <3>4
    <3>6. \A t \in {MapTask, ReduceTask} : \A j \in DOMAIN Jobs(t)' :
                Jobs(t)'[j].status = Pending => j \in DOMAIN Jobs(t) /\ (t # MapTask \/ j # i)
      BY ZenonT(60), <2>1, <2>2, <3>2, <3>3, <3>4, Names
    <3>7. \/ phase' = phase
          \/ /\ phase = IF MapTask = MapTask THEN MapPhase ELSE ReducePhase
             /\ \A j \in DOMAIN Jobs(MapTask) : Jobs(MapTask)'[j].status = DONE
      BY Zenon, <2>1, <2>2, <3>1, <3>2
    <3>8. Ownership'
      BY ZenonT(60), <1>0, <1>5, <1>9, <1>11, <2>0, <2>2, <3>5, <3>6, <3>7, DoneOwnership
    <3>9. \A m \in Maps : m + 1 \in 1..NMap /\ (m + 1 = i => tid = m)
      <4>1. \A m \in Maps : m \in Nat /\ m + 1 \in 1..NMap
        BY Bounds
      <4> QED
        BY <2>0, <4>1
    <3> QED
      BY ZenonT(60), <1>8, <2>2, <3>1, <3>3, <3>4, <3>8, <3>9, Names
  <2>3. CASE type = ReduceTask
    <3>1. /\ phase = ReducePhase /\ i \in 1..NReduce /\ Table(reduceTasks, NReduce)
          /\ reduceTasks' = SetDone(reduceTasks, i) /\ UNCHANGED mapTasks
          /\ \/ UNCHANGED phase
             \/ /\ \A j \in 1..NReduce : reduceTasks'[j].status = DONE
                /\ phase' = FinishedPhase
      BY ZenonT(60), <1>0, <1>11, <2>0, <2>3, CompleteFacts
    <3>2. DOMAIN reduceTasks = 1..NReduce
      BY SMTT(30), <3>1, TableIsSeq, TaskCountAssumption
    <3>3. /\ \A j \in 1..NReduce : j # i => reduceTasks'[j] = reduceTasks[j]
          /\ reduceTasks'[i].status = DONE /\ DOMAIN reduceTasks' = 1..NReduce
      BY SMTT(60), <2>0, <2>1, <2>3, <3>1, DoneTable, TableIsSeq, TaskCountAssumption
    <3>5. \A t \in {MapTask, ReduceTask} : \A j \in DOMAIN Jobs(t) :
                t # ReduceTask \/ j # i => Jobs(t)'[j] = Jobs(t)[j]
      BY ZenonT(60), <2>1, <2>3, <3>1, <3>2, <3>3
    <3>6. \A t \in {MapTask, ReduceTask} : \A j \in DOMAIN Jobs(t)' :
                Jobs(t)'[j].status = Pending => j \in DOMAIN Jobs(t) /\ (t # ReduceTask \/ j # i)
      BY SMTT(30), <2>1, <2>3, <3>1, <3>2, <3>3, Names
    <3>7. \/ phase' = phase
          \/ /\ phase = IF ReduceTask = MapTask THEN MapPhase ELSE ReducePhase
             /\ \A j \in DOMAIN Jobs(ReduceTask) : Jobs(ReduceTask)'[j].status = DONE
      BY SMTT(30), <2>1, <2>3, <3>1, <3>2, Names
    <3>8. Ownership'
      BY ZenonT(60), <1>0, <1>5, <1>9, <1>11, <2>0, <2>3, <3>5, <3>6, <3>7, DoneOwnership
    <3>9. \A p \in Partitions : p \in Nat /\ (p + 1 = i => tid = p)
      BY <2>0, Bounds
    <3>10. phase' # MapPhase
      BY <3>1, Names, Zenon
    <3> QED
      BY SMTT(30), <1>8, <2>3, <3>1, <3>2, <3>3, <3>8, <3>9, <3>10
  <2> QED
    BY <2>0, <2>2, <2>3
<1> QED
  BY Zenon, <1>0, <1>10, <1>11, UpdateOutcomes
-----------------------------------------------------------------------------
(* Every step keeps the invariant. *)
LEMMA NextIInv == IInv /\ [Next]_vars => IInv'
<1> SUFFICES ASSUME IInv, [Next]_vars PROVE IInv'
  OBVIOUS
<1>1. CASE UNCHANGED vars
  <2>1. UNCHANGED <<cvars, alive, pc, part, chunk, input, inter, output, crashes>>
    BY <1>1 DEF vars, wvars, files
  <2>2. CTypeOK' /\ WTypeOK' /\ RegistrationWaits'
    BY Zenon, <2>1 DEF IInv, CInv, CTypeOK, WTypeOK, RegistrationWaits, cvars
  <2>3. CInv'
    BY <2>1, <2>2, FrameCInv, Zenon DEF IInv, cvars
  <2> QED
    BY <2>1, <2>2, <2>3, QuietStep, Zenon DEF cvars, files
<1>2. CASE Listen \/ CoordinatorCrash
  BY <1>2, QuietActions, Zenon
<1>3. ASSUME NEW w \in Workers, WorkerStep(w) \/ WorkerCrash(w) PROVE IInv'
  BY SMTT(30), <1>3, QuietActions, WorkerFetchTasksIInv, MapperCreateIInv, MapperWriteIInv,
     ReducerReadIInv, ReducerCreateIInv, ReducerWriteIInv, DoWorkerTaskUpdateIInv
  DEF WorkerStep
<1> QED
  BY <1>1, <1>2, <1>3 DEF Next

(* The invariant holds in every state the job can reach, with any number   *)
(* of workers, tasks, chunks and crashes.                                  *)
THEOREM JobInvariant == Spec => []IInv
BY InitIInv, NextIInv, PTL DEF Spec

(* TypeOK, which bounds among others the partition a mapper is at and the  *)
(* chunks a file can hold.                                                 *)
THEOREM JobTypes == Spec => []TypeOK
<1>1. IInv => TypeOK
  BY DEF IInv, CInv, WTypeOK, TypeOK
<1> QED
  BY <1>1, JobInvariant, PTL

(* No two workers ever run the same task, whether their ids are distinct   *)
(* or not (TaskRequestByWorker under its lock).                            *)
THEOREM TasksExclusive == Spec => []ExclusiveTask
<1>1. IInv => ExclusiveTask
  BY DEF IInv, Ownership
<1> QED
  BY <1>1, JobInvariant, PTL

(* A worker that runs a task is recorded as its owner until it reports it, *)
(* so its update is never refused.                                         *)
THEOREM HoldersOwn == Spec => []HolderIsOwner
<1>1. IInv => HolderIsOwner
  BY DEF IInv, Ownership
<1> QED
  BY <1>1, JobInvariant, PTL

(* No Pending task is without a worker that has it, while the coordinator  *)
(* lives.                                                                  *)
THEOREM PendingTasksHeld == Spec => []PendingHasHolder
<1>1. IInv => PendingHasHolder
  BY DEF IInv, Ownership
<1> QED
  BY <1>1, JobInvariant, PTL

(* ReducerTask finds the complete output of every map task of this job,    *)
(* whatever crashed, and whatever an earlier job left under the same task  *)
(* numbers (files of higher task numbers are read as well).                *)
THEOREM ReducersReadCompleteInput == Spec => []ReducerReadsCompleteInput
<1>1. IInv => ReducerReadsCompleteInput
  <2> SUFFICES ASSUME IInv, NEW w \in Workers, pc[w] = "reduceRead", NEW m \in Maps
               PROVE  inter[<<m, part[w]>>] = Chunks
    BY DEF ReducerReadsCompleteInput
  <2>1. phase # MapPhase /\ part[w] \in Partitions
    BY Zenon DEF IInv, ReplyFits, ReducePoints, WTypeOK
  <2> QED
    BY <2>1, FullInput, Zenon
<1> QED
  BY <1>1, JobInvariant, PTL

(* No step after the map phase changes an intermediate file: the only      *)
(* workers that write one hold a map task.                                 *)
THEOREM IntermediateStaysFrozen == Spec => IntermediateFrozen
<1>1. IInv /\ [Next]_vars => [phase # MapPhase => inter' = inter]_vars
  <2> SUFFICES ASSUME IInv, Next, phase # MapPhase PROVE inter' = inter
    BY DEF vars, files
  <2>1. CASE Listen \/ CoordinatorCrash
    BY <2>1, Zenon DEF Listen, CoordinatorCrash, files
  <2>2. ASSUME NEW w \in Workers, WorkerStep(w) \/ WorkerCrash(w) PROVE inter' = inter
    <3>1. pc[w] \notin MapPoints
      <4> SUFFICES ASSUME pc[w] \in MapPoints PROVE FALSE
        OBVIOUS
      <4>1. MapReply(w) /\ NoTask \notin Maps
        BY TaskCountAssumption DEF IInv, ReplyFits, NoTask, Maps
      <4>2. Holds(w)
        BY Zenon, <4>1 DEF Holds, Running, MapReply
      <4> QED
        BY <4>1, <4>2, Zenon DEF IInv, Ownership, HolderIsOwner, MapReply
    <3>2. ~MapperCreate(w) /\ ~MapperWrite(w)
      BY Zenon, <3>1 DEF MapperCreate, MapperWrite, MapPoints
    <3> QED
      BY ZenonT(60), <2>2, <3>2
      DEF WorkerStep, WorkerCrash, WorkerRegistrationRequest, RegistrationReply,
          WorkerFetchTasks, ReducerRead, ReducerCreate, ReducerWrite,
          DoWorkerTaskUpdate, DialFails, CallBreaks, files
  <2> QED
    BY <2>1, <2>2 DEF Next
<1> QED
  BY <1>1, JobInvariant, PTL DEF Spec, IntermediateFrozen

(* The output file of a DONE reduce task is complete and computed from the *)
(* complete output of every map task, and from leftover files of higher    *)
(* task numbers exactly when there are any, unless it is mr-out-0 and a    *)
(* worker that was given no task is rewriting it.                          *)
THEOREM DoneOutputsComplete == Spec => []DoneOutputComplete
<1>1. IInv => DoneOutputComplete
  <2> SUFFICES ASSUME IInv, NEW i \in DOMAIN reduceTasks, reduceTasks[i].status = DONE
               PROVE  \/ OutputComplete(i - 1)
                      \/ i = 1 /\ \E w \in Workers : Reruns(w) /\ pc[w] = "reduceWrite"
    BY DEF DoneOutputComplete
  <2>0. reduceTasks # <<>> /\ DOMAIN reduceTasks = 1..NReduce
    <3>1. reduceTasks # <<>>
      OBVIOUS
    <3> QED
      BY <3>1, TablesAreSeqs DEF IInv, CInv
  <2>1. PICK p \in Partitions : p = i - 1 /\ p + 1 = i
    BY SMTT(30), <2>0, Bounds
  <2>2. Covered(p)
    BY <2>1 DEF IInv, OutputCovered, Written
  <2>3. CASE \A k \in Chunks : output[p][k] = Full(p)
    BY Zenon, <2>1, <2>3 DEF OutputComplete
  <2>4. ASSUME NEW w \in Workers, Writes(w, p)
        PROVE  i = 1 /\ Reruns(w) /\ pc[w] = "reduceWrite"
    <3>1. pc[w] = "reduceWrite" /\ pc[w] \in ReducePoints /\ part[w] = p
      BY <2>4, Zenon DEF Writes, ReducePoints
    <3>2. ReduceReply(w) \/ EmptyReply(w)
      BY Zenon, <3>1 DEF IInv, ReplyFits
    <3>3. ~ReduceReply(w)
      <4> SUFFICES ASSUME ReduceReply(w) PROVE FALSE
        OBVIOUS
      <4>1. taskReply[w].TaskId = p /\ taskReply[w].Type = ReduceTask /\ p # NoTask
        BY <3>1, Bounds DEF ReduceReply, NoTask
      <4>2. Holds(w)
        BY <3>1, <4>1, Zenon DEF Holds, Running
      <4>3. Held(w) = reduceTasks[i]
        BY <2>1, <4>1, Names, Zenon DEF Held, Jobs
      <4> QED
        BY <4>2, <4>3, HeldIndex, Names, Zenon
    <3> QED
      BY SMTT(30), <2>1, <3>1, <3>2, <3>3 DEF EmptyReply, Reruns
  <2> QED
    BY Zenon, <2>2, <2>3, <2>4 DEF Covered
<1> QED
  BY <1>1, JobInvariant, PTL
=============================================================================
