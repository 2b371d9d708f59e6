---------------------------- MODULE MapReduceInv ----------------------------
(***************************************************************************)
(* Proofs about MapReduce, first part: the inductive invariant, the steps  *)
(* that leave the task tables and the files alone, and those that write    *)
(* the files of a map or a reduce task.                                    *)
(***************************************************************************)
EXTENDS MapReduce, CoordinatorProofs

(* The part of TypeOK that is not the coordinator's. *)
WTypeOK == /\ alive \in [Workers -> BOOLEAN]
           /\ pc \in [Workers -> Points]
           /\ part \in [Workers -> Partitions]
           /\ chunk \in [Workers -> Chunks]
           /\ input \in [Workers -> Inputs]
           /\ inter \in [FileTasks \X Partitions -> SUBSET (Chunks \cup {Stale})]
           /\ output \in [Partitions -> [Chunks -> Inputs \cup {"old"}]]
           /\ crashes \in 0..MaxCrashes

(* What a worker runs fits the reply it runs it for. *)
MapReply(w) == taskReply[w].Type = MapTask /\ taskReply[w].TaskId \in Maps
ReduceReply(w) == /\ taskReply[w].Type = ReduceTask /\ taskReply[w].TaskId \in Partitions
                  /\ part[w] = taskReply[w].TaskId
EmptyReply(w) == /\ taskReply[w].Type = NoType /\ taskReply[w].TaskId = NoTask
                 /\ part[w] = 0

ReplyFits(w) ==
    /\ pc[w] \in MapPoints => MapReply(w)
    /\ pc[w] \in ReducePoints => phase # MapPhase /\ (ReduceReply(w) \/ EmptyReply(w))
    /\ pc[w] = "update" => MapReply(w) \/ ReduceReply(w) \/ EmptyReply(w)
    /\ pc[w] \notin {"mapWrite", "reduceWrite"} => chunk[w] = 1

(* A registration under way belongs to a worker that waits for it. *)
RegistrationWaits ==
    coord # "dead" => \A w \in Workers : registering[w] = "append" => pc[w] = "registering"

(* Tasks and workers agree. *)
Ownership == ExclusiveTask /\ HolderIsOwner /\ PendingHasHolder

(* How far a mapper's files are, and that a reducer has read full input. *)
MapProgress(w) ==
    /\ pc[w] \in MapPoints =>
         \A p \in Partitions : p < part[w] => inter[<<taskReply[w].TaskId, p>>] = Chunks
    /\ pc[w] = "mapWrite" => inter[<<taskReply[w].TaskId, part[w]>>] = 1..(chunk[w] - 1)
    /\ pc[w] = "update" /\ taskReply[w].Type = MapTask =>
         \A p \in Partitions : inter[<<taskReply[w].TaskId, p>>] = Chunks

DoneMapsOnDisk == \A m \in Maps : mapTasks[m + 1].status = DONE =>
                     \A p \in Partitions : inter[<<m, p>>] = Chunks

ReadFullInput(w) == pc[w] \in {"reduceCreate", "reduceWrite"} => input[w] = Full(part[w])

(* An output file that is being written, or was reported or recorded as    *)
(* written, is complete but for chunks that are still to be written by a   *)
(* worker that has the file open.                                          *)
Writes(w, p) == pc[w] = "reduceWrite" /\ part[w] = p

Written(p) == \/ p + 1 \in DOMAIN reduceTasks /\ reduceTasks[p + 1].status = DONE
              \/ \E w \in Workers : Writes(w, p)
              \/ \E w \in Workers : /\ pc[w] = "update"
                                    /\ taskReply[w].Type = ReduceTask
                                    /\ taskReply[w].TaskId = p

Covered(p) == \A k \in Chunks : \/ output[p][k] = Full(p)
                                \/ \E w \in Workers : Writes(w, p) /\ chunk[w] <= k

OutputCovered == \A p \in Partitions : Written(p) => Covered(p)

(* The inductive invariant. *)
IInv == /\ CInv
        /\ WTypeOK
        /\ RegistrationWaits
        /\ \A w \in Workers : ReplyFits(w)
        /\ Ownership
        /\ \A w \in Workers : MapProgress(w)
        /\ DoneMapsOnDisk
        /\ \A w \in Workers : ReadFullInput(w)
        /\ OutputCovered

(* Bounds on the constants. *)
LEMMA Bounds == /\ NMap \in Nat /\ NMap >= 1 /\ NReduce \in Nat /\ NReduce >= 1
                /\ NChunks \in Nat /\ NChunks >= 1
                /\ 0 \in Partitions /\ 1 \in Chunks /\ Chunks \subseteq Nat
                /\ \A m \in Maps : m \in Nat /\ m + 1 \in 1..NMap
                /\ \A p \in Partitions : p \in Nat /\ p + 1 \in 1..NReduce
                /\ \A i \in 1..NMap : i - 1 \in Maps
                /\ \A i \in 1..NReduce : i - 1 \in Partitions
                /\ NMap \in FileTasks /\ NMap \notin Maps /\ Maps \subseteq FileTasks
BY TaskCountAssumption, ChunkAssumption DEF Partitions, Maps, Chunks, FileTasks

(* Which files of other task numbers there are changes only with inter. *)
LEMMA FullKept ==
    ASSUME \A p \in Partitions : inter'[<<NMap, p>>] = inter[<<NMap, p>>]
    PROVE  \A p \in Partitions : Full(p)' = Full(p)
BY DEF Full

(* Counting chunks and partitions. *)
LEMMA ChunkFacts ==
    /\ 1..(1 - 1) = {} /\ 1..NChunks = Chunks
    /\ \A c \in Chunks : /\ 1..(c - 1) \cup {c} = 1..c
                         /\ (c + 1) - 1 = c
                         /\ c < NChunks => c + 1 \in Chunks
                         /\ c < NChunks \/ c = NChunks
<1>1. 1..(1 - 1) = {} /\ 1..NChunks = Chunks
  BY DEF Chunks
<1>2. ASSUME NEW c \in Chunks
      PROVE  /\ 1..(c - 1) \cup {c} = 1..c
             /\ (c + 1) - 1 = c
             /\ c < NChunks => c + 1 \in Chunks
             /\ c < NChunks \/ c = NChunks
  BY Bounds DEF Chunks
<1> QED
  BY <1>1, <1>2, Zenon

(* The order of the partitions, and the test of the loop over them. *)
LEMMA PartitionFacts ==
    \A q \in Partitions :
        /\ \A p \in Partitions : /\ p < q + 1 => p < q \/ p = q
                                 /\ LastPartition(q) => p < q \/ p = q
        /\ ~LastPartition(q) => q + 1 \in Partitions
BY Bounds DEF Partitions, LastPartition

(* A reply with a task is a map or a reduce reply. *)
LEMMA HoldsFits ==
    ASSUME IInv, NEW w \in Workers, Holds(w)
    PROVE  /\ MapReply(w) \/ ReduceReply(w)
           /\ taskReply[w].Type \in {MapTask, ReduceTask}
           /\ taskReply[w].TaskId \in Nat
           /\ MapReply(w) => Held(w) = mapTasks[taskReply[w].TaskId + 1]
           /\ ReduceReply(w) => Held(w) = reduceTasks[taskReply[w].TaskId + 1]
<1>1. MapReply(w) \/ ReduceReply(w)
  BY Zenon DEF IInv, ReplyFits, Holds, Running, EmptyReply
<1> QED
  BY <1>1, Bounds, Names, Zenon DEF MapReply, ReduceReply, Held, Jobs

(* The job starts in the invariant. *)
LEMMA InitIInv == Init => IInv
<1> SUFFICES ASSUME Init PROVE IInv
  OBVIOUS
<1>1. CInv
  BY InitCInv DEF Init
<1>2. WTypeOK
  BY Bounds, CrashAssumption DEF Init, WTypeOK, Points, Stale, Inputs
<1>3. \A w \in Workers : pc[w] = "new" /\ chunk[w] = 1
  BY Zenon DEF Init
<1>4. /\ \A w \in Workers : /\ pc[w] \notin Running /\ pc[w] \notin MapPoints
                            /\ pc[w] \notin ReducePoints
      /\ \A w \in Workers : ~Holds(w)
  BY <1>3, Zenon DEF Running, MapPoints, ReducePoints, Holds
<1>5. /\ DOMAIN mapTasks = 1..NMap /\ DOMAIN reduceTasks = {}
      /\ \A i \in 1..NMap : mapTasks[i].status = Waiting
  BY DEF Init, CInit, MakeCoordinator, NewTask
<1>6. RegistrationWaits
  BY Zenon DEF Init, CInit, RegistrationWaits
<1>7. \A w \in Workers : ReplyFits(w) /\ MapProgress(w) /\ ReadFullInput(w)
  BY <1>3, <1>4, Zenon DEF ReplyFits, MapProgress, ReadFullInput
<1>8. Ownership
  BY <1>4, <1>5, Names, Zenon DEF Ownership, ExclusiveTask, HolderIsOwner, PendingHasHolder, Jobs
<1>9. DoneMapsOnDisk
  BY Zenon, <1>5, Bounds, Names DEF DoneMapsOnDisk
<1>10. OutputCovered
  BY <1>3, <1>5, Zenon DEF OutputCovered, Written, Writes
<1> QED
  BY <1>1, <1>2, <1>6, <1>7, <1>8, <1>9, <1>10, Zenon DEF IInv
-----------------------------------------------------------------------------
(* A step that touches no task, reply or file, and moves workers only      *)
(* between points at which they run no task (or out of a call to a dead    *)
(* coordinator).                                                           *)
LEMMA QuietStep ==
    ASSUME IInv, CInv', WTypeOK', RegistrationWaits',
           UNCHANGED <<phase, mapTasks, reduceTasks, taskReply, part, chunk, input, files>>,
           \A w \in Workers : \/ pc'[w] = pc[w]
                              \/ pc[w] \notin Running /\ pc'[w] \notin Running
                              \/ /\ pc[w] = "update" /\ pc'[w] \notin Running
                                 /\ coord' = "dead",
           coord = "dead" => coord' = "dead"
    PROVE  IInv'
<1>1. \A w \in Workers : /\ Holds(w)' => Holds(w)
                         /\ Holds(w) /\ coord' # "dead" => Holds(w)'
                         /\ Held(w)' = Held(w)
  BY Zenon DEF Holds, Held, Jobs
<1>2. Ownership'
  BY <1>1 DEF IInv, Ownership, ExclusiveTask, HolderIsOwner, PendingHasHolder, Jobs
<1>3. ASSUME NEW w \in Workers
      PROVE  ReplyFits(w)' /\ MapProgress(w)' /\ ReadFullInput(w)'
  <2>1. ReplyFits(w) /\ MapProgress(w) /\ ReadFullInput(w)
    BY SMTT(30) DEF IInv
  <2>2. CASE pc'[w] = pc[w]
    BY <2>1, <2>2 DEF ReplyFits, MapProgress, ReadFullInput, Full, files, MapReply, ReduceReply,
                      EmptyReply
  <2>3. CASE pc'[w] \notin Running /\ pc[w] \notin {"mapWrite", "reduceWrite"}
    <3>1. /\ pc'[w] \notin MapPoints /\ pc'[w] \notin ReducePoints /\ pc'[w] # "update"
          /\ pc'[w] \notin {"reduceCreate", "reduceWrite", "mapWrite"}
      BY <2>3, Zenon DEF Running, MapPoints, ReducePoints
    <3> QED
      BY <2>1, <2>3, <3>1, Zenon DEF ReplyFits, MapProgress, ReadFullInput
  <2> QED
    BY <2>2, <2>3, Zenon DEF Running, MapPoints, ReducePoints
<1>4. DoneMapsOnDisk'
  BY Zenon DEF IInv, DoneMapsOnDisk, files
<1>5. OutputCovered'
  <2>1. \A w \in Workers, p \in Partitions : Writes(w, p)' <=> Writes(w, p)
    BY Zenon DEF Writes, Running, ReducePoints
  <2>2. \A p \in Partitions : Written(p)' => Written(p)
    BY <2>1, Zenon DEF Written, Running
  <2>3. \A p \in Partitions : Covered(p) => Covered(p)'
    BY <2>1, FullKept, Zenon DEF Covered, files
  <2> QED
    BY <2>2, <2>3, Zenon DEF IInv, OutputCovered
<1> QED
  BY <1>2, <1>3, <1>4, <1>5, Zenon DEF IInv

(* A step of one worker inside a task leaves the coordinator alone. *)
LEMMA LocalStep ==
    ASSUME IInv, UNCHANGED cvars, WTypeOK',
           \A w \in Workers : pc'[w] = pc[w] \/ (pc[w] \in Running /\ pc'[w] \in Running)
    PROVE  CInv' /\ RegistrationWaits' /\ Ownership'
<1>1. CTypeOK'
  BY Zenon DEF IInv, CInv, CTypeOK, cvars
<1>2. CInv'
  BY <1>1, FrameCInv, Zenon DEF IInv, cvars
<1>3. RegistrationWaits'
  BY Zenon DEF IInv, RegistrationWaits, cvars, Running, MapPoints, ReducePoints
<1>4. \A w \in Workers : (Holds(w)' <=> Holds(w)) /\ Held(w)' = Held(w)
  BY Zenon DEF Holds, Held, Jobs, cvars
<1>5. Ownership'
  BY SMTT(60), <1>4 DEF IInv, Ownership, ExclusiveTask, HolderIsOwner, PendingHasHolder, Jobs, cvars
<1> QED
  BY <1>2, <1>3, <1>5
-----------------------------------------------------------------------------
(* Starting, registering, failed calls and crashes. *)
LEMMA QuietActions ==
    ASSUME IInv,
           \/ Listen \/ CoordinatorCrash
           \/ \E w \in Workers : \/ WorkerRegistrationRequest(w) \/ RegistrationReply(w)
                                 \/ DialFails(w) \/ CallBreaks(w)
                                 \/ WorkerCrash(w)
    PROVE  IInv'
<1>0. CInv /\ CTypeOK /\ WTypeOK /\ RegistrationWaits
  BY Zenon DEF IInv, CInv
<1>1. CASE Listen
  <2>1. CInv'
    BY <1>0, <1>1, RegistrationCInv, Zenon DEF Listen
  <2>2. WTypeOK' /\ RegistrationWaits'
    BY <1>0, <1>1, Zenon DEF Listen, server, WTypeOK, RegistrationWaits, wvars, files
  <2> QED
    BY <1>1, <2>1, <2>2, QuietStep, Zenon DEF Listen, server, wvars
<1>2. CASE CoordinatorCrash
  <2>1. CTypeOK'
    BY <1>0, <1>2, Zenon DEF CoordinatorCrash, CTypeOK
  <2>2. CInv'
    BY Zenon, <1>0, <1>2, <2>1, FrameCInv DEF CoordinatorCrash
  <2>3. WTypeOK' /\ RegistrationWaits'
    BY SMTT(30), <1>0, <1>2, CrashAssumption
    DEF CoordinatorCrash, WTypeOK, RegistrationWaits, wvars, files
  <2> QED
    BY <1>2, <2>2, <2>3, QuietStep DEF CoordinatorCrash, wvars
<1>3. ASSUME NEW w \in Workers, WorkerRegistrationRequest(w) PROVE IInv'
  <2>1. CInv'
    BY Zenon, <1>0, <1>3, RegistrationCInv DEF WorkerRegistrationRequest
  <2>2. WTypeOK' /\ RegistrationWaits'
    BY <1>0, <1>3
    DEF WorkerRegistrationRequest, RegisterWorkerRead, WTypeOK, CTypeOK, RegistrationWaits,
        files, GoTo, Points
  <2>3. \A v \in Workers : \/ pc'[v] = pc[v]
                           \/ pc[v] \notin Running /\ pc'[v] \notin Running
    BY SMTT(30), <1>0, <1>3
    DEF WorkerRegistrationRequest, WTypeOK, GoTo, Running, MapPoints, ReducePoints
  <2> QED
    BY Zenon, <1>3, <2>1, <2>2, <2>3, QuietStep DEF WorkerRegistrationRequest, RegisterWorkerRead
<1>4. ASSUME NEW w \in Workers, RegistrationReply(w) PROVE IInv'
  <2>1. CInv'
    BY <1>0, <1>4, RegistrationCInv DEF RegistrationReply
  <2>2. pc[w] = "registering"
    BY <1>0, <1>4, Zenon DEF RegistrationReply, RegisterWorkerStore, RegistrationWaits
  <2>3. WTypeOK' /\ RegistrationWaits'
    BY <1>0, <1>4, Zenon
    DEF RegistrationReply, RegisterWorkerStore, WTypeOK, CTypeOK, RegistrationWaits, files,
        GoTo, Points
  <2>4. \A v \in Workers : \/ pc'[v] = pc[v]
                           \/ pc[v] \notin Running /\ pc'[v] \notin Running
    BY Zenon, <1>0, <1>4, <2>2 DEF RegistrationReply, WTypeOK, GoTo, Running, MapPoints, ReducePoints
  <2> QED
    BY <1>4, <2>1, <2>3, <2>4, QuietStep DEF RegistrationReply, RegisterWorkerStore
<1>5. ASSUME NEW w \in Workers, DialFails(w) \/ WorkerCrash(w) PROVE IInv'
  <2>1. CTypeOK' /\ UNCHANGED cvars
    BY <1>0, <1>5, Zenon DEF DialFails, WorkerCrash, CTypeOK, cvars
  <2>2. CInv'
    BY <1>0, <2>1, FrameCInv, Zenon DEF cvars
  <2>3. UNCHANGED <<pc, part, chunk, input, inter, output>>
    BY <1>5, Zenon DEF DialFails, WorkerCrash, files
  <2>4. alive' \in [Workers -> BOOLEAN]
    BY Zenon, <1>0, <1>5 DEF DialFails, WorkerCrash, WTypeOK
  <2>5. crashes' \in 0..MaxCrashes
    BY <1>0, <1>5, CrashAssumption DEF DialFails, WorkerCrash, WTypeOK
  <2>6. WTypeOK' /\ RegistrationWaits'
    BY Zenon, <1>0, <2>1, <2>3, <2>4, <2>5 DEF WTypeOK, RegistrationWaits, cvars
  <2> QED
    BY Zenon, <1>5, <2>1, <2>2, <2>6, QuietStep DEF DialFails, WorkerCrash, cvars
<1>6. ASSUME NEW w \in Workers, CallBreaks(w) PROVE IInv'
  <2>1. CTypeOK' /\ UNCHANGED cvars
    BY Zenon, <1>0, <1>6 DEF CallBreaks, CTypeOK, cvars
  <2>2. CInv'
    BY <1>0, <2>1, FrameCInv DEF cvars
  <2>3. WTypeOK' /\ RegistrationWaits'
    BY SMTT(30), <1>0, <1>6, <2>1
    DEF CallBreaks, WTypeOK, RegistrationWaits, files, cvars, GoTo, Points
  <2>4. \A v \in Workers : \/ pc'[v] = pc[v]
                           \/ pc[v] \notin Running /\ pc'[v] \notin Running
                           \/ /\ pc[v] = "update" /\ pc'[v] \notin Running
                              /\ coord' = "dead"
    BY <1>0, <1>6, <2>1
    DEF CallBreaks, WTypeOK, GoTo, Running, MapPoints, ReducePoints, cvars
  <2> QED
    BY Zenon, <1>6, <2>1, <2>2, <2>3, <2>4, QuietStep DEF CallBreaks, cvars
<1> QED
  BY <1>1, <1>2, <1>3, <1>4, <1>5, <1>6
-----------------------------------------------------------------------------
(* A mapper that changes one intermediate file of its own task disturbs    *)
(* nothing but its own progress.                                           *)
LEMMA MapperFrame ==
    ASSUME IInv, NEW w \in Workers, pc[w] \in MapPoints, UNCHANGED <<cvars, input, output>>,
           WTypeOK',
           pc'[w] \in MapPoints \cup {"update"},
           \A v \in Workers \ {w} : pc'[v] = pc[v] /\ part'[v] = part[v] /\ chunk'[v] = chunk[v],
           \A m \in FileTasks, p \in Partitions :
               m # taskReply[w].TaskId => inter'[<<m, p>>] = inter[<<m, p>>]
    PROVE  /\ CInv' /\ RegistrationWaits' /\ Ownership'
           /\ DoneMapsOnDisk' /\ OutputCovered'
           /\ \A v \in Workers : ReadFullInput(v)'
           /\ \A v \in Workers \ {w} : ReplyFits(v)' /\ MapProgress(v)'
           /\ taskReply'[w] = taskReply[w] /\ MapReply(w) /\ MapReply(w)'
<1>1. MapReply(w) /\ taskReply' = taskReply /\ MapReply(w)'
  BY Zenon DEF IInv, ReplyFits, cvars, MapReply
<1>2. Holds(w) /\ pc[w] # "reduceWrite" /\ pc[w] # "update"
  BY <1>1, Bounds DEF Holds, Running, MapReply, NoTask, MapPoints
<1>3. CInv' /\ RegistrationWaits' /\ Ownership'
  BY LocalStep, Zenon DEF Running, cvars
<1>4. mapTasks[taskReply[w].TaskId + 1].status = Pending
  BY <1>1, <1>2, HoldsFits, Zenon DEF IInv, Ownership, HolderIsOwner
<1>5. DoneMapsOnDisk'
  BY <1>1, <1>4, Names, Bounds DEF IInv, DoneMapsOnDisk, cvars
<1>f. \A p \in Partitions : Full(p)' = Full(p)
  BY <1>1, Bounds, FullKept, Zenon DEF MapReply
<1>6. OutputCovered'
  <2>1. \A v \in Workers, p \in Partitions : Writes(v, p)' <=> Writes(v, p)
    BY <1>2, Zenon DEF Writes, MapPoints
  <2>2. \A p \in Partitions : Written(p)' => Written(p)
    BY <1>1, <2>1, Names, Zenon DEF Written, cvars, MapReply
  <2>3. \A v \in Workers, p \in Partitions : Writes(v, p) => chunk'[v] = chunk[v]
    BY <1>2, Zenon DEF Writes
  <2>4. \A p \in Partitions : Covered(p) => Covered(p)'
    BY <1>f, <2>1, <2>3, Zenon DEF Covered
  <2> QED
    BY <2>2, <2>4, Zenon DEF IInv, OutputCovered
<1>7. \A v \in Workers : ReadFullInput(v)'
  <2> SUFFICES ASSUME NEW v \in Workers, pc'[v] \in {"reduceCreate", "reduceWrite"}
               PROVE  input'[v] = Full(part[v])'
    BY Zenon DEF ReadFullInput
  <2>1. v # w /\ part'[v] = part[v] /\ part[v] \in Partitions /\ input[v] = Full(part[v])
    BY Zenon DEF IInv, WTypeOK, ReadFullInput, MapPoints
  <2>2. inter'[<<NMap, part[v]>>] = inter[<<NMap, part[v]>>] /\ input'[v] = input[v]
    BY <1>1, <2>1, Bounds, Zenon DEF MapReply
  <2> QED
    BY <2>1, <2>2, Zenon DEF Full
<1>8. ASSUME NEW v \in Workers \ {w} PROVE ReplyFits(v)' /\ MapProgress(v)'
  <2>0. ReplyFits(v) /\ MapProgress(v) /\ pc'[v] = pc[v]
    BY Zenon DEF IInv
  <2>1. ReplyFits(v)'
    BY <2>0, Zenon DEF ReplyFits, MapReply, ReduceReply, EmptyReply, cvars
  <2>2. CASE pc[v] \in MapPoints \/ (pc[v] = "update" /\ taskReply[v].Type = MapTask)
    <3>1. MapReply(v)
      BY Zenon, <2>0, <2>2, Names
      DEF ReplyFits, MapReply, ReduceReply, EmptyReply, NoType, MapTask
    <3>2. Holds(v)
      BY <2>2, <3>1, Bounds DEF Holds, Running, MapReply, NoTask
    <3>3. taskReply[v].TaskId # taskReply[w].TaskId
      BY SMTT(60), <1>1, <1>2, <3>1, <3>2 DEF IInv, Ownership, ExclusiveTask, MapReply
    <3>4. part[v] \in Partitions
      BY DEF IInv, WTypeOK
    <3>5. \A p \in Partitions : inter'[<<taskReply[v].TaskId, p>>] = inter[<<taskReply[v].TaskId, p>>]
      BY <3>1, <3>3, Bounds, Zenon DEF MapReply
    <3> QED
      BY <2>0, <2>1, <3>4, <3>5, <1>1 DEF MapProgress
  <2>3. CASE ~(pc[v] \in MapPoints \/ (pc[v] = "update" /\ taskReply[v].Type = MapTask))
    BY <2>0, <2>1, <2>3, <1>1, Zenon DEF MapProgress, MapPoints
  <2> QED
    BY <2>2, <2>3, Zenon
<1> QED
  BY <1>1, <1>3, <1>5, <1>6, <1>7, <1>8, Zenon

(* os.Create of an intermediate file. *)
LEMMA MapperCreateIInv ==
    ASSUME IInv, NEW w \in Workers, MapperCreate(w)
    PROVE  IInv'
<1> DEFINE m == taskReply[w].TaskId
           q == part[w]
<1>0. /\ WTypeOK /\ ReplyFits(w) /\ MapProgress(w) /\ MapReply(w)
      /\ m \in Maps /\ m \in FileTasks /\ q \in Partitions /\ chunk[w] = 1
  BY Bounds, Zenon DEF IInv, WTypeOK, MapperCreate, ReplyFits, MapReply, MapPoints
<1>1. /\ pc' = [pc EXCEPT ![w] = "mapWrite"]
      /\ inter' = [inter EXCEPT ![<<m, q>>] = {}]
      /\ UNCHANGED <<cvars, alive, part, chunk, input, output, crashes>>
      /\ pc[w] = "mapCreate"
  BY Zenon DEF MapperCreate, GoTo
<1>2. WTypeOK'
  BY <1>0, <1>1, Zenon DEF WTypeOK, Points, MapPoints
<1>3. \A n \in FileTasks, p \in Partitions : <<n, p>> # <<m, q>> => inter'[<<n, p>>] = inter[<<n, p>>]
  BY <1>0, <1>1, Zenon DEF WTypeOK
<1>4. pc'[w] = "mapWrite" /\ \A v \in Workers \ {w} : pc'[v] = pc[v]
  BY <1>0, <1>1, Zenon DEF WTypeOK
<1>5. inter'[<<m, q>>] = {}
  BY <1>0, <1>1, Zenon DEF WTypeOK
<1>6. /\ CInv' /\ RegistrationWaits' /\ Ownership'
      /\ DoneMapsOnDisk' /\ OutputCovered'
      /\ \A v \in Workers : ReadFullInput(v)'
      /\ \A v \in Workers \ {w} : ReplyFits(v)' /\ MapProgress(v)'
      /\ taskReply'[w] = taskReply[w] /\ MapReply(w)'
  BY <1>1, <1>2, <1>3, <1>4, MapperFrame, Zenon DEF MapPoints
<1>7. ReplyFits(w)'
  BY SMTT(30), <1>4, <1>6 DEF ReplyFits, ReducePoints
<1>8. MapProgress(w)'
  <2>1. \A p \in Partitions : p < q => inter'[<<m, p>>] = Chunks
    BY <1>0, <1>1, <1>3, Bounds DEF MapProgress, MapPoints
  <2>2. inter'[<<m, q>>] = 1..(chunk'[w] - 1)
    BY Zenon, <1>0, <1>1, <1>5, ChunkFacts
  <2> QED
    BY <1>1, <1>4, <1>6, <2>1, <2>2 DEF MapProgress
<1> QED
  BY <1>2, <1>6, <1>7, <1>8, Zenon DEF IInv

(* The writes of an intermediate file, the last one leading to the next    *)
(* partition or to the report.                                             *)
LEMMA MapperWriteIInv ==
    ASSUME IInv, NEW w \in Workers, MapperWrite(w)
    PROVE  IInv'
<1> DEFINE m == taskReply[w].TaskId
<1>c. PICK c \in Chunks : c = chunk[w]
  BY Zenon DEF IInv, WTypeOK
<1>q. PICK q \in Partitions : q = part[w]
  BY Zenon DEF IInv, WTypeOK
<1>0. /\ WTypeOK /\ MapProgress(w) /\ MapReply(w)
      /\ m \in Maps /\ m \in FileTasks /\ c = chunk[w] /\ q = part[w]
  BY <1>c, <1>q, Bounds, Zenon DEF IInv, MapperWrite, ReplyFits, MapReply, MapPoints
<1>n. /\ c \in Nat /\ c >= 1 /\ c <= NChunks /\ q \in Nat /\ q < NReduce
      /\ NChunks \in Nat /\ NReduce \in Nat
  BY Bounds DEF Chunks, Partitions
<1>1. /\ inter' = [inter EXCEPT ![<<m, q>>] = @ \cup {c}]
      /\ UNCHANGED <<cvars, alive, input, output, crashes>>
      /\ pc[w] = "mapWrite"
      /\ \/ /\ c < NChunks /\ chunk' = [chunk EXCEPT ![w] = c + 1]
            /\ pc' = pc /\ part' = part
         \/ /\ c = NChunks /\ ~LastPartition(q)
            /\ chunk' = [chunk EXCEPT ![w] = 1]
            /\ part' = [part EXCEPT ![w] = q + 1]
            /\ pc' = [pc EXCEPT ![w] = "mapCreate"]
         \/ /\ c = NChunks /\ LastPartition(q)
            /\ chunk' = [chunk EXCEPT ![w] = 1]
            /\ pc' = [pc EXCEPT ![w] = "update"]
            /\ part' = part
  BY <1>0, Zenon DEF MapperWrite, GoTo, WTypeOK
<1>2. inter'[<<m, q>>] = 1..c
  <2>1. inter[<<m, q>>] = 1..(c - 1)
    BY <1>0, <1>1, Zenon DEF MapProgress
  <2>2. inter'[<<m, q>>] = inter[<<m, q>>] \cup {c}
    BY <1>0, <1>1, Zenon DEF WTypeOK
  <2> QED
    BY <1>n, <2>1, <2>2
<1>3. \A n \in FileTasks, p \in Partitions : <<n, p>> # <<m, q>> => inter'[<<n, p>>] = inter[<<n, p>>]
  BY <1>0, <1>1, Zenon DEF WTypeOK
<1>4. inter' \in [FileTasks \X Partitions -> SUBSET (Chunks \cup {Stale})]
  BY <1>0, <1>1 DEF WTypeOK
<1>5. \A p \in Partitions : p < q => inter'[<<m, p>>] = Chunks
  BY SMTT(60), <1>0, <1>1, <1>3, Bounds DEF MapProgress, MapPoints
<1>6. CASE c < NChunks
  <2>1. c + 1 \in Chunks /\ chunk' = [chunk EXCEPT ![w] = c + 1] /\ pc' = pc /\ part' = part
    BY SMTT(60), <1>0, <1>1, <1>6, Bounds, ChunkFacts
  <2>2. WTypeOK'
    BY Zenon, <1>0, <1>1, <1>4, <2>1 DEF WTypeOK
  <2>3. \A v \in Workers \ {w} : chunk'[v] = chunk[v]
    BY <1>0, <2>1 DEF WTypeOK
  <2>4. chunk'[w] = c + 1
    BY Zenon, <1>0, <2>1 DEF WTypeOK
  <2>5. /\ CInv' /\ RegistrationWaits' /\ Ownership'
        /\ DoneMapsOnDisk' /\ OutputCovered'
        /\ \A v \in Workers : ReadFullInput(v)'
        /\ \A v \in Workers \ {w} : ReplyFits(v)' /\ MapProgress(v)'
        /\ taskReply'[w] = taskReply[w] /\ MapReply(w)'
    BY <1>1, <1>3, <2>1, <2>2, <2>3, MapperFrame DEF MapPoints
  <2>6. ReplyFits(w)'
    BY Zenon, <1>1, <2>1, <2>5 DEF ReplyFits, ReducePoints
  <2>7. 1..(chunk'[w] - 1) = 1..c
    BY <1>n, <2>4
  <2>8. MapProgress(w)'
    <3>1. pc'[w] = "mapWrite" /\ part'[w] = q
      BY SMTT(30), <1>0, <1>1, <2>1
    <3> QED
      BY ZenonT(60), <1>2, <1>5, <2>5, <2>7, <3>1 DEF MapProgress
  <2> QED
    BY Zenon, <2>2, <2>5, <2>6, <2>8 DEF IInv
<1>7. CASE c = NChunks /\ ~LastPartition(q)
  <2>1. /\ chunk' = [chunk EXCEPT ![w] = 1] /\ part' = [part EXCEPT ![w] = q + 1]
        /\ pc' = [pc EXCEPT ![w] = "mapCreate"]
    BY SMTT(60), <1>0, <1>1, <1>7, Bounds
  <2>2. q + 1 \in Partitions
    BY SMTT(30), <1>0, <1>7, PartitionFacts
  <2>3. WTypeOK'
    BY Zenon, <1>0, <1>1, <1>4, <2>1, <2>2, Bounds DEF WTypeOK, Points, MapPoints
  <2>4. /\ \A v \in Workers \ {w} : pc'[v] = pc[v] /\ part'[v] = part[v] /\ chunk'[v] = chunk[v]
        /\ pc'[w] = "mapCreate" /\ part'[w] = q + 1 /\ chunk'[w] = 1
    BY SMTT(30), <1>0, <2>1 DEF WTypeOK
  <2>5. /\ CInv' /\ RegistrationWaits' /\ Ownership'
        /\ DoneMapsOnDisk' /\ OutputCovered'
        /\ \A v \in Workers : ReadFullInput(v)'
        /\ \A v \in Workers \ {w} : ReplyFits(v)' /\ MapProgress(v)'
        /\ taskReply'[w] = taskReply[w] /\ MapReply(w)'
    BY SMTT(30), <1>1, <1>3, <2>3, <2>4, MapperFrame DEF MapPoints
  <2>6. ReplyFits(w)'
    BY <2>4, <2>5 DEF ReplyFits, ReducePoints
  <2>7. \A p \in Partitions : p < q + 1 => p < q \/ p = q
    BY <1>n DEF Partitions
  <2>8. inter'[<<m, q>>] = Chunks
    BY <1>2, <1>7, Zenon DEF Chunks
  <2>9. MapProgress(w)'
    BY SMTT(60), <1>5, <2>4, <2>5, <2>7, <2>8 DEF MapProgress
  <2> QED
    BY Zenon, <2>3, <2>5, <2>6, <2>9 DEF IInv
<1>8. CASE c = NChunks /\ LastPartition(q)
  <2>1. chunk' = [chunk EXCEPT ![w] = 1] /\ part' = part /\ pc' = [pc EXCEPT ![w] = "update"]
    BY SMTT(60), <1>0, <1>1, <1>8, Bounds
  <2>3. WTypeOK'
    BY Zenon, <1>0, <1>1, <1>4, <2>1, Bounds DEF WTypeOK, Points
  <2>4. /\ \A v \in Workers \ {w} : pc'[v] = pc[v] /\ part'[v] = part[v] /\ chunk'[v] = chunk[v]
        /\ pc'[w] = "update" /\ chunk'[w] = 1
    BY SMTT(30), <1>0, <2>1 DEF WTypeOK
  <2>5. /\ CInv' /\ RegistrationWaits' /\ Ownership'
        /\ DoneMapsOnDisk' /\ OutputCovered'
        /\ \A v \in Workers : ReadFullInput(v)'
        /\ \A v \in Workers \ {w} : ReplyFits(v)' /\ MapProgress(v)'
        /\ taskReply'[w] = taskReply[w] /\ MapReply(w)'
    BY <1>1, <1>3, <2>3, <2>4, MapperFrame DEF MapPoints
  <2>6. ReplyFits(w)'
    BY Zenon, <2>4, <2>5 DEF ReplyFits, ReducePoints, MapPoints
  <2>7. \A p \in Partitions : p < q \/ p = q
    BY <1>8, <1>n DEF Partitions, LastPartition
  <2>8. inter'[<<m, q>>] = Chunks
    BY <1>2, <1>8, Zenon DEF Chunks
  <2>9. \A p \in Partitions : inter'[<<m, p>>] = Chunks
    BY SMTT(30), <1>5, <2>7, <2>8
  <2>10. MapProgress(w)'
    BY <2>4, <2>5, <2>9 DEF MapProgress, MapPoints
  <2> QED
    BY Zenon, <2>3, <2>5, <2>6, <2>10 DEF IInv
<1> QED
  BY <1>n, <1>6, <1>7, <1>8
-----------------------------------------------------------------------------
(* A reducer step leaves the tasks and the intermediate files alone. *)
LEMMA ReducerFrame ==
    ASSUME IInv, NEW w \in Workers, pc[w] \in ReducePoints, UNCHANGED <<cvars, inter, part>>,
           WTypeOK',
           pc'[w] \in ReducePoints \cup {"update"},
           \A v \in Workers \ {w} : pc'[v] = pc[v] /\ chunk'[v] = chunk[v],
           pc'[w] # "reduceWrite" => chunk'[w] = 1
    PROVE  /\ CInv' /\ RegistrationWaits' /\ Ownership' /\ DoneMapsOnDisk'
           /\ \A v \in Workers : ReplyFits(v)' /\ MapProgress(v)'
           /\ phase # MapPhase /\ (ReduceReply(w) \/ EmptyReply(w))
<1>1. phase # MapPhase /\ (ReduceReply(w) \/ EmptyReply(w))
  BY Zenon DEF IInv, ReplyFits
<1>2. CInv' /\ RegistrationWaits' /\ Ownership'
  BY ZenonT(60), LocalStep DEF Running, cvars
<1>3. DoneMapsOnDisk'
  BY Zenon DEF IInv, DoneMapsOnDisk, cvars
<1>4. ASSUME NEW v \in Workers \ {w} PROVE ReplyFits(v)' /\ MapProgress(v)'
  <2>1. ReplyFits(v) /\ MapProgress(v) /\ pc'[v] = pc[v] /\ chunk'[v] = chunk[v]
    BY Zenon DEF IInv
  <2> QED
    BY ZenonT(30), <2>1 DEF ReplyFits, MapProgress, MapReply, ReduceReply, EmptyReply, cvars
<1>5. pc'[w] \notin MapPoints /\ pc'[w] # "mapWrite"
  BY DEF MapPoints, ReducePoints
<1>6. ReplyFits(w)'
  BY Zenon, <1>1, <1>5 DEF ReplyFits, ReduceReply, EmptyReply, cvars
<1>7. MapProgress(w)'
  BY Zenon, <1>1, <1>5, Names DEF MapProgress, ReduceReply, EmptyReply, cvars, NoType, MapTask
<1> QED
  BY Zenon, <1>1, <1>2, <1>3, <1>4, <1>6, <1>7

(* After the map phase every intermediate file is complete. *)
LEMMA FullInput ==
    ASSUME IInv, phase # MapPhase
    PROVE  \A m \in Maps, p \in Partitions : inter[<<m, p>>] = Chunks
<1>1. \A i \in DOMAIN mapTasks : mapTasks[i].status = DONE
  BY DEF IInv, CInv, PhaseMatchesTasks
<1>2. DOMAIN mapTasks = 1..NMap
  BY TablesAreSeqs, Zenon DEF IInv, CInv
<1> QED
  BY Zenon, <1>1, <1>2, Bounds DEF IInv, DoneMapsOnDisk

(* ReducerTask reads complete input. *)
LEMMA ReducerReadIInv ==
    ASSUME IInv, NEW w \in Workers, ReducerRead(w)
    PROVE  IInv'
<1>0. WTypeOK /\ ReplyFits(w) /\ pc[w] = "reduceRead" /\ part[w] \in Partitions /\ chunk[w] = 1
  BY Zenon DEF IInv, WTypeOK, ReducerRead, ReplyFits
<1>1. /\ pc' = [pc EXCEPT ![w] = "reduceCreate"]
      /\ UNCHANGED <<cvars, alive, part, chunk, inter, output, crashes>>
  BY Zenon DEF ReducerRead, GoTo, files
<1>2. \A m \in Maps : inter[<<m, part[w]>>] = Chunks
  BY <1>0, FullInput, Zenon DEF ReplyFits, ReducePoints
<1>3. input' = [input EXCEPT ![w] = Full(part[w])]
  BY Zenon, <1>2 DEF ReducerRead
<1>f. Full(part[w]) \in Inputs
  BY DEF Full, Inputs
<1>4. WTypeOK'
  BY Zenon, <1>0, <1>1, <1>3, <1>f DEF WTypeOK, Points, ReducePoints
<1>5. pc'[w] = "reduceCreate" /\ \A v \in Workers \ {w} : pc'[v] = pc[v]
  BY SMTT(30), <1>0, <1>1 DEF WTypeOK
<1>6. /\ CInv' /\ RegistrationWaits' /\ Ownership' /\ DoneMapsOnDisk'
      /\ \A v \in Workers : ReplyFits(v)' /\ MapProgress(v)'
  BY Zenon, <1>0, <1>1, <1>4, <1>5, ReducerFrame DEF ReducePoints
<1>7. \A v \in Workers : ReadFullInput(v)'
  <2>1. input'[w] = Full(part[w]) /\ \A v \in Workers \ {w} : input'[v] = input[v]
    BY <1>0, <1>3, Zenon DEF WTypeOK
  <2> QED
    BY <1>1, <1>5, <2>1, Zenon DEF IInv, ReadFullInput, Full
<1>8. OutputCovered'
  <2>1. \A v \in Workers, p \in Partitions : Writes(v, p)' <=> Writes(v, p)
    BY SMTT(30), <1>0, <1>1, <1>5 DEF Writes
  <2>2. \A p \in Partitions : Written(p)' => Written(p)
    BY Zenon, <1>0, <1>1, <1>5, <2>1 DEF Written, cvars
  <2>3. \A p \in Partitions : Covered(p) => Covered(p)'
    BY <1>1, <2>1, FullKept, Zenon DEF Covered
  <2> QED
    BY <2>2, <2>3, Zenon DEF IInv, OutputCovered
<1> QED
  BY <1>4, <1>6, <1>7, <1>8, Zenon DEF IInv

(* os.Create of an output file: the worker that empties it has all of its  *)
(* chunks still to write.                                                  *)
LEMMA ReducerCreateIInv ==
    ASSUME IInv, NEW w \in Workers, ReducerCreate(w)
    PROVE  IInv'
<1>q. PICK q \in Partitions : q = part[w]
  BY Zenon DEF IInv, WTypeOK
<1>0. WTypeOK /\ ReplyFits(w) /\ pc[w] = "reduceCreate" /\ q = part[w] /\ chunk[w] = 1
  BY <1>q, Zenon DEF IInv, WTypeOK, ReducerCreate, ReplyFits
<1>1. /\ pc' = [pc EXCEPT ![w] = "reduceWrite"]
      /\ output' = [output EXCEPT ![q] = [k \in Chunks |-> "none"]]
      /\ UNCHANGED <<cvars, alive, part, chunk, input, inter, crashes>>
  BY <1>0, Zenon DEF ReducerCreate, GoTo
<1>3. [k \in Chunks |-> "none"] \in [Chunks -> Inputs \cup {"old"}]
  BY DEF Inputs
<1>4. WTypeOK'
  BY <1>0, <1>1, <1>3, Zenon DEF WTypeOK, Points, ReducePoints
<1>5. /\ pc'[w] = "reduceWrite" /\ \A v \in Workers \ {w} : pc'[v] = pc[v]
      /\ \A p \in Partitions \ {q} : output'[p] = output[p]
  BY <1>0, <1>1, Zenon DEF WTypeOK
<1>6. /\ CInv' /\ RegistrationWaits' /\ Ownership' /\ DoneMapsOnDisk'
      /\ \A v \in Workers : ReplyFits(v)' /\ MapProgress(v)'
  BY Zenon, <1>0, <1>1, <1>4, <1>5, ReducerFrame DEF ReducePoints
<1>7. \A v \in Workers : ReadFullInput(v)'
  BY Zenon, <1>0, <1>1, <1>5 DEF IInv, ReadFullInput, Full
<1>8. OutputCovered'
  <2>1. \A k \in Chunks : 1 <= k
    BY DEF Chunks
  <2>2. Writes(w, q)' /\ chunk'[w] = 1
    BY <1>0, <1>1, <1>5, Zenon DEF Writes
  <2>3. Covered(q)'
    BY <1>5, <2>1, <2>2, Zenon DEF Covered
  <2>4. ASSUME NEW p \in Partitions \ {q} PROVE Written(p)' => Covered(p)'
    <3>1. \A v \in Workers : Writes(v, p)' <=> Writes(v, p)
      BY SMTT(30), <1>0, <1>1, <1>5, <2>4 DEF Writes
    <3>2. Written(p)' => Written(p)
      BY <1>0, <1>1, <1>5, <3>1 DEF Written, cvars
    <3>3. Covered(p) => Covered(p)'
      BY <1>1, <1>5, <3>1, FullKept, Zenon DEF Covered
    <3> QED
      BY <3>2, <3>3 DEF IInv, OutputCovered
  <2> QED
    BY <2>3, <2>4, Zenon DEF OutputCovered
<1> QED
  BY <1>4, <1>6, <1>7, <1>8, Zenon DEF IInv

(* ReducerTask writes the chunk it is at; what it has not written yet it   *)
(* is still going to write.                                                *)
LEMMA ReducerWriteIInv ==
    ASSUME IInv, NEW w \in Workers, ReducerWrite(w)
    PROVE  IInv'
<1>q. PICK q \in Partitions : q = part[w]
  BY Zenon DEF IInv, WTypeOK
<1>c. PICK c \in Chunks : c = chunk[w]
  BY Zenon DEF IInv, WTypeOK
<1>0. WTypeOK /\ ReplyFits(w) /\ pc[w] = "reduceWrite" /\ q = part[w] /\ c = chunk[w]
      /\ input[w] = Full(q)
  BY Zenon, <1>q, <1>c DEF IInv, WTypeOK, ReducerWrite, ReplyFits, ReadFullInput
<1>1. /\ output' = [output EXCEPT ![q][c] = Full(q)]
      /\ UNCHANGED <<cvars, alive, part, input, inter, crashes>>
  BY ZenonT(60), <1>0 DEF ReducerWrite
<1>2. \/ /\ c < NChunks /\ chunk' = [chunk EXCEPT ![w] = c + 1] /\ pc' = pc
      \/ /\ c = NChunks /\ chunk' = [chunk EXCEPT ![w] = 1]
         /\ pc' = [pc EXCEPT ![w] = "update"]
  BY <1>0 DEF ReducerWrite, GoTo
<1>3. /\ output'[q][c] = Full(q) /\ \A k \in Chunks \ {c} : output'[q][k] = output[q][k]
      /\ \A p \in Partitions \ {q} : output'[p] = output[p]
      /\ \A v \in Workers \ {w} : pc'[v] = pc[v] /\ chunk'[v] = chunk[v]
  BY Zenon, <1>0, <1>1, <1>2 DEF WTypeOK
<1>4. \/ c < NChunks /\ chunk'[w] = c + 1 /\ pc'[w] = "reduceWrite"
      \/ c = NChunks /\ chunk'[w] = 1 /\ pc'[w] = "update"
  BY Zenon, <1>0, <1>2 DEF WTypeOK
<1>5. WTypeOK'
  <2>0. 1 \in Chunks /\ (c < NChunks => c + 1 \in Chunks) /\ "update" \in Points
    BY ChunkFacts, Bounds DEF Points
  <2>1. chunk' \in [Workers -> Chunks] /\ pc' \in [Workers -> Points]
    BY <1>0, <1>2, <2>0 DEF WTypeOK
  <2>2. Full(q) \in Inputs
    BY DEF Full, Inputs
  <2>3. output' \in [Partitions -> [Chunks -> Inputs \cup {"old"}]]
    BY SMTT(30), <1>0, <1>1, <2>2 DEF WTypeOK
  <2> QED
    BY ZenonT(30), <1>0, <1>1, <2>1, <2>3 DEF WTypeOK
<1>6. /\ CInv' /\ RegistrationWaits' /\ Ownership' /\ DoneMapsOnDisk'
      /\ \A v \in Workers : ReplyFits(v)' /\ MapProgress(v)'
      /\ ReduceReply(w) \/ EmptyReply(w)
  BY <1>0, <1>1, <1>3, <1>4, <1>5, ReducerFrame DEF ReducePoints
<1>7. \A v \in Workers : ReadFullInput(v)'
  BY Zenon, <1>0, <1>1, <1>3 DEF IInv, ReadFullInput, Full
<1>f. \A p \in Partitions : Full(p)' = Full(p)
  BY <1>1, FullKept, Zenon
<1>8. Covered(q)'
  <2>1. Covered(q)
    BY Zenon, <1>0 DEF IInv, OutputCovered, Written, Writes
  <2>3. ASSUME NEW k \in Chunks
        PROVE  output'[q][k] = Full(q) \/ \E v \in Workers : Writes(v, q)' /\ chunk'[v] <= k
    <3>1. k \in Nat /\ c \in Nat /\ 1 <= k /\ 1 <= c /\ k <= NChunks /\ NChunks \in Nat
      BY Bounds DEF Chunks
    <3>2. CASE k = c
      BY <1>3, <3>2, Zenon
    <3>3. CASE k # c /\ output[q][k] = Full(q)
      BY <1>3, <3>3, Zenon
    <3>4. ASSUME k # c, NEW v \in Workers, Writes(v, q), chunk[v] <= k
          PROVE  \E u \in Workers : Writes(u, q)' /\ chunk'[u] <= k
      <4>1. CASE v # w
        BY Zenon, <1>1, <1>3, <3>4, <4>1 DEF Writes
      <4>2. CASE v = w
        <5>1. c < k
          BY SMTT(30), <1>0, <3>1, <3>4, <4>2
        <5>2. c < NChunks /\ c + 1 <= k
          BY SMTT(30), <3>1, <5>1
        <5>3. chunk'[w] = c + 1 /\ pc'[w] = "reduceWrite"
          BY SMTT(30), <1>4, <3>1, <5>2
        <5> QED
          BY ZenonT(30), <1>0, <1>1, <5>2, <5>3 DEF Writes
      <4> QED
        BY <4>1, <4>2
    <3> QED
      BY <2>1, <3>2, <3>3, <3>4, Zenon DEF Covered
  <2> QED
    BY Zenon, <1>f, <2>3 DEF Covered
<1>9. ASSUME NEW p \in Partitions \ {q} PROVE Written(p)' => Covered(p)'
  <2>1. \A v \in Workers : Writes(v, p)' <=> Writes(v, p)
    BY SMTT(30), <1>0, <1>1, <1>3, <1>9 DEF Writes
  <2>2. ~(taskReply[w].Type = ReduceTask /\ taskReply[w].TaskId = p)
    BY ZenonT(60), <1>0, <1>6, <1>9 DEF ReduceReply, EmptyReply, NoType, ReduceTask
  <2>3. Written(p)' => Written(p)
    BY Zenon, <1>1, <1>3, <2>1, <2>2 DEF Written, cvars
  <2>4. Covered(p) => Covered(p)'
    BY Zenon, <1>0, <1>1, <1>3, <1>9, <1>f, <2>1 DEF Covered, Writes
  <2> QED
    BY Zenon, <2>3, <2>4 DEF IInv, OutputCovered
<1>10. OutputCovered'
  BY <1>8, <1>9 DEF OutputCovered
<1> QED
  BY <1>5, <1>6, <1>7, <1>10 DEF IInv
=============================================================================
