# TLA+ models of the distributed systems labs

A verification development for the Go code under `src/src`: the MapReduce
implementation, the simulated network and the testers the Raft and key/value
exercises run on, the clerks of the sharded store, and the linearizability
checker. TLC checks small instances of every module; TLAPS proves the main
safety results about MapReduce, the simulated network, the tester and the clerks
of the sharded store, and the Raft tester, for every number of workers, tasks,
requests, servers, groups, clerks, terms and log entries.

## The system and its parts

The repository has one finished program and the surroundings of four others.

| Part | Source | State and steps | Modules |
|---|---|---|---|
| MapReduce coordinator | `mr/coordinator.go`, `types.go`, `rpc.go` | task tables, phase, worker list; RPC handlers, each in a goroutine | `Coordinator`, `MapReduceJob` |
| MapReduce worker | `mr/worker.go` | chain of goroutines register → fetch → map or reduce → report; shared files | `MapReduce` |
| Coordinator process | `main/mrcoordinator.go`, `mr/coordinator.go` | main's loop on the phase, the health check's ticker, one `WorkerSync` goroutine per worker and tick, beside the handlers | `CoordinatorProcess` |
| Simulated network | `labrpc/labrpc.go` | ends, connections, servers; four goroutines per request | `LabRPC`, `RPCService` |
| Key/value tester | `kvraft/config.go`, `raft/persister.go` | instances, persisters, partitions | `KVTester` |
| Sharded tester | `shardkv/config.go`, `raft/persister.go` | groups of instances, controllers, clerks, ends made on demand | `ShardTester` |
| Raft tester | `raft/config.go`, `raft/persister.go` | logs applied, snapshots, crash and restart | `RaftTester` |
| | `raft/config.go` | polls for a leader, for terms and for an agreement | `RaftPoll` |
| Clerks of the sharded store | `shardkv/client.go`, `shardctrler/client.go` | cached configuration, retry loops | `ShardClerk` |
| Linearizability checker | `porcupine/checker.go`, `bitset.go`, `models/kv.go` | search per partition, timeout, kill flag | `Porcupine` |

How they interact: `MapReduce` and `CoordinatorProcess` each extend
`Coordinator` with another set of goroutines and processes that act on its
state. `KVTester` and `ShardTester` extend `LabRPC`: the tester changes the very
network the requests are on. `Coordinator` implements `MapReduceJob`, `LabRPC` implements
`RPCService`, and `ShardClerk` uses the promise of `RPCService` for its Calls.

`raft/raft.go`, `kvraft/server.go`, `kvraft/client.go`, `shardkv/server.go` and
`shardctrler/server.go` are the skeletons of exercises: their handlers have no
code. Where a tester or a clerk talks to one, the model has the weakest such
service that the code around it accepts, marked external.

Names with an underscore and a suffix (`Assign_NoOwner`) are mutated forms: the
definition that follows with one plausible bug in it. `PROJECT.json` says which
property must reject which. No other definition uses them.

## Modules and code

### Coordinator, MapReduceJob

A handler that holds `c.mu` from its first access to its return is one action:
`TaskRequestByWorker` (with `assignMapTask` and `assignReduceTask`) and
`TaskUpdateByWorker` with `TaskTransitionManager`. `RegisterWorker` takes no
lock, so its `append` is a read of the slice and a later store
(`RegisterWorkerRead`, `RegisterWorkerStore`). Go's append reallocates for each
of the first three registrations, so with at most three workers the slice read
is an exact snapshot; torn reads of a slice header are not modelled. A scan that
a store interrupts gives what a scan of the old or of the new list gives, except
that it may index past the end of a shorter list: that is `TaskRequestPanics`,
and a panic in a handler ends the process. Worker ids are microsecond
timestamps; the constant `WorkerID` may give two workers the same one.

`CSpec` leaves the callers open: any handler, any time, any arguments.
`MapReduceJob` is the promise: each task is completed once, reduce tasks exist
only when all map tasks are complete, and the job is finished in the step that
completes the last one. The refinement maps the phase to the stage and the DONE
entries of the tables to sets.

### MapReduce

Coordinator, workers and files. `pc[w]` is where the goroutine chain of a worker
is. A file is the set of its chunks on disk; `os.Create` empties it and a writer
adds chunk after chunk, so a crash or another `os.Create` may come at any
boundary. `ReducerTask` reads whatever the glob `mr-task-*-<partition>` finds
(`worker.go:210-212`), so an earlier job in the same directory matters: it may
have left files under this job's task numbers, which the mappers overwrite, and,
if it had more inputs, under higher ones (`NMap` stands for all of these), which
stay and are read too. An intermediate file of an earlier job is a `Stale` chunk.
A chunk of output is what it was computed from: `exact` (the complete output of
the map tasks), `mixed` (that and an earlier job's), `part`, or `old`.

A reply with the reduce phase and no task makes `WorkerFetchTasks` run
`ReducerTask` on partition 0 (`worker.go:125-130` does not look at
`TaskAvailable`); a reply with the empty phase ends the chain. Both are in the
model, as are the updates such a worker sends.

### CoordinatorProcess

The handlers, the health check and main in one process: a handler that panics
ends all of them, and so does main's return.
`HealthcheckTick` is one tick, `WorkerSync` one goroutine. `WorkerSync` formats
the string port with `%d`, which gives `%!d(string=...)`; the conversion is
modelled (`SprintfD`), so every dial fails, the worker is marked RETRYING, and
the ping and the count of failed pings after it are never reached. `LastSeen` is
left out: nothing reads it. `MainRead` is main's single read of the phase and
`MainLoop` the loop that tests that value. A worker asks for tasks once it has
registered and reports the task it was given last.

### LabRPC, RPCService

One action per point at which another goroutine can act: `Call`, the hand-over
to the network goroutine, `processReq` up to each of its exits, the handler and
the goroutine that drains its channel, and the tester's operations on the
network. Unbuffered channels are one step of both sides. Durations do not
appear, so a sleep may end at any time and `LongDelays` changes nothing.
`RPCService` is the promise in the comment at `labrpc.go:29-38`: at most one
execution, and true only for an executed request.

### KVTester

Start, shutdown and restart of servers, step by step where the code releases the
lock or the network runs in between: disabling ends, deleting the server,
`Kill`, copying the Persister. A handler is taken to save its update in its
Persister before it returns (external). An old instance's goroutines go on.
`kvraft` never asks for long reordering. The index slip `endnames[j]` in
`disconnectUnlocked` is in the code and has no effect there, and
`make_partition` is only ever used with an odd number of servers.

### ShardTester

The groups of `shardkv/config.go`, their controllers and clerks on one network,
from `make_config` to `cleanup`. Every change of the network is a step of its
own during a shutdown (`DisableNext`, `DeleteNext`, `CopyNext`): the tester's
lock does not stop the network. New ends are made in one step, since nobody
knows their names before they are connected and enabled. An end is named by its
user, the instance of that user and the server it leads to; `make_end` gives
clerks and servers ends to any group, which nothing records or disables, and
which an instance that was shut down can go on making. Names of servers are
pairs of a group and an index, group 0 being the controllers. As in `KVTester` a
handler saves its update before it returns (external). A Kill is no step: the
services have no code that would look at it.

The code works only with as many servers in a group as there are controllers:
`make_config` makes `mendnames` with `nctrlers` entries and indexes it by server
(`shardkv/config.go:370`), and `makeClient` makes `endnames` with `n` entries and
indexes it by controller (line 124). All tests have three of both; the model
takes the two numbers apart and gives the slices the sizes they need.

### RaftTester

The applier goroutines of every instance (`applier`, `applierSnap`), each split
where it locks and unlocks, and `crash1` and `start1` beside them. Raft is
external: correct, or wrong up to `MaxFaults` times. `late` records that an
applier of an earlier instance was still at a message when `start1` had replaced
its server's log. From then on snapshots may be rolled back and the guarantees
that mention `~late` do not hold, which is what the code does. With snapshots, a
restart forgets the entries after the snapshot, so only what is logged at
present can disagree. Unlocked reads of the log map are atomic in the model: a
mixture needs an instance that was superseded, whose Persister is isolated.

### RaftPoll

The functions a test polls a Raft with, one look at one server per step:
`checkOneLeader`, `checkTerms` and `checkNoLeader` (`LeaderSeen`, `TermSeen`,
`NoLeaderSeen`, `ScanEnds`), `nCommitted` (`CountNext`), `wait` and `one`. Raft is
external and correct: a term has at most one leader, a leader has every committed
entry, and committed entries are applied in order; elections, new terms, other
commands, commits and applies come at any time between two looks. `one` is cut
off by a clock, so it may end after any round. The test's own goroutine may end
and run `cleanup` while others are in `one` or about to call it (`cleanup`,
`finished`): `one` then returns -1 instead of failing. That `cleanup` also kills
the Rafts needs no action, since a Raft of the model may stop at any time.
`connected` is chosen at the start
and does not change: a test reconnects and crashes servers between its polls.

### ShardClerk

`Get` and `PutAppend` go through `Attempt` (look up the group), `GroupAnswers`
and `CallFails` (return, break, or next server), and `CtrlerAnswers` (the loop
of `Query`). `Join`, `Leave` and `Move` are the same loop for an administrator.
The servers are external: the leader of the group that has the shard executes a
request, and others answer ErrWrongLeader or ErrWrongGroup. A request whose Call
failed may be executed later (`late`). A configuration request that is executed
after its Call failed is not modelled separately: to a clerk it is a
configuration made at that moment.

### Porcupine

`checkOperations`, one `checkSingle` goroutine per partition (one iteration is
one step: it shares only the kill flag), and the loop of `checkParallel` with
its timer. Strings are sequences of the pieces they were appended from, bitsets
are sets, and the hash only picks a bucket. `sort.Sort` sorts as few elements as
these by insertion, which is stable. A log is appended to after the end
timestamp was taken, so its order need not be the order of returns: histories of
two operations come in any order.

## Runs

Passing runs. States are distinct states; each takes between 20 seconds and
three minutes with two workers.

| Run | Instance | Shows |
|---|---|---|
| `coordinator` | 3 workers, 2 map tasks, 1 reduce task; 33,603 states | Handlers called with any arguments in any order. The phase matches the tables (`PhaseMatchesTasks`), tasks move only forward and keep their owner (`TaskLifecycle`), no update reply says finished (`UpdateNeverSaysFinished`), `ImplementsJob`. |
| `job` | 2 workers, 2 map, 2 reduce tasks, files of 2 chunks, 1 crash; 98,460 states | One live worker per task (`ExclusiveTask`), the tables and the workers agree (`HolderIsOwner`, `PendingHasHolder`), reducers read all that this job's map tasks wrote, complete (`ReducerReadsCompleteInput`, `IntermediateFrozen`), what is DONE was computed from that (`DoneOutputComplete`); files an earlier job left under higher task numbers are read in addition. Liveness: `JobFinishes`, `FinishesUnlessAbandoned`. |
| `process` | 3 workers, 1 map, 1 reduce task; 576,456 states | While registrations do not overlap none is lost, and neither a handler nor a health check indexes out of range (`SequentialRegistrationSafe`). |
| `labrpc` | 1 request, 2 ends, 1 server name, 2 server objects; 160,540 states | `ImplementsService`; a Call on an undisturbed path does not fail (`FailsForAReason`); `CallReturns`; no handler goroutine leaks (`HandlersEnd`). |
| `kvtester` | 2 servers, 2 instances each, 1 clerk, 1 request; 732,602 states | Acknowledged updates survive restarts (`AckedPersisted`), partitions are exact (`PartitionExact`), old instances reach nobody (`OldInstanceSilent`). |
| `shardtester` | 2 groups of 1 server, 1 controller, 1 clerk, 1 request; 569,883 states | The same for groups (`GroupAckedPersisted`); once a server is shut down, no request of it that was not yet routed is executed and none whose answer was not yet accepted returns true, on the ends the tester recorded (`ShutdownSilences`). |
| `rafttester` | 2 servers, 2 instances each, 3 indices, 1 crash, 1 wrong delivery; 934,776 states | `NoFalseAlarm`, `DisagreementCaught`, `GapsCaught`, `SnapshotExact`. |
| `raftpoll` | 2 servers, 2 terms, 2 log entries, 2 rounds of a poll; 1,685,373 states | A leader that is reported did lead, and no later term had one throughout (`LeaderPollExact`); `one` returns the index of its own command, committed as widely as asked, and -1 only when the test has ended (`OneCommitted`), and submits once without retry (`SubmittedOnce`); `WaitExact`. |
| `shardclerk` | 1 clerk with 2 operations, 2 groups of 2 servers, 2 configurations, 1 failure; 1,088,704 states | What returns was executed (`OperationExecuted`), twice only after a failed Call (`TwiceOnlyAfterLoss`), a refused clerk renews its configuration (`ConfigRenewed`), `OperationReturns`. |
| `porcupine` | every history of up to 2 operations on 2 keys, 3 on one key; 394,355 states | The verdict is that of the definition of linearizability (`VerdictRight`), the linked list is exact (`ListExact`), partial linearizations are the longest (`PartialsLongest`) and not read while written (`NoRaceOnLongest`), `CheckReturns`. |

Runs that find a disagreement between the code and what is said of it:

| Run | Property | What happens |
|---|---|---|
| `output_final` | `FinishedOutputFinal` | A worker that asked when no reduce task was waiting runs `ReducerTask` anyway and recreates `mr-out-0` after the job is finished. |
| `main_exit` | `CoordinatorExits` | main tests a phase it read once; the process does not exit. |

Observations without a run of their own, each visible in a guard or an exception
of a property:

- Overlapping `RegisterWorker` calls append to the same slice and one
  registration is lost (`mr/coordinator.go:34`; the hypothesis of
  `SequentialRegistrationSafe`).
- `WorkerSync` never reaches a worker: the port is formatted with `%d`.
- A worker that gets an empty phase stops for good, although
  `docs/mapreduce.md:113` says that "a worker repeatedly communicates" with the
  coordinator (one of the events of `FinishesUnlessAbandoned`).
- An applier of the previous instance that is between its check and its store of
  `lastApplied` when `start1` resets it can make the tester fail a correct Raft,
  although new ends and a new Persister are there "to isolate previous instance"
  (`raft/config.go:270-272`; the exception `snapshot /\ late` in `NoFalseAlarm`).
- `checkTerms` (`raft/config.go:467`) reads the terms one after the other and
  fails a correct Raft whose term changes between two reads.
- An instance of `shardkv` that was shut down goes on sending over the ends of
  `make_end`, although `shardkv/config.go:162` says "prevent this server from
  sending"; `ShutdownSilences` is about the recorded ends. Nor does a shutdown
  reach what is past the network's checks: a request already routed is executed,
  an answer already accepted is delivered, and `ShutdownSilences` starts there.
- Porcupine does not return on an empty history without a timeout: it waits for
  the result of a partition that is not there (`CheckReturns` excludes it).

### Bounds

- Two workers are enough for every pair of concurrent handlers; three are needed
  for a registration that undoes two others, and with it for the index out of
  range (`coordinator`, `process`). Two tasks tell "the task" from "the last
  task". The proofs remove the bounds for the safety properties.
- Two chunks make a file that is neither empty nor complete.
- Two server objects under one name are needed for a reply from a server that
  was replaced; two ends for a request on an end that was reconnected.
- `MaxServers` is one more than the number of servers a tester starts with
  (`kvtester`) or two more (`shardtester`): one server, or two, get a second
  instance.
- `SnapShotInterval` 2 and `MaxIndex` 3 (`rafttester`) put one snapshot before
  the last entry. Its servers are symmetric: nothing tells them apart.
- Two terms (`raftpoll`) let a leader be superseded, two entries let an index be
  taken by another command, two rounds let a command be submitted again.
- `MaxFails` 1 (`shardclerk`) allows a failed Call or an election, which is
  enough for a repeated and for a late execution. `NShards` is 1, since a clerk's
  operation looks at its key's shard only.
- Three points in time place two intervals in every order, touching included.

### Fairness

Weak fairness throughout, and only of goroutines and processes the scheduler
runs. `job`: each worker's steps and the coordinator's start; a crash is never
forced. `main_exit`: the goroutines of the coordinator's process (the health
check, each `WorkerSync`, main); workers need not call. `labrpc`: callers,
`processReq`, the network goroutine, started handlers and drains; a handler need
not return, and `CallReturns` says what then. `porcupine`: the search goroutines
and the result loop; the timer is not relied on. `shardclerk`: clerks and the
servers' answers; the property assumes that from some time on nothing fails and
a group has the shard. The other runs are about safety and have no fairness.

Deadlock checking is off where a run may stop: every bounded model ends when the
job, the requests or the bounds are used up.

## Proofs

| Module | About |
|---|---|
| `CoordinatorProofs` | `Coordinator`: invariants, lifecycle, refinement of `MapReduceJob` |
| `ProcessProofs` | `CoordinatorProcess`: the coordinator's invariant beside the health check and main, sequential registrations |
| `MapReduceInv`, `MapReduceProofs` | `MapReduce`: the invariant and what files and points have to do with it; the steps of tasks and the job's safety properties |
| `ShardTesterProofs` | `LabRPC` implements `RPCService`; `ShardTester`: acknowledged updates, silence after a shutdown |
| `ShardClerkProofs` | `ShardClerk`: its safety properties |
| `RaftTesterProofs` | `RaftTester`: its safety properties |
| `RaftPollProofs` | `RaftPoll`: its safety properties |

They assume what the modules ASSUME of their constants. MapReduce: at least one
task of each kind and one chunk, worker ids that are not empty
(`WorkerIDAssumption`, `TaskCountAssumption`, `ChunkAssumption`,
`CrashAssumption`). The network and its tester: the names of servers, ends and
Persisters (`NamesAssumption`) and at least one group, server and controller
(`SizesAssumption`). The clerks: at least one server and shard, 0 is no group
(`SizesAssumption` of `ShardClerk`). The Raft tester: room for an instance
and an index, and a positive interval between snapshots (`BoundsAssumption`). The
polls: at least one server (`NAssumption`), and bounds that are numbers
(`BoundsAssumption` of `RaftPoll`). The sets of workers, requests and clerks are
any sets.

**Coordinator.** The inductive invariant `CInv` is `CTypeOK`, `Tables` (index i
holds the id i - 1; a task has an owner exactly when it is not Waiting; the
reduce table is empty or has `NReduce` entries), `PhaseMatchesTasks` and
`UpdateNeverSaysFinished`. `PhaseMatchesTasks` alone is not inductive: in a table
with a repeated id one update would complete another task, and the length of the
tables decides when a phase ends.

- `CoordinatorInvariant`, `CoordinatorTypes`, `PhaseCorrect`,
  `UpdatesNeverFinish`: the invariant and its parts.
- `LifecycleCorrect`: the action property, from the invariant.
- `CoordinatorImplementsJob`: every step is a step of `MapReduceJob` or stutters.
  An update that completes a task maps to `FinishMap` or `FinishReduce`; all
  others leave the DONE sets and the phase alone.

**The coordinator process.** `PInv` is `CInv` and, until two registrations have
overlapped, `Sequential`: at most one registration is under way, its copy of the
worker list has the same ids at the same indices as the list, every finished
registration is in the list, and every `WorkerSync` goroutine has an index of the
list. The copy need not equal the list: a `WorkerSync` goroutine may change the
status of an entry in between, and the store undoes that. Equal ids are enough
for the store to drop nobody and to make the list longer, so that no scan and no
goroutine with an older index runs past its end. `ProcessInvariant` is the
induction and shows that the coordinator keeps `CInv` with the goroutines that
write to `c.workers` beside it; `SequentialRegistration` follows.

**The job.** `IInv` adds to `CInv` the worker types and
- `RegistrationWaits` and `ReplyFits`: a worker's program point fits the reply it
  acts on;
- `ExclusiveTask`, `HolderIsOwner`, `PendingHasHolder`: who runs what;
- `MapProgress` and `DoneMapsOnDisk`: what a mapper has written so far, and that
  a DONE map task's files are complete;
- `ReadFullInput` and `OutputCovered`: a reducer's input was complete, and the
  chunks of an output file are those its writers have got to.

A reducer reads complete input because it starts in the reduce phase, in which
every map task is DONE, and no mapper is left: a worker at a map point holds a
task that is Pending. That needs all of the above at once.
`JobInvariant` is the induction; `JobTypes`, `TasksExclusive`, `HoldersOwn`,
`PendingTasksHeld`, `ReducersReadCompleteInput`, `IntermediateStaysFrozen` and
`DoneOutputsComplete` follow from it.

**The network.** `CallInv` relates the points of a request's caller, `processReq`
and handler: there is no handler before the request is dispatched, a reply is on
its way only when the handler has ended, and true is said only of such a
request. The abstract `RPCService` knows an outcome and a set of executed
requests; without `CallInv` a second dispatch and a true for nothing could not be
excluded. `LabRPCImplementsService` is the refinement. It is stated over the steps
a request can take, so that `ShardTesterImplementsService` reuses it where the
tester changes the network too.

**The sharded tester.** `GroupAckedPersisted` says that an acknowledged update is
in the Persister the next instance starts with. `GInv` adds what makes it true at
every step of a shutdown:
- `PointsFit`: what the tester has done at each of its steps (the server is
  deleted before its Persister is copied);
- `SavedFits`: the Persister on record is the latest instance's own or its copy;
- `ServersFit`, `OwnersFit`: the Server object under a name belongs to the latest
  instance, whose own Persister is then the one on record;
- `RequestFits`, `UpdateKept`: a request was dispatched to an existing object,
  what its handler saved is in that instance's own Persister, and once its reply
  has passed the comparison of Server objects it is in the Persister on record;
- `EndsFit`, `EndsKnown`: ends of superseded instances, and those a shutdown has
  passed, are disabled.

An update that an old instance saves after the copy is not in it. It is never
acknowledged, since `labrpc` compares Server objects before it delivers a reply
and the old object was deleted first: that order is what the proof turns on.
`TesterInvariant` is the induction; `ShardTesterTypes` and
`AcknowledgedUpdatesKept` follow. `ShutdownIsSilent` is about the rest of a
behaviour: an end that is cut off stays so (`CutOffStays`), and a request not yet
routed, or an answer not yet accepted, on such an end stays where it is or fails
(`SilenceStep`), because `EndsFit` has the end disabled.

**The clerks.** `SInv` has, for each clerk, `PointFits` (which Call it can be in),
`ConfigFits` (a clerk that is not asking the controller has a configuration at
least as new as the one it was refused under, and a reply of the controller that
it will accept is as new), `RunsFit` (an answer to return with means an execution,
and while no Call has failed there is no other) and `ValueFits`; and `LateFits`:
a request that is still under way after its Call belongs to an earlier operation
or to one that has lost a Call. Without the last, a late execution could be
counted for an operation whose Calls all returned. `ClerkInvariant` is the
induction; `ClerksTyped`, `ConfigurationRenewed`, `RepeatedOnlyAfterLoss` and
`ReturnedWasExecuted` follow.

**The Raft tester.** `RInv` has
- `Life`, `Readers`, `Reading`: all instances of a server but the last are dead,
  an applier at a message read it from its own instance, and an error it has
  found is not forgotten before it is reported;
- `Shapes`: a snapshot has an entry for exactly the indices up to its own;
- `GapsCaught`, `Agreed`: while no error is found the logs have no gaps and do
  not differ;
- `Followed`: how far the applier of a server's last instance is at each of its
  points, in terms of `lastApplied`, the log and the snapshot on record; and
  `Rooted`, that what is in a snapshot is in the snapshot of some server whose log
  still has it;
- `EverHeld`: without snapshots, what was ever applied is still in a log;
- `HonestLogs`: with a correct Raft, messages and logs hold the right commands,
  and the next command is the one after `lastApplied`.

`Agreed` alone is not inductive. A restart replaces a server's log by its
snapshot, and a snapshot that came over `applyCh` was made by another server: it
agrees with every log only because its entries are, by `Rooted`, in a log that
was compared with the others entry by entry. A server whose log was replaced may
lose entries but not those its own snapshot has, which keeps the root of every
other snapshot. `RaftTesterInvariant` is the induction;
`TesterRaisesNoFalseAlarm`, `TesterCatchesDisagreement`, `TesterCatchesGaps` and
`SnapshotsAreExact` follow. The proof of `GapsCaught` needs no hypothesis about
appliers of earlier instances: one of them can write to the log of the next
instance, but only after `PrevMissing` has been looked up in that log.

**The polls.** `PollInv` has
- `RaftFits`: what the model assumes of Raft, at every step: a leader is the one
  leader of its term, and the log of the leader of the newest term has all that
  is committed;
- `ScanFits`: `checkOneLeader` has noted only servers that led the term they are
  noted for, and has noted those it has passed that lead since the scan began;
- `CountFits`: `nCommitted` has counted only servers that still have the entry.
  A count is related to a set of servers by an injection (`AtLeast`), since its
  servers are passed one by one while others apply; the theorems turn that into
  a cardinality;
- `SubmitFits`: without retry the test's command is nowhere but at the index
  `Start` returned;
- `StartFits`: the leader of the term of the `Start` that `wait` was called for
  has the command, unless there was a later one;
- `PointsFit` and `ReturnFits`: which poll is where, and what was returned (`one`
  returned -1 only with `finished` set, which stays set).

`PollInvariant` is the induction; `LeaderPollIsExact`, `OneReturnsCommitted`,
`OneSubmitsOnce` and `WaitIsExact` follow.

**Only model-checked.**
- All liveness (`JobFinishes`, `FinishesUnlessAbandoned`, `CallReturns`,
  `HandlersEnd`, `OperationReturns`, `CheckReturns`): fairness and ENABLED are out
  of the prover's reach.
- `VerdictRight` and `PartialsLongest` of `Porcupine`, which are inductions over
  the histories the search has been through, and `ListExact` and
  `NoRaceOnLongest` beside them.
- `FailsForAReason` and the properties of `KVTester` (`AckedPersisted`,
  `PartitionExact`, `OldInstanceSilent`). `PartitionExact` is about lists of
  Enable calls that are put together and sorted by recursive operators.

## Not modelled

- `porcupine/visualization.go`: formats HTML. `CheckEvents` has no caller.
- `labgob`: wraps `encoding/gob`; its state is a count of warnings.
- `mrsequential.go`, `mrworker.go` and `mrapps`: sequential programs and pure
  functions. The exit in `crash.go` is a crash in `MapReduce`.
- The empty handlers of Raft, the key/value server and clerk, and both shard
  services.
- The tester of `shardctrler`, which repeats the key/value tester's functions.
- In the Raft tester `connect` and `disconnect`, which enable the ends between a
  server and the others that are connected (`raft/config.go:359-371`), and the
  reporting of `begin` and `end`. The network between Rafts is part of the
  external Raft; the polls read `connected`, which no poll changes.
- In the sharded tester `join` and `leave`, which only call the controller's
  clerk, `checklogs`, which reads sizes, and `deleteClient`, which removes files
  that were never made.
- `diskvd`, `lockd`, `pbd`, `viewd` and their clients: wrappers of packages that
  are not there.

## Plan

The modules were built in the order of the first table, each after the ones it
extends. What is left, in order of worth:

1. Proofs of `AckedPersisted` and `OldInstanceSilent` along the lines of
   `AcknowledgedUpdatesKept` and `ShutdownIsSilent`, and of `ListExact`.
2. Two requests in `labrpc` (reordering) and two clerks in `shardclerk`, with
   smaller instances of the rest. The proofs already cover `ImplementsService` and
   the safety of the clerks for any number.
3. The reporting of `begin` and `end`, if anything comes to depend on it.
