----------------------------- MODULE RaftTester -----------------------------
(***************************************************************************)
(* The part of raft/config.go that judges a Raft: the goroutine that reads *)
(* the applyCh of each instance and compares what it gets with what every  *)
(* server has applied, and the tester that crashes and restarts instances  *)
(* under it.                                                               *)
(*                                                                         *)
(* Raft itself is not in the repository.  A correct Raft hands every       *)
(* instance the same commands in order, from where the snapshot it was     *)
(* started with ends, and nothing new after Kill.  One that is not correct *)
(* hands over a wrong command or a wrong index up to MaxFaults times.      *)
(*                                                                         *)
(* Names with an underscore and a suffix are mutated forms.                *)
(***************************************************************************)
EXTENDS Integers, FiniteSets

CONSTANTS Servers, SnapShotInterval,
          MaxStarts, MaxIndex,  \* bounds: instances of a server, commands,
          MaxFaults, MaxCrashes  \* wrong deliveries, crashes

ASSUME BoundsAssumption == /\ MaxStarts \in Nat \ {0} /\ MaxIndex \in Nat \ {0}
                           /\ MaxFaults \in Nat /\ MaxCrashes \in Nat /\ SnapShotInterval \in Nat \ {0}

Instances == Servers \X (1..MaxStarts)

(* The command of index n is n, and Wrong for a Raft that is not correct. *)
Wrong == 0
nil == -1
Missing == -2
Indices == 0..MaxIndex
Logs == [Indices -> Indices \cup {nil, Missing}]

EmptyLog == [n \in Indices |-> Missing]

(* A snapshot: its last index and the log up to it; index 0 for none. *)
NoSnapshot == [index |-> 0, xlog |-> EmptyLog]

Snapshots == [index : Indices, xlog : Logs]

(* What comes over applyCh, and where an applier is. *)
Msgs == [index : Indices, value : Indices \cup {nil}, snapshot : Snapshots]
Points == {"none", "new", "idle", "order", "check", "set", "snap", "ingest", "end", "returned"}

NoMsg == [index |-> 0, value |-> nil, snapshot |-> NoSnapshot]

VARIABLES snapshot,           \* make_config's snapshot
          faults,             \* what Raft has handed over wrongly so far
          logs, lastApplied,  \* cfg.logs, cfg.lastApplied
          rafts,              \* cfg.rafts: the number of the instance, or 0
          starts,             \* instances of each server so far
          saved,              \* cfg.saved: an instance's Persister, or a copy
          disk,               \* the snapshot in the Persister of each instance
          dead,               \* instances on which Kill was called
          delivered,          \* the last index each Raft instance handed over
          reader,             \* the applier goroutine of each instance
          tester,             \* what the tester does, to which server; or <<>>
          failed,             \* log.Fatalf was called
          late,               \* an applier went on after its server's restart
          ever                \* every <<index, command>> applied by applier (history)

apply == <<logs, lastApplied, reader, failed, late, ever>>
life == <<rafts, starts, saved, dead, tester>>
rvars == <<snapshot, apply, life, disk, delivered, faults>>

(* The types of the state above. *)
RTypeOK ==
    /\ snapshot \in BOOLEAN /\ faults \in 0..MaxFaults
    /\ logs \in [Servers -> Logs]
    /\ lastApplied \in [Servers -> Indices]
    /\ rafts \in [Servers -> 0..MaxStarts]
    /\ starts \in [Servers -> 1..MaxStarts]
    /\ saved \in [Servers -> [own : 0..MaxStarts, copy : Snapshots]]
    /\ disk \in [Instances -> Snapshots]
    /\ dead \subseteq Instances
    /\ delivered \in [Instances -> Indices]
    /\ reader \in [Instances -> [at : Points, rf : 0..MaxStarts, m : Msgs, err : BOOLEAN]]
    /\ tester \in {<<>>} \cup ({"kill", "killed", "restart"} \X Servers)
    /\ failed \in BOOLEAN /\ late \in BOOLEAN
    /\ ever \subseteq (Indices \X Indices)

NewReader(at) == [at |-> at, rf |-> 0, m |-> NoMsg, err |-> FALSE]

(* make_config has started the first instance of every server. *)
RInit ==
    /\ snapshot \in BOOLEAN /\ faults = 0
    /\ logs = [i \in Servers |-> EmptyLog]
    /\ lastApplied = [i \in Servers |-> 0]
    /\ rafts = [i \in Servers |-> 1]
    /\ starts = [i \in Servers |-> 1]
    /\ saved = [i \in Servers |-> [own |-> 1, copy |-> NoSnapshot]]
    /\ disk = [a \in Instances |-> NoSnapshot]
    /\ dead = {}
    /\ delivered = [a \in Instances |-> 0]
    /\ reader = [a \in Instances |-> NewReader(IF a[2] = 1 THEN "new" ELSE "none")]
    /\ tester = <<>>
    /\ failed = FALSE /\ late = FALSE /\ ever = {}
-----------------------------------------------------------------------------
(* What the Persister in cfg.saved holds. *)
Saved(i) == IF saved[i].own = 0 THEN saved[i].copy ELSE disk[<<i, saved[i].own>>]

(* A new instance of the server exists, with lastApplied set for it. *)
Superseded(a) == a[2] < starts[a[1]]

(* Raft hands a command to the applier of instance a (external). *)
DeliverCommand(a, n, v) ==
    /\ reader[a].at = "idle" /\ a \notin dead
    /\ faults' = IF n = delivered[a] + 1 /\ v = n THEN faults ELSE faults + 1
    /\ faults' <= MaxFaults
    /\ delivered' = [delivered EXCEPT ![a] = n]
    /\ reader' = [reader EXCEPT ![a].at = IF snapshot THEN "order" ELSE "check",
                                ![a].m = [NoMsg EXCEPT !.index = n, !.value = v]]
    /\ UNCHANGED <<snapshot, life, disk, logs, lastApplied, failed, late, ever>>

(* Raft hands over a snapshot it got from server j and has saved, under    *)
(* the index n (external).                                                 *)
DeliverSnapshot(a, j, n) ==
    /\ snapshot /\ reader[a].at = "idle" /\ a \notin dead
    /\ Saved(j).index > delivered[a]
    /\ faults' = IF n = Saved(j).index THEN faults ELSE faults + 1
    /\ faults' <= MaxFaults
    /\ delivered' = [delivered EXCEPT ![a] = n]
    /\ disk' = [disk EXCEPT ![a] = Saved(j)]
    /\ reader' = [reader EXCEPT ![a].at = "ingest",
                                ![a].m = [NoMsg EXCEPT !.index = n, !.snapshot = Saved(j)]]
    /\ UNCHANGED <<snapshot, life, logs, lastApplied, failed, late, ever>>
-----------------------------------------------------------------------------
(* checkLogs, under cfg.mu. *)
Mismatch_LiveServers(m) == \E j \in {k \in Servers : rafts[k] # 0} : logs[j][m.index] \notin {Missing, m.value}

Mismatch(m) == \E j \in Servers : logs[j][m.index] \notin {Missing, m.value}

PrevMissing_OffByOne(i, m) == m.index > 2 /\ logs[i][m.index - 1] = Missing

PrevMissing(i, m) == m.index > 1 /\ logs[i][m.index - 1] = Missing

(* The end of an iteration of the applier's loop. *)
Loop(r, err) == IF err THEN [r EXCEPT !.at = "end", !.err = TRUE]
                       ELSE [r EXCEPT !.at = "idle", !.m = NoMsg]

(* The first lines of applierSnap; applier has none. *)
ReadRaft(a) ==
    /\ reader[a].at = "new"
    /\ reader' = [reader EXCEPT ![a].at = IF snapshot /\ rafts[a[1]] = 0 THEN "returned" ELSE "idle",
                                ![a].rf = rafts[a[1]]]
    /\ UNCHANGED <<snapshot, faults, life, disk, delivered, logs, lastApplied, failed, late, ever>>

(* applierSnap reads lastApplied without the lock. *)
CheckOrder(a) ==
    LET outOfOrder == reader[a].m.index # lastApplied[a[1]] + 1
    IN  /\ reader[a].at = "order"
        /\ reader' = [reader EXCEPT ![a].at = IF outOfOrder THEN "set" ELSE "check",
                                    ![a].err = outOfOrder]
        /\ late' = (late \/ Superseded(a))
        /\ UNCHANGED <<snapshot, faults, life, disk, delivered, logs, lastApplied, failed, ever>>

CheckLogs(a) ==
    LET i == a[1]
        m == reader[a].m
        err == Mismatch(m) \/ PrevMissing(i, m)
    IN  /\ reader[a].at = "check"
        /\ logs' = [logs EXCEPT ![i][m.index] = m.value]
        /\ reader' = [reader EXCEPT ![a] = IF snapshot THEN [@ EXCEPT !.at = "set", !.err = err]
                                                       ELSE Loop(@, err)]
        /\ ever' = IF snapshot THEN ever ELSE ever \cup {<<m.index, m.value>>}
        /\ late' = (late \/ Superseded(a))
        /\ UNCHANGED <<snapshot, faults, life, disk, delivered, lastApplied, failed>>

SetLastApplied(a) ==
    /\ reader[a].at = "set"
    /\ lastApplied' = [lastApplied EXCEPT ![a[1]] = reader[a].m.index]
    /\ late' = (late \/ Superseded(a))
    /\ reader' = [reader EXCEPT ![a] = IF (@.m.index + 1) % SnapShotInterval = 0
                                       THEN [@ EXCEPT !.at = "snap"] ELSE Loop(@, @.err)]
    /\ UNCHANGED <<snapshot, faults, life, disk, delivered, logs, failed, ever>>

xlog_OneShort(i, index) ==
    [n \in Indices |-> IF n >= index THEN Missing ELSE IF logs[i][n] = Missing THEN nil ELSE logs[i][n]]

(* A missing entry of the map reads as nil. *)
xlog(i, index) ==
    [n \in Indices |-> IF n > index THEN Missing ELSE IF logs[i][n] = Missing THEN nil ELSE logs[i][n]]

(* rf.Snapshot saves the snapshot in the Persister of the Raft that the    *)
(* applier read at its start, unless that has a later one.                 *)
TakeSnapshot(a) ==
    LET index == reader[a].m.index
        p == <<a[1], reader[a].rf>>
    IN  /\ reader[a].at = "snap"
        /\ disk' = [disk EXCEPT ![p] = IF index > @.index
                                       THEN [index |-> index, xlog |-> xlog(a[1], index)] ELSE @]
        /\ reader' = [reader EXCEPT ![a] = Loop(@, @.err)]
        /\ UNCHANGED <<snapshot, faults, life, delivered, logs, lastApplied, failed, late, ever>>

(* ingestSnap of a snapshot that came over applyCh. *)
IngestSnap(a) ==
    LET m == reader[a].m
        err == m.index # m.snapshot.index
    IN  /\ reader[a].at = "ingest"
        /\ IF err THEN UNCHANGED <<logs, lastApplied>>
           ELSE /\ logs' = [logs EXCEPT ![a[1]] = m.snapshot.xlog]
                /\ lastApplied' = [lastApplied EXCEPT ![a[1]] = m.snapshot.index]
        /\ reader' = [reader EXCEPT ![a] = Loop(@, err)]
        /\ late' = (late \/ Superseded(a))
        /\ UNCHANGED <<snapshot, faults, life, disk, delivered, failed, ever>>

(* log.Fatalf ends the process. *)
Fatal(a) == /\ reader[a].at = "end"
            /\ failed' = TRUE
            /\ UNCHANGED <<snapshot, faults, life, disk, delivered, logs, lastApplied, reader, late, ever>>

ReaderStep(a) == \/ ReadRaft(a) \/ CheckOrder(a) \/ CheckLogs(a) \/ SetLastApplied(a)
                 \/ TakeSnapshot(a) \/ IngestSnap(a) \/ Fatal(a)
-----------------------------------------------------------------------------
(* crash1: a copy of the Persister, Kill without the lock, and rafts[i].   *)
(* The second copy it makes has nobody else to write to the first.         *)
crash1(i) ==
    /\ tester = <<>> /\ rafts[i] # 0 /\ Cardinality(dead) < MaxCrashes
    /\ tester' = <<"kill", i>>
    /\ saved' = [saved EXCEPT ![i] = [own |-> 0, copy |-> Saved(i)]]
    /\ UNCHANGED <<snapshot, faults, apply, rafts, starts, dead, disk, delivered>>

Kill(i) == /\ tester = <<"kill", i>>
           /\ tester' = <<"killed", i>>
           /\ dead' = dead \cup {<<i, rafts[i]>>}
           /\ UNCHANGED <<snapshot, faults, apply, rafts, starts, saved, disk, delivered>>

(* crash1 was called by the test, or by start1. *)
Crashed(i) == /\ tester = <<"killed", i>>
              /\ \/ tester' = <<>>
                 \/ starts[i] < MaxStarts /\ tester' = <<"restart", i>>
              /\ rafts' = [rafts EXCEPT ![i] = 0]
              /\ UNCHANGED <<snapshot, faults, apply, starts, saved, dead, disk, delivered>>

(* start1 of a crashed server: its crash1 finds nothing to kill. *)
start1(i) ==
    /\ tester = <<>> /\ rafts[i] = 0 /\ starts[i] < MaxStarts
    /\ tester' = <<"restart", i>>
    /\ UNCHANGED <<snapshot, faults, apply, rafts, starts, saved, dead, disk, delivered>>

Ingested_LastAppliedZero(i, s) ==
    /\ logs' = IF s.index = 0 THEN logs ELSE [logs EXCEPT ![i] = s.xlog]
    /\ lastApplied' = [lastApplied EXCEPT ![i] = 0]

Ingested(i, s) ==
    /\ logs' = IF s.index = 0 THEN logs ELSE [logs EXCEPT ![i] = s.xlog]
    /\ lastApplied' = [lastApplied EXCEPT ![i] = s.index]

(* start1 from its second lock on: lastApplied, the fresh Persister, the   *)
(* snapshot in it, Make and the applier.  Nobody knows the new instance    *)
(* before that.                                                            *)
Restart(i) ==
    LET a == <<i, starts[i] + 1>>
        s == Saved(i)
    IN  /\ tester = <<"restart", i>>
        /\ starts' = [starts EXCEPT ![i] = @ + 1]
        /\ Ingested(i, s)
        /\ saved' = [saved EXCEPT ![i] = [own |-> a[2], copy |-> NoSnapshot]]
        /\ disk' = [disk EXCEPT ![a] = s]
        /\ delivered' = [delivered EXCEPT ![a] = s.index]
        /\ rafts' = [rafts EXCEPT ![i] = a[2]]
        /\ reader' = [reader EXCEPT ![a] = NewReader("new")]
        /\ tester' = <<>>
        /\ UNCHANGED <<snapshot, faults, dead, failed, late, ever>>

TesterStep(i) == crash1(i) \/ Kill(i) \/ Crashed(i) \/ start1(i) \/ Restart(i)

RNext == /\ ~failed
         /\ \/ \E i \in Servers : TesterStep(i)
            \/ \E a \in Instances :
                 \/ ReaderStep(a)
                 \/ \E n \in 1..MaxIndex :
                      \/ \E v \in {n, Wrong} : DeliverCommand(a, n, v)
                      \/ \E j \in Servers : DeliverSnapshot(a, j, n)

RSpec == RInit /\ [][RNext]_rvars
-----------------------------------------------------------------------------
(* An error was found, whether reported yet or not. *)
Found == failed \/ \E a \in Instances : reader[a].err

(* The tester does not fail a correct Raft, whatever is crashed and        *)
(* restarted while commands and snapshots are applied: never without       *)
(* snapshots, and with them not unless the applier of an instance is still *)
(* at a message when start1 sets up the next one (config.go:226-243, 292). *)
NoFalseAlarm == faults = 0 /\ Found => snapshot /\ late

(* Two servers never have different commands of one index without an       *)
(* error (config.go:143-149), unless an applier of an earlier instance has *)
(* interfered with snapshots.  Without snapshots nothing is forgotten: not *)
(* even a server and its own earlier instance may differ.                  *)
DisagreementCaught ==
    ~Found => /\ ~(snapshot /\ late) =>
                    \A i, j \in Servers : \A n \in 1..MaxIndex :
                        Missing \in {logs[i][n], logs[j][n]} \/ logs[i][n] = logs[j][n]
              /\ ~snapshot => \A x, y \in ever : x[1] = y[1] => x[2] = y[2]

(* A server's log has no gap without an error (config.go:151, 169, 236),   *)
(* not even when an applier of an earlier instance goes on.                *)
GapsCaught ==
    ~Found => \A i \in Servers : \A n \in 2..MaxIndex :
                           logs[i][n] # Missing => logs[i][n - 1] # Missing

(* The snapshot a server would be restarted with is exactly the commands   *)
(* up to its index, although applierSnap reads the log without the lock    *)
(* and the tester replaces it (config.go:245-254, 298-305), while no       *)
(* applier of an earlier instance interferes.                              *)
SnapshotExact ==
    faults = 0 /\ ~Found /\ ~late =>
        \A i \in Servers : \A n \in 1..MaxIndex :
            Saved(i).xlog[n] = IF n <= Saved(i).index THEN n ELSE Missing
=============================================================================
