-------------------------- MODULE RaftTesterProofs --------------------------
(***************************************************************************)
(* Proofs about RaftTester, for any number of servers, instances, indices, *)
(* crashes and wrong deliveries.                                           *)
(***************************************************************************)
EXTENDS RaftTester, TLAPS

(* An applier that has got a message and is not done with it. *)
Busy == {"order", "check", "set", "snap", "ingest"}

(* The latest instance of a server, and what each would be restarted with. *)
Last(i) == <<i, starts[i]>>
Saves == [i \in Servers |-> Saved(i)]

(* Instances are started one after the other, and all but the last are     *)
(* dead.                                                                   *)
Life ==
    /\ \A a \in Instances : Superseded(a) => a \in dead
    /\ \A i \in Servers :
          /\ rafts[i] \in {0, starts[i]} /\ saved[i].own \in {0, starts[i]}
          /\ rafts[i] = 0 => Last(i) \in dead
          /\ tester \in {<<"kill", i>>, <<"killed", i>>} => rafts[i] # 0
          /\ tester = <<"killed", i>> => Last(i) \in dead
          /\ tester = <<"restart", i>> => rafts[i] = 0 /\ starts[i] < MaxStarts

(* The readers of instances that exist have read the instance they are of, *)
(* unless it was dead by then.                                             *)
Readers ==
    \A a \in Instances :
        /\ reader[a].at \in Busy => reader[a].rf = a[2]
        /\ reader[a].at = "idle" /\ a \notin dead => reader[a].rf = a[2]
        /\ reader[a].at = "none" <=> a[2] > starts[a[1]]

(* What a reader is about, and that an error is not forgotten. *)
Reads(r, d, snap) ==
    /\ r.err => r.at \in {"set", "snap", "end"}
    /\ r.at = "end" => r.err
    /\ r.at \in Busy => r.m.index = d /\ r.m.index # 0
    /\ r.at \in Busy \ {"ingest"} => r.m.value # nil
    /\ ~snap => r.at \notin Busy \ {"check"}

Reading == \A a \in Instances : Reads(reader[a], delivered[a], snapshot)

(* A snapshot has an entry for every index up to its own and no other. *)
Shaped(s) == \A n \in 1..MaxIndex : s.xlog[n] = Missing <=> n > s.index

Shapes ==
    /\ \A a \in Instances : Shaped(disk[a]) /\ Shaped(reader[a].m.snapshot)
    /\ \A i \in Servers : Shaped(saved[i].copy)
    /\ ~snapshot => /\ \A a \in Instances : disk[a].index = 0
                    /\ \A i \in Servers : saved[i].copy.index = 0

Gapless(l) == \A n \in 2..MaxIndex : l[n] # Missing => l[n - 1] # Missing
Full(l, k) == \A n \in 1..k : l[n] # Missing

(* No two of the logs lg differ. *)
Agree(lg) ==
    \A i, j \in Servers : \A n \in 1..MaxIndex :
        lg[i][n] = Missing \/ lg[j][n] = Missing \/ lg[i][n] = lg[j][n]

(* All that is in the snapshot s is in the log l. *)
Covers(l, s) == \A n \in 1..s.index : l[n] = s.xlog[n]

(* What is in the snapshot s is in that of a server that has applied it,   *)
(* for logs lg and snapshots sv of the servers.                            *)
Rooted(s, lg, sv) ==
    \E j \in Servers : /\ Covers(lg[j], sv[j]) /\ s.index <= sv[j].index
                       /\ \A n \in 1..s.index : s.xlog[n] = sv[j].xlog[n]

(* How far the reader r of a server's last instance is: with d delivered,  *)
(* the log l, lastApplied k, and s the snapshot for a restart.             *)
Progress(r, d, l, k, s) ==
    /\ Full(l, k)
    /\ r.at \in {"new", "idle", "returned"} => d = k
    /\ r.at \in {"check", "set"} => r.m.index = k + 1
    /\ r.at = "set" => l[r.m.index] # Missing
    /\ r.at = "snap" => r.m.index = k
    /\ r.at = "ingest" => s.index <= r.m.snapshot.index
    /\ r.at # "ingest" => s.index <= k

(* Without an error and without interference. *)
Agreed == ~Found /\ ~(snapshot /\ late) => Agree(logs)
Followed ==
    ~Found /\ snapshot /\ ~late =>
        \A i \in Servers :
            /\ Progress(reader[Last(i)], delivered[Last(i)], logs[i], lastApplied[i], Saves[i])
            /\ Rooted(Saves[i], logs, Saves)
            /\ reader[Last(i)].at = "ingest" => Rooted(reader[Last(i)].m.snapshot, logs, Saves)

(* What applier has ever applied is in a log. *)
EverHeld ==
    ~Found /\ ~snapshot =>
        \A x \in ever : x[1] \in 1..MaxIndex /\ \E i \in Servers : logs[i][x[1]] = x[2]

(* A correct Raft: its messages are right, and the logs hold them. *)
Honest(r) == /\ r.at \in {"order", "check"} => r.m.value = r.m.index
             /\ r.at = "ingest" => r.m.index = r.m.snapshot.index

Truthful(lg) == \A i \in Servers : \A n \in 1..MaxIndex : lg[i][n] \in {n, Missing}

(* The command at hand is the next one, for lastApplied la and instances st. *)
InOrder(rd, la, st) ==
    \A i \in Servers : rd[<<i, st[i]>>].at = "order" => rd[<<i, st[i]>>].m.index = la[i] + 1

(* What was delivered is in the log, but for the command at hand. *)
Entered(lg, rd, dl) ==
    \A a \in Instances : \A n \in 1..dl[a] :
        lg[a[1]][n] # Missing \/ (rd[a].at = "check" /\ n = dl[a])

HonestLogs ==
    faults = 0 /\ ~(snapshot /\ late) =>
        /\ Truthful(logs) /\ InOrder(reader, lastApplied, starts)
        /\ \A a \in Instances : Honest(reader[a])
        /\ ~snapshot => Entered(logs, reader, delivered)

(* The inductive invariant. *)
RInv == /\ RTypeOK /\ Life /\ Readers /\ Reading /\ Shapes
        /\ GapsCaught /\ Agreed /\ Followed /\ EverHeld /\ HonestLogs /\ NoFalseAlarm
-----------------------------------------------------------------------------
(* The sets of the model. *)
LEMMA Sets ==
    /\ MaxStarts \in Nat /\ MaxIndex \in Nat /\ MaxIndex >= 1
    /\ \A n \in Indices : n \in Nat /\ n <= MaxIndex
    /\ \A n \in 1..MaxIndex : n \in Indices /\ n \in Nat
    /\ Missing \notin Indices \cup {nil}
    /\ \A n \in 1..MaxStarts : n \in Nat
BY BoundsAssumption DEF Indices, Missing, nil

LEMMA LastIs ==
    ASSUME RTypeOK, NEW i \in Servers
    PROVE  Last(i) \in Instances /\ Last(i)[1] = i /\ Last(i)[2] = starts[i]
BY Zenon DEF RTypeOK, Last, Instances

LEMMA Pairs ==
    ASSUME NEW a \in Instances
    PROVE  a[1] \in Servers /\ a[2] \in 1..MaxStarts /\ a = <<a[1], a[2]>>
BY DEF Instances

(* A write that no log contradicts keeps the logs in agreement. *)
LEMMA AgreeWrite ==
    ASSUME NEW lg \in [Servers -> Logs], NEW i \in Servers, NEW n \in 1..MaxIndex,
           NEW v \in Indices \cup {nil}, Agree(lg), \A j \in Servers : lg[j][n] \in {Missing, v}
    PROVE  Agree([lg EXCEPT ![i][n] = v])
<1>1. ASSUME NEW j \in Servers, NEW k \in 1..MaxIndex
      PROVE  [lg EXCEPT ![i][n] = v][j][k] = IF j = i /\ k = n THEN v ELSE lg[j][k]
  BY Sets, Zenon DEF Logs
<1>. QED  BY <1>1, Sets DEF Agree

LEMMA RootGrows ==
    ASSUME NEW lg, NEW lg2, NEW sv, NEW s, Rooted(s, lg, sv),
           \A j \in Servers : Shaped(sv[j]) /\ sv[j].index \in Indices,
           \A j \in Servers : \A n \in 1..MaxIndex : lg[j][n] # Missing => lg2[j][n] = lg[j][n]
    PROVE  Rooted(s, lg2, sv)
<1>1. PICK j \in Servers : /\ Covers(lg[j], sv[j]) /\ s.index <= sv[j].index
                           /\ \A n \in 1..s.index : s.xlog[n] = sv[j].xlog[n]
  BY Zenon DEF Rooted
<1>2. ASSUME NEW n \in 1..sv[j].index PROVE lg2[j][n] = sv[j].xlog[n]
  <2>1. n \in 1..MaxIndex /\ ~(n > sv[j].index)
    BY Sets
  <2>. QED  BY <1>1, <2>1, Zenon DEF Covers, Shaped
<1>. QED  BY <1>1, <1>2, Zenon DEF Rooted, Covers

(* What is in a rooted snapshot is in a log. *)
LEMMA RootedValues ==
    ASSUME NEW lg, NEW sv, NEW s, Rooted(s, lg, sv), Shaped(s), s.index \in Indices,
           \A j \in Servers : sv[j].index \in Indices
    PROVE  \E j \in Servers : /\ Covers(lg[j], sv[j]) /\ s.index <= sv[j].index
                              /\ \A n \in 1..MaxIndex : n <= s.index => s.xlog[n] = lg[j][n]
                              /\ \A n \in 1..MaxIndex : n > s.index => s.xlog[n] = Missing
<1>1. PICK j \in Servers : /\ Covers(lg[j], sv[j]) /\ s.index <= sv[j].index
                           /\ \A n \in 1..s.index : s.xlog[n] = sv[j].xlog[n]
  BY Zenon DEF Rooted
<1>2. ASSUME NEW n \in 1..MaxIndex, n <= s.index PROVE s.xlog[n] = lg[j][n]
  <2>1. n \in 1..s.index /\ n \in 1..sv[j].index
    BY <1>1, <1>2, Sets
  <2>. QED  BY <1>1, <2>1, Zenon DEF Covers
<1>. QED  BY <1>1, <1>2, Zenon DEF Shaped

(* A rooted snapshot may replace a log. *)
LEMMA AgreeReplace ==
    ASSUME NEW lg \in [Servers -> Logs], NEW sv, NEW s, Rooted(s, lg, sv), Shaped(s),
           s.index \in Indices, \A j \in Servers : sv[j].index \in Indices,
           Agree(lg), NEW i \in Servers
    PROVE  Agree([lg EXCEPT ![i] = s.xlog])
<1>1. PICK r \in Servers :
              /\ \A n \in 1..MaxIndex : n <= s.index => s.xlog[n] = lg[r][n]
              /\ \A n \in 1..MaxIndex : n > s.index => s.xlog[n] = Missing
  BY RootedValues
<1>2. \A n \in 1..MaxIndex : s.xlog[n] \in {Missing, lg[r][n]}
  BY <1>1, Sets
<1>3. \A j \in Servers : [lg EXCEPT ![i] = s.xlog][j] = IF j = i THEN s.xlog ELSE lg[j]
  OBVIOUS
<1>4. ASSUME NEW j \in Servers, NEW n \in 1..MaxIndex
      PROVE \E k \in Servers : [lg EXCEPT ![i] = s.xlog][j][n] \in {Missing, lg[k][n]}
  BY <1>2, <1>3, Zenon
<1>. QED  BY <1>4 DEF Agree

LEMMA RootReplaced ==
    ASSUME NEW lg \in [Servers -> Logs], NEW sv, NEW s, Rooted(s, lg, sv), Shaped(s),
           s.index \in Indices,
           \A j \in Servers : sv[j].index \in Indices /\ Shaped(sv[j]),
           Agree(lg), NEW i \in Servers, sv[i].index <= s.index, NEW t, Rooted(t, lg, sv)
    PROVE  Rooted(t, [lg EXCEPT ![i] = s.xlog], sv)
<1>1. PICK r \in Servers :
              \A n \in 1..MaxIndex : n <= s.index => s.xlog[n] = lg[r][n]
  BY RootedValues
<1>2. PICK j \in Servers : /\ Covers(lg[j], sv[j]) /\ t.index <= sv[j].index
                           /\ \A n \in 1..t.index : t.xlog[n] = sv[j].xlog[n]
  BY Zenon DEF Rooted
<1>3. Covers([lg EXCEPT ![i] = s.xlog][j], sv[j])
  <2>1. CASE j # i
    BY <1>2, <2>1, Zenon
  <2>2. CASE j = i
    <3>1. ASSUME NEW n \in 1..sv[i].index PROVE s.xlog[n] = sv[i].xlog[n]
      <4>1. n \in 1..MaxIndex /\ n <= s.index /\ ~(n > sv[i].index) /\ ~(n > s.index)
        BY Sets
      <4>2. s.xlog[n] = lg[r][n] /\ s.xlog[n] # Missing
        BY <1>1, <4>1, Zenon DEF Shaped
      <4>3. lg[i][n] = sv[i].xlog[n] /\ sv[i].xlog[n] # Missing
        BY <1>2, <2>2, <4>1, Zenon DEF Shaped, Covers
      <4>. QED  BY <4>1, <4>2, <4>3, Zenon DEF Agree
    <3>2. [lg EXCEPT ![i] = s.xlog][j] = s.xlog
      BY <2>2, Zenon
    <3>. QED  BY <2>2, <3>1, <3>2, Zenon DEF Covers
  <2>. QED  BY <2>1, <2>2, Zenon
<1>. QED  BY <1>2, <1>3, Zenon DEF Rooted

(* A server's new snapshot of its own log roots what its old one did. *)
LEMMA RootSaved ==
    ASSUME NEW lg, NEW sv, NEW sv2, NEW s, NEW i \in Servers, Covers(lg[i], s),
           s.index \in Indices, \A j \in Servers : sv[j].index \in Indices,
           sv[i].index <= s.index,
           \A j \in Servers : sv2[j] = IF j = i THEN s ELSE sv[j],
           NEW t, t.index \in Indices, Rooted(t, lg, sv)
    PROVE  Rooted(t, lg, sv2)
<1>2. PICK j \in Servers : /\ Covers(lg[j], sv[j]) /\ t.index <= sv[j].index
                           /\ \A n \in 1..t.index : t.xlog[n] = sv[j].xlog[n]
  BY Zenon DEF Rooted
<1>3. CASE j # i
  BY <1>2, <1>3 DEF Rooted
<1>4. CASE j = i
  <2>1. t.index <= s.index
    BY <1>2, <1>4, Sets
  <2>2. ASSUME NEW n \in 1..t.index PROVE t.xlog[n] = s.xlog[n]
    <3>1. n \in 1..sv[i].index /\ n \in 1..s.index
      BY <1>2, <1>4, <2>1, Sets
    <3>. QED  BY <1>2, <1>4, <3>1, Zenon DEF Covers
  <2>3. sv2[i] = s
    BY Zenon
  <2>. QED  BY <2>1, <2>2, <2>3, Zenon DEF Rooted
<1>. QED  BY <1>3, <1>4, Zenon

(* A snapshot got from another server roots what the old one did. *)
LEMMA RootCopied ==
    ASSUME NEW lg, NEW sv, NEW sv2, NEW s, NEW i \in Servers, Rooted(s, lg, sv),
           s.index \in Indices, Agree(lg),
           \A j \in Servers : sv[j].index \in Indices /\ Shaped(sv[j]),
           sv[i].index < s.index,
           \A j \in Servers : sv2[j] = IF j = i THEN s ELSE sv[j],
           NEW t, t.index \in Indices, Rooted(t, lg, sv)
    PROVE  Rooted(t, lg, sv2)
<1>2. PICK j \in Servers : /\ Covers(lg[j], sv[j]) /\ t.index <= sv[j].index
                           /\ \A n \in 1..t.index : t.xlog[n] = sv[j].xlog[n]
  BY Zenon DEF Rooted
<1>3. CASE j # i
  BY <1>2, <1>3 DEF Rooted
<1>4. CASE j = i
  <2>1. PICK r \in Servers : Covers(lg[r], sv[r]) /\ s.index <= sv[r].index
    BY Zenon DEF Rooted
  <2>2. r # i /\ t.index <= sv[r].index /\ sv2[r] = sv[r]
    BY <1>2, <1>4, <2>1, Sets
  <2>3. ASSUME NEW n \in 1..t.index PROVE t.xlog[n] = sv[r].xlog[n]
    <3>1. /\ n \in 1..sv[i].index /\ n \in 1..sv[r].index /\ n \in 1..MaxIndex
          /\ ~(n > sv[i].index) /\ ~(n > sv[r].index)
      BY <1>2, <1>4, <2>2, Sets
    <3>2. t.xlog[n] = lg[i][n] /\ lg[i][n] # Missing
      BY <1>2, <1>4, <3>1, Zenon DEF Covers, Shaped
    <3>3. sv[r].xlog[n] = lg[r][n] /\ lg[r][n] # Missing
      BY <2>1, <3>1, Zenon DEF Covers, Shaped
    <3>. QED  BY <3>1, <3>2, <3>3, Zenon DEF Agree
  <2>. QED  BY <2>1, <2>2, <2>3 DEF Rooted
<1>. QED  BY <1>3, <1>4, Zenon
-----------------------------------------------------------------------------
(* Facts about single states. *)
LEMMA SavesFit ==
    ASSUME RTypeOK, Shapes, Life, NEW i \in Servers
    PROVE  /\ Saves[i] = Saved(i) /\ Saves[i] \in Snapshots /\ Shaped(Saves[i])
           /\ Saves[i].index \in Indices /\ Saves[i].xlog \in Logs
           /\ ~snapshot => Saves[i].index = 0
<1>1. Saves[i] = Saved(i)
  BY Zenon DEF Saves
<1>2. CASE saved[i].own = 0
  BY <1>1, <1>2 DEF Saved, RTypeOK, Shapes, Snapshots
<1>3. CASE saved[i].own # 0
  <2>1. <<i, saved[i].own>> = Last(i)
    BY <1>3, Zenon DEF Life, Last
  <2>2. Saves[i] = disk[Last(i)] /\ Last(i) \in Instances
    BY <1>1, <1>3, <2>1, LastIs, Zenon DEF Saved
  <2>. QED  BY <1>1, <2>2, Zenon DEF RTypeOK, Shapes, Snapshots
<1>. QED  BY <1>2, <1>3, Zenon

(* A reader that exists is of the last instance of its server, or late. *)
LEMMA LastOrLate ==
    ASSUME RTypeOK, Readers, NEW a \in Instances, reader[a].at # "none", ~Superseded(a)
    PROVE  a = Last(a[1])
<1>1. ~(a[2] > starts[a[1]]) /\ a[1] \in Servers
  BY Pairs, Zenon DEF Readers
<1>2. a[2] \in Nat /\ starts[a[1]] \in Nat
  BY <1>1, Pairs, Sets, Zenon DEF RTypeOK
<1>. QED  BY <1>1, <1>2, Pairs DEF Superseded, Last

(* One that is not dead is of the last instance. *)
LEMMA AliveIsLast ==
    ASSUME RTypeOK, Life, Readers, NEW a \in Instances, reader[a].at # "none", a \notin dead
    PROVE  a = Last(a[1]) /\ ~Superseded(a)
BY LastOrLate, Zenon DEF Life

LEMMA FoundKept ==
    ASSUME failed => failed', \A b \in Instances : reader[b].err => reader'[b].err
    PROVE  Found => Found'
BY Zenon DEF Found

(* Steps that leave the logs alone. *)
LEMMA LogsSame ==
    ASSUME GapsCaught, Agreed, logs' = logs, snapshot' = snapshot, late => late', Found => Found'
    PROVE  GapsCaught' /\ Agreed'
BY Zenon DEF GapsCaught, Agreed

LEMMA EverSame ==
    ASSUME EverHeld, logs' = logs, snapshot' = snapshot, ever' = ever, Found => Found'
    PROVE  EverHeld'
BY Zenon DEF EverHeld

(* Steps that the last instances do not notice. *)
LEMMA Unnoticed ==
    ASSUME Followed, logs' = logs, lastApplied' = lastApplied, Saves' = Saves, starts' = starts,
           snapshot' = snapshot, late => late', Found => Found',
           \A i \in Servers : reader'[Last(i)] = reader[Last(i)],
           \A i \in Servers : delivered'[Last(i)] = delivered[Last(i)]
    PROVE  Followed'
<1>1. \A i \in Servers : Last(i)' = Last(i)
  BY Zenon DEF Last
<1>. QED  BY <1>1 DEF Followed

(* Steps of the tester that start nothing. *)
TesterIdle == /\ UNCHANGED <<snapshot, faults, apply, starts, disk, delivered>>
              /\ Saves' = Saves

LEMMA TesterIdleKeeps ==
    ASSUME RInv, TesterIdle
    PROVE  GapsCaught' /\ Agreed' /\ Followed' /\ EverHeld' /\ HonestLogs' /\ NoFalseAlarm' /\ Reading'
<1>. USE DEF TesterIdle, apply, RInv
<1>1. Found' <=> Found
  BY Zenon DEF Found
<1>2. GapsCaught' /\ Agreed' /\ EverHeld' /\ NoFalseAlarm'
  BY <1>1, LogsSame, EverSame, Zenon DEF NoFalseAlarm
<1>3. Followed'
  BY <1>1, Unnoticed, Zenon
<1>4. HonestLogs'
  BY Zenon DEF HonestLogs, Last
<1>5. Reading'
  BY Zenon DEF Reading
<1>. QED  BY <1>2, <1>3, <1>4, <1>5, Zenon

LEMMA CrashStarts ==
    ASSUME RInv, NEW i \in Servers, crash1(i)
    PROVE  RInv'
<1>. USE DEF RInv
<1>1. /\ UNCHANGED <<snapshot, faults, apply, rafts, starts, dead, disk, delivered>>
      /\ tester' = <<"kill", i>> /\ rafts[i] # 0
      /\ saved' = [saved EXCEPT ![i] = [own |-> 0, copy |-> Saved(i)]]
  BY Zenon DEF crash1
<1>2. Saved(i) \in Snapshots /\ Shaped(Saved(i)) /\ (~snapshot => Saved(i).index = 0)
  BY SavesFit, Zenon
<1>3. saved'[i] = [own |-> 0, copy |-> Saved(i)] /\ \A j \in Servers \ {i} : saved'[j] = saved[j]
  BY <1>1, Zenon DEF RTypeOK
<1>4. \A j \in Servers : Saved(j)' = Saved(j)
  BY <1>1, <1>3 DEF Saved
<1>5. Saves' = Saves
  BY <1>4, Zenon DEF Saves
<1>6. TesterIdle
  BY <1>1, <1>5, Zenon DEF TesterIdle
<1>7. RTypeOK'
  <2>1. tester' \in {"kill", "killed", "restart"} \X Servers
    BY <1>1, Zenon
  <2>2. saved' \in [Servers -> [own : 0..MaxStarts, copy : Snapshots]]
    BY <1>1, <1>2, Sets DEF RTypeOK
  <2>. QED  BY <1>1, <2>1, <2>2, Zenon DEF RTypeOK, apply
<1>8. Life'
  <2>1. \A a \in Instances : Superseded(a)' => a \in dead'
    BY <1>1, Zenon DEF Life, Superseded
  <2>2. ASSUME NEW j \in Servers
        PROVE  /\ rafts'[j] \in {0, starts'[j]} /\ saved'[j].own \in {0, starts'[j]}
               /\ rafts'[j] = 0 => Last(j)' \in dead'
    BY <1>1, <1>3 DEF Life, Last
  <2>3. \A j \in Servers :
               /\ tester' \in {<<"kill", j>>, <<"killed", j>>} => rafts'[j] # 0
               /\ tester' # <<"killed", j>> /\ tester' # <<"restart", j>>
    BY <1>1, Zenon
  <2>. QED  BY <2>1, <2>2, <2>3, Zenon DEF Life
<1>9. Readers' /\ Shapes'
  <2>1. \A j \in Servers : Shaped(saved'[j].copy) /\ (~snapshot => saved'[j].copy.index = 0)
    BY <1>2, <1>3 DEF Shapes
  <2>. QED  BY <1>1, <2>1, Zenon DEF Readers, Shapes, apply
<1>. QED  BY <1>6, <1>7, <1>8, <1>9, TesterIdleKeeps, Zenon

LEMMA CrashKills ==
    ASSUME RInv, NEW i \in Servers, Kill(i)
    PROVE  RInv'
<1>. USE DEF RInv
<1>1. /\ UNCHANGED <<snapshot, faults, apply, rafts, starts, saved, disk, delivered>>
      /\ tester = <<"kill", i>> /\ tester' = <<"killed", i>>
      /\ dead' = dead \cup {<<i, rafts[i]>>}
  BY Zenon DEF Kill
<1>2. rafts[i] # 0 /\ <<i, rafts[i]>> = Last(i)
  BY <1>1, Zenon DEF Life, Last
<1>3. TesterIdle
  BY <1>1, Zenon DEF TesterIdle, Saves, Saved
<1>4. RTypeOK'
  <2>1. tester' \in {"kill", "killed", "restart"} \X Servers
    BY <1>1, Zenon
  <2>2. Last(i) \in Instances
    BY LastIs, Zenon
  <2>3. dead' \subseteq Instances
    BY <1>1, <1>2, <2>2, Zenon DEF RTypeOK
  <2>. QED  BY <1>1, <2>1, <2>3, Zenon DEF RTypeOK, apply
<1>5. Life'
  <2>1. \A a \in Instances : Superseded(a)' => a \in dead'
    BY <1>1, Zenon DEF Life, Superseded
  <2>2. ASSUME NEW j \in Servers
        PROVE  /\ rafts'[j] \in {0, starts'[j]} /\ saved'[j].own \in {0, starts'[j]}
               /\ rafts'[j] = 0 => Last(j)' \in dead'
    BY <1>1, Zenon DEF Life, Last
  <2>3. \A j \in Servers : tester' # <<"restart", j>> /\ tester' # <<"kill", j>>
    BY <1>1, Zenon
  <2>4. \A j \in Servers : tester' = <<"killed", j>> => j = i
    BY <1>1, Zenon
  <2>5. rafts'[i] # 0 /\ Last(i)' \in dead'
    BY <1>1, <1>2, Zenon DEF Last
  <2>. QED  BY <2>1, <2>2, <2>3, <2>4, <2>5, Zenon DEF Life
<1>6. Readers' /\ Shapes'
  BY <1>1, Zenon DEF Readers, Shapes, apply
<1>. QED  BY <1>3, <1>4, <1>5, <1>6, TesterIdleKeeps, Zenon

LEMMA CrashEnds ==
    ASSUME RInv, NEW i \in Servers, Crashed(i)
    PROVE  RInv'
<1>. USE DEF RInv
<1>1. /\ UNCHANGED <<snapshot, faults, apply, starts, saved, dead, disk, delivered>>
      /\ tester = <<"killed", i>> /\ rafts' = [rafts EXCEPT ![i] = 0]
      /\ tester' = <<>> \/ (starts[i] < MaxStarts /\ tester' = <<"restart", i>>)
  BY Zenon DEF Crashed
<1>2. rafts'[i] = 0 /\ \A j \in Servers \ {i} : rafts'[j] = rafts[j]
  BY <1>1, Zenon DEF RTypeOK
<1>3. TesterIdle
  BY <1>1, Zenon DEF TesterIdle, Saves, Saved
<1>4. RTypeOK'
  <2>1. tester' \in {<<>>} \cup ({"kill", "killed", "restart"} \X Servers)
    BY <1>1
  <2>2. rafts' \in [Servers -> 0..MaxStarts]
    BY <1>1, Sets DEF RTypeOK
  <2>. QED  BY <1>1, <2>1, <2>2, Zenon DEF RTypeOK, apply
<1>5. Life'
  <2>1. \A a \in Instances : Superseded(a)' => a \in dead'
    BY <1>1, Zenon DEF Life, Superseded
  <2>2. Last(i) \in dead
    BY <1>1, Zenon DEF Life
  <2>3. ASSUME NEW j \in Servers
        PROVE  /\ rafts'[j] \in {0, starts'[j]} /\ saved'[j].own \in {0, starts'[j]}
               /\ rafts'[j] = 0 => Last(j)' \in dead'
    BY <1>1, <1>2, <2>2, Zenon DEF Life, Last
  <2>4. \A j \in Servers : /\ tester' # <<"killed", j>> /\ tester' # <<"kill", j>>
                           /\ tester' = <<"restart", j>> => j = i /\ starts[i] < MaxStarts
    BY <1>1
  <2>. QED  BY <1>1, <1>2, <2>1, <2>3, <2>4, Zenon DEF Life
<1>6. Readers' /\ Shapes'
  BY <1>1, Zenon DEF Readers, Shapes, apply
<1>. QED  BY <1>3, <1>4, <1>5, <1>6, TesterIdleKeeps, Zenon

LEMMA StartBegins ==
    ASSUME RInv, NEW i \in Servers, start1(i)
    PROVE  RInv'
<1>. USE DEF RInv
<1>1. /\ UNCHANGED <<snapshot, faults, apply, rafts, starts, saved, dead, disk, delivered>>
      /\ tester' = <<"restart", i>> /\ rafts[i] = 0 /\ starts[i] < MaxStarts
  BY Zenon DEF start1
<1>3. TesterIdle
  BY <1>1, Zenon DEF TesterIdle, Saves, Saved
<1>4. RTypeOK'
  <2>1. tester' \in {"kill", "killed", "restart"} \X Servers
    BY <1>1, Zenon
  <2>. QED  BY <1>1, <2>1, Zenon DEF RTypeOK, apply
<1>5. Life'
  <2>1. \A a \in Instances : Superseded(a)' => a \in dead'
    BY <1>1, Zenon DEF Life, Superseded
  <2>2. ASSUME NEW j \in Servers
        PROVE  /\ rafts'[j] \in {0, starts'[j]} /\ saved'[j].own \in {0, starts'[j]}
               /\ rafts'[j] = 0 => Last(j)' \in dead'
    BY <1>1, Zenon DEF Life, Last
  <2>3. \A j \in Servers : /\ tester' # <<"killed", j>> /\ tester' # <<"kill", j>>
                           /\ tester' = <<"restart", j>> => j = i
    BY <1>1, Zenon
  <2>. QED  BY <1>1, <2>1, <2>2, <2>3, Zenon DEF Life
<1>6. Readers' /\ Shapes'
  BY <1>1, Zenon DEF Readers, Shapes, apply
<1>. QED  BY <1>3, <1>4, <1>5, <1>6, TesterIdleKeeps, Zenon
-----------------------------------------------------------------------------
(* Steps of a reader. *)
Recs == [at : Points, rf : 0..MaxStarts, m : Msgs, err : BOOLEAN]

LEMMA ReaderTypes ==
    ASSUME RTypeOK, NEW a \in Instances
    PROVE  /\ reader[a] \in Recs /\ reader[a].err \in BOOLEAN /\ reader[a].rf \in 0..MaxStarts
           /\ reader[a].m \in Msgs /\ reader[a].m.index \in Indices
           /\ reader[a].m.value \in Indices \cup {nil} /\ reader[a].m.snapshot \in Snapshots
           /\ reader[a].m.snapshot.index \in Indices /\ reader[a].m.snapshot.xlog \in Logs
           /\ delivered[a] \in Indices /\ disk[a] \in Snapshots /\ disk[a].index \in Indices
BY Zenon DEF RTypeOK, Recs, Msgs, Snapshots

LEMMA NoMsgFits ==
    NoMsg \in Msgs /\ NoSnapshot \in Snapshots /\ Shaped(NoMsg.snapshot) /\ NoMsg.snapshot = NoSnapshot
<1>1. \A n \in 1..MaxIndex : n > 0 /\ n \in Indices
  BY Sets
<1>2. 0 \in Indices
  BY Sets DEF Indices
<1>3. EmptyLog \in Logs
  BY Zenon DEF EmptyLog, Logs
<1>. QED  BY <1>1, <1>2, <1>3, Zenon DEF NoMsg, NoSnapshot, Msgs, Snapshots, Shaped, EmptyLog

(* A step of one reader, for what it may disturb without an error. *)
LEMMA OneReader ==
    ASSUME RTypeOK, NEW a \in Instances, a = Last(a[1]), \A b \in Instances \ {a} : reader'[b] = reader[b]
    PROVE  \A j \in Servers : j # a[1] => Last(j) # a /\ reader'[Last(j)] = reader[Last(j)]
BY LastIs, Zenon

(* Steps that leave alone what a correct Raft has brought about. *)
LEMMA HonestSame ==
    ASSUME HonestLogs, UNCHANGED <<snapshot, faults, logs, lastApplied, delivered, starts>>,
           late => late', \A b \in Instances : Honest(reader[b]) => Honest(reader'[b]),
           \A i \in Servers : reader'[Last(i)].at = "order" => reader'[Last(i)] = reader[Last(i)],
           \A b \in Instances : reader[b].at = "check" => reader'[b].at = "check"
    PROVE  HonestLogs'
<1>1. InOrder(reader, lastApplied, starts) => InOrder(reader', lastApplied, starts)
  BY Zenon DEF InOrder, Last
<1>2. Entered(logs, reader, delivered) => Entered(logs, reader', delivered)
  BY Zenon DEF Entered
<1>. QED  BY <1>1, <1>2, Zenon DEF HonestLogs

LEMMA ReadRaftStep ==
    ASSUME RInv, NEW a \in Instances, ReadRaft(a)
    PROVE  RInv'
<1>. USE DEF RInv
<1>1. /\ UNCHANGED <<snapshot, faults, life, disk, delivered, logs, lastApplied, failed, late, ever>>
      /\ reader[a].at = "new"
      /\ reader' = [reader EXCEPT ![a].at = IF snapshot /\ rafts[a[1]] = 0 THEN "returned" ELSE "idle",
                                  ![a].rf = rafts[a[1]]]
  BY Zenon DEF ReadRaft
<1>2. a[1] \in Servers /\ rafts[a[1]] \in 0..MaxStarts
  BY Pairs, Zenon DEF RTypeOK
<1>3. /\ reader'[a].at \in {"idle", "returned"} /\ reader'[a].rf = rafts[a[1]]
      /\ reader'[a].m = reader[a].m /\ reader'[a].err = reader[a].err
      /\ reader'[a] \in Recs
      /\ \A b \in Instances \ {a} : reader'[b] = reader[b]
  BY <1>1, <1>2, ZenonT(40) DEF RTypeOK, Recs, Points
<1>4. reader' \in [Instances -> Recs]
  BY <1>1, <1>3, Zenon DEF RTypeOK, Recs
<1>5. RTypeOK'
  BY <1>1, <1>4, Zenon DEF RTypeOK, life, Recs
<1>6. Life'
  BY <1>1, Zenon DEF Life, life, Superseded, Last
<1>7. Readers'
  <2>1. ASSUME a \notin dead PROVE rafts[a[1]] = a[2]
    <3>1. a = Last(a[1]) /\ Last(a[1])[2] = starts[a[1]]
      BY <1>1, <1>2, <2>1, AliveIsLast, LastIs, Zenon
    <3>. QED  BY <1>2, <2>1, <3>1, Zenon DEF Life
  <2>2. /\ reader'[a].at \notin Busy /\ reader'[a].at # "none"
        /\ reader[a].at # "none"
    BY <1>1, <1>3, Zenon DEF Busy
  <2>. QED  BY <1>1, <1>3, <2>1, <2>2, ZenonT(40) DEF Readers, life
<1>8. Reading'
  <2>1. ~reader[a].err
    BY <1>1, Zenon DEF Reading, Reads
  <2>2. reader'[a].at \notin Busy /\ reader'[a].at # "end"
    BY <1>3, Zenon DEF Busy
  <2>3. Reads(reader'[a], delivered[a], snapshot)
    BY <1>3, <2>1, <2>2, Zenon DEF Reads
  <2>. QED  BY <1>1, <1>3, <2>3, Zenon DEF Reading
<1>9. Shapes'
  BY <1>1, <1>3, Zenon DEF Shapes, life
<1>10. Found' <=> Found
  BY <1>1, <1>3, Zenon DEF Found
<1>11. GapsCaught' /\ Agreed' /\ EverHeld' /\ NoFalseAlarm'
  BY <1>1, <1>10, LogsSame, EverSame, Zenon DEF NoFalseAlarm
<1>12. Saves' = Saves
  BY <1>1, Zenon DEF Saves, Saved, life
<1>13. ASSUME NEW d, NEW l, NEW k, NEW s, Progress(reader[a], d, l, k, s)
       PROVE  Progress(reader'[a], d, l, k, s)
  BY <1>1, <1>3, <1>13, Zenon DEF Progress
<1>14. Followed'
  <2>1. \A i \in Servers : Last(i)' = Last(i) /\ Last(i) \in Instances
    BY <1>1, LastIs, Zenon DEF Last, life
  <2>2. reader'[a].at # "ingest"
    BY <1>3, Zenon
  <2>3. SUFFICES ASSUME ~Found', snapshot', ~late', NEW i \in Servers
                 PROVE  /\ Progress(reader'[Last(i)], delivered[Last(i)], logs[i], lastApplied[i], Saves[i])
                        /\ Rooted(Saves[i], logs, Saves)
                        /\ reader'[Last(i)].at = "ingest" =>
                               Rooted(reader'[Last(i)].m.snapshot, logs, Saves)
    BY <1>1, <1>12, <2>1, Zenon DEF Followed
  <2>4. /\ Progress(reader[Last(i)], delivered[Last(i)], logs[i], lastApplied[i], Saves[i])
        /\ Rooted(Saves[i], logs, Saves)
        /\ reader[Last(i)].at = "ingest" => Rooted(reader[Last(i)].m.snapshot, logs, Saves)
    BY <1>1, <1>10, <2>3, Zenon DEF Followed
  <2>5. CASE Last(i) = a
    BY <1>13, <2>2, <2>4, <2>5, Zenon
  <2>6. CASE Last(i) # a
    BY <1>3, <2>1, <2>4, <2>6, Zenon
  <2>. QED  BY <2>5, <2>6, Zenon
<1>15. HonestLogs'
  <2>1. \A i \in Servers : Last(i)' = Last(i) /\ Last(i) \in Instances
    BY <1>1, LastIs, Zenon DEF Last, life
  <2>2. /\ reader'[a].at \notin {"ingest", "order", "check"}
        /\ reader[a].at # "check"
    BY <1>1, <1>3, Zenon
  <2>3. \A b \in Instances : Honest(reader[b]) => Honest(reader'[b])
    BY <1>3, <2>2, Zenon DEF Honest
  <2>4. \A i \in Servers : reader'[Last(i)].at = "order" => reader'[Last(i)] = reader[Last(i)]
    BY <1>3, <2>1, <2>2, Zenon
  <2>5. \A b \in Instances : reader[b].at = "check" => reader'[b].at = "check"
    BY <1>3, <2>2, Zenon
  <2>. QED  BY <1>1, <2>3, <2>4, <2>5, HonestSame, Zenon DEF life
<1>. QED  BY <1>5, <1>6, <1>7, <1>8, <1>9, <1>11, <1>14, <1>15, Zenon

LEMMA CheckOrderStep ==
    ASSUME RInv, NEW a \in Instances, CheckOrder(a)
    PROVE  RInv'
<1>. USE DEF RInv
<1>. DEFINE out == reader[a].m.index # lastApplied[a[1]] + 1
<1>1. /\ UNCHANGED <<snapshot, faults, life, disk, delivered, logs, lastApplied, failed, ever>>
      /\ reader[a].at = "order" /\ late' = (late \/ Superseded(a))
      /\ reader' = [reader EXCEPT ![a].at = IF out THEN "set" ELSE "check", ![a].err = out]
  BY Zenon DEF CheckOrder
<1>2. a[1] \in Servers /\ snapshot /\ ~reader[a].err
  BY <1>1, Pairs, Zenon DEF Reading, Reads, Busy
<1>3. /\ reader'[a].at = (IF out THEN "set" ELSE "check") /\ reader'[a].err = out
      /\ reader'[a].m = reader[a].m /\ reader'[a].rf = reader[a].rf
      /\ reader'[a] \in Recs
      /\ \A b \in Instances \ {a} : reader'[b] = reader[b]
  BY <1>1, <1>2, ZenonT(40) DEF RTypeOK, Recs, Points
<1>. HIDE DEF out
<1>4. reader' \in [Instances -> Recs]
  BY <1>1, <1>3, Zenon DEF RTypeOK, Recs
<1>5. late' \in BOOLEAN
  BY <1>1, Zenon DEF RTypeOK, Superseded
<1>6. RTypeOK'
  BY <1>1, <1>4, <1>5, Zenon DEF RTypeOK, life, Recs
<1>7. Life'
  BY <1>1, Zenon DEF Life, life, Superseded, Last
<1>8. /\ reader[a].at \in Busy \ {"ingest"} /\ reader'[a].at \in Busy \ {"ingest"}
      /\ reader'[a].at \notin {"idle", "none", "end", "order", "ingest"}
      /\ reader[a].at # "none" /\ reader[a].at # "check"
      /\ out => reader'[a].at \in {"set", "snap", "end"}
  BY <1>1, <1>3 DEF Busy
<1>9. Readers' /\ Reading'
  <2>1. Readers'
    BY <1>1, <1>3, <1>8, ZenonT(40) DEF Readers, life
  <2>2. Reads(reader[a], delivered[a], snapshot)
    BY Zenon DEF Reading
  <2>3. Reads(reader'[a], delivered[a], snapshot)
    BY <1>2, <1>3, <1>8, <2>2, Zenon DEF Reads
  <2>4. Reading'
    BY <1>1, <1>3, <2>3, Zenon DEF Reading
  <2>. QED  BY <2>1, <2>4, Zenon
<1>10. Shapes'
  BY <1>1, <1>3, Zenon DEF Shapes, life
<1>11. Found => Found'
  BY <1>1, <1>2, <1>3, FoundKept, Zenon
<1>12. GapsCaught' /\ Agreed' /\ EverHeld'
  BY <1>1, <1>11, LogsSame, EverSame, Zenon
<1>13. Saves' = Saves
  BY <1>1, Zenon DEF Saves, Saved, life
<1>14. \A i \in Servers : Last(i)' = Last(i) /\ Last(i) \in Instances
  BY <1>1, LastIs, Zenon DEF Last, life
<1>15. ~late' => a = Last(a[1])
  BY <1>1, <1>8, LastOrLate, Zenon
<1>16. Followed'
  <2>1. SUFFICES ASSUME ~Found', snapshot', ~late', NEW i \in Servers
                 PROVE  /\ Progress(reader'[Last(i)], delivered[Last(i)], logs[i], lastApplied[i], Saves[i])
                        /\ Rooted(Saves[i], logs, Saves)
                        /\ reader'[Last(i)].at = "ingest" =>
                               Rooted(reader'[Last(i)].m.snapshot, logs, Saves)
    BY <1>1, <1>13, <1>14, Zenon DEF Followed
  <2>2. /\ Progress(reader[Last(i)], delivered[Last(i)], logs[i], lastApplied[i], Saves[i])
        /\ Rooted(Saves[i], logs, Saves)
        /\ reader[Last(i)].at = "ingest" => Rooted(reader[Last(i)].m.snapshot, logs, Saves)
    BY <1>1, <1>11, <2>1, Zenon DEF Followed
  <2>3. CASE Last(i) = a
    <3>1. ~out
      BY <1>3, <2>1, Zenon DEF Found
    <3>2. a[1] = i /\ reader'[a].at = "check" /\ reader'[a].m.index = lastApplied[i] + 1
      BY <1>3, <2>3, <3>1, LastIs, Zenon DEF out
    <3>. QED  BY <1>1, <1>3, <2>2, <2>3, <3>2, Zenon DEF Progress
  <2>4. CASE Last(i) # a
    BY <1>3, <1>14, <2>2, <2>4, Zenon
  <2>. QED  BY <2>3, <2>4, Zenon
<1>17. HonestLogs'
  <2>1. \A b \in Instances : Honest(reader[b]) => Honest(reader'[b])
    BY <1>1, <1>3, <1>8 DEF Honest
  <2>2. \A i \in Servers : reader'[Last(i)].at = "order" => reader'[Last(i)] = reader[Last(i)]
    BY <1>3, <1>8, <1>14, Zenon
  <2>3. \A b \in Instances : reader[b].at = "check" => reader'[b].at = "check"
    BY <1>3, <1>8, Zenon
  <2>. QED  BY <1>1, <2>1, <2>2, <2>3, HonestSame, Zenon DEF life
<1>18. NoFalseAlarm'
  <2>1. SUFFICES ASSUME faults = 0, ~late', Found' PROVE FALSE
    BY <1>1, <1>2, Zenon DEF NoFalseAlarm
  <2>2. a = Last(a[1]) /\ ~late
    BY <1>1, <1>15, <2>1, Zenon
  <2>3. reader[a].m.index = lastApplied[a[1]] + 1
    BY <1>1, <1>2, <2>1, <2>2, Zenon DEF HonestLogs, InOrder, Last
  <2>4. ~reader'[a].err
    BY <1>3, <2>3, Zenon DEF out
  <2>5. Found
    BY <1>1, <1>3, <2>1, <2>4, Zenon DEF Found
  <2>. QED  BY <2>1, <2>2, <2>5, Zenon DEF NoFalseAlarm
<1>. QED  BY <1>6, <1>7, <1>9, <1>10, <1>12, <1>16, <1>17, <1>18, Zenon

LEMMA FatalStep ==
    ASSUME RInv, NEW a \in Instances, Fatal(a)
    PROVE  RInv'
<1>. USE DEF RInv
<1>1. /\ UNCHANGED <<snapshot, faults, life, disk, delivered, logs, lastApplied, reader, late, ever>>
      /\ reader[a].at = "end" /\ failed' = TRUE
  BY Zenon DEF Fatal
<1>2. Found /\ Found'
  BY <1>1, Zenon DEF Found, Reading, Reads
<1>3. RTypeOK'
  BY <1>1, Zenon DEF RTypeOK, life
<1>4. Life' /\ Readers' /\ Reading' /\ Shapes' /\ HonestLogs'
  <2>1. Life'
    BY <1>1, Zenon DEF Life, life, Superseded, Last
  <2>2. Readers' /\ Reading' /\ Shapes'
    BY <1>1, Zenon DEF Readers, Reading, Shapes, life
  <2>3. HonestLogs'
    BY <1>1, HonestSame, Zenon DEF life
  <2>. QED  BY <2>1, <2>2, <2>3, Zenon
<1>5. GapsCaught' /\ Agreed' /\ Followed' /\ EverHeld' /\ NoFalseAlarm'
  BY <1>1, <1>2, Zenon DEF GapsCaught, Agreed, Followed, EverHeld, NoFalseAlarm
<1>. QED  BY <1>3, <1>4, <1>5, Zenon

LEMMA DeliverCommandStep ==
    ASSUME RInv, NEW a \in Instances, NEW n \in 1..MaxIndex, NEW v \in {n, Wrong},
           DeliverCommand(a, n, v)
    PROVE  RInv'
<1>. USE DEF RInv
<1>. DEFINE msg == [NoMsg EXCEPT !.index = n, !.value = v]
<1>1. /\ UNCHANGED <<snapshot, life, disk, logs, lastApplied, failed, late, ever>>
      /\ reader[a].at = "idle" /\ a \notin dead
      /\ faults' = (IF n = delivered[a] + 1 /\ v = n THEN faults ELSE faults + 1)
      /\ faults' <= MaxFaults
      /\ delivered' = [delivered EXCEPT ![a] = n]
      /\ reader' = [reader EXCEPT ![a].at = IF snapshot THEN "order" ELSE "check", ![a].m = msg]
  BY Zenon DEF DeliverCommand
<1>2. a[1] \in Servers /\ ~reader[a].err /\ n \in Indices /\ n # 0 /\ n \in Nat /\ v \in Indices /\ v # nil
  BY <1>1, Pairs, Sets DEF Reading, Reads, Wrong, nil, Indices
<1>3. msg.index = n /\ msg.value = v /\ msg.snapshot = NoSnapshot /\ msg \in Msgs
  BY <1>2, NoMsgFits, Zenon DEF NoMsg, Msgs
<1>. HIDE DEF msg
<1>4. /\ reader'[a].at = (IF snapshot THEN "order" ELSE "check") /\ reader'[a].m = msg
      /\ reader'[a].err = reader[a].err /\ reader'[a].rf = reader[a].rf
      /\ reader'[a] \in Recs
      /\ \A b \in Instances \ {a} : reader'[b] = reader[b]
  BY <1>1, <1>3 DEF RTypeOK, Recs, Points
<1>5. /\ reader' \in [Instances -> Recs] /\ delivered' \in [Instances -> Indices]
      /\ delivered'[a] = n /\ \A b \in Instances \ {a} : delivered'[b] = delivered[b]
  BY <1>1, <1>2, <1>4 DEF RTypeOK, Recs
<1>6. faults \in Nat /\ faults' \in 0..MaxFaults /\ (faults' = 0 => faults = 0 /\ n = delivered[a] + 1 /\ v = n)
  BY <1>1, BoundsAssumption DEF RTypeOK
<1>7. RTypeOK'
  BY <1>1, <1>5, <1>6, Zenon DEF RTypeOK, life, Recs
<1>8. Life'
  BY <1>1, Zenon DEF Life, life, Superseded, Last
<1>9. /\ reader[a].at # "none" /\ reader[a].at # "check"
      /\ reader'[a].at \in Busy \ {"ingest"}
      /\ reader'[a].at \notin {"idle", "none", "end", "ingest", "set", "snap", "new", "returned"}
      /\ ~snapshot => reader'[a].at = "check"
      /\ snapshot => reader'[a].at = "order"
      /\ ~snapshot => reader'[a].at \notin Busy \ {"check"}
  BY <1>1, <1>4 DEF Busy
<1>10. Readers' /\ Reading' /\ Shapes'
  <2>1. reader'[a].rf = a[2]
    BY <1>1, <1>4, Zenon DEF Readers
  <2>2. Readers'
    BY <1>1, <1>4, <1>9, <2>1, ZenonT(40) DEF Readers, life
  <2>3. Reads(reader'[a], n, snapshot)
    BY <1>2, <1>3, <1>4, <1>9, Zenon DEF Reads
  <2>4. Reading'
    BY <1>1, <1>4, <1>5, <2>3, Zenon DEF Reading
  <2>5. Shaped(reader'[a].m.snapshot)
    BY <1>3, <1>4, NoMsgFits, Zenon
  <2>6. Shapes'
    BY <1>1, <1>4, <2>5, Zenon DEF Shapes, life
  <2>. QED  BY <2>2, <2>4, <2>6, Zenon
<1>11. Found' <=> Found
  BY <1>1, <1>4, Zenon DEF Found
<1>12. GapsCaught' /\ Agreed' /\ EverHeld' /\ NoFalseAlarm'
  BY <1>1, <1>6, <1>11, LogsSame, EverSame, Zenon DEF NoFalseAlarm
<1>13. Saves' = Saves
  BY <1>1, Zenon DEF Saves, Saved, life
<1>14. \A i \in Servers : Last(i)' = Last(i) /\ Last(i) \in Instances /\ Last(i)[1] = i
  BY <1>1, LastIs, Zenon DEF Last, life
<1>15. a = Last(a[1])
  BY <1>1, <1>9, AliveIsLast, Zenon
<1>16. Followed'
  <2>1. SUFFICES ASSUME ~Found', snapshot', ~late', NEW i \in Servers
                 PROVE  /\ Progress(reader'[Last(i)], delivered'[Last(i)], logs[i], lastApplied[i], Saves[i])
                        /\ Rooted(Saves[i], logs, Saves)
                        /\ reader'[Last(i)].at = "ingest" =>
                               Rooted(reader'[Last(i)].m.snapshot, logs, Saves)
    BY <1>1, <1>13, <1>14, Zenon DEF Followed
  <2>2. /\ Progress(reader[Last(i)], delivered[Last(i)], logs[i], lastApplied[i], Saves[i])
        /\ Rooted(Saves[i], logs, Saves)
        /\ reader[Last(i)].at = "ingest" => Rooted(reader[Last(i)].m.snapshot, logs, Saves)
    BY <1>1, <1>11, <2>1, Zenon DEF Followed
  <2>3. CASE Last(i) = a
    <3>1. reader'[a].at = "order"
      BY <1>1, <1>9, <2>1, Zenon
    <3>. QED  BY <1>1, <2>2, <2>3, <3>1, Zenon DEF Progress
  <2>4. CASE Last(i) # a
    BY <1>4, <1>5, <1>14, <2>2, <2>4, Zenon
  <2>. QED  BY <2>3, <2>4, Zenon
<1>17. HonestLogs'
  <2>1. SUFFICES ASSUME faults' = 0, ~(snapshot /\ late)
                 PROVE  /\ Truthful(logs) /\ InOrder(reader', lastApplied, starts)
                        /\ \A b \in Instances : Honest(reader'[b])
                        /\ ~snapshot => Entered(logs, reader', delivered')
    BY <1>1, Zenon DEF HonestLogs, life
  <2>2. faults = 0 /\ n = delivered[a] + 1 /\ v = n
    BY <1>6, <2>1, Zenon
  <2>3. /\ Truthful(logs) /\ InOrder(reader, lastApplied, starts)
        /\ \A b \in Instances : Honest(reader[b])
        /\ ~snapshot => Entered(logs, reader, delivered)
    BY <2>1, <2>2, Zenon DEF HonestLogs
  <2>4. \A b \in Instances : Honest(reader'[b])
    BY <1>3, <1>4, <1>9, <2>2, <2>3 DEF Honest
  <2>5. ASSUME snapshot PROVE n = lastApplied[a[1]] + 1
    <3>1. ~Found /\ ~late
      BY <2>1, <2>2, <2>5, Zenon DEF NoFalseAlarm
    <3>2. Progress(reader[a], delivered[a], logs[a[1]], lastApplied[a[1]], Saves[a[1]])
      BY <1>2, <1>15, <2>5, <3>1, Zenon DEF Followed
    <3>. QED  BY <1>1, <2>2, <3>2, Zenon DEF Progress
  <2>6. ASSUME NEW i \in Servers, reader'[Last(i)].at = "order"
        PROVE  reader'[Last(i)].m.index = lastApplied[i] + 1
    <3>1. CASE Last(i) = a
      <4>1. snapshot /\ a[1] = i
        BY <1>4, <1>14, <2>6, <3>1, Zenon
      <4>. QED  BY <1>3, <1>4, <2>5, <3>1, <4>1, Zenon
    <3>2. CASE Last(i) # a
      BY <1>4, <1>14, <2>3, <2>6, <3>2, Zenon DEF InOrder, Last
    <3>. QED  BY <3>1, <3>2, Zenon
  <2>7. ASSUME ~snapshot, NEW b \in Instances, NEW k \in 1..delivered'[b]
        PROVE  logs[b[1]][k] # Missing \/ (reader'[b].at = "check" /\ k = delivered'[b])
    <3>1. CASE b # a
      BY <1>4, <1>5, <2>3, <2>7, <3>1, Zenon DEF Entered
    <3>2. CASE b = a /\ k = n
      BY <1>5, <1>9, <2>7, <3>2, Zenon
    <3>3. CASE b = a /\ k # n
      <4>1. delivered[a] \in Nat /\ delivered'[a] = delivered[a] + 1
        BY <1>5, <2>2, Sets, ReaderTypes, Zenon
      <4>2. k \in 1..delivered[a]
        BY <1>5, <2>2, <3>3, <4>1
      <4>. QED  BY <1>9, <2>3, <2>7, <3>3, <4>2, Zenon DEF Entered
    <3>. QED  BY <3>1, <3>2, <3>3, Zenon
  <2>8. InOrder(reader', lastApplied, starts) /\ (~snapshot => Entered(logs, reader', delivered'))
    BY <2>6, <2>7, Zenon DEF InOrder, Entered, Last
  <2>. QED  BY <2>3, <2>4, <2>8, Zenon
<1>. QED  BY <1>7, <1>8, <1>10, <1>12, <1>16, <1>17, Zenon

LEMMA CheckLogsStep ==
    ASSUME RInv, NEW a \in Instances, CheckLogs(a)
    PROVE  RInv'
<1>. USE DEF RInv
<1>. DEFINE i == a[1]
            m == reader[a].m
            n == reader[a].m.index
            v == reader[a].m.value
            err == Mismatch(m) \/ PrevMissing(i, m)
<1>1. /\ UNCHANGED <<snapshot, faults, life, disk, delivered, lastApplied, failed>>
      /\ reader[a].at = "check" /\ late' = (late \/ Superseded(a))
      /\ logs' = [logs EXCEPT ![i][n] = v]
      /\ reader' = [reader EXCEPT ![a] = IF snapshot THEN [@ EXCEPT !.at = "set", !.err = err]
                                                     ELSE Loop(@, err)]
      /\ ever' = (IF snapshot THEN ever ELSE ever \cup {<<n, v>>})
  BY Zenon DEF CheckLogs
<1>2. /\ i \in Servers /\ ~reader[a].err /\ n = delivered[a] /\ n # 0 /\ v # nil
      /\ reader[a].at \in Busy /\ reader[a].at # "none" /\ reader[a].rf = a[2]
  BY <1>1, Pairs, Zenon DEF Reading, Reads, Busy, Readers
<1>3. n \in 1..MaxIndex /\ n \in Indices /\ n \in Nat /\ v \in Indices /\ v # Missing
  BY <1>2, ReaderTypes, Sets DEF Indices
<1>4. reader[a] \in Recs /\ NoMsg \in Msgs
  BY ReaderTypes, NoMsgFits, Zenon
<1>5. err \in BOOLEAN
  BY Zenon DEF Mismatch, PrevMissing
<1>. HIDE DEF i, m, n, v, err
<1>6. /\ reader'[a].err = err /\ reader'[a].rf = reader[a].rf
      /\ snapshot => reader'[a].at = "set" /\ reader'[a].m = reader[a].m
      /\ ~snapshot /\ err => reader'[a].at = "end" /\ reader'[a].m = reader[a].m
      /\ ~snapshot /\ ~err => reader'[a].at = "idle" /\ reader'[a].m = NoMsg
      /\ reader'[a] \in Recs
      /\ \A b \in Instances \ {a} : reader'[b] = reader[b]
  <2>1. reader'[a] = IF snapshot THEN [reader[a] EXCEPT !.at = "set", !.err = err]
                                 ELSE Loop(reader[a], err)
    BY <1>1, Zenon DEF RTypeOK
  <2>2. \A b \in Instances \ {a} : reader'[b] = reader[b]
    BY <1>1, Zenon DEF RTypeOK
  <2>3. ~snapshot /\ ~err => reader'[a].err = err
    BY <1>2, <1>4, <1>5, <2>1, Zenon DEF Loop, Recs
  <2>. QED  BY <1>4, <1>5, <2>1, <2>2, <2>3, ZenonT(40) DEF Loop, Recs, Points
<1>7. reader' \in [Instances -> Recs]
  BY <1>1, <1>6, Zenon DEF RTypeOK, Recs
<1>8. /\ logs' \in [Servers -> Logs] /\ logs'[i][n] = v
      /\ \A k \in 1..MaxIndex : k # n => logs'[i][k] = logs[i][k]
      /\ \A j \in Servers : j # i => logs'[j] = logs[j]
  BY <1>1, <1>2, <1>3, Sets, Zenon DEF RTypeOK, Logs
<1>9. RTypeOK'
  <2>1. ever' \subseteq Indices \X Indices
    BY <1>1, <1>3 DEF RTypeOK
  <2>2. late' \in BOOLEAN
    BY <1>1, Zenon DEF RTypeOK, Superseded
  <2>. QED  BY <1>1, <1>7, <1>8, <2>1, <2>2, Zenon DEF RTypeOK, life, Recs
<1>10. Life'
  BY <1>1, Zenon DEF Life, life, Superseded, Last
<1>11. reader'[a].at \in {"set", "end", "idle"} /\ (snapshot => reader'[a].at = "set")
  BY <1>5, <1>6, Zenon
<1>12. reader'[a].at \notin {"none", "order", "check", "ingest"}
  BY <1>11, Zenon
<1>13. Readers' /\ Reading' /\ Shapes'
  <2>1. Readers'
    BY <1>1, <1>2, <1>6, <1>12, ZenonT(40) DEF Readers, life
  <2>2. Reads(reader'[a], delivered[a], snapshot)
    <3>1. CASE snapshot
      BY <1>2, <1>6, <3>1, Zenon DEF Reads, n, v
    <3>2. CASE ~snapshot
      BY <1>5, <1>6, <1>11, <3>2, Zenon DEF Reads, Busy
    <3>. QED  BY <3>1, <3>2, Zenon
  <2>3. Reading'
    BY <1>1, <1>6, <2>2, Zenon DEF Reading
  <2>4. Shaped(reader'[a].m.snapshot)
    BY <1>5, <1>6, NoMsgFits, Zenon DEF Shapes
  <2>5. Shapes'
    BY <1>1, <1>6, <2>4, Zenon DEF Shapes, life
  <2>. QED  BY <2>1, <2>3, <2>5, Zenon
<1>14. Found => Found'
  BY <1>1, <1>2, <1>6, FoundKept, Zenon
<1>15. Saves' = Saves
  BY <1>1, Zenon DEF Saves, Saved, life
<1>16. \A j \in Servers : Last(j)' = Last(j) /\ Last(j) \in Instances /\ Last(j)[1] = j
  BY <1>1, LastIs, Zenon DEF Last, life
<1>17. ~late' => a = Last(i)
  BY <1>1, <1>2, LastOrLate, Zenon DEF i
<1>18. ASSUME ~Found'
       PROVE  /\ ~Found /\ ~err /\ \A j \in Servers : logs[j][n] \in {Missing, v}
              /\ n > 1 => logs[i][n - 1] # Missing
              /\ \A j \in Servers : \A k \in 1..MaxIndex : logs[j][k] # Missing => logs'[j][k] = logs[j][k]
  <2>1. ~Found /\ ~err
    BY <1>6, <1>14, <1>18, Zenon DEF Found
  <2>2. \A j \in Servers : logs[j][n] \in {Missing, v}
    BY <2>1, Zenon DEF err, m, n, v, Mismatch
  <2>3. n > 1 => logs[i][n - 1] # Missing
    BY <2>1, Zenon DEF err, m, n, PrevMissing
  <2>4. ASSUME NEW j \in Servers, NEW k \in 1..MaxIndex, logs[j][k] # Missing PROVE logs'[j][k] = logs[j][k]
    <3>1. CASE j = i /\ k = n
      BY <1>8, <2>2, <2>4, <3>1, Zenon
    <3>2. CASE j # i \/ k # n
      BY <1>8, <3>2, Zenon
    <3>. QED  BY <3>1, <3>2, Zenon
  <2>. QED  BY <2>1, <2>2, <2>3, <2>4, Zenon
<1>19. GapsCaught'
  <2>1. SUFFICES ASSUME ~Found', NEW j \in Servers, NEW k \in 2..MaxIndex, logs'[j][k] # Missing
                 PROVE  logs'[j][k - 1] # Missing
    BY Zenon DEF GapsCaught
  <2>2. k \in 1..MaxIndex /\ k - 1 \in 1..MaxIndex /\ k > 1
    BY Sets
  <2>3. logs[j][k - 1] # Missing
    <3>1. CASE j = i /\ k = n
      BY <1>18, <2>1, <2>2, <3>1, Zenon
    <3>2. CASE j # i \/ k # n
      <4>1. logs[j][k] # Missing
        BY <1>8, <2>1, <2>2, <3>2, Zenon
      <4>. QED  BY <1>18, <2>1, <4>1, Zenon DEF GapsCaught
    <3>. QED  BY <3>1, <3>2, Zenon
  <2>. QED  BY <1>18, <2>1, <2>2, <2>3, Zenon
<1>20. Agreed'
  <2>1. SUFFICES ASSUME ~Found', ~(snapshot' /\ late') PROVE Agree(logs')
    BY Zenon DEF Agreed
  <2>2. Agree(logs) /\ \A j \in Servers : logs[j][n] \in {Missing, v}
    BY <1>1, <1>18, <2>1, Zenon DEF Agreed
  <2>3. logs \in [Servers -> Logs] /\ v \in Indices \cup {nil}
    BY <1>3, Zenon DEF RTypeOK
  <2>4. Agree([logs EXCEPT ![i][n] = v])
    BY <1>2, <1>3, <2>2, <2>3, AgreeWrite, Zenon
  <2>. QED  BY <1>1, <2>4, Zenon
<1>21. Followed'
  <2>1. SUFFICES ASSUME ~Found', snapshot', ~late', NEW j \in Servers
                 PROVE  /\ Progress(reader'[Last(j)], delivered[Last(j)], logs'[j], lastApplied[j], Saves[j])
                        /\ Rooted(Saves[j], logs', Saves)
                        /\ reader'[Last(j)].at = "ingest" =>
                               Rooted(reader'[Last(j)].m.snapshot, logs', Saves)
    BY <1>1, <1>15, <1>16, Zenon DEF Followed
  <2>2. /\ Progress(reader[Last(j)], delivered[Last(j)], logs[j], lastApplied[j], Saves[j])
        /\ Rooted(Saves[j], logs, Saves)
        /\ reader[Last(j)].at = "ingest" => Rooted(reader[Last(j)].m.snapshot, logs, Saves)
    BY <1>1, <1>18, <2>1, Zenon DEF Followed
  <2>3. \A k \in Servers : Shaped(Saves[k]) /\ Saves[k].index \in Indices
    BY SavesFit, Zenon
  <2>4. \A k \in Servers : \A p \in 1..MaxIndex : logs[k][p] # Missing => logs'[k][p] = logs[k][p]
    BY <1>18, <2>1, Zenon
  <2>5. /\ Rooted(Saves[j], logs', Saves)
        /\ reader[Last(j)].at = "ingest" => Rooted(reader[Last(j)].m.snapshot, logs', Saves)
    <3>1. ASSUME NEW t, Rooted(t, logs, Saves) PROVE Rooted(t, logs', Saves)
      BY <2>3, <2>4, <3>1, RootGrows, ZenonT(40)
    <3>. QED  BY <2>2, <3>1, Zenon
  <2>6. CASE Last(j) = a
    <3>1. j = i /\ reader'[a].at = "set" /\ reader'[a].m.index = n
      BY <1>1, <1>6, <1>16, <2>1, <2>6, Zenon DEF i, n
    <3>2. Full(logs[i], lastApplied[i]) /\ n = lastApplied[i] + 1 /\ Saves[i].index <= lastApplied[i]
      BY <1>1, <2>2, <2>6, <3>1, Zenon DEF Progress, n
    <3>3. Full(logs'[i], lastApplied[i])
      <4>1. \A k \in 1..lastApplied[i] : k \in 1..MaxIndex
        BY <1>2, Sets, SMTT(30) DEF RTypeOK
      <4>. QED  BY <1>2, <2>4, <3>2, <4>1, Zenon DEF Full
    <3>4. Progress(reader'[a], delivered[a], logs'[i], lastApplied[i], Saves[i])
      BY <1>3, <1>8, <3>1, <3>2, <3>3, Zenon DEF Progress
    <3>. QED  BY <2>5, <2>6, <3>1, <3>4, <1>12, Zenon
  <2>7. CASE Last(j) # a
    <3>1. j # i /\ reader'[Last(j)] = reader[Last(j)]
      BY <1>1, <1>6, <1>16, <1>17, <2>1, <2>7, Zenon
    <3>. QED  BY <1>8, <2>2, <2>5, <3>1, Zenon
  <2>. QED  BY <2>6, <2>7, Zenon
<1>22. EverHeld'
  <2>1. SUFFICES ASSUME ~Found', ~snapshot, NEW x \in ever'
                 PROVE  x[1] \in 1..MaxIndex /\ \E j \in Servers : logs'[j][x[1]] = x[2]
    BY <1>1, Zenon DEF EverHeld
  <2>2. CASE x \in ever
    <3>1. x[1] \in 1..MaxIndex /\ x[2] # Missing
      BY <1>18, <2>1, <2>2, Sets, Zenon DEF EverHeld, RTypeOK
    <3>2. PICK j \in Servers : logs[j][x[1]] = x[2]
      BY <1>18, <2>1, <2>2, Zenon DEF EverHeld
    <3>3. logs'[j][x[1]] = x[2]
      BY <1>18, <2>1, <3>1, <3>2, Zenon
    <3>. QED  BY <3>1, <3>3, Zenon
  <2>3. CASE x = <<n, v>>
    BY <1>2, <1>3, <1>8, <2>3, Zenon
  <2>. QED  BY <1>1, <2>1, <2>2, <2>3, Zenon
<1>23. HonestLogs'
  <2>1. SUFFICES ASSUME faults = 0, ~(snapshot /\ late')
                 PROVE  /\ Truthful(logs') /\ InOrder(reader', lastApplied, starts)
                        /\ \A b \in Instances : Honest(reader'[b])
                        /\ ~snapshot => Entered(logs', reader', delivered)
    BY <1>1, Zenon DEF HonestLogs, life
  <2>2. /\ Truthful(logs) /\ InOrder(reader, lastApplied, starts)
        /\ \A b \in Instances : Honest(reader[b])
        /\ ~snapshot => Entered(logs, reader, delivered)
    BY <1>1, <2>1, Zenon DEF HonestLogs
  <2>3. v = n
    BY <1>1, <2>2, Zenon DEF Honest, v, n
  <2>4. Truthful(logs')
    BY <1>8, <2>2, <2>3, Zenon DEF Truthful
  <2>5. \A b \in Instances : Honest(reader'[b])
    BY <1>6, <1>12, <2>2, Zenon DEF Honest
  <2>6. InOrder(reader', lastApplied, starts)
    BY <1>6, <1>12, <1>16, <2>2, Zenon DEF InOrder, Last
  <2>7. ASSUME ~snapshot, NEW b \in Instances, NEW k \in 1..delivered[b]
        PROVE  logs'[b[1]][k] # Missing \/ (reader'[b].at = "check" /\ k = delivered[b])
    <3>1. k \in 1..MaxIndex /\ b[1] \in Servers
      BY ReaderTypes, Pairs, Sets
    <3>2. CASE b[1] = i /\ k = n
      BY <1>3, <1>8, <3>2, Zenon
    <3>3. CASE b[1] # i \/ k # n
      <4>1. logs'[b[1]][k] = logs[b[1]][k]
        BY <1>8, <3>1, <3>3, Zenon
      <4>2. b = a => k # delivered[b]
        BY <1>2, <3>3, Zenon DEF i
      <4>. QED  BY <1>6, <2>2, <2>7, <4>1, <4>2, ZenonT(40) DEF Entered
    <3>. QED  BY <3>2, <3>3, Zenon
  <2>. QED  BY <2>4, <2>5, <2>6, <2>7, Zenon DEF Entered
<1>24. NoFalseAlarm'
  <2>1. SUFFICES ASSUME faults = 0, ~(snapshot /\ late'), Found' PROVE FALSE
    BY <1>1, Zenon DEF NoFalseAlarm
  <2>2. ~Found /\ ~(snapshot /\ late)
    BY <1>1, <2>1, Zenon DEF NoFalseAlarm
  <2>3. /\ Truthful(logs) /\ Honest(reader[a])
        /\ ~snapshot => Entered(logs, reader, delivered)
    BY <2>1, <2>2, Zenon DEF HonestLogs
  <2>4. v = n
    BY <1>1, <2>3, Zenon DEF Honest, v, n
  <2>5. ~Mismatch(m)
    BY <1>3, <2>3, <2>4, Zenon DEF Mismatch, Truthful, m, n, v
  <2>6. ASSUME n > 1 PROVE logs[i][n - 1] # Missing
    <3>1. CASE snapshot
      <4>1. a = Last(i)
        BY <1>17, <2>1, <3>1, Zenon
      <4>2. Progress(reader[a], delivered[a], logs[i], lastApplied[i], Saves[i])
        BY <1>2, <2>2, <3>1, <4>1, Zenon DEF Followed
      <4>3. Full(logs[i], lastApplied[i]) /\ n = lastApplied[i] + 1
        BY <1>1, <4>2, Zenon DEF Progress, n
      <4>4. n - 1 \in 1..lastApplied[i]
        <5>1. lastApplied[i] \in Nat
          BY <1>2, Sets, Zenon DEF RTypeOK
        <5>. QED  BY <1>3, <2>6, <4>3, <5>1
      <4>. QED  BY <4>3, <4>4, Zenon DEF Full
    <3>2. CASE ~snapshot
      <4>1. n - 1 \in 1..delivered[a] /\ n - 1 # delivered[a]
        BY <1>2, <1>3, <2>6
      <4>. QED  BY <2>3, <3>2, <4>1, Zenon DEF Entered, i
    <3>. QED  BY <3>1, <3>2, Zenon
  <2>7. ~err
    BY <2>5, <2>6, Zenon DEF err, PrevMissing, m, n
  <2>. QED  BY <1>1, <1>6, <2>1, <2>2, <2>7, Zenon DEF Found
<1>. QED  BY <1>9, <1>10, <1>13, <1>19, <1>20, <1>21, <1>22, <1>23, <1>24, Zenon

LEMMA SetLastAppliedStep ==
    ASSUME RInv, NEW a \in Instances, SetLastApplied(a)
    PROVE  RInv'
<1>. USE DEF RInv
<1>. DEFINE i == a[1]
            n == reader[a].m.index
            snap == (n + 1) % SnapShotInterval = 0
<1>1. /\ UNCHANGED <<snapshot, faults, life, disk, delivered, logs, failed, ever>>
      /\ reader[a].at = "set" /\ late' = (late \/ Superseded(a))
      /\ lastApplied' = [lastApplied EXCEPT ![i] = n]
      /\ reader' = [reader EXCEPT ![a] = IF (@.m.index + 1) % SnapShotInterval = 0
                                         THEN [@ EXCEPT !.at = "snap"] ELSE Loop(@, @.err)]
  BY Zenon DEF SetLastApplied
<1>2. /\ i \in Servers /\ snapshot /\ n = delivered[a] /\ n # 0 /\ reader[a].m.value # nil
      /\ reader[a].at \in Busy /\ reader[a].at # "none" /\ reader[a].rf = a[2]
  BY <1>1, Pairs, Zenon DEF Reading, Reads, Busy, Readers
<1>3. n \in Indices /\ n \in Nat /\ reader[a] \in Recs /\ NoMsg \in Msgs /\ reader[a].err \in BOOLEAN
  BY ReaderTypes, NoMsgFits, Sets, Zenon
<1>4. /\ reader'[a].err = reader[a].err /\ reader'[a].rf = reader[a].rf
      /\ \/ reader'[a].at = "snap" /\ reader'[a].m = reader[a].m
         \/ reader'[a].at = "end" /\ reader'[a].m = reader[a].m /\ reader[a].err
         \/ reader'[a].at = "idle" /\ reader'[a].m = NoMsg /\ ~reader[a].err
      /\ reader'[a] \in Recs
      /\ \A b \in Instances \ {a} : reader'[b] = reader[b]
  <2>1. reader'[a] = IF snap THEN [reader[a] EXCEPT !.at = "snap"] ELSE Loop(reader[a], reader[a].err)
    BY <1>1, Zenon DEF RTypeOK
  <2>2. \A b \in Instances \ {a} : reader'[b] = reader[b]
    BY <1>1, Zenon DEF RTypeOK
  <2>. HIDE DEF snap
  <2>3. CASE snap
    BY <1>3, <2>1, <2>2, <2>3 DEF Recs, Points
  <2>4. CASE ~snap /\ reader[a].err
    BY <1>3, <2>1, <2>2, <2>4, ZenonT(40) DEF Loop, Recs, Points
  <2>5. CASE ~snap /\ ~reader[a].err
    BY <1>3, <2>1, <2>2, <2>5, ZenonT(40) DEF Loop, Recs, Points
  <2>. QED  BY <2>3, <2>4, <2>5, Zenon
<1>. HIDE DEF i, n, snap
<1>5. reader' \in [Instances -> Recs]
  BY <1>1, <1>4, Zenon DEF RTypeOK, Recs
<1>6. /\ lastApplied' \in [Servers -> Indices] /\ lastApplied'[i] = n
      /\ \A j \in Servers : j # i => lastApplied'[j] = lastApplied[j]
  BY <1>1, <1>2, <1>3, Zenon DEF RTypeOK
<1>7. RTypeOK'
  <2>1. late' \in BOOLEAN
    BY <1>1, Zenon DEF RTypeOK, Superseded
  <2>. QED  BY <1>1, <1>5, <1>6, <2>1, Zenon DEF RTypeOK, life, Recs
<1>8. Life'
  BY <1>1, Zenon DEF Life, life, Superseded, Last
<1>9. /\ reader'[a].at \notin {"none", "order", "check", "ingest", "set", "new", "returned"}
      /\ reader'[a].at \in Busy => reader'[a].at = "snap"
  BY <1>4, Zenon DEF Busy
<1>10. Readers' /\ Reading' /\ Shapes'
  <2>1. Readers'
    BY <1>1, <1>2, <1>4, <1>9, ZenonT(40) DEF Readers, life
  <2>2. Reads(reader'[a], delivered[a], snapshot)
    BY <1>2, <1>4, <1>9, Zenon DEF Reads, n
  <2>3. Reading'
    BY <1>1, <1>4, <2>2, Zenon DEF Reading
  <2>4. Shaped(reader'[a].m.snapshot)
    BY <1>4, NoMsgFits, Zenon DEF Shapes
  <2>5. Shapes'
    BY <1>1, <1>4, <2>4, Zenon DEF Shapes, life
  <2>. QED  BY <2>1, <2>3, <2>5, Zenon
<1>11. Found' <=> Found
  BY <1>1, <1>4, Zenon DEF Found
<1>12. GapsCaught' /\ Agreed' /\ EverHeld' /\ NoFalseAlarm'
  BY <1>1, <1>11, LogsSame, EverSame, Zenon DEF NoFalseAlarm
<1>13. Saves' = Saves
  BY <1>1, Zenon DEF Saves, Saved, life
<1>14. \A j \in Servers : Last(j)' = Last(j) /\ Last(j) \in Instances /\ Last(j)[1] = j
  BY <1>1, LastIs, Zenon DEF Last, life
<1>15. ~late' => a = Last(i)
  BY <1>1, <1>2, LastOrLate, Zenon DEF i
<1>16. Followed'
  <2>1. SUFFICES ASSUME ~Found', snapshot', ~late', NEW j \in Servers
                 PROVE  /\ Progress(reader'[Last(j)], delivered[Last(j)], logs[j], lastApplied'[j], Saves[j])
                        /\ Rooted(Saves[j], logs, Saves)
                        /\ reader'[Last(j)].at = "ingest" =>
                               Rooted(reader'[Last(j)].m.snapshot, logs, Saves)
    BY <1>1, <1>13, <1>14, Zenon DEF Followed
  <2>2. /\ Progress(reader[Last(j)], delivered[Last(j)], logs[j], lastApplied[j], Saves[j])
        /\ Rooted(Saves[j], logs, Saves)
        /\ reader[Last(j)].at = "ingest" => Rooted(reader[Last(j)].m.snapshot, logs, Saves)
    BY <1>1, <1>11, <2>1, Zenon DEF Followed
  <2>3. CASE Last(j) = a
    <3>1. j = i /\ ~reader[a].err
      BY <1>11, <1>14, <2>1, <2>3, Zenon DEF Found, i
    <3>2. /\ Full(logs[i], lastApplied[i]) /\ n = lastApplied[i] + 1 /\ logs[i][n] # Missing
          /\ Saves[i].index <= lastApplied[i]
      BY <1>1, <2>2, <2>3, <3>1, Zenon DEF Progress, n
    <3>3. lastApplied[i] \in Nat /\ Saves[i].index \in Nat
      BY <1>2, SavesFit, Sets, ZenonT(40) DEF RTypeOK
    <3>4. Full(logs[i], n) /\ Saves[i].index <= n
      BY <3>2, <3>3 DEF Full
    <3>5. Progress(reader'[a], delivered[a], logs[i], n, Saves[i])
      BY <1>2, <1>4, <1>9, <3>1, <3>4, Zenon DEF Progress, n
    <3>. QED  BY <1>6, <1>9, <2>2, <2>3, <3>1, <3>5, Zenon
  <2>4. CASE Last(j) # a
    <3>1. j # i /\ reader'[Last(j)] = reader[Last(j)]
      BY <1>4, <1>14, <1>15, <2>1, <2>4, Zenon
    <3>. QED  BY <1>6, <2>2, <3>1, Zenon
  <2>. QED  BY <2>3, <2>4, Zenon
<1>17. HonestLogs'
  <2>1. SUFFICES ASSUME faults = 0, ~late'
                 PROVE  /\ Truthful(logs) /\ InOrder(reader', lastApplied', starts)
                        /\ \A b \in Instances : Honest(reader'[b])
    BY <1>1, <1>2, Zenon DEF HonestLogs, life
  <2>2. /\ Truthful(logs) /\ InOrder(reader, lastApplied, starts)
        /\ \A b \in Instances : Honest(reader[b])
    BY <1>1, <2>1, Zenon DEF HonestLogs
  <2>3. \A b \in Instances : Honest(reader'[b])
    BY <1>4, <1>9, <2>2, Zenon DEF Honest
  <2>4. a = Last(i)
    BY <1>15, <2>1, Zenon
  <2>5. ASSUME NEW j \in Servers, reader'[Last(j)].at = "order"
        PROVE  reader'[Last(j)].m.index = lastApplied'[j] + 1
    <3>1. Last(j) # a /\ j # i
      BY <1>9, <2>4, <2>5, Zenon
    <3>. QED  BY <1>4, <1>6, <1>14, <2>2, <2>5, <3>1, Zenon DEF InOrder, Last
  <2>. QED  BY <2>2, <2>3, <2>5, Zenon DEF InOrder, Last
<1>. QED  BY <1>7, <1>8, <1>10, <1>12, <1>16, <1>17, Zenon

(* What rf.Snapshot is given: the log up to the index. *)
LEMMA Taken ==
    ASSUME RTypeOK, NEW i \in Servers, NEW n \in Indices
    PROVE  /\ [index |-> n, xlog |-> xlog(i, n)] \in Snapshots
           /\ Shaped([index |-> n, xlog |-> xlog(i, n)])
           /\ Full(logs[i], n) => Covers(logs[i], [index |-> n, xlog |-> xlog(i, n)])
<1>. DEFINE x == xlog(i, n)
<1>0. logs[i] \in Logs
  BY Zenon DEF RTypeOK
<1>1. \A k \in Indices : x[k] = IF k > n THEN Missing ELSE IF logs[i][k] = Missing THEN nil ELSE logs[i][k]
  BY Zenon DEF xlog
<1>2. x \in Logs
  BY <1>0, Zenon DEF xlog, Logs
<1>3. nil # Missing
  BY Sets, Zenon
<1>. HIDE DEF x
<1>4. \A k \in 1..MaxIndex : x[k] = Missing <=> k > n
  BY <1>1, <1>3, Sets, Zenon
<1>5. ASSUME Full(logs[i], n), NEW k \in 1..n PROVE logs[i][k] = x[k]
  <2>1. k \in Indices /\ ~(k > n)
    BY Sets
  <2>. QED  BY <1>1, <1>5, <2>1, Zenon DEF Full
<1>. QED  BY <1>2, <1>4, <1>5, Zenon DEF Shaped, Covers, Snapshots, x

LEMMA TakeSnapshotStep ==
    ASSUME RInv, NEW a \in Instances, TakeSnapshot(a)
    PROVE  RInv'
<1>. USE DEF RInv
<1>. DEFINE i == a[1]
            n == reader[a].m.index
            s == [index |-> n, xlog |-> xlog(i, n)]
<1>1. /\ UNCHANGED <<snapshot, faults, life, delivered, logs, lastApplied, failed, late, ever>>
      /\ reader[a].at = "snap"
      /\ disk' = [disk EXCEPT ![<<i, reader[a].rf>>] = IF n > @.index THEN s ELSE @]
      /\ reader' = [reader EXCEPT ![a] = Loop(@, @.err)]
  BY Zenon DEF TakeSnapshot
<1>2. /\ i \in Servers /\ snapshot /\ n = delivered[a] /\ <<i, reader[a].rf>> = a
      /\ reader[a].at \in Busy /\ reader[a].at # "none"
  BY <1>1, Pairs DEF Reading, Reads, Busy, Readers
<1>3. n \in Indices /\ n \in Nat /\ reader[a] \in Recs /\ NoMsg \in Msgs /\ reader[a].err \in BOOLEAN
  BY ReaderTypes, NoMsgFits, Sets, Zenon
<1>4. s \in Snapshots /\ Shaped(s) /\ s.index = n /\ (Full(logs[i], n) => Covers(logs[i], s))
  BY <1>2, <1>3, Taken, Zenon
<1>. HIDE DEF s
<1>5. /\ reader'[a].err = reader[a].err /\ reader'[a].rf = reader[a].rf
      /\ \/ reader'[a].at = "end" /\ reader'[a].m = reader[a].m /\ reader[a].err
         \/ reader'[a].at = "idle" /\ reader'[a].m = NoMsg /\ ~reader[a].err
      /\ reader'[a] \in Recs
      /\ \A b \in Instances \ {a} : reader'[b] = reader[b]
  <2>1. reader'[a] = Loop(reader[a], reader[a].err)
    BY <1>1, Zenon DEF RTypeOK
  <2>2. \A b \in Instances \ {a} : reader'[b] = reader[b]
    BY <1>1, Zenon DEF RTypeOK
  <2>3. CASE reader[a].err
    BY <1>3, <2>1, <2>2, <2>3, ZenonT(40) DEF Loop, Recs, Points
  <2>4. CASE ~reader[a].err
    BY <1>3, <2>1, <2>2, <2>4 DEF Loop, Recs, Points
  <2>. QED  BY <2>3, <2>4, Zenon
<1>. HIDE DEF i, n
<1>6. reader' \in [Instances -> Recs]
  BY <1>1, <1>5, Zenon DEF RTypeOK, Recs
<1>7. /\ disk' \in [Instances -> Snapshots]
      /\ disk'[a] = IF n > disk[a].index THEN s ELSE disk[a]
      /\ \A b \in Instances \ {a} : disk'[b] = disk[b]
  BY <1>1, <1>2, <1>4, ZenonT(40) DEF RTypeOK
<1>8. RTypeOK'
  BY <1>1, <1>6, <1>7, Zenon DEF RTypeOK, life, Recs
<1>9. Life'
  BY <1>1, Zenon DEF Life, life, Superseded, Last
<1>10. reader'[a].at \in {"idle", "end"} /\ reader'[a].at \notin Busy \cup {"none"}
  BY <1>5, Zenon DEF Busy
<1>11. Readers' /\ Reading' /\ Shapes'
  <2>1. reader'[a].rf = a[2]
    BY <1>2, <1>5, Zenon DEF Readers
  <2>2. Readers'
    BY <1>1, <1>2, <1>5, <1>10, <2>1, ZenonT(40) DEF Readers, life
  <2>3. Reads(reader'[a], delivered[a], snapshot)
    BY <1>2, <1>5, <1>10, Zenon DEF Reads, Busy
  <2>4. Reading'
    BY <1>1, <1>5, <2>3, Zenon DEF Reading
  <2>5. Shaped(reader'[a].m.snapshot) /\ Shaped(disk'[a])
    BY <1>4, <1>5, <1>7, NoMsgFits, Zenon DEF Shapes
  <2>6. Shapes'
    BY <1>1, <1>2, <1>5, <1>7, <2>5, Zenon DEF Shapes, life
  <2>. QED  BY <2>2, <2>4, <2>6, Zenon
<1>12. Found' <=> Found
  BY <1>1, <1>5, Zenon DEF Found
<1>13. GapsCaught' /\ Agreed' /\ EverHeld' /\ NoFalseAlarm'
  BY <1>1, <1>12, LogsSame, EverSame, Zenon DEF NoFalseAlarm
<1>14. \A j \in Servers : Last(j)' = Last(j) /\ Last(j) \in Instances /\ Last(j)[1] = j
  BY <1>1, LastIs, Zenon DEF Last, life
<1>15. HonestLogs'
  <2>1. \A b \in Instances : Honest(reader[b]) => Honest(reader'[b])
    BY <1>5, <1>10, Zenon DEF Honest
  <2>2. reader'[a].at # "order" /\ reader[a].at # "check"
    BY <1>1, <1>10, Zenon
  <2>3. \A j \in Servers : reader'[Last(j)].at = "order" => reader'[Last(j)] = reader[Last(j)]
    BY <1>5, <1>14, <2>2, Zenon
  <2>4. \A b \in Instances : reader[b].at = "check" => reader'[b].at = "check"
    BY <1>5, <2>2, Zenon
  <2>. QED  BY <1>1, <2>1, <2>3, <2>4, HonestSame, Zenon DEF life
<1>16. \A j \in Servers : Saves[j] = Saved(j) /\ Saves'[j] = Saved(j)'
  BY Zenon DEF Saves
<1>17. ASSUME NEW j \in Servers, Last(j) # a PROVE Saves'[j] = Saves[j]
  <2>1. saved' = saved /\ saved[j].own \in {0, starts[j]}
    BY <1>1, Zenon DEF Life, life
  <2>2. saved[j].own # 0 => <<j, saved[j].own>> = Last(j)
    BY <2>1, Zenon DEF Last
  <2>3. disk'[Last(j)] = disk[Last(j)]
    BY <1>7, <1>14, <1>17, Zenon
  <2>. QED  BY <1>16, <2>1, <2>2, <2>3, Zenon DEF Saved
<1>18. ASSUME a = Last(i)
       PROVE  Saves'[i] = Saves[i] \/ (Saves'[i] = s /\ n > Saves[i].index)
  <2>1. saved' = saved /\ saved[i].own \in {0, starts[i]}
    BY <1>1, <1>2, Zenon DEF Life, life
  <2>2. CASE saved[i].own = 0
    BY <1>2, <1>16, <2>1, <2>2, Zenon DEF Saved
  <2>3. CASE saved[i].own # 0
    <3>1. <<i, saved[i].own>> = a
      BY <1>18, <2>1, <2>3, Zenon DEF Last
    <3>2. Saves[i] = disk[a] /\ Saves'[i] = disk'[a]
      BY <1>2, <1>16, <2>1, <2>3, <3>1, Zenon DEF Saved
    <3>. QED  BY <1>7, <3>2, Zenon
  <2>. QED  BY <2>2, <2>3, Zenon
<1>19. Followed'
  <2>1. SUFFICES ASSUME ~Found', snapshot', ~late', NEW j \in Servers
                 PROVE  /\ Progress(reader'[Last(j)], delivered[Last(j)], logs[j], lastApplied[j], Saves'[j])
                        /\ Rooted(Saves'[j], logs, Saves')
                        /\ reader'[Last(j)].at = "ingest" =>
                               Rooted(reader'[Last(j)].m.snapshot, logs, Saves')
    BY <1>1, <1>14, Zenon DEF Followed
  <2>2. \A k \in Servers :
           /\ Progress(reader[Last(k)], delivered[Last(k)], logs[k], lastApplied[k], Saves[k])
           /\ Rooted(Saves[k], logs, Saves)
           /\ reader[Last(k)].at = "ingest" => Rooted(reader[Last(k)].m.snapshot, logs, Saves)
    BY <1>1, <1>12, <2>1, Zenon DEF Followed
  <2>3. /\ \A k \in Servers : Saves[k].index \in Indices
        /\ \A b \in Instances : reader[b].m.snapshot.index \in Indices
    BY SavesFit, ReaderTypes, Zenon
  <2>4. \A k \in Servers : a # Last(i) \/ k # i => Last(k) # a
    BY <1>14, Zenon DEF i
  <2>5. ASSUME a = Last(i) PROVE n = lastApplied[i] /\ Covers(logs[i], s)
    BY <1>1, <1>2, <1>4, <2>2, <2>5, Zenon DEF Progress, n
  <2>6. ASSUME NEW t, t.index \in Indices, Rooted(t, logs, Saves) PROVE Rooted(t, logs, Saves')
    <3>1. CASE \A k \in Servers : Saves'[k] = Saves[k]
      BY <2>6, <3>1, ZenonT(40) DEF Rooted
    <3>2. CASE ~\A k \in Servers : Saves'[k] = Saves[k]
      <4>1. a = Last(i) /\ Saves'[i] = s /\ n > Saves[i].index
        BY <1>17, <1>18, <2>4, <3>2, Zenon
      <4>2. \A k \in Servers : Saves'[k] = IF k = i THEN s ELSE Saves[k]
        BY <1>17, <2>4, <4>1, Zenon
      <4>3. Saves[i].index <= s.index /\ s.index \in Indices
        <5>1. Saves[i].index \in Nat /\ s.index = n /\ n > Saves[i].index
          BY <1>2, <1>4, <2>3, <4>1, Sets, Zenon
        <5>2. Saves[i].index <= s.index
          BY <1>3, <5>1
        <5>. QED  BY <1>3, <5>1, <5>2, Zenon
      <4>4. Covers(logs[i], s) /\ (\A k \in Servers : Saves[k].index \in Indices)
        BY <2>3, <2>5, <4>1, Zenon
      <4>. QED  BY <1>2, <2>6, <4>2, <4>3, <4>4, RootSaved, SMTT(30)
    <3>. QED  BY <3>1, <3>2, Zenon
  <2>7. CASE Last(j) # a
    <3>1. Saves'[j] = Saves[j] /\ reader'[Last(j)] = reader[Last(j)]
      BY <1>5, <1>14, <1>17, <2>7, Zenon
    <3>. QED  BY <1>14, <2>2, <2>3, <2>6, <3>1, Zenon
  <2>8. CASE Last(j) = a
    <3>1. j = i /\ a = Last(i) /\ ~reader[a].err
      BY <1>12, <1>14, <2>1, <2>8, Zenon DEF Found, i
    <3>2. Saves'[i].index <= lastApplied[i]
      BY <1>1, <1>3, <1>4, <1>18, <2>2, <2>5, <3>1, SMTT(30) DEF Progress
    <3>3. /\ reader'[a].at = "idle" /\ delivered[a] = lastApplied[i] /\ Full(logs[i], lastApplied[i])
      BY <1>2, <1>5, <2>2, <2>5, <3>1, Zenon DEF Progress
    <3>4. Progress(reader'[a], delivered[a], logs[i], lastApplied[i], Saves'[i])
      BY <3>2, <3>3, Zenon DEF Progress
    <3>5. Rooted(Saves'[i], logs, Saves')
      <4>1. CASE Saves'[i] = Saves[i]
        BY <1>2, <2>2, <2>3, <2>6, <4>1, Zenon
      <4>2. CASE Saves'[i] = s
        BY <1>2, <1>3, <1>4, <2>5, <3>1, <4>2 DEF Rooted
      <4>. QED  BY <1>18, <3>1, <4>1, <4>2, Zenon
    <3>6. reader'[a].at # "ingest"
      BY <3>3, Zenon
    <3>. QED  BY <2>8, <3>1, <3>4, <3>5, <3>6, Zenon
  <2>. QED  BY <2>7, <2>8, Zenon
<1>. QED  BY <1>8, <1>9, <1>11, <1>13, <1>15, <1>19, Zenon

LEMMA IngestSnapStep ==
    ASSUME RInv, NEW a \in Instances, IngestSnap(a)
    PROVE  RInv'
<1>. USE DEF RInv
<1>. DEFINE i == a[1]
            n == reader[a].m.index
            s == reader[a].m.snapshot
            err == n # s.index
<1>1. /\ UNCHANGED <<snapshot, faults, life, disk, delivered, failed, ever>>
      /\ reader[a].at = "ingest" /\ late' = (late \/ Superseded(a))
      /\ err => logs' = logs /\ lastApplied' = lastApplied
      /\ ~err => /\ logs' = [logs EXCEPT ![i] = s.xlog]
                 /\ lastApplied' = [lastApplied EXCEPT ![i] = s.index]
      /\ reader' = [reader EXCEPT ![a] = Loop(@, err)]
  BY Zenon DEF IngestSnap
<1>2. /\ i \in Servers /\ snapshot /\ n = delivered[a] /\ ~reader[a].err
      /\ reader[a].at \in Busy /\ reader[a].at # "none"
  BY <1>1, Pairs, Zenon DEF Reading, Reads, Busy
<1>3. /\ s.index \in Indices /\ s.xlog \in Logs /\ Shaped(s) /\ s.index \in Nat
      /\ reader[a] \in Recs /\ NoMsg \in Msgs /\ reader[a].err = FALSE
  BY <1>2, ReaderTypes, NoMsgFits, Sets, Zenon DEF Shapes
<1>4. err \in BOOLEAN
  BY Zenon
<1>. HIDE DEF err, s, n, i
<1>5. /\ reader'[a].err = err /\ reader'[a].rf = reader[a].rf
      /\ \/ reader'[a].at = "end" /\ reader'[a].m = reader[a].m /\ err
         \/ reader'[a].at = "idle" /\ reader'[a].m = NoMsg /\ ~err
      /\ reader'[a] \in Recs
      /\ \A b \in Instances \ {a} : reader'[b] = reader[b]
  <2>1. reader'[a] = Loop(reader[a], err)
    BY <1>1, Zenon DEF RTypeOK
  <2>2. \A b \in Instances \ {a} : reader'[b] = reader[b]
    BY <1>1, Zenon DEF RTypeOK
  <2>3. CASE err = TRUE
    BY <1>3, <2>1, <2>2, <2>3, ZenonT(40) DEF Loop, Recs, Points
  <2>4. CASE err = FALSE
    BY <1>3, <2>1, <2>2, <2>4, ZenonT(40) DEF Loop, Recs, Points
  <2>. QED  BY <1>4, <2>3, <2>4, Zenon
<1>6. reader' \in [Instances -> Recs]
  BY <1>1, <1>5, Zenon DEF RTypeOK, Recs
<1>7. /\ logs' \in [Servers -> Logs] /\ lastApplied' \in [Servers -> Indices]
      /\ ~err => logs'[i] = s.xlog /\ lastApplied'[i] = s.index
      /\ \A j \in Servers : j # i => logs'[j] = logs[j] /\ lastApplied'[j] = lastApplied[j]
  <2>1. CASE err
    BY <1>1, <2>1, Zenon DEF RTypeOK
  <2>2. CASE ~err
    BY <1>1, <1>2, <1>3, <2>2, ZenonT(40) DEF RTypeOK
  <2>. QED  BY <2>1, <2>2, Zenon
<1>8. RTypeOK'
  <2>1. late' \in BOOLEAN
    BY <1>1, Zenon DEF RTypeOK, Superseded
  <2>. QED  BY <1>1, <1>6, <1>7, <2>1, Zenon DEF RTypeOK, life, Recs
<1>9. Life'
  BY <1>1, Zenon DEF Life, life, Superseded, Last
<1>10. reader'[a].at \in {"idle", "end"} /\ reader'[a].at \notin Busy \cup {"none"}
  BY <1>5, Zenon DEF Busy
<1>11. Readers' /\ Reading' /\ Shapes'
  <2>1. reader'[a].rf = a[2]
    BY <1>2, <1>5, Zenon DEF Readers
  <2>2. Readers'
    BY <1>1, <1>2, <1>5, <1>10, <2>1, ZenonT(40) DEF Readers, life
  <2>3. Reads(reader'[a], delivered[a], snapshot)
    BY <1>2, <1>5, <1>10, Zenon DEF Reads, Busy
  <2>4. Reading'
    BY <1>1, <1>5, <2>3, Zenon DEF Reading
  <2>5. Shaped(reader'[a].m.snapshot)
    BY <1>5, NoMsgFits, Zenon DEF Shapes
  <2>6. Shapes'
    BY <1>1, <1>2, <1>5, <2>5, Zenon DEF Shapes, life
  <2>. QED  BY <2>2, <2>4, <2>6, Zenon
<1>12. Found => Found'
  BY <1>1, <1>2, <1>5, FoundKept, Zenon
<1>13. ~Found' => ~Found /\ ~err
  BY <1>5, <1>12, Zenon DEF Found
<1>14. Saves' = Saves
  BY <1>1, Zenon DEF Saves, Saved, life
<1>15. \A j \in Servers : Last(j)' = Last(j) /\ Last(j) \in Instances /\ Last(j)[1] = j
  BY <1>1, LastIs, Zenon DEF Last, life
<1>16. ~late' => a = Last(i)
  BY <1>1, <1>2, LastOrLate, Zenon DEF i
<1>17. \A j \in Servers : Saves[j].index \in Indices /\ Shaped(Saves[j])
  BY SavesFit, Zenon
<1>18. ASSUME ~Found, ~late'
       PROVE  /\ Progress(reader[a], delivered[a], logs[i], lastApplied[i], Saves[i])
              /\ Rooted(s, logs, Saves) /\ Agree(logs) /\ Saves[i].index <= s.index
  <2>1. ~late /\ a = Last(i)
    BY <1>1, <1>16, <1>18, Zenon
  <2>2. /\ Progress(reader[a], delivered[a], logs[i], lastApplied[i], Saves[i])
        /\ Rooted(s, logs, Saves)
    BY <1>1, <1>2, <1>18, <2>1, Zenon DEF Followed, s
  <2>3. Saves[i].index <= s.index
    BY <1>1, <2>2, Zenon DEF Progress, s
  <2>. QED  BY <1>18, <2>1, <2>2, <2>3, Zenon DEF Agreed
<1>19. GapsCaught'
  <2>1. SUFFICES ASSUME ~Found', NEW j \in Servers, NEW k \in 2..MaxIndex, logs'[j][k] # Missing
                 PROVE  logs'[j][k - 1] # Missing
    BY Zenon DEF GapsCaught
  <2>2. CASE j = i
    <3>1. logs'[j] = s.xlog
      BY <1>7, <1>13, <2>1, <2>2, Zenon
    <3>. QED  BY <1>3, <2>1, <3>1, Sets DEF Shaped
  <2>3. CASE j # i
    BY <1>7, <1>13, <2>1, <2>3, Zenon DEF GapsCaught
  <2>. QED  BY <2>2, <2>3, Zenon
<1>20. Agreed'
  <2>1. SUFFICES ASSUME ~Found', ~late' PROVE Agree(logs')
    BY <1>1, <1>2, Zenon DEF Agreed
  <2>2. Rooted(s, logs, Saves) /\ Agree(logs) /\ logs' = [logs EXCEPT ![i] = s.xlog]
    BY <1>1, <1>13, <1>18, <2>1, Zenon
  <2>3. logs \in [Servers -> Logs] /\ (\A j \in Servers : Saves[j].index \in Indices)
    BY <1>17, Zenon DEF RTypeOK
  <2>. QED  BY <1>2, <1>3, <2>2, <2>3, AgreeReplace, Zenon
<1>21. Followed'
  <2>1. SUFFICES ASSUME ~Found', snapshot', ~late', NEW j \in Servers
                 PROVE  /\ Progress(reader'[Last(j)], delivered[Last(j)], logs'[j], lastApplied'[j], Saves[j])
                        /\ Rooted(Saves[j], logs', Saves)
                        /\ reader'[Last(j)].at = "ingest" =>
                               Rooted(reader'[Last(j)].m.snapshot, logs', Saves)
    BY <1>1, <1>14, <1>15, Zenon DEF Followed
  <2>2. \A k \in Servers :
           /\ Progress(reader[Last(k)], delivered[Last(k)], logs[k], lastApplied[k], Saves[k])
           /\ Rooted(Saves[k], logs, Saves)
           /\ reader[Last(k)].at = "ingest" => Rooted(reader[Last(k)].m.snapshot, logs, Saves)
    BY <1>1, <1>13, <2>1, Zenon DEF Followed
  <2>3. /\ Rooted(s, logs, Saves) /\ Agree(logs) /\ logs' = [logs EXCEPT ![i] = s.xlog]
        /\ Saves[i].index <= s.index
    BY <1>1, <1>13, <1>18, <2>1, Zenon
  <2>4. logs \in [Servers -> Logs]
    BY Zenon DEF RTypeOK
  <2>5. ASSUME NEW t, Rooted(t, logs, Saves) PROVE Rooted(t, logs', Saves)
    BY <1>2, <1>3, <1>17, <2>3, <2>4, <2>5, RootReplaced, Zenon
  <2>6. CASE Last(j) # a
    <3>1. j # i /\ reader'[Last(j)] = reader[Last(j)]
      BY <1>5, <1>15, <1>16, <2>1, <2>6, Zenon
    <3>. QED  BY <1>7, <2>2, <2>5, <3>1, Zenon
  <2>7. CASE Last(j) = a
    <3>1. j = i /\ ~err
      BY <1>13, <1>15, <2>1, <2>7, Zenon DEF i
    <3>2. reader'[a].at = "idle" /\ delivered[a] = s.index /\ reader'[a].at # "ingest"
      BY <1>2, <1>5, <3>1, Zenon DEF err
    <3>3. Full(s.xlog, s.index)
      <4>1. \A k \in 1..s.index : k \in 1..MaxIndex /\ ~(k > s.index)
        BY <1>3, Sets
      <4>. QED  BY <1>3, <4>1, Zenon DEF Full, Shaped
    <3>4. Progress(reader'[a], delivered[a], s.xlog, s.index, Saves[i])
      BY <2>3, <3>2, <3>3, Zenon DEF Progress
    <3>. QED  BY <1>7, <2>2, <2>5, <2>7, <3>1, <3>2, <3>4, Zenon
  <2>. QED  BY <2>6, <2>7, Zenon
<1>22. EverHeld'
  BY <1>1, <1>2, Zenon DEF EverHeld
<1>23. HonestLogs' /\ NoFalseAlarm'
  <2>1. SUFFICES ASSUME faults = 0, ~late'
                 PROVE  /\ Truthful(logs') /\ InOrder(reader', lastApplied', starts)
                        /\ \A b \in Instances : Honest(reader'[b])
                        /\ ~Found'
    BY <1>1, <1>2, Zenon DEF HonestLogs, NoFalseAlarm, life
  <2>2. /\ Truthful(logs) /\ InOrder(reader, lastApplied, starts)
        /\ \A b \in Instances : Honest(reader[b])
        /\ ~Found /\ a = Last(i)
    BY <1>1, <1>2, <1>16, <2>1, Zenon DEF HonestLogs, NoFalseAlarm
  <2>3. ~err
    BY <1>1, <2>2, Zenon DEF Honest, err, n, s
  <2>4. ~Found'
    BY <1>1, <1>5, <2>2, <2>3, Zenon DEF Found
  <2>5. \A b \in Instances : Honest(reader'[b])
    BY <1>5, <1>10, <2>2, SMTT(30) DEF Honest
  <2>6. ASSUME NEW j \in Servers, reader'[Last(j)].at = "order"
        PROVE  reader'[Last(j)].m.index = lastApplied'[j] + 1
    <3>1. reader'[a].at # "order"
      BY <1>10, Zenon
    <3>2. Last(j) # a /\ j # i
      BY <2>2, <2>6, <3>1, Zenon
    <3>. QED  BY <1>5, <1>7, <1>15, <2>2, <2>6, <3>2, Zenon DEF InOrder, Last
  <2>7. PICK r \in Servers :
              /\ \A k \in 1..MaxIndex : k <= s.index => s.xlog[k] = logs[r][k]
              /\ \A k \in 1..MaxIndex : k > s.index => s.xlog[k] = Missing
    <3>1. Rooted(s, logs, Saves)
      BY <1>18, <2>1, <2>2, Zenon
    <3>2. \A j \in Servers : Saves[j].index \in Indices
      BY <1>17, Zenon
    <3>. QED  BY <1>3, <3>1, <3>2, RootedValues, SMTT(30)
  <2>8. ASSUME NEW k \in 1..MaxIndex PROVE s.xlog[k] \in {k, Missing}
    <3>1. k <= s.index \/ k > s.index
      BY <1>3, Sets
    <3>. QED  BY <2>2, <2>7, <3>1, Zenon DEF Truthful
  <2>9. Truthful(logs')
    BY <1>7, <2>2, <2>3, <2>8, Zenon DEF Truthful
  <2>. QED  BY <2>4, <2>5, <2>6, <2>9, Zenon DEF InOrder, Last
<1>. QED  BY <1>8, <1>9, <1>11, <1>19, <1>20, <1>21, <1>22, <1>23, Zenon

LEMMA DeliverSnapshotStep ==
    ASSUME RInv, NEW a \in Instances, NEW j \in Servers, NEW n \in 1..MaxIndex,
           DeliverSnapshot(a, j, n)
    PROVE  RInv'
<1>. USE DEF RInv
<1>. DEFINE i == a[1]
            s == Saves[j]
            msg == [NoMsg EXCEPT !.index = n, !.snapshot = s]
<1>0. Saved(j) = s /\ s \in Snapshots /\ Shaped(s) /\ s.index \in Indices
  BY SavesFit, Zenon
<1>1. /\ UNCHANGED <<snapshot, life, logs, lastApplied, failed, late, ever>>
      /\ snapshot /\ reader[a].at = "idle" /\ a \notin dead
      /\ s.index > delivered[a]
      /\ faults' = (IF n = s.index THEN faults ELSE faults + 1)
      /\ faults' <= MaxFaults
      /\ delivered' = [delivered EXCEPT ![a] = n]
      /\ disk' = [disk EXCEPT ![a] = s]
      /\ reader' = [reader EXCEPT ![a].at = "ingest", ![a].m = msg]
  BY <1>0, Zenon DEF DeliverSnapshot
<1>2. i \in Servers /\ ~reader[a].err /\ n \in Indices /\ n # 0 /\ n \in Nat
  BY <1>1, Pairs, Sets DEF Reading, Reads
<1>3. msg.index = n /\ msg.snapshot = s /\ msg \in Msgs
  BY <1>0, <1>2, NoMsgFits, Zenon DEF NoMsg, Msgs
<1>. HIDE DEF msg, s, i
<1>4. /\ reader'[a].at = "ingest" /\ reader'[a].m = msg
      /\ reader'[a].err = reader[a].err /\ reader'[a].rf = reader[a].rf
      /\ reader'[a] \in Recs
      /\ \A b \in Instances \ {a} : reader'[b] = reader[b]
  BY <1>1, <1>3, ZenonT(40) DEF RTypeOK, Recs, Points
<1>5. /\ reader' \in [Instances -> Recs] /\ delivered' \in [Instances -> Indices]
      /\ disk' \in [Instances -> Snapshots]
  BY <1>0, <1>1, <1>2, <1>4, Zenon DEF RTypeOK, Recs
<1>6. /\ delivered'[a] = n /\ \A b \in Instances \ {a} : delivered'[b] = delivered[b]
      /\ disk'[a] = s /\ \A b \in Instances \ {a} : disk'[b] = disk[b]
  BY <1>1, Zenon DEF RTypeOK
<1>7. faults \in Nat /\ faults' \in 0..MaxFaults /\ (faults' = 0 => faults = 0 /\ n = s.index)
  <2>1. faults \in 0..MaxFaults
    BY Zenon DEF RTypeOK
  <2>2. faults' = (IF n = s.index THEN faults ELSE faults + 1) /\ faults' <= MaxFaults
    BY <1>1, Zenon
  <2>. QED  BY <2>1, <2>2, BoundsAssumption
<1>8. RTypeOK'
  BY <1>1, <1>5, <1>7, Zenon DEF RTypeOK, life, Recs
<1>9. Life'
  BY <1>1, Zenon DEF Life, life, Superseded, Last
<1>10. /\ reader[a].at # "none" /\ reader[a].at # "check"
       /\ reader'[a].at \in Busy /\ reader'[a].at \notin Busy \ {"ingest"}
       /\ reader'[a].at \notin {"idle", "none", "end", "order", "check", "set", "snap", "new", "returned"}
  BY <1>1, <1>4, Zenon DEF Busy
<1>11. Readers' /\ Reading' /\ Shapes'
  <2>1. reader'[a].rf = a[2]
    BY <1>1, <1>4, Zenon DEF Readers
  <2>2. Readers'
    BY <1>1, <1>4, <1>10, <2>1, ZenonT(40) DEF Readers, life
  <2>3. Reads(reader'[a], n, snapshot)
    BY <1>1, <1>2, <1>3, <1>4, <1>10, Zenon DEF Reads
  <2>4. Reading'
    BY <1>1, <1>4, <1>6, <2>3, ZenonT(40) DEF Reading
  <2>5. Shaped(reader'[a].m.snapshot)
    BY <1>0, <1>3, <1>4, Zenon
  <2>6. Shapes'
    BY <1>0, <1>1, <1>4, <1>6, <2>5, Zenon DEF Shapes, life
  <2>. QED  BY <2>2, <2>4, <2>6, Zenon
<1>12. Found' <=> Found
  BY <1>1, <1>4, Zenon DEF Found
<1>13. GapsCaught' /\ Agreed' /\ EverHeld' /\ NoFalseAlarm'
  BY <1>1, <1>7, <1>12, LogsSame, EverSame, Zenon DEF NoFalseAlarm
<1>14. \A k \in Servers : Last(k)' = Last(k) /\ Last(k) \in Instances /\ Last(k)[1] = k
  BY <1>1, LastIs, Zenon DEF Last, life
<1>15. a = Last(i)
  BY <1>1, <1>10, AliveIsLast, Zenon DEF i
<1>16. /\ \A k \in Servers : k # i => Saves'[k] = Saves[k]
       /\ Saves'[i] \in {Saves[i], s}
  <2>1. \A k \in Servers : Saves[k] = Saved(k) /\ Saves'[k] = Saved(k)'
    BY Zenon DEF Saves
  <2>2. saved' = saved
    BY <1>1, Zenon DEF life
  <2>3. ASSUME NEW k \in Servers, k # i PROVE Saves'[k] = Saves[k]
    <3>1. saved[k].own # 0 => <<k, saved[k].own>> = Last(k)
      BY Zenon DEF Last, Life
    <3>2. disk'[Last(k)] = disk[Last(k)]
      BY <1>6, <1>14, <2>3, Zenon DEF i
    <3>. QED  BY <2>1, <2>2, <3>1, <3>2, Zenon DEF Saved
  <2>4. Saves'[i] \in {Saves[i], s}
    <3>1. CASE saved[i].own = 0
      BY <1>2, <2>1, <2>2, <3>1, Zenon DEF Saved
    <3>2. CASE saved[i].own # 0
      <4>1. <<i, saved[i].own>> = a
        BY <1>2, <1>15, <3>2, Zenon DEF Last, Life
      <4>. QED  BY <1>2, <1>6, <2>1, <2>2, <3>2, <4>1, Zenon DEF Saved
    <3>. QED  BY <3>1, <3>2, Zenon
  <2>. QED  BY <2>3, <2>4, Zenon
<1>17. Followed'
  <2>1. SUFFICES ASSUME ~Found', snapshot', ~late', NEW k \in Servers
                 PROVE  /\ Progress(reader'[Last(k)], delivered'[Last(k)], logs[k], lastApplied[k], Saves'[k])
                        /\ Rooted(Saves'[k], logs, Saves')
                        /\ reader'[Last(k)].at = "ingest" =>
                               Rooted(reader'[Last(k)].m.snapshot, logs, Saves')
    BY <1>1, <1>14, Zenon DEF Followed
  <2>2. \A p \in Servers :
           /\ Progress(reader[Last(p)], delivered[Last(p)], logs[p], lastApplied[p], Saves[p])
           /\ Rooted(Saves[p], logs, Saves)
           /\ reader[Last(p)].at = "ingest" => Rooted(reader[Last(p)].m.snapshot, logs, Saves)
    BY <1>1, <1>12, <2>1, Zenon DEF Followed
  <2>3. /\ \A p \in Servers : Saves[p].index \in Indices /\ Shaped(Saves[p])
        /\ \A b \in Instances : reader[b].m.snapshot.index \in Indices
    BY SavesFit, ReaderTypes, Zenon
  <2>4. Agree(logs) /\ Rooted(s, logs, Saves)
    BY <1>1, <1>12, <2>1, <2>2, Zenon DEF Agreed, s
  <2>5. Saves[i].index < s.index /\ Full(logs[i], lastApplied[i])
    <3>1. delivered[a] = lastApplied[i] /\ Saves[i].index <= lastApplied[i] /\ Full(logs[i], lastApplied[i])
      BY <1>1, <1>2, <1>15, <2>2, Zenon DEF Progress
    <3>2. delivered[a] \in Nat /\ s.index \in Nat /\ Saves[i].index \in Nat
      BY <1>0, <1>2, <2>3, ReaderTypes, Sets, ZenonT(40)
    <3>. QED  BY <1>1, <3>1, <3>2
  <2>6. ASSUME NEW t, t.index \in Indices, Rooted(t, logs, Saves) PROVE Rooted(t, logs, Saves')
    <3>1. CASE Saves'[i] = Saves[i]
      <4>1. \A p \in Servers : Saves'[p] = Saves[p]
        BY <1>16, <3>1, Zenon
      <4>. QED  BY <2>6, <4>1 DEF Rooted
    <3>2. CASE Saves'[i] = s
      <4>1. \A p \in Servers : Saves'[p] = IF p = i THEN s ELSE Saves[p]
        BY <1>16, <3>2, Zenon
      <4>2. \A p \in Servers : Saves[p].index \in Indices /\ Shaped(Saves[p])
        BY <2>3, Zenon
      <4>. QED  BY <1>0, <1>2, <2>4, <2>5, <2>6, <4>1, <4>2, RootCopied, SMTT(30)
    <3>. QED  BY <1>16, <3>1, <3>2, Zenon
  <2>7. Rooted(Saves'[k], logs, Saves')
    <3>1. Saves'[k] \in {Saves[k], s}
      BY <1>16, Zenon
    <3>. QED  BY <1>0, <2>2, <2>3, <2>4, <2>6, <3>1, Zenon
  <2>8. CASE Last(k) = a
    <3>1. k = i
      BY <1>14, <2>8, Zenon DEF i
    <3>2. Saves'[i].index <= s.index
      <4>1. Saves[i].index \in Nat /\ s.index \in Nat
        BY <1>0, <1>2, <2>3, Sets, Zenon
      <4>2. Saves[i].index <= s.index /\ s.index <= s.index
        BY <2>5, <4>1
      <4>. QED  BY <1>16, <4>2, Zenon
    <3>3. Progress(reader'[a], delivered'[a], logs[i], lastApplied[i], Saves'[i])
      BY <1>3, <1>4, <2>5, <3>2, Zenon DEF Progress
    <3>. QED  BY <1>0, <1>3, <1>4, <2>4, <2>6, <2>7, <2>8, <3>1, <3>3, Zenon
  <2>9. CASE Last(k) # a
    <3>1. k # i /\ reader'[Last(k)] = reader[Last(k)] /\ delivered'[Last(k)] = delivered[Last(k)]
      BY <1>4, <1>6, <1>14, <1>15, <2>9, Zenon
    <3>. QED  BY <1>14, <1>16, <2>2, <2>3, <2>6, <2>7, <3>1, Zenon
  <2>. QED  BY <2>8, <2>9, Zenon
<1>18. HonestLogs'
  <2>1. SUFFICES ASSUME faults' = 0, ~late
                 PROVE  /\ Truthful(logs) /\ InOrder(reader', lastApplied, starts)
                        /\ \A b \in Instances : Honest(reader'[b])
    BY <1>1, Zenon DEF HonestLogs, life
  <2>2. /\ Truthful(logs) /\ InOrder(reader, lastApplied, starts) /\ n = s.index
        /\ \A b \in Instances : Honest(reader[b])
    BY <1>7, <2>1, Zenon DEF HonestLogs
  <2>3. \A b \in Instances : Honest(reader'[b])
    BY <1>3, <1>4, <1>10, <2>2 DEF Honest
  <2>4. InOrder(reader', lastApplied, starts)
    BY <1>4, <1>10, <1>14, <2>2, Zenon DEF InOrder, Last
  <2>. QED  BY <2>2, <2>3, <2>4, Zenon
<1>. QED  BY <1>8, <1>9, <1>11, <1>13, <1>17, <1>18, Zenon

LEMMA RestartStep ==
    ASSUME RInv, NEW i \in Servers, Restart(i)
    PROVE  RInv'
<1>. USE DEF RInv
<1>. DEFINE a == <<i, starts[i] + 1>>
            s == Saves[i]
<1>0. /\ Saved(i) = s /\ s \in Snapshots /\ Shaped(s) /\ s.index \in Indices /\ s.xlog \in Logs
      /\ ~snapshot => s.index = 0
  BY SavesFit, Zenon
<1>1. /\ UNCHANGED <<snapshot, faults, dead, failed, late, ever>>
      /\ tester = <<"restart", i>> /\ tester' = <<>>
      /\ starts' = [starts EXCEPT ![i] = @ + 1]
      /\ logs' = (IF s.index = 0 THEN logs ELSE [logs EXCEPT ![i] = s.xlog])
      /\ lastApplied' = [lastApplied EXCEPT ![i] = s.index]
      /\ saved' = [saved EXCEPT ![i] = [own |-> starts[i] + 1, copy |-> NoSnapshot]]
      /\ disk' = [disk EXCEPT ![a] = s]
      /\ delivered' = [delivered EXCEPT ![a] = s.index]
      /\ rafts' = [rafts EXCEPT ![i] = starts[i] + 1]
      /\ reader' = [reader EXCEPT ![a] = NewReader("new")]
  BY <1>0, Zenon DEF Restart, Ingested
<1>2. rafts[i] = 0 /\ starts[i] < MaxStarts /\ Last(i) \in dead
  BY <1>1, Zenon DEF Life
<1>3. starts[i] \in 1..MaxStarts /\ starts[i] + 1 \in 1..MaxStarts /\ starts[i] + 1 \in Nat
  BY <1>2, Sets DEF RTypeOK
<1>4. a \in Instances /\ a[1] = i /\ a[2] = starts[i] + 1
  BY <1>3, Zenon DEF Instances
<1>5. NoMsg \in Msgs /\ NoSnapshot \in Snapshots /\ Shaped(NoSnapshot) /\ NoSnapshot.index = 0 /\ NoMsg.snapshot = NoSnapshot
  BY NoMsgFits, Zenon DEF NoSnapshot
<1>. HIDE DEF s, a
<1>6. /\ reader'[a].at = "new" /\ reader'[a].rf = 0 /\ reader'[a].m = NoMsg /\ reader'[a].err = FALSE
      /\ reader'[a] \in Recs
      /\ \A b \in Instances \ {a} : reader'[b] = reader[b]
  <2>1. reader'[a] = NewReader("new") /\ \A b \in Instances \ {a} : reader'[b] = reader[b]
    BY <1>1, <1>4, Zenon DEF RTypeOK
  <2>. QED  BY <1>5, <2>1, Sets DEF NewReader, Recs, Points
<1>7. /\ starts'[i] = starts[i] + 1 /\ rafts'[i] = starts[i] + 1
      /\ saved'[i] = [own |-> starts[i] + 1, copy |-> NoSnapshot]
      /\ lastApplied'[i] = s.index /\ logs'[i] = (IF s.index = 0 THEN logs[i] ELSE s.xlog)
      /\ \A j \in Servers : j # i => /\ starts'[j] = starts[j] /\ rafts'[j] = rafts[j]
                                     /\ saved'[j] = saved[j] /\ lastApplied'[j] = lastApplied[j]
                                     /\ logs'[j] = logs[j]
  <2>1. logs'[i] = (IF s.index = 0 THEN logs[i] ELSE s.xlog) /\ \A j \in Servers : j # i => logs'[j] = logs[j]
    BY <1>1, Zenon DEF RTypeOK
  <2>. QED  BY <1>1, <2>1, Zenon DEF RTypeOK
<1>8. /\ delivered'[a] = s.index /\ disk'[a] = s
      /\ \A b \in Instances \ {a} : delivered'[b] = delivered[b] /\ disk'[b] = disk[b]
  BY <1>1, <1>4, Zenon DEF RTypeOK
<1>9. /\ reader' \in [Instances -> Recs] /\ delivered' \in [Instances -> Indices]
      /\ disk' \in [Instances -> Snapshots]
  BY <1>0, <1>1, <1>4, <1>6, Zenon DEF RTypeOK, Recs
<1>10. /\ starts' \in [Servers -> 1..MaxStarts] /\ rafts' \in [Servers -> 0..MaxStarts]
       /\ lastApplied' \in [Servers -> Indices]
  <2>1. starts[i] + 1 \in 0..MaxStarts
    BY <1>3
  <2>. QED  BY <1>0, <1>1, <1>3, <2>1, Zenon DEF RTypeOK
<1>11. /\ logs' \in [Servers -> Logs]
       /\ saved' \in [Servers -> [own : 0..MaxStarts, copy : Snapshots]]
  <2>1. starts[i] + 1 \in 0..MaxStarts
    BY <1>3
  <2>2. [own |-> starts[i] + 1, copy |-> NoSnapshot] \in [own : 0..MaxStarts, copy : Snapshots]
    BY <1>5, <2>1, Zenon
  <2>3. logs' \in [Servers -> Logs]
    BY <1>0, <1>1, Zenon DEF RTypeOK
  <2>. QED  BY <1>1, <2>2, <2>3, Zenon DEF RTypeOK
<1>12. RTypeOK'
  BY <1>1, <1>9, <1>10, <1>11, Zenon DEF RTypeOK, Recs
<1>13. Last(i)' = a /\ \A j \in Servers : j # i => Last(j)' = Last(j)
  BY <1>7, Zenon DEF Last, a
<1>14. \A j \in Servers : Last(j) \in Instances /\ Last(j)[1] = j /\ Last(j) # a
  <2>1. starts[i] # starts[i] + 1
    BY <1>3
  <2>2. ASSUME NEW j \in Servers, Last(j) = a PROVE FALSE
    <3>1. j = i /\ starts[j] = starts[i] + 1
      BY <1>4, <2>2, LastIs, Zenon
    <3>. QED  BY <2>1, <3>1, Zenon
  <2>. QED  BY <2>2, LastIs, Zenon
<1>15. Life'
  <2>1. ASSUME NEW b \in Instances, Superseded(b)' PROVE b \in dead
    <3>1. CASE Superseded(b)
      BY <3>1, Zenon DEF Life
    <3>2. CASE ~Superseded(b)
      <4>1. b[1] = i /\ b[2] = starts[i]
        <5>1. b[1] = i
          BY <1>7, <2>1, <3>2, Pairs, Zenon DEF Superseded
        <5>2. b[2] < starts[i] + 1 /\ ~(b[2] < starts[i]) /\ b[2] \in Nat /\ starts[i] \in Nat
          BY <1>3, <1>7, <2>1, <3>2, <5>1, Pairs, Sets, Zenon DEF Superseded
        <5>. QED  BY <5>1, <5>2
      <4>. QED  BY <1>2, <4>1, Pairs, Zenon DEF Last
    <3>. QED  BY <3>1, <3>2, Zenon
  <2>2. \A j \in Servers : tester' \notin {<<"kill", j>>, <<"killed", j>>} /\ tester' # <<"restart", j>>
    BY <1>1, Zenon
  <2>3. ASSUME NEW j \in Servers
        PROVE  /\ rafts'[j] \in {0, starts'[j]} /\ saved'[j].own \in {0, starts'[j]}
               /\ rafts'[j] = 0 => Last(j)' \in dead'
    <3>1. CASE j = i
      BY <1>3, <1>7, <3>1
    <3>2. CASE j # i
      BY <1>1, <1>7, <1>13, <3>2, Zenon DEF Life
    <3>. QED  BY <3>1, <3>2, Zenon
  <2>. QED  BY <1>1, <2>1, <2>2, <2>3, Zenon DEF Life
<1>16. Readers'
  <2>1. SUFFICES ASSUME NEW b \in Instances
                 PROVE  /\ reader'[b].at \in Busy => reader'[b].rf = b[2]
                        /\ reader'[b].at = "idle" /\ b \notin dead => reader'[b].rf = b[2]
                        /\ reader'[b].at = "none" <=> b[2] > starts'[b[1]]
    BY <1>1, Zenon DEF Readers
  <2>2. CASE b = a
    <3>1. ~(b[2] > starts'[b[1]])
      BY <1>3, <1>4, <1>7, <2>2, SMTT(30)
    <3>2. reader'[b].at \notin Busy \cup {"idle", "none"}
      BY <1>6, <2>2, Zenon DEF Busy
    <3>. QED  BY <3>1, <3>2, Zenon
  <2>3. CASE b # a
    <3>1. b[2] > starts'[b[1]] <=> b[2] > starts[b[1]]
      <4>1. CASE b[1] # i
        BY <1>7, <4>1, Pairs, Zenon
      <4>2. CASE b[1] = i
        <5>1. b[2] # starts[i] + 1
          BY <2>3, <4>2, Pairs, Zenon DEF a
        <5>2. b[2] \in Nat /\ starts[i] \in Nat
          BY <1>3, Pairs, Sets, Zenon
        <5>. QED  BY <1>7, <4>2, <5>1, <5>2, SMTT(30)
      <4>. QED  BY <4>1, <4>2, Zenon
    <3>. QED  BY <1>6, <2>3, <3>1, Zenon DEF Readers
  <2>. QED  BY <2>2, <2>3, Zenon
<1>17. Reading' /\ Shapes'
  <2>1. Reads(reader'[a], delivered'[a], snapshot)
    BY <1>6, Zenon DEF Reads, Busy
  <2>2. Reading'
    BY <1>1, <1>6, <1>8, <2>1, Zenon DEF Reading
  <2>3. \A j \in Servers : Shaped(saved'[j].copy) /\ (~snapshot => saved'[j].copy.index = 0)
    BY <1>5, <1>7, SMTT(30) DEF Shapes
  <2>4. Shapes'
    BY <1>0, <1>1, <1>5, <1>6, <1>8, <2>3, Zenon DEF Shapes
  <2>. QED  BY <2>2, <2>4, Zenon
<1>18. Found' <=> Found
  <2>1. ~reader[a].err
    <3>1. a[2] > starts[a[1]]
      BY <1>3, <1>4
    <3>2. reader[a].at = "none"
      BY <1>4, <3>1, Zenon DEF Readers
    <3>. QED  BY <1>4, <3>2, Zenon DEF Reading, Reads
  <2>. QED  BY <1>1, <1>4, <1>6, <2>1, Zenon DEF Found
<1>19. Saves' = Saves
  <2>1. ASSUME NEW j \in Servers PROVE Saved(j)' = Saved(j)
    <3>1. CASE j = i
      <4>1. saved'[i].own = starts[i] + 1 /\ starts[i] + 1 # 0
        BY <1>3, <1>7
      <4>. QED  BY <1>0, <1>8, <3>1, <4>1, Zenon DEF Saved, a
    <3>2. CASE j # i
      <4>1. saved[j].own # 0 => <<j, saved[j].own>> = Last(j)
        BY Zenon DEF Last, Life
      <4>2. disk'[Last(j)] = disk[Last(j)]
        BY <1>8, <1>14, Zenon
      <4>. QED  BY <1>7, <3>2, <4>1, <4>2, Zenon DEF Saved
    <3>. QED  BY <3>1, <3>2, Zenon
  <2>. QED  BY <2>1, Zenon DEF Saves
<1>20. \A j \in Servers : Saves[j].index \in Indices /\ Shaped(Saves[j])
  BY SavesFit, Zenon
<1>21. GapsCaught'
  <2>1. SUFFICES ASSUME ~Found', NEW j \in Servers, NEW k \in 2..MaxIndex, logs'[j][k] # Missing
                 PROVE  logs'[j][k - 1] # Missing
    BY Zenon DEF GapsCaught
  <2>2. CASE logs'[j] = s.xlog
    BY <1>0, <2>1, <2>2, Sets DEF Shaped
  <2>3. CASE logs'[j] = logs[j]
    BY <1>18, <2>1, <2>3, Zenon DEF GapsCaught
  <2>. QED  BY <1>7, <2>2, <2>3, Zenon
<1>22. ASSUME ~Found, snapshot, ~late, s.index # 0
       PROVE  /\ Rooted(s, logs, Saves) /\ Agree(logs) /\ logs' = [logs EXCEPT ![i] = s.xlog]
              /\ logs \in [Servers -> Logs] /\ Saves[i].index <= s.index
  <2>1. Saves[i].index <= s.index
    BY <1>0, Sets DEF s
  <2>. QED  BY <1>1, <1>22, <2>1, Zenon DEF Followed, Agreed, RTypeOK, s
<1>23. Agreed'
  <2>1. SUFFICES ASSUME ~Found', ~(snapshot /\ late) PROVE Agree(logs')
    BY <1>1, Zenon DEF Agreed
  <2>2. CASE s.index = 0
    BY <1>1, <1>18, <2>1, <2>2, Zenon DEF Agreed
  <2>3. CASE s.index # 0
    <3>1. ~Found /\ snapshot /\ ~late
      BY <1>0, <1>18, <2>1, <2>3, Zenon
    <3>2. \A j \in Servers : Saves[j].index \in Indices
      BY <1>20, Zenon
    <3>. QED  BY <1>0, <1>22, <2>3, <3>1, <3>2, AgreeReplace, SMTT(30)
  <2>. QED  BY <2>2, <2>3, Zenon
<1>24. Followed'
  <2>1. SUFFICES ASSUME ~Found', snapshot, ~late, NEW j \in Servers
                 PROVE  /\ Progress(reader'[Last(j)'], delivered'[Last(j)'], logs'[j], lastApplied'[j], Saves[j])
                        /\ Rooted(Saves[j], logs', Saves)
                        /\ reader'[Last(j)'].at = "ingest" =>
                               Rooted(reader'[Last(j)'].m.snapshot, logs', Saves)
    BY <1>1, <1>19, Zenon DEF Followed
  <2>2. \A k \in Servers :
           /\ Progress(reader[Last(k)], delivered[Last(k)], logs[k], lastApplied[k], Saves[k])
           /\ Rooted(Saves[k], logs, Saves)
           /\ reader[Last(k)].at = "ingest" => Rooted(reader[Last(k)].m.snapshot, logs, Saves)
    BY <1>18, <2>1, Zenon DEF Followed
  <2>3. ASSUME NEW t, Rooted(t, logs, Saves) PROVE Rooted(t, logs', Saves)
    <3>1. CASE s.index = 0
      BY <1>1, <2>3, <3>1, Zenon
    <3>2. CASE s.index # 0
      BY <1>0, <1>18, <1>20, <1>22, <2>1, <2>3, <3>2, RootReplaced, SMTT(30)
    <3>. QED  BY <3>1, <3>2, Zenon
  <2>4. CASE j # i
    <3>1. /\ Last(j)' = Last(j) /\ reader'[Last(j)] = reader[Last(j)]
          /\ delivered'[Last(j)] = delivered[Last(j)]
      BY <1>6, <1>8, <1>13, <1>14, <2>4, Zenon
    <3>. QED  BY <1>7, <2>2, <2>3, <2>4, <3>1, ZenonT(40)
  <2>5. CASE j = i
    <3>1. Full(logs'[i], s.index)
      <4>1. CASE s.index = 0
        BY <4>1 DEF Full
      <4>2. CASE s.index # 0
        <5>1. \A k \in 1..s.index : k \in 1..MaxIndex /\ ~(k > s.index)
          BY <1>0, Sets
        <5>. QED  BY <1>0, <1>7, <4>2, <5>1, Zenon DEF Full, Shaped
      <4>. QED  BY <4>1, <4>2, Zenon
    <3>2. s.index <= s.index
      BY <1>0, Sets
    <3>3. Progress(reader'[a], delivered'[a], logs'[i], lastApplied'[i], s)
      BY <1>6, <1>7, <1>8, <3>1, <3>2, Zenon DEF Progress
    <3>4. reader'[a].at # "ingest"
      BY <1>6, Zenon
    <3>. QED  BY <1>13, <2>2, <2>3, <2>5, <3>3, <3>4, Zenon DEF s
  <2>. QED  BY <2>4, <2>5, Zenon
<1>25. EverHeld'
  <2>1. CASE snapshot
    BY <1>1, <2>1, Zenon DEF EverHeld
  <2>2. CASE ~snapshot
    BY <1>0, <1>1, <1>18, <2>2, EverSame, Zenon
  <2>. QED  BY <2>1, <2>2, Zenon
<1>26. HonestLogs' /\ NoFalseAlarm'
  <2>1. NoFalseAlarm'
    BY <1>1, <1>18, Zenon DEF NoFalseAlarm
  <2>2. SUFFICES ASSUME faults = 0, ~(snapshot /\ late)
                 PROVE  /\ Truthful(logs') /\ InOrder(reader', lastApplied', starts')
                        /\ \A b \in Instances : Honest(reader'[b])
                        /\ ~snapshot => Entered(logs', reader', delivered')
    BY <1>1, <2>1, Zenon DEF HonestLogs
  <2>3. /\ Truthful(logs) /\ InOrder(reader, lastApplied, starts)
        /\ \A b \in Instances : Honest(reader[b])
        /\ ~snapshot => Entered(logs, reader, delivered)
        /\ ~Found
    BY <2>2, Zenon DEF HonestLogs, NoFalseAlarm
  <2>4. \A b \in Instances : Honest(reader'[b])
    BY <1>6, <2>3, Zenon DEF Honest
  <2>5. ASSUME NEW j \in Servers, reader'[Last(j)'].at = "order"
        PROVE  reader'[Last(j)'].m.index = lastApplied'[j] + 1
    <3>1. reader'[a].at # "order"
      BY <1>6, Zenon
    <3>2. j # i /\ Last(j)' = Last(j) /\ reader'[Last(j)] = reader[Last(j)]
      BY <1>6, <1>13, <1>14, <2>5, <3>1, Zenon
    <3>3. reader[Last(j)].at = "order"
      BY <2>5, <3>2, Zenon
    <3>4. reader[Last(j)].m.index = lastApplied[j] + 1
      BY <2>3, <3>3, Zenon DEF InOrder, Last
    <3>. QED  BY <1>7, <3>2, <3>4, Zenon
  <2>6. ASSUME ~snapshot PROVE Entered(logs', reader', delivered')
    <3>1. logs' = logs /\ s.index = 0
      BY <1>0, <1>1, <2>6, Zenon
    <3>2. ASSUME NEW b \in Instances, NEW k \in 1..delivered'[b]
          PROVE  logs[b[1]][k] # Missing \/ (reader'[b].at = "check" /\ k = delivered'[b])
      <4>1. CASE b = a
        BY <1>8, <3>1, <3>2, <4>1
      <4>2. CASE b # a
        BY <1>6, <1>8, <2>3, <2>6, <3>2, <4>2, Zenon DEF Entered
      <4>. QED  BY <4>1, <4>2, Zenon
    <3>. QED  BY <3>1, <3>2, Zenon DEF Entered
  <2>7. Truthful(logs')
    <3>1. CASE s.index = 0
      BY <1>1, <2>3, <3>1, Zenon
    <3>2. CASE s.index # 0
      <4>1. Rooted(s, logs, Saves)
        BY <1>0, <1>22, <2>2, <2>3, <3>2, Zenon
      <4>2. \A j \in Servers : Saves[j].index \in Indices
        BY <1>20, Zenon
      <4>3. PICK r \in Servers :
                  /\ \A k \in 1..MaxIndex : k <= s.index => s.xlog[k] = logs[r][k]
                  /\ \A k \in 1..MaxIndex : k > s.index => s.xlog[k] = Missing
        BY <1>0, <4>1, <4>2, RootedValues, SMTT(30)
      <4>4. ASSUME NEW k \in 1..MaxIndex PROVE s.xlog[k] \in {k, Missing}
        <5>1. k <= s.index \/ k > s.index
          BY <1>0, Sets
        <5>. QED  BY <2>3, <4>3, <5>1, Zenon DEF Truthful
      <4>. QED  BY <1>7, <2>3, <3>2, <4>4, Zenon DEF Truthful
    <3>. QED  BY <3>1, <3>2, Zenon
  <2>. QED  BY <2>4, <2>5, <2>6, <2>7, Zenon DEF InOrder, Last
<1>. QED  BY <1>12, <1>15, <1>16, <1>17, <1>21, <1>23, <1>24, <1>25, <1>26, Zenon
-----------------------------------------------------------------------------
LEMMA RInvInit == RInit => RInv
<1>. SUFFICES ASSUME RInit PROVE RInv
  OBVIOUS
<1>1. /\ snapshot \in BOOLEAN /\ faults = 0 /\ failed = FALSE /\ late = FALSE /\ ever = {} /\ dead = {}
      /\ \A i \in Servers : /\ logs[i] = EmptyLog /\ lastApplied[i] = 0 /\ starts[i] = 1 /\ rafts[i] = 1
                            /\ saved[i] = [own |-> 1, copy |-> NoSnapshot]
      /\ \A a \in Instances : /\ disk[a] = NoSnapshot /\ delivered[a] = 0
                              /\ reader[a] = NewReader(IF a[2] = 1 THEN "new" ELSE "none")
      /\ tester = <<>>
  BY DEF RInit
<1>2. /\ NoMsg \in Msgs /\ NoSnapshot \in Snapshots /\ Shaped(NoSnapshot) /\ NoSnapshot.index = 0
      /\ NoMsg.snapshot = NoSnapshot /\ EmptyLog \in Logs
      /\ 0 \in Indices /\ \A n \in 1..MaxIndex : EmptyLog[n] = Missing
  <2>1. EmptyLog \in Logs
    BY Zenon DEF EmptyLog, Logs
  <2>2. 0 \in Indices /\ \A n \in 1..MaxIndex : EmptyLog[n] = Missing
    BY Sets DEF EmptyLog, Indices
  <2>. QED  BY <2>1, <2>2, NoMsgFits, Zenon DEF NoSnapshot
<1>3. \A a \in Instances : /\ reader[a].at = (IF a[2] = 1 THEN "new" ELSE "none") /\ reader[a].rf = 0
                           /\ reader[a].m = NoMsg /\ reader[a].err = FALSE /\ reader[a] \in Recs
  <2>1. ASSUME NEW p \in {"new", "none"}
        PROVE  /\ NewReader(p).at = p /\ NewReader(p).rf = 0 /\ NewReader(p).m = NoMsg
               /\ NewReader(p).err = FALSE /\ NewReader(p) \in Recs
    BY <1>2, Sets DEF NewReader, Recs, Points
  <2>. QED  BY <1>1, <2>1, Zenon
<1>4. 1 \in 1..MaxStarts /\ 1 \in 0..MaxStarts
  BY BoundsAssumption
<1>5. RTypeOK
  <2>1. reader \in [Instances -> Recs]
    BY <1>3, Zenon DEF RInit, Recs
  <2>2. saved \in [Servers -> [own : 0..MaxStarts, copy : Snapshots]]
    BY <1>2, <1>4, Zenon DEF RInit
  <2>3. faults \in 0..MaxFaults
    BY <1>1, BoundsAssumption
  <2>4. /\ logs \in [Servers -> Logs] /\ lastApplied \in [Servers -> Indices]
        /\ rafts \in [Servers -> 0..MaxStarts] /\ starts \in [Servers -> 1..MaxStarts]
        /\ disk \in [Instances -> Snapshots] /\ delivered \in [Instances -> Indices]
    BY <1>2, <1>4, Zenon DEF RInit
  <2>5. dead \subseteq Instances /\ ever \subseteq (Indices \X Indices) /\ failed \in BOOLEAN /\ late \in BOOLEAN
    BY <1>1, ZenonT(40)
  <2>. QED  BY <1>1, <2>1, <2>2, <2>3, <2>4, <2>5, Zenon DEF RTypeOK, Recs
<1>6. \A a \in Instances : a[1] \in Servers /\ a[2] \in Nat /\ a[2] >= 1 /\ starts[a[1]] = 1
  BY <1>1, Pairs, Sets
<1>7. Life
  <2>1. \A a \in Instances : ~Superseded(a)
    BY <1>6 DEF Superseded
  <2>2. \A i \in Servers : /\ rafts[i] \in {0, starts[i]} /\ saved[i].own \in {0, starts[i]} /\ rafts[i] # 0
    BY <1>1
  <2>3. \A i \in Servers : tester \notin {<<"kill", i>>, <<"killed", i>>} /\ tester # <<"restart", i>>
    BY <1>1, Zenon
  <2>. QED  BY <2>1, <2>2, <2>3, Zenon DEF Life
<1>8. \A a \in Instances : /\ reader[a].at \notin Busy \cup {"idle", "end", "returned"}
                           /\ reader[a].at = "none" <=> a[2] > starts[a[1]]
  BY <1>3, <1>6 DEF Busy
<1>9. Readers
  BY <1>8, Zenon DEF Readers
<1>10. Reading
  BY <1>3, <1>8, Zenon DEF Reading, Reads
<1>11. Shapes
  BY <1>1, <1>2, <1>3, SMTT(30) DEF Shapes
<1>12. ~Found
  BY <1>1, <1>3, Zenon DEF Found
<1>13. GapsCaught
  <2>1. \A n \in 2..MaxIndex : n \in 1..MaxIndex
    BY Sets
  <2>. QED  BY <1>1, <1>2, <2>1, ZenonT(40) DEF GapsCaught
<1>14. Agreed
  BY <1>1, <1>2, ZenonT(40) DEF Agreed, Agree
<1>15. Followed
  <2>1. SUFFICES ASSUME NEW i \in Servers
                 PROVE  /\ Progress(reader[Last(i)], delivered[Last(i)], logs[i], lastApplied[i], Saves[i])
                        /\ Rooted(Saves[i], logs, Saves) /\ reader[Last(i)].at # "ingest"
    BY Zenon DEF Followed
  <2>2. \A j \in Servers : Saves[j].index = 0
    <3>1. \A j \in Servers : Saves[j] = Saved(j) /\ saved[j].own = 1
      BY <1>1, SMTT(30) DEF Saves
    <3>2. \A j \in Servers : <<j, 1>> \in Instances
      BY <1>4, Zenon DEF Instances
    <3>3. ASSUME NEW j \in Servers PROVE Saves[j].index = 0
      <4>1. saved[j].own # 0 /\ disk[<<j, 1>>] = NoSnapshot
        BY <1>1, <3>1, <3>2, SMTT(30)
      <4>. QED  BY <1>2, <3>1, <4>1, Zenon DEF Saved
    <3>. QED  BY <3>3, Zenon
  <2>3. Last(i) \in Instances
    BY <1>5, LastIs, Zenon
  <2>4. Rooted(Saves[i], logs, Saves)
    BY <2>2 DEF Rooted, Covers
  <2>5. reader[Last(i)].at \in {"new", "none"}
    BY <1>3, <2>3, Zenon
  <2>6. Progress(reader[Last(i)], delivered[Last(i)], logs[i], lastApplied[i], Saves[i])
    BY <1>1, <2>2, <2>3, <2>5, SMTT(30) DEF Progress, Full
  <2>7. reader[Last(i)].at # "ingest"
    BY <2>5, Zenon
  <2>. QED  BY <2>4, <2>6, <2>7, Zenon
<1>16. EverHeld
  BY <1>1, Zenon DEF EverHeld
<1>17. HonestLogs
  <2>1. Truthful(logs)
    BY <1>1, <1>2, SMTT(30) DEF Truthful
  <2>2. \A a \in Instances : Honest(reader[a]) /\ reader[a].at # "order"
    BY <1>3, Zenon DEF Honest
  <2>3. InOrder(reader, lastApplied, starts)
    BY <1>5, <2>2, LastIs, Zenon DEF InOrder, Last
  <2>4. Entered(logs, reader, delivered)
    BY <1>1, SMTT(30) DEF Entered
  <2>. QED  BY <2>1, <2>2, <2>3, <2>4, Zenon DEF HonestLogs
<1>18. NoFalseAlarm
  BY <1>12, Zenon DEF NoFalseAlarm
<1>. QED  BY <1>5, <1>7, <1>9, <1>10, <1>11, <1>13, <1>14, <1>15, <1>16, <1>17, <1>18, Zenon DEF RInv

LEMMA RInvStutter == RInv /\ UNCHANGED rvars => RInv'
<1>. SUFFICES ASSUME RInv, UNCHANGED rvars PROVE RInv'
  OBVIOUS
<1>. USE DEF RInv, rvars, apply, life
<1>1. RTypeOK' /\ Life'
  BY Zenon DEF RTypeOK, Life, Superseded, Last
<1>2. Readers' /\ Reading' /\ Shapes'
  BY Zenon DEF Readers, Reading, Shapes
<1>3. TesterIdle
  BY Zenon DEF TesterIdle, Saves, Saved
<1>. QED  BY <1>1, <1>2, <1>3, TesterIdleKeeps, Zenon

(* Every step of the tester, of a reader and of Raft keeps the invariant. *)
THEOREM RaftTesterInvariant == RSpec => []RInv
<1>1. RInv /\ [RNext]_rvars => RInv'
  <2>. SUFFICES ASSUME RInv, [RNext]_rvars PROVE RInv'
    OBVIOUS
  <2>1. ASSUME NEW i \in Servers, TesterStep(i) PROVE RInv'
    BY <2>1, CrashStarts, CrashKills, CrashEnds, StartBegins, RestartStep, Zenon DEF TesterStep
  <2>2. ASSUME NEW a \in Instances, ReaderStep(a) PROVE RInv'
    BY <2>2, ReadRaftStep, CheckOrderStep, CheckLogsStep, SetLastAppliedStep, TakeSnapshotStep,
       IngestSnapStep, FatalStep, Zenon DEF ReaderStep
  <2>. QED  BY <2>1, <2>2, DeliverCommandStep, DeliverSnapshotStep, RInvStutter, Zenon DEF RNext
<1>. QED  BY <1>1, RInvInit, PTL DEF RSpec

(* The tester never fails a correct Raft without snapshots, and with them  *)
(* only when an applier went on after its server's restart                 *)
(* (config.go:140-175, 190-260).                                           *)
THEOREM TesterRaisesNoFalseAlarm == RSpec => []NoFalseAlarm
<1>1. RInv => NoFalseAlarm
  BY Zenon DEF RInv
<1>. QED  BY <1>1, RaftTesterInvariant, PTL

(* Two servers' logs never differ without an error (config.go:143-149),    *)
(* and without snapshots no two commands ever applied at one index do.     *)
THEOREM TesterCatchesDisagreement == RSpec => []DisagreementCaught
<1>1. RInv => DisagreementCaught
  <2>. SUFFICES ASSUME RInv, ~Found PROVE DisagreementCaught
    BY Zenon DEF DisagreementCaught
  <2>1. ASSUME ~(snapshot /\ late), NEW i \in Servers, NEW j \in Servers, NEW n \in 1..MaxIndex
        PROVE  Missing \in {logs[i][n], logs[j][n]} \/ logs[i][n] = logs[j][n]
    BY <2>1, Zenon DEF RInv, Agreed, Agree
  <2>2. ASSUME ~snapshot, NEW x \in ever, NEW y \in ever, x[1] = y[1] PROVE x[2] = y[2]
    <3>1. PICK i \in Servers : logs[i][x[1]] = x[2]
      BY <2>2, Zenon DEF RInv, EverHeld
    <3>2. PICK j \in Servers : logs[j][y[1]] = y[2]
      BY <2>2, Zenon DEF RInv, EverHeld
    <3>3. x[1] \in 1..MaxIndex
      BY <2>2, Zenon DEF RInv, EverHeld
    <3>4. x[2] # Missing /\ y[2] # Missing
      BY <2>2, Sets, ZenonT(40) DEF RInv, RTypeOK
    <3>5. Agree(logs)
      BY <2>2, Zenon DEF RInv, Agreed
    <3>6. logs[j][x[1]] = y[2]
      BY <2>2, <3>2, Zenon
    <3>. QED  BY <3>1, <3>3, <3>4, <3>5, <3>6, Zenon DEF Agree
  <2>. QED  BY <2>1, <2>2, Zenon DEF DisagreementCaught
<1>. QED  BY <1>1, RaftTesterInvariant, PTL

(* A log never has a gap without an error (config.go:151, 169, 236), with  *)
(* or without interference.                                                *)
THEOREM TesterCatchesGaps == RSpec => []GapsCaught
<1>1. RInv => GapsCaught
  BY Zenon DEF RInv
<1>. QED  BY <1>1, RaftTesterInvariant, PTL

(* A correct Raft's servers are restarted with exactly the commands up to  *)
(* the index of their snapshot (config.go:245-254, 298-305).               *)
THEOREM SnapshotsAreExact == RSpec => []SnapshotExact
<1>1. RInv => SnapshotExact
  <2>. SUFFICES ASSUME RInv, faults = 0, ~Found, ~late, NEW i \in Servers, NEW n \in 1..MaxIndex
                PROVE  Saved(i).xlog[n] = IF n <= Saved(i).index THEN n ELSE Missing
    BY Zenon DEF SnapshotExact
  <2>. USE DEF RInv
  <2>1. /\ Saves[i] = Saved(i) /\ Shaped(Saves[i]) /\ Saves[i].index \in Nat
        /\ ~snapshot => Saves[i].index = 0
        /\ \A j \in Servers : Saves[j].index \in Indices
    BY SavesFit, Sets, Zenon
  <2>2. CASE n <= Saves[i].index
    <3>1. snapshot
      BY <2>1, <2>2, Sets
    <3>2. Rooted(Saves[i], logs, Saves)
      BY <3>1, Zenon DEF Followed
    <3>3. PICK j \in Servers : \A k \in 1..MaxIndex : k <= Saves[i].index => Saves[i].xlog[k] = logs[j][k]
      BY <2>1, <3>2, RootedValues, SMTT(30)
    <3>4. ~(n > Saves[i].index)
      BY <2>1, <2>2, Sets, SMTT(30)
    <3>5. Saves[i].xlog[n] # Missing
      BY <2>1, <3>4, Zenon DEF Shaped
    <3>. QED  BY <2>1, <2>2, <3>3, <3>5, Zenon DEF HonestLogs, Truthful
  <2>3. CASE ~(n <= Saves[i].index)
    <3>1. n > Saves[i].index
      BY <2>1, <2>3, Sets
    <3>. QED  BY <2>1, <2>3, <3>1, Zenon DEF Shaped
  <2>. QED  BY <2>2, <2>3, Zenon
<1>. QED  BY <1>1, RaftTesterInvariant, PTL
=============================================================================
