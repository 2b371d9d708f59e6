--------------------------- MODULE RaftPollProofs ---------------------------
(***************************************************************************)
(* Proofs about RaftPoll, for any number of servers, terms, entries and    *)
(* iterations: what the polls return is right although they look at one    *)
(* server at a time while leaders, terms and commits change.               *)
(***************************************************************************)
EXTENDS RaftPoll, TLAPS

Cmds == {Cmd, Other}
Scans == {"checkOneLeader", "checkTerms", "checkNoLeader"}

(* The types of the state; result is whatever the function returned. *)
RaftTypes ==
    /\ connected \in [Servers -> BOOLEAN]
    /\ term \in [Servers -> Terms] /\ leads \in [Servers -> BOOLEAN]
    /\ ledBy \in [Terms -> -1..(N - 1)]
    /\ log \in [Servers -> Seq(Cmds)] /\ chosen \in Seq(Cmds)
    /\ applied \in [Servers -> Nat]

PollTypes ==
    /\ poll \in Scans \cup {"none", "wait", "one"}
    /\ at \in {"idle", "scan", "count", "recount", "terms", "next", "submit", "returned", "fatal"}
    /\ si \in 0..N /\ iters \in Nat /\ starts \in Servers
    /\ leaders \in [Terms -> SUBSET Servers]
    /\ count \in Nat /\ index \in Int /\ expected \in Nat
    /\ startTerm \in Int /\ retry \in BOOLEAN

(* The last term that has had a leader. *)
Newest(t) == (t = 0 \/ ledBy[t] # -1) /\ \A u \in Terms : u > t => ledBy[u] = -1

(* Raft: a leader is the leader of its term, and the log of the leader of  *)
(* the newest term has everything that is committed.                       *)
Agrees(s, l) == Len(s) <= Len(l) /\ \A k \in 1..Len(s) : s[k] = l[k]

RaftFits ==
    /\ ledBy[0] = -1
    /\ \A i \in Servers : leads[i] => ledBy[term[i]] = i
    /\ \A i \in Servers : applied[i] <= Len(chosen)
    /\ \E t \in Terms : Newest(t)
    /\ \A t \in Terms : Newest(t) /\ ledBy[t] # -1 => Agrees(chosen, log[ledBy[t]])

(* Which points belong to which poll. *)
PointsFit ==
    /\ poll = "none" => at = "idle" /\ si = 0
    /\ poll # "none" => at # "idle"
    /\ poll \in Scans => at \in {"scan", "returned", "fatal"}
    /\ poll = "wait" => at \notin {"scan", "submit"}
    /\ poll = "one" => at \in {"submit", "count", "returned", "fatal"}
    /\ poll \in {"wait", "one"} => expected >= 1

(* checkOneLeader has seen only servers that led the term they are noted   *)
(* for, and has seen those it has passed that lead since the scan began.   *)
HasLast == \E t \in Terms : leaders[t] # {} /\ \A u \in Terms : leaders[u] # {} => t >= u

ScanFits ==
    /\ steady \subseteq Leading
    /\ poll # "checkOneLeader" => \A t \in Terms : leaders[t] = {}
    /\ \A t \in Terms : \A i \in leaders[t] : connected[i] /\ ledBy[t] = i
    /\ (\E t \in Terms : leaders[t] # {}) => HasLast
    /\ poll = "checkOneLeader" /\ at = "scan" =>
           \A i \in Servers, t \in Terms : <<i, t>> \in steady /\ i < si => i \in leaders[t]

(* nCommitted has counted only servers that have applied the entry. *)
Having(a, k) == {i \in Servers : a[i] >= k}
Passed(a, k, n) == {i \in Having(a, k) : i < n}
AtLeast(n, S) == \E f \in [1..n -> S] : \A a, b \in 1..n : f[a] = f[b] => a = b

CountFits ==
    /\ poll \in Scans \cup {"none"} \/ at = "submit" => index = -1
    /\ poll = "wait" \/ at = "count" => index >= 1
    /\ at \in {"count", "recount"} =>
           /\ AtLeast(count, Passed(applied, index, si))
           /\ count > 0 => index <= Len(chosen) /\ cmd = chosen[index]

(* The command of the test is at most where Start put it. *)
OnlyAt(s, k) == \A n \in 1..Len(s) : s[n] = Cmd => n = k

SubmitFits == \/ poll = "one" /\ retry
              \/ OnlyAt(chosen, index) /\ \A j \in Servers : OnlyAt(log[j], index)

(* wait: the leader of the term of the Start has the command, unless there *)
(* is a later one.                                                         *)
StartFits ==
    poll = "wait" =>
        /\ startedIn \in Terms /\ ledBy[startedIn] # -1
        /\ startTerm \in {-1, startedIn}
        /\ at = "terms" => startTerm = startedIn
        /\ Newest(startedIn) => /\ index <= Len(log[ledBy[startedIn]])
                                /\ log[ledBy[startedIn]][index] = Cmd

(* What has been returned: by one, the index of its command, or -1 once    *)
(* cleanup has begun.                                                      *)
OneFits(k) == /\ k \in 1..Len(chosen) /\ chosen[k] = Cmd
              /\ AtLeast(expected, Having(applied, k))

ReturnFits ==
    at = "returned" =>
        /\ poll = "checkOneLeader" => HasLast /\ result \in leaders[lastTermWithLeader]
        /\ poll = "one" => (result = -1 /\ finished) \/ OneFits(result)
        /\ poll = "wait" =>
               \/ result = MinusOne /\ \E i \in Servers : term[i] > startedIn
               \/ /\ index <= Len(chosen) /\ result = chosen[index]
                  /\ AtLeast(expected, Having(applied, index))

(* The inductive invariant. *)
PollInv == /\ RaftTypes /\ PollTypes
           /\ RaftFits /\ PointsFit /\ ScanFits /\ CountFits
           /\ SubmitFits /\ StartFits /\ ReturnFits /\ LeaderPollExact
-----------------------------------------------------------------------------
(* The newest term with a leader is unique, so NewestTerm is that term. *)
LEMMA NewestUnique ==
    ASSUME RaftTypes, NEW t \in Terms, Newest(t)
    PROVE  NewestTerm = t
<1>. MaxTerm \in Nat /\ Terms \subseteq Nat
  BY BoundsAssumption DEF Terms
<1>1. \A u \in Terms : Newest(u) => u = t
  <2>. SUFFICES ASSUME NEW u \in Terms, Newest(u), u # t PROVE FALSE
    OBVIOUS
  <2>1. u \in Nat /\ t \in Nat
    OBVIOUS
  <2>2. CASE u > t
    BY <2>1, <2>2 DEF Newest
  <2>3. CASE t > u
    BY <2>1, <2>3 DEF Newest
  <2>. QED  BY <2>1, <2>2, <2>3
<1>. QED  BY <1>1, Zenon DEF NewestTerm, Newest

(* The same for lastTermWithLeader of checkOneLeader. *)
LEMMA LastTerm ==
    ASSUME HasLast
    PROVE  /\ lastTermWithLeader \in Terms /\ leaders[lastTermWithLeader] # {}
           /\ \A u \in Terms : leaders[u] # {} => lastTermWithLeader >= u
BY Zenon DEF HasLast, lastTermWithLeader

(* What every step of Raft keeps: what is committed, applied or led stays  *)
(* so, and terms do not go back.                                           *)
RaftGrows ==
    /\ connected' = connected /\ (finished => finished')
    /\ \A i \in Servers : term'[i] >= term[i] /\ applied'[i] >= applied[i]
    /\ \A t \in Terms : ledBy[t] # -1 => ledBy'[t] = ledBy[t]
    /\ Len(chosen') >= Len(chosen)
    /\ \A k \in 1..Len(chosen) : chosen'[k] = chosen[k]

LEMMA IndexSets ==
    /\ N \in Nat /\ N > 0 /\ MaxTerm \in Nat /\ Terms \subseteq Nat /\ Servers \subseteq Nat
    /\ 0 \in Terms /\ 0 \in Servers /\ \A i \in 0..N : i < N => i \in Servers
    /\ Servers \subseteq (-1)..(N - 1) /\ (-1) \notin Servers
    /\ Cmd \in Cmds /\ Other \in Cmds /\ Cmd # MinusOne /\ Other # MinusOne
<1>1. N \in Nat /\ N > 0 /\ MaxTerm \in Nat
  BY NAssumption, BoundsAssumption
<1>3. Cmd \in Cmds /\ Other \in Cmds /\ Cmd # MinusOne /\ Other # MinusOne
  BY Zenon DEF Cmds, Cmd, Other, MinusOne
<1>. QED  BY <1>1, <1>3 DEF Terms, Servers

LEMMA RaftNats ==
    ASSUME RaftTypes
    PROVE  /\ \A t \in Terms : t \in Nat /\ (ledBy[t] = -1 \/ ledBy[t] \in Servers)
           /\ \A i \in Servers : /\ term[i] \in Terms /\ term[i] \in Nat /\ applied[i] \in Nat
                                 /\ log[i] \in Seq(Cmds) /\ Len(log[i]) \in Nat
           /\ chosen \in Seq(Cmds) /\ Len(chosen) \in Nat
<1>1. \A t \in Terms : t \in Nat
  BY IndexSets, Zenon
<1>2. \A t \in Terms : ledBy[t] = -1 \/ ledBy[t] \in Servers
  BY IndexSets DEF RaftTypes, Servers
<1>3. \A s \in Seq(Cmds) : Len(s) \in Nat
  OBVIOUS
<1>. QED  BY <1>1, <1>2, <1>3 DEF RaftTypes

(* An election. *)
LEMMA PrefixAgrees ==
    ASSUME NEW s \in Seq(Cmds), NEW l \in Seq(Cmds), IsPrefix(s, l)
    PROVE  Agrees(s, l)
<1>1. Len(s) <= Len(l) /\ SubSeq(l, 1, Len(s)) = s
  BY Zenon DEF IsPrefix
<1>2. Len(s) \in Nat /\ Len(l) \in Nat
  OBVIOUS
<1>3. \A k \in 1..Len(s) : SubSeq(l, 1, Len(s))[k] = l[k]
  BY <1>1, <1>2
<1>. QED  BY <1>1, <1>3, Zenon DEF Agrees

LEMMA ElectableLogs ==
    ASSUME RaftTypes, NEW l \in Electable
    PROVE  /\ l \in Seq(Cmds) /\ Agrees(chosen, l)
           /\ \/ l = chosen
              \/ \E j \in Servers : Len(l) <= Len(log[j]) /\ \A k \in 1..Len(l) : l[k] = log[j][k]
<1>1. CASE l = chosen
  BY <1>1, PrefixAgrees, Zenon DEF Electable, RaftTypes
<1>2. CASE \E j \in Servers : \E n \in 0..Len(log[j]) : l = SubSeq(log[j], 1, n)
  <2>0. PICK j \in Servers : \E n \in 0..Len(log[j]) : l = SubSeq(log[j], 1, n)
    BY <1>2, Zenon
  <2>1. PICK n \in 0..Len(log[j]) : l = SubSeq(log[j], 1, n)
    BY <2>0, Zenon
  <2>2. log[j] \in Seq(Cmds) /\ Len(log[j]) \in Nat
    BY DEF RaftTypes
  <2>3. l \in Seq(Cmds) /\ Len(l) = n /\ \A k \in 1..n : l[k] = log[j][k]
    BY <2>1, <2>2
  <2>4. IsPrefix(chosen, l)
    BY Zenon DEF Electable
  <2>. QED  BY <2>2, <2>3, <2>4, PrefixAgrees DEF RaftTypes
<1>3. l = chosen \/ \E j \in Servers : \E n \in 0..Len(log[j]) : l = SubSeq(log[j], 1, n)
  BY Zenon DEF Electable
<1>. QED  BY <1>1, <1>2, <1>3, Zenon

LEMMA ElectedRaft ==
    ASSUME RaftTypes, RaftFits, NEW i \in Servers, NEW t \in Terms, Elected(i, t)
    PROVE  /\ RaftTypes' /\ RaftFits' /\ RaftGrows
           /\ ledBy[t] = -1 /\ \A u \in Terms : Newest(u)' => u = t
<1>. USE IndexSets
<1>0. PICK T \in Terms : Newest(T)
  BY Zenon DEF RaftFits
<1>1. NewestTerm = T
  BY <1>0, NewestUnique, Zenon
<1>2. t > T /\ t > term[i] /\ t # 0 /\ ledBy[t] = -1
  BY <1>0, <1>1 DEF Elected, Newest
<1>3. PICK l \in Electable : log' = [log EXCEPT ![i] = l]
  BY Zenon DEF Elected
<1>4. l \in Seq(Cmds) /\ Agrees(chosen, l)
  BY ElectableLogs, Zenon
<1>5. RaftTypes'
  BY <1>3, <1>4, Zenon DEF Elected, RaftTypes
<1>6. /\ term' = [term EXCEPT ![i] = t] /\ leads' = [leads EXCEPT ![i] = TRUE]
      /\ ledBy' = [ledBy EXCEPT ![t] = i]
      /\ UNCHANGED <<connected, finished>> /\ chosen' = chosen /\ applied' = applied
  BY Zenon DEF Elected
<1>7. /\ ledBy'[t] = i /\ log'[i] = l /\ term'[i] = t
      /\ \A u \in Terms : u # t => ledBy'[u] = ledBy[u]
      /\ \A j \in Servers : j # i => log'[j] = log[j] /\ term'[j] = term[j] /\ leads'[j] = leads[j]
  BY <1>3, <1>6, Zenon DEF RaftTypes
<1>8. RaftGrows
  <2>1. \A j \in Servers : term'[j] >= term[j]
    <3>1. \A j \in Servers : term[j] \in Nat /\ t \in Nat
      BY RaftNats, Zenon
    <3>. QED  BY <3>1, <1>2, <1>7
  <2>2. \A u \in Terms : ledBy[u] # -1 => ledBy'[u] = ledBy[u]
    BY <1>2, <1>7, Zenon
  <2>. QED  BY <2>1, <2>2, <1>6, RaftNats DEF RaftGrows
<1>9. Newest(t)'
  BY <1>0, <1>2, <1>7 DEF Newest
<1>10. \A u \in Terms : Newest(u)' => u = t
  <2>. SUFFICES ASSUME NEW u \in Terms, Newest(u)', u # t PROVE FALSE
    OBVIOUS
  <2>1. u \in Nat /\ t \in Nat
    BY RaftNats
  <2>2. CASE u > t
    BY <2>1, <2>2, <1>9 DEF Newest
  <2>3. CASE t > u
    BY <2>1, <2>3, <1>7, Zenon DEF Newest
  <2>. QED  BY <2>1, <2>2, <2>3
<1>11. RaftFits'
  <2>1. (ledBy[0] = -1)'
    BY <1>2, <1>7, Zenon DEF RaftFits
  <2>2. ASSUME NEW j \in Servers, leads'[j] PROVE ledBy'[term'[j]] = j
    <3>1. CASE j = i
      BY <3>1, <1>7, Zenon
    <3>2. CASE j # i
      <4>1. ledBy[term[j]] = j /\ term[j] \in Terms
        BY <3>2, <2>2, <1>7, Zenon DEF RaftFits, RaftTypes
      <4>. QED  BY <4>1, <3>2, <1>2, <1>7
    <3>. QED  BY <3>1, <3>2, Zenon
  <2>3. (\A j \in Servers : applied[j] <= Len(chosen))'
    BY <1>6, Zenon DEF RaftFits
  <2>4. (\A u \in Terms : Newest(u) /\ ledBy[u] # -1 => Agrees(chosen, log[ledBy[u]]))'
    BY <1>4, <1>6, <1>7, <1>10, Zenon
  <2>. QED  BY <2>1, <2>2, <2>3, <2>4, <1>9, Zenon DEF RaftFits
<1>. QED  BY <1>2, <1>5, <1>8, <1>10, <1>11, Zenon

(* A later term, a Start, a commit and an apply keep the leaders. *)
LEMMA SameLeaders ==
    ASSUME ledBy' = ledBy
    PROVE  \A u : Newest(u)' <=> Newest(u)
BY Zenon DEF Newest

LEMMA LaterTermRaft ==
    ASSUME RaftTypes, RaftFits, NEW i \in Servers, NEW t \in Terms, LaterTerm(i, t)
    PROVE  RaftTypes' /\ RaftFits' /\ RaftGrows
<1>1. /\ term' = [term EXCEPT ![i] = t] /\ leads' = [leads EXCEPT ![i] = FALSE] /\ t > term[i]
      /\ ledBy' = ledBy /\ log' = log
      /\ UNCHANGED <<connected, finished>> /\ chosen' = chosen /\ applied' = applied
  BY Zenon DEF LaterTerm
<1>2. RaftTypes'
  BY <1>1, Zenon DEF RaftTypes
<1>3. RaftGrows
  <2>1. \A j \in Servers : term'[j] >= term[j]
    <3>1. term'[i] = t /\ \A j \in Servers : j # i => term'[j] = term[j]
      BY <1>1, Zenon DEF RaftTypes
    <3>. QED  BY <3>1, <1>1, RaftNats
  <2>. QED  BY <2>1, <1>1, RaftNats DEF RaftGrows
<1>4. \A u : Newest(u)' <=> Newest(u)
  BY <1>1, SameLeaders, Zenon
<1>5. ASSUME NEW j \in Servers, leads'[j] PROVE ledBy'[term'[j]] = j
  BY <1>1, <1>5, Zenon DEF RaftFits, RaftTypes
<1>6. RaftFits'
  BY <1>1, <1>4, <1>5, Zenon DEF RaftFits
<1>. QED  BY <1>2, <1>3, <1>6, Zenon

(* Appending to the log of a leader. *)
LEMMA LongerLog ==
    ASSUME RaftTypes, RaftFits, NEW i \in Servers, NEW c \in Cmds,
           log' = [log EXCEPT ![i] = Append(@, c)],
           UNCHANGED <<connected, finished, term, leads, ledBy, chosen, applied>>
    PROVE  /\ RaftTypes' /\ RaftFits' /\ RaftGrows
           /\ \A j \in Servers : j # i => log'[j] = log[j]
           /\ Len(log'[i]) = Len(log[i]) + 1 /\ log'[i][Len(log[i]) + 1] = c
           /\ Len(log[i]) \in Nat
           /\ \A k \in 1..Len(log[i]) : log'[i][k] = log[i][k]
<1>. USE IndexSets
<1>1. log[i] \in Seq(Cmds) /\ Len(log[i]) \in Nat
  BY DEF RaftTypes
<1>2. log'[i] = Append(log[i], c) /\ \A j \in Servers : j # i => log'[j] = log[j]
  BY Zenon DEF RaftTypes
<1>3. /\ Len(log'[i]) = Len(log[i]) + 1 /\ log'[i][Len(log[i]) + 1] = c
      /\ \A k \in 1..Len(log[i]) : log'[i][k] = log[i][k]
      /\ log'[i] \in Seq(Cmds)
  BY <1>1, <1>2
<1>4. RaftTypes'
  BY <1>3, Zenon DEF RaftTypes
<1>5. RaftGrows
  BY RaftNats DEF RaftGrows
<1>6. \A u : Newest(u)' <=> Newest(u)
  BY SameLeaders, Zenon
<1>7. ASSUME NEW u \in Terms, Newest(u)', ledBy'[u] # -1
      PROVE  Agrees(chosen', log'[ledBy'[u]])
  <2>1. Agrees(chosen, log[ledBy[u]]) /\ ledBy[u] \in Servers
    BY <1>6, <1>7, RaftNats, Zenon DEF RaftFits
  <2>2. CASE ledBy[u] = i
    <3>1. Len(chosen) \in Nat /\ chosen' = chosen /\ ledBy'[u] = i
      BY <2>2, RaftNats, Zenon DEF RaftTypes
    <3>2. Agrees(chosen, log[i])
      BY <2>1, <2>2, Zenon
    <3>3. Len(chosen) <= Len(log'[i])
      BY <3>1, <3>2, <1>1, <1>3 DEF Agrees
    <3>4. ASSUME NEW k \in 1..Len(chosen) PROVE chosen[k] = log'[i][k]
      <4>1. k \in 1..Len(log[i]) /\ chosen[k] = log[i][k]
        BY <3>1, <3>2, <1>1 DEF Agrees
      <4>. QED  BY <4>1, <1>3, Zenon
    <3>. QED  BY <3>1, <3>3, <3>4, Zenon DEF Agrees
  <2>3. CASE ledBy[u] # i
    BY <2>1, <2>3, <1>2, Zenon
  <2>. QED  BY <2>2, <2>3, Zenon
<1>8. RaftFits'
  BY <1>6, <1>7, Zenon DEF RaftFits
<1>. QED  BY <1>1, <1>2, <1>3, <1>4, <1>5, <1>8, Zenon

LEMMA CommitRaft ==
    ASSUME RaftTypes, RaftFits, NEW i \in Servers, Commit(i)
    PROVE  /\ RaftTypes' /\ RaftFits' /\ RaftGrows
           /\ Len(chosen') = Len(chosen) + 1 /\ Len(chosen') <= Len(log[i])
           /\ chosen'[Len(chosen) + 1] = log[i][Len(chosen) + 1]
<1>. USE IndexSets
<1>0. PICK T \in Terms : Newest(T)
  BY Zenon DEF RaftFits
<1>1. NewestTerm = T
  BY <1>0, NewestUnique, Zenon
<1>2. leads[i] /\ term[i] = T /\ ledBy[T] = i /\ Agrees(chosen, log[i])
  BY <1>0, <1>1, Zenon DEF Commit, RaftFits
<1>3. /\ chosen \in Seq(Cmds) /\ log[i] \in Seq(Cmds)
      /\ Len(chosen) \in Nat /\ Len(log[i]) \in Nat /\ Len(chosen) < Len(log[i])
  <2>1. chosen \in Seq(Cmds) /\ log[i] \in Seq(Cmds)
    BY Zenon DEF RaftTypes
  <2>. QED  BY <2>1, RaftNats, Zenon DEF Commit
<1>4. log[i][Len(chosen) + 1] \in Cmds
  BY <1>3
<1>5. chosen' = Append(chosen, log[i][Len(chosen) + 1])
  BY Zenon DEF Commit
<1>6. /\ chosen' \in Seq(Cmds) /\ Len(chosen') = Len(chosen) + 1
      /\ chosen'[Len(chosen) + 1] = log[i][Len(chosen) + 1]
      /\ \A k \in 1..Len(chosen) : chosen'[k] = chosen[k]
  BY <1>3, <1>4, <1>5
<1>7. UNCHANGED <<connected, finished, term, leads, ledBy, log, applied>>
  BY Zenon DEF Commit
<1>8. RaftTypes'
  BY <1>6, <1>7, Zenon DEF RaftTypes
<1>9. RaftGrows
  BY <1>3, <1>6, <1>7, RaftNats DEF RaftGrows
<1>10. \A u : Newest(u)' <=> Newest(u)
  BY <1>7, SameLeaders, Zenon
<1>11. ASSUME NEW u \in Terms, Newest(u)'
       PROVE  Agrees(chosen', log'[ledBy'[u]])
  <2>1. u = T
    BY <1>1, <1>10, <1>11, NewestUnique, Zenon
  <2>2. ledBy'[u] = i /\ log'[i] = log[i]
    BY <2>1, <1>2, <1>7, Zenon
  <2>3. Agrees(chosen', log[i])
    <3>1. ASSUME NEW k \in 1..Len(chosen') PROVE chosen'[k] = log[i][k]
      <4>1. k = Len(chosen) + 1 \/ k \in 1..Len(chosen)
        BY <1>3, <1>6
      <4>. QED  BY <4>1, <1>2, <1>6, Zenon DEF Agrees
    <3>. QED  BY <3>1, <1>3, <1>6 DEF Agrees
  <2>. QED  BY <2>2, <2>3, Zenon
<1>12. (\A j \in Servers : applied[j] <= Len(chosen))'
  <2>. SUFFICES ASSUME NEW j \in Servers PROVE applied[j] <= Len(chosen')
    BY <1>7, Zenon
  <2>1. applied[j] \in Nat /\ applied[j] <= Len(chosen) /\ Len(chosen) \in Nat
    BY <1>3 DEF RaftFits, RaftTypes
  <2>2. Len(chosen') = Len(chosen) + 1
    BY <1>6, Zenon
  <2>. QED  BY <2>1, <2>2
<1>13. RaftFits'
  BY <1>7, <1>10, <1>11, <1>12, Zenon DEF RaftFits
<1>. QED  BY <1>3, <1>6, <1>8, <1>9, <1>13

LEMMA ApplyRaft ==
    ASSUME RaftTypes, RaftFits, NEW i \in Servers, Apply(i)
    PROVE  RaftTypes' /\ RaftFits' /\ RaftGrows
<1>1. /\ applied' = [applied EXCEPT ![i] = applied[i] + 1] /\ applied[i] < Len(chosen)
      /\ UNCHANGED <<connected, finished, term, leads, ledBy, log, chosen>>
  BY Zenon DEF Apply
<1>2. /\ applied'[i] = applied[i] + 1 /\ applied[i] \in Nat /\ Len(chosen) \in Nat
      /\ \A j \in Servers : j # i => applied'[j] = applied[j]
  BY <1>1, RaftNats, Zenon DEF RaftTypes
<1>8. applied' \in [Servers -> Nat]
  BY <1>1, <1>2 DEF RaftTypes
<1>7. RaftTypes'
  BY <1>1, <1>8, Zenon DEF RaftTypes
<1>3. RaftGrows
  BY <1>1, <1>2, RaftNats DEF RaftGrows
<1>4. \A u : Newest(u)' <=> Newest(u)
  BY <1>1, SameLeaders, Zenon
<1>5. (\A j \in Servers : applied[j] <= Len(chosen))'
  BY <1>1, <1>2 DEF RaftFits
<1>6. RaftFits'
  BY <1>1, <1>4, <1>5, Zenon DEF RaftFits
<1>. QED  BY <1>3, <1>6, <1>7, Zenon
-----------------------------------------------------------------------------
(* While Raft moves, what a poll has seen stays true. *)
LEMMA AtLeastNone ==
    ASSUME NEW S
    PROVE  AtLeast(0, S)
<1>1. 1..0 = {}
  OBVIOUS
<1>2. [a \in 1..0 |-> a] \in [1..0 -> S]
  BY <1>1
<1>. QED  BY <1>1, <1>2, Zenon DEF AtLeast

LEMMA AtLeastMore ==
    ASSUME NEW S, NEW T, S \subseteq T, NEW n, AtLeast(n, S)
    PROVE  AtLeast(n, T)
BY Zenon DEF AtLeast

LEMMA HavingGrows ==
    ASSUME RaftTypes, RaftTypes', RaftGrows, NEW k \in Int, NEW n
    PROVE  /\ Having(applied, k) \subseteq Having(applied', k)
           /\ Passed(applied, k, n) \subseteq Passed(applied', k, n)
<1>1. \A i \in Servers : applied[i] \in Nat /\ applied'[i] \in Nat /\ applied'[i] >= applied[i]
  BY RaftNats, Zenon DEF RaftGrows, RaftTypes
<1>2. Having(applied, k) \subseteq Having(applied', k)
  BY <1>1 DEF Having
<1>. QED  BY <1>2, Zenon DEF Passed

LEMMA SeenStaysTrue ==
    ASSUME PollInv, RaftTypes', RaftGrows, UNCHANGED <<pollvars, startedIn>>,
           steady' \subseteq steady, steady' \subseteq Leading'
    PROVE  /\ PollTypes' /\ PointsFit' /\ ScanFits'
           /\ CountFits' /\ ReturnFits' /\ LeaderPollExact'
<1>.  /\ UNCHANGED <<poll, at, expected, startTerm, retry, startedIn>>
      /\ UNCHANGED <<si, iters, leaders, xterm, count, cmd, index, starts, result>>
  BY Zenon DEF pollvars, args, locals
<1>1. PollTypes'
  BY Zenon DEF PollInv, PollTypes
<1>2. PointsFit'
  BY Zenon DEF PollInv, PointsFit
<1>3. lastTermWithLeader' = lastTermWithLeader /\ (HasLast' <=> HasLast)
  BY Zenon DEF lastTermWithLeader, HasLast
<1>4. ScanFits'
  <2>1. \A t \in Terms : \A i \in leaders[t] : connected'[i] /\ ledBy'[t] = i
    <3>1. \A t \in Terms : \A i \in leaders[t] : i \in Servers /\ connected[i] /\ ledBy[t] = i
      BY Zenon DEF PollInv, ScanFits, PollTypes
    <3>. QED  BY <3>1, IndexSets DEF RaftGrows
  <2>2. /\ poll' # "checkOneLeader" => \A t \in Terms : leaders'[t] = {}
        /\ (\E t \in Terms : leaders'[t] # {}) => HasLast'
    BY <1>3, Zenon DEF PollInv, ScanFits
  <2>3. poll' = "checkOneLeader" /\ at' = "scan" =>
           \A i \in Servers, t \in Terms : <<i, t>> \in steady' /\ i < si' => i \in leaders'[t]
    BY Zenon DEF PollInv, ScanFits
  <2>. QED  BY <2>1, <2>2, <2>3, Zenon DEF ScanFits
<1>5. /\ Len(chosen') >= Len(chosen) /\ \A k \in 1..Len(chosen) : chosen'[k] = chosen[k]
      /\ Len(chosen) \in Nat /\ Len(chosen') \in Nat
  BY DEF PollInv, RaftTypes, RaftGrows
<1>6. \A k \in Int : /\ Having(applied, k) \subseteq Having(applied', k)
                     /\ Passed(applied, k, si) \subseteq Passed(applied', k, si)
  BY HavingGrows, Zenon DEF PollInv
<1>7. index \in Int /\ expected \in Nat /\ count \in Nat /\ si \in Nat
  BY IndexSets DEF PollInv, PollTypes
<1>8. CountFits'
  <2>1. /\ poll' \in Scans \cup {"none"} \/ at' = "submit" => index' = -1
        /\ poll' = "wait" \/ at' = "count" => index' >= 1
    BY Zenon DEF PollInv, CountFits
  <2>2. ASSUME at \in {"count", "recount"} PROVE AtLeast(count, Passed(applied', index, si))
    <3>1. AtLeast(count, Passed(applied, index, si))
      BY <2>2, Zenon DEF PollInv, CountFits
    <3>. QED  BY <3>1, <1>6, <1>7, AtLeastMore, Zenon
  <2>3. ASSUME at \in {"count", "recount"}, count > 0
        PROVE  index <= Len(chosen') /\ cmd = chosen'[index]
    <3>1. index <= Len(chosen) /\ cmd = chosen[index] /\ index >= 1
      BY <2>3, Zenon DEF PollInv, CountFits, PointsFit, PollTypes, Scans
    <3>. QED  BY <3>1, <1>5, <1>7
  <2>. QED  BY <2>1, <2>2, <2>3, Zenon DEF CountFits
<1>9. ReturnFits'
  <2>1. ASSUME at = "returned", poll = "one"
        PROVE  (result = -1 /\ finished') \/ OneFits(result)'
    <3>1. CASE result = -1 /\ finished
      BY <3>1, Zenon DEF RaftGrows
    <3>2. CASE OneFits(result)
      <4>1. result \in 1..Len(chosen) /\ chosen[result] = Cmd
        BY <3>2, Zenon DEF OneFits
      <4>2. result \in Int
        BY <4>1
      <4>3. result \in 1..Len(chosen') /\ chosen'[result] = Cmd
        BY <4>1, <1>5
      <4>4. AtLeast(expected, Having(applied', result))
        BY <3>2, <4>2, <1>6, AtLeastMore, Zenon DEF OneFits
      <4>. QED  BY <4>3, <4>4, Zenon DEF OneFits, Having
    <3>. QED  BY <2>1, <3>1, <3>2, Zenon DEF PollInv, ReturnFits
  <2>2. ASSUME at = "returned", poll = "wait"
        PROVE  \/ result = MinusOne /\ \E i \in Servers : term'[i] > startedIn
               \/ /\ index <= Len(chosen') /\ result = chosen'[index]
                  /\ AtLeast(expected, Having(applied', index))
    <3>1. CASE result = MinusOne /\ \E i \in Servers : term[i] > startedIn
      <4>1. PICK i \in Servers : term[i] > startedIn
        BY <3>1, Zenon
      <4>2. term'[i] >= term[i]
        BY Zenon DEF RaftGrows
      <4>3. term[i] \in Nat /\ term'[i] \in Nat /\ startedIn \in Nat
        BY <2>2, IndexSets, Zenon DEF PollInv, RaftTypes, StartFits
      <4>4. term'[i] > startedIn
        BY <4>1, <4>2, <4>3
      <4>. QED  BY <3>1, <4>4, Zenon
    <3>2. CASE /\ index <= Len(chosen) /\ result = chosen[index]
               /\ AtLeast(expected, Having(applied, index))
      <4>1. index >= 1
        BY <2>2, Zenon DEF PollInv, CountFits
      <4>2. index <= Len(chosen') /\ result = chosen'[index]
        BY <4>1, <3>2, <1>5, <1>7
      <4>3. AtLeast(expected, Having(applied', index))
        BY <3>2, <1>6, <1>7, AtLeastMore, Zenon
      <4>. QED  BY <4>2, <4>3, Zenon
    <3>. QED  BY <3>1, <3>2, <2>2, Zenon DEF PollInv, ReturnFits
  <2>3. at = "returned" /\ poll = "checkOneLeader" =>
            HasLast' /\ result' \in leaders'[lastTermWithLeader']
    BY <1>3, Zenon DEF PollInv, ReturnFits
  <2>. QED  BY <2>1, <2>2, <2>3, Zenon DEF ReturnFits
<1>10. LeaderPollExact'
  <2>. SUFFICES ASSUME poll = "checkOneLeader" PROVE LeaderPollExact'
    BY Zenon DEF LeaderPollExact
  <2>1. at = "fatal" => result # "more than one leader"
    BY Zenon DEF PollInv, LeaderPollExact
  <2>2. ASSUME at = "returned"
        PROVE  connected'[result] /\ ledBy'[lastTermWithLeader] = result
    <3>1. HasLast /\ result \in leaders[lastTermWithLeader] /\ lastTermWithLeader \in Terms
      BY <2>2, LastTerm, Zenon DEF PollInv, ReturnFits
    <3>. QED  BY <3>1, <1>4, Zenon DEF ScanFits
  <2>3. at = "returned" => \A l \in steady' : l[2] <= lastTermWithLeader
    BY Zenon DEF PollInv, LeaderPollExact
  <2>. QED  BY <1>3, <2>1, <2>2, <2>3, Zenon DEF LeaderPollExact
<1>. QED  BY <1>1, <1>2, <1>4, <1>8, <1>9, <1>10, Zenon
(* The steps of Raft. *)
LEMMA LeadingKept ==
    ASSUME UNCHANGED <<connected, term, leads>>
    PROVE  Leading' = Leading
BY Zenon DEF Leading

(* What a shorter or longer log says of the command. *)
LEMMA OnlyAtPart ==
    ASSUME NEW s \in Seq(Cmds), NEW l \in Seq(Cmds), Agrees(l, s), NEW k, OnlyAt(s, k)
    PROVE  OnlyAt(l, k)
BY DEF OnlyAt, Agrees

LEMMA OnlyAtLonger ==
    ASSUME NEW s \in Seq(Cmds), NEW l \in Seq(Cmds), Len(l) = Len(s) + 1,
           \A n \in 1..Len(s) : l[n] = s[n],
           NEW k, OnlyAt(s, k), l[Len(s) + 1] = Cmd => Len(s) + 1 = k
    PROVE  OnlyAt(l, k)
<1>1. Len(s) \in Nat
  OBVIOUS
<1>2. ASSUME NEW n \in 1..Len(l), l[n] = Cmd PROVE n = k
  <2>1. n = Len(s) + 1 \/ n \in 1..Len(s)
    BY <1>1
  <2>. QED  BY <2>1, <1>2, Zenon DEF OnlyAt
<1>. QED  BY <1>2, Zenon DEF OnlyAt

LEMMA ElectedInv ==
    ASSUME PollInv, NEW i \in Servers, NEW t \in Terms, Elected(i, t)
    PROVE  PollInv'
<1>1. /\ RaftTypes' /\ RaftFits' /\ RaftGrows
      /\ ledBy[t] = -1 /\ \A u \in Terms : Newest(u)' => u = t
  BY ElectedRaft, Zenon DEF PollInv
<1>2. UNCHANGED <<pollvars, startedIn>> /\ steady' \subseteq steady /\ steady' \subseteq Leading'
  BY Zenon DEF Elected, StillSteady
<1>3. PollTypes' /\ PointsFit' /\ ScanFits' /\ CountFits' /\ ReturnFits' /\ LeaderPollExact'
  BY <1>1, <1>2, SeenStaysTrue, Zenon
<1>4. UNCHANGED <<poll, retry, index, startTerm, at, startedIn, chosen>>
  BY <1>2, Zenon DEF pollvars, args, locals, Elected
<1>5. SubmitFits'
  <2>1. CASE poll = "one" /\ retry
    BY <2>1, <1>4, Zenon DEF SubmitFits
  <2>2. CASE OnlyAt(chosen, index) /\ \A j \in Servers : OnlyAt(log[j], index)
    <3>1. PICK l \in Electable : log' = [log EXCEPT ![i] = l]
      BY Zenon DEF Elected
    <3>2. /\ l \in Seq(Cmds)
          /\ \/ l = chosen
             \/ \E j \in Servers : Len(l) <= Len(log[j]) /\ \A k \in 1..Len(l) : l[k] = log[j][k]
      BY ElectableLogs, Zenon DEF PollInv
    <3>3. OnlyAt(l, index)
      <4>1. CASE l = chosen
        BY <4>1, <2>2, Zenon
      <4>2. ASSUME NEW j \in Servers, Len(l) <= Len(log[j]), \A k \in 1..Len(l) : l[k] = log[j][k]
            PROVE  OnlyAt(l, index)
        BY <4>2, <3>2, <2>2, OnlyAtPart, Zenon DEF PollInv, RaftTypes, Agrees
      <4>. QED  BY <3>2, <4>1, <4>2, Zenon
    <3>4. \A j \in Servers : OnlyAt(log'[j], index)
      BY <3>1, <3>3, <2>2, Zenon DEF PollInv, RaftTypes
    <3>. QED  BY <3>4, <2>2, <1>4, Zenon DEF SubmitFits
  <2>. QED  BY <2>1, <2>2, Zenon DEF PollInv, SubmitFits
<1>6. StartFits'
  <2>1. poll = "wait" => /\ startedIn \in Terms /\ ledBy[startedIn] # -1
                         /\ startTerm \in {-1, startedIn} /\ (at = "terms" => startTerm = startedIn)
    BY Zenon DEF PollInv, StartFits
  <2>2. poll = "wait" => startedIn # t /\ ledBy'[startedIn] # -1
    BY <2>1, <1>1, Zenon DEF RaftGrows
  <2>3. poll = "wait" => ~Newest(startedIn)'
    <3>1. \A u \in Terms : u = startedIn' /\ u # t => ~Newest(startedIn)'
      BY <1>1, Zenon DEF Newest
    <3>. QED  BY <3>1, <2>1, <2>2, <1>4, Zenon
  <2>. QED  BY <1>4, <2>1, <2>2, <2>3, Zenon DEF StartFits
<1>. QED  BY <1>1, <1>3, <1>5, <1>6, Zenon DEF PollInv

LEMMA LaterTermInv ==
    ASSUME PollInv, NEW i \in Servers, NEW t \in Terms, LaterTerm(i, t)
    PROVE  PollInv'
<1>1. RaftTypes' /\ RaftFits' /\ RaftGrows
  BY LaterTermRaft, Zenon DEF PollInv
<1>2. UNCHANGED <<pollvars, startedIn>> /\ steady' \subseteq steady /\ steady' \subseteq Leading'
  BY Zenon DEF LaterTerm, StillSteady
<1>3. PollTypes' /\ PointsFit' /\ ScanFits' /\ CountFits' /\ ReturnFits' /\ LeaderPollExact'
  BY <1>1, <1>2, SeenStaysTrue, Zenon
<1>4. UNCHANGED <<poll, retry, index, startTerm, at, startedIn, chosen, log, ledBy>>
  BY <1>2, Zenon DEF pollvars, args, locals, LaterTerm
<1>5. SubmitFits'
  BY <1>4, Zenon DEF PollInv, SubmitFits
<1>6. StartFits'
  BY <1>4, Zenon DEF PollInv, StartFits, Newest
<1>. QED  BY <1>1, <1>3, <1>5, <1>6, Zenon DEF PollInv
LEMMA OtherStartInv ==
    ASSUME PollInv, NEW i \in Servers, OtherStart(i)
    PROVE  PollInv'
<1>.  /\ log' = [log EXCEPT ![i] = Append(@, Other)]
      /\ UNCHANGED <<connected, finished, term, leads, ledBy, chosen, applied, pollvars, startedIn, steady>>
  BY Zenon DEF OtherStart
<1>1. /\ RaftTypes' /\ RaftFits' /\ RaftGrows
      /\ \A j \in Servers : j # i => log'[j] = log[j]
      /\ Len(log'[i]) = Len(log[i]) + 1 /\ log'[i][Len(log[i]) + 1] = Other
      /\ Len(log[i]) \in Nat
      /\ \A k \in 1..Len(log[i]) : log'[i][k] = log[i][k]
  BY LongerLog, IndexSets, Zenon DEF PollInv
<1>2. steady' \subseteq steady /\ steady' \subseteq Leading'
  BY LeadingKept, Zenon DEF PollInv, ScanFits
<1>3. PollTypes' /\ PointsFit' /\ ScanFits' /\ CountFits' /\ ReturnFits' /\ LeaderPollExact'
  BY <1>1, <1>2, SeenStaysTrue, Zenon
<1>4. UNCHANGED <<poll, retry, index, startTerm, at, startedIn, chosen, ledBy>>
  BY Zenon DEF pollvars, args, locals
<1>5. SubmitFits'
  <2>1. CASE poll = "one" /\ retry
    BY <2>1, <1>4, Zenon DEF SubmitFits
  <2>2. CASE OnlyAt(chosen, index) /\ \A j \in Servers : OnlyAt(log[j], index)
    <3>1. Other # Cmd
      BY Zenon DEF Other, Cmd
    <3>2. log[i] \in Seq(Cmds) /\ log'[i] \in Seq(Cmds)
      BY <1>1, Zenon DEF PollInv, RaftTypes
    <3>3. OnlyAt(log'[i], index)
      BY <3>1, <3>2, <2>2, <1>1, OnlyAtLonger, Zenon
    <3>. QED  BY <3>3, <2>2, <1>1, <1>4, Zenon DEF SubmitFits
  <2>. QED  BY <2>1, <2>2, Zenon DEF PollInv, SubmitFits
<1>6. StartFits'
  <2>. SUFFICES ASSUME poll = "wait" PROVE StartFits'
    BY <1>4, Zenon DEF StartFits
  <2>1. /\ startedIn \in Terms /\ ledBy[startedIn] # -1
        /\ startTerm \in {-1, startedIn} /\ (at = "terms" => startTerm = startedIn)
    BY Zenon DEF PollInv, StartFits
  <2>2. ASSUME Newest(startedIn)
        PROVE  /\ index <= Len(log'[ledBy[startedIn]])
               /\ log'[ledBy[startedIn]][index] = Cmd
    <3>1. /\ index <= Len(log[ledBy[startedIn]]) /\ log[ledBy[startedIn]][index] = Cmd
          /\ index \in Int /\ index >= 1
      BY <2>2, Zenon DEF PollInv, StartFits, CountFits, PollTypes
    <3>2. ledBy[startedIn] \in Servers
      BY <2>1, RaftNats, Zenon DEF PollInv
    <3>3. CASE ledBy[startedIn] = i
      BY <3>1, <3>3, <1>1
    <3>4. CASE ledBy[startedIn] # i
      BY <3>1, <3>2, <3>4, <1>1, Zenon
    <3>. QED  BY <3>3, <3>4, Zenon
  <2>3. Newest(startedIn)' <=> Newest(startedIn)
    BY <1>4, Zenon DEF Newest
  <2>. QED  BY <1>4, <2>1, <2>2, <2>3, Zenon DEF StartFits
<1>. QED  BY <1>1, <1>3, <1>5, <1>6, Zenon DEF PollInv

LEMMA CommitInv ==
    ASSUME PollInv, NEW i \in Servers, Commit(i)
    PROVE  PollInv'
<1>.  UNCHANGED <<connected, finished, term, leads, ledBy, log, applied, pollvars, startedIn, steady>>
  BY Zenon DEF Commit
<1>1. /\ RaftTypes' /\ RaftFits' /\ RaftGrows
      /\ Len(chosen') = Len(chosen) + 1 /\ Len(chosen') <= Len(log[i])
      /\ chosen'[Len(chosen) + 1] = log[i][Len(chosen) + 1]
  BY CommitRaft, Zenon DEF PollInv
<1>2. steady' \subseteq steady /\ steady' \subseteq Leading'
  BY LeadingKept, Zenon DEF PollInv, ScanFits
<1>3. PollTypes' /\ PointsFit' /\ ScanFits' /\ CountFits' /\ ReturnFits' /\ LeaderPollExact'
  BY <1>1, <1>2, SeenStaysTrue, Zenon
<1>4. UNCHANGED <<poll, retry, index, startTerm, at, startedIn, log, ledBy>>
  BY Zenon DEF pollvars, args, locals
<1>5. SubmitFits'
  <2>1. CASE poll = "one" /\ retry
    BY <2>1, <1>4, Zenon DEF SubmitFits
  <2>2. CASE OnlyAt(chosen, index) /\ \A j \in Servers : OnlyAt(log[j], index)
    <3>1. chosen \in Seq(Cmds) /\ chosen' \in Seq(Cmds) /\ Len(chosen) \in Nat
      BY <1>1 DEF PollInv, RaftTypes
    <3>2. Len(chosen) + 1 \in 1..Len(log[i])
      BY <3>1, <1>1, RaftNats DEF PollInv
    <3>3. OnlyAt(log[i], index)
      BY <2>2, Zenon
    <3>4. log[i][Len(chosen) + 1] = Cmd => Len(chosen) + 1 = index
      BY <3>2, <3>3, Zenon DEF OnlyAt
    <3>5. OnlyAt(chosen', index)
      BY <3>1, <3>4, <2>2, <1>1, OnlyAtLonger, Zenon DEF RaftGrows
    <3>. QED  BY <3>5, <2>2, <1>4, Zenon DEF SubmitFits
  <2>. QED  BY <2>1, <2>2, Zenon DEF PollInv, SubmitFits
<1>6. StartFits'
  BY <1>4, Zenon DEF PollInv, StartFits, Newest
<1>. QED  BY <1>1, <1>3, <1>5, <1>6, Zenon DEF PollInv

LEMMA ApplyInv ==
    ASSUME PollInv, NEW i \in Servers, Apply(i)
    PROVE  PollInv'
<1>.  UNCHANGED <<connected, finished, term, leads, ledBy, log, chosen, pollvars, startedIn, steady>>
  BY Zenon DEF Apply
<1>1. RaftTypes' /\ RaftFits' /\ RaftGrows
  BY ApplyRaft, Zenon DEF PollInv
<1>2. steady' \subseteq steady /\ steady' \subseteq Leading'
  BY LeadingKept, Zenon DEF PollInv, ScanFits
<1>3. PollTypes' /\ PointsFit' /\ ScanFits' /\ CountFits' /\ ReturnFits' /\ LeaderPollExact'
  BY <1>1, <1>2, SeenStaysTrue, Zenon
<1>4. UNCHANGED <<poll, retry, index, startTerm, at, startedIn, chosen, log, ledBy>>
  BY Zenon DEF pollvars, args, locals
<1>5a. SubmitFits'
  BY <1>4, Zenon DEF PollInv, SubmitFits, Newest
<1>5b. StartFits'
  BY <1>4, Zenon DEF PollInv, StartFits, Newest
<1>. QED  BY <1>1, <1>3, <1>5a, <1>5b, Zenon DEF PollInv

(* The test ends while goroutines of it are in one. *)
LEMMA CleanupInv ==
    ASSUME PollInv, cleanup
    PROVE  PollInv'
<1>.  /\ finished' = TRUE
      /\ UNCHANGED <<connected, term, leads, ledBy, log, chosen, applied, pollvars, startedIn, steady>>
  BY Zenon DEF cleanup
<1>1. RaftTypes'
  BY Zenon DEF PollInv, RaftTypes
<1>2. RaftFits'
  BY Zenon DEF PollInv, RaftFits, Newest
<1>3. RaftGrows
  BY RaftNats DEF PollInv, RaftGrows
<1>4. steady' \subseteq steady /\ steady' \subseteq Leading'
  BY LeadingKept, Zenon DEF PollInv, ScanFits
<1>5. PollTypes' /\ PointsFit' /\ ScanFits' /\ CountFits' /\ ReturnFits' /\ LeaderPollExact'
  BY <1>1, <1>3, <1>4, SeenStaysTrue, Zenon
<1>6. UNCHANGED <<poll, retry, index, startTerm, at, startedIn, chosen, log, ledBy>>
  BY Zenon DEF pollvars, args, locals
<1>7. SubmitFits'
  BY <1>6, Zenon DEF PollInv, SubmitFits
<1>8. StartFits'
  BY <1>6, Zenon DEF PollInv, StartFits, Newest
<1>. QED  BY <1>1, <1>2, <1>5, <1>7, <1>8, Zenon DEF PollInv
-----------------------------------------------------------------------------
(* The steps of the polls leave Raft alone, but for a Start. *)
LEMMA RaftKept ==
    ASSUME PollInv, UNCHANGED raftvars
    PROVE  /\ RaftTypes' /\ RaftFits' /\ Leading' = Leading
           /\ \A u : Newest(u)' <=> Newest(u)
<1>. UNCHANGED <<connected, finished, term, leads, ledBy, log, chosen, applied>>
  BY Zenon DEF raftvars
<1>1. \A u : Newest(u)' <=> Newest(u)
  BY Zenon DEF Newest
<1>2. RaftTypes'
  BY Zenon DEF PollInv, RaftTypes
<1>3. RaftFits'
  BY <1>1, Zenon DEF PollInv, RaftFits
<1>. QED  BY <1>1, <1>2, <1>3, LeadingKept, Zenon

LEMMA SubmitKept ==
    ASSUME PollInv, UNCHANGED <<raftvars, poll, retry, index>>
    PROVE  SubmitFits'
BY Zenon DEF PollInv, SubmitFits, raftvars

LEMMA StartKept ==
    ASSUME PollInv, UNCHANGED <<raftvars, startedIn, startTerm, index>>,
           poll' = "wait" => poll = "wait" /\ (at' = "terms" => startTerm = startedIn)
    PROVE  StartFits'
<1>1. \A u : Newest(u)' <=> Newest(u)
  BY RaftKept, Zenon
<1>2. UNCHANGED <<ledBy, log>>
  BY Zenon DEF raftvars
<1>3. Newest(startedIn)' <=> Newest(startedIn)
  BY <1>2, Zenon DEF Newest
<1>. QED  BY <1>2, <1>3, Zenon DEF PollInv, StartFits

(* Outside checkOneLeader nothing has been noted for it. *)
LEMMA ScanKept ==
    ASSUME PollInv, leaders' = leaders, steady' = steady, Leading' = Leading,
           poll # "checkOneLeader", poll' # "checkOneLeader"
    PROVE  ScanFits' /\ LeaderPollExact'
<1>1. steady' \subseteq Leading' /\ \A t \in Terms : leaders[t] = {} /\ leaders'[t] = {}
  BY Zenon DEF PollInv, ScanFits
<1>. QED  BY <1>1, Zenon DEF ScanFits, LeaderPollExact

(* Outside nCommitted nothing has been counted. *)
LEMMA CountKept ==
    ASSUME PollInv, UNCHANGED <<raftvars, index, poll>>,
           at' \notin {"count", "recount"}, at' = "submit" => index = -1
    PROVE  CountFits'
BY Zenon DEF PollInv, CountFits
LEMMA BeginScanInv ==
    ASSUME PollInv, NEW p \in Scans, BeginScan(p)
    PROVE  PollInv'
<1>.  /\ poll = "none" /\ poll' = p /\ at' = "scan" /\ steady' = Leading
      /\ UNCHANGED <<raftvars, expected, startTerm, retry, startedIn>>
      /\ UNCHANGED <<si, iters, leaders, xterm, count, cmd, index, starts, result>>
  BY Zenon DEF BeginScan, args, locals
<1>1. at = "idle" /\ si = 0 /\ p # "wait" /\ p # "one" /\ p # "none" /\ index = -1
  BY Zenon DEF PollInv, PointsFit, CountFits, Scans
<1>2. RaftTypes' /\ RaftFits' /\ Leading' = Leading
  BY RaftKept, Zenon
<1>3. PollTypes'
  BY Zenon DEF PollInv, PollTypes
<1>4. PointsFit'
  BY <1>1, Zenon DEF PointsFit, Scans
<1>5. ScanFits'
  <2>1. \A t \in Terms : leaders[t] = {}
    BY Zenon DEF PollInv, ScanFits
  <2>. QED  BY <2>1, <1>1, <1>2, IndexSets DEF ScanFits
<1>6a. CountFits'
  BY <1>1, Zenon DEF CountFits, Scans
<1>6b. ReturnFits'
  BY <1>1, Zenon DEF ReturnFits, Scans
<1>6c. LeaderPollExact'
  BY <1>1, Zenon DEF LeaderPollExact, Scans
<1>6d. StartFits'
  BY <1>1, Zenon DEF StartFits, Scans
<1>7. SubmitFits'
  BY <1>1, Zenon DEF PollInv, SubmitFits, raftvars
<1>. QED  BY <1>2, <1>3, <1>4, <1>5, <1>6a, <1>6b, <1>6c, <1>6d, <1>7, Zenon DEF PollInv

LEMMA LeaderSeenInv ==
    ASSUME PollInv, LeaderSeen
    PROVE  PollInv'
<1>.  /\ poll = "checkOneLeader" /\ at = "scan" /\ si < N /\ si' = si + 1
      /\ UNCHANGED <<raftvars, poll, expected, startTerm, retry, startedIn, steady>>
      /\ UNCHANGED <<iters, count, cmd, index, starts, at, xterm, result>>
      /\ leaders' = [leaders EXCEPT ![term[si]] =
                         IF connected[si] /\ leads[si] THEN @ \cup {si} ELSE @]
  BY Zenon DEF LeaderSeen, Scan, args
<1>1. RaftTypes' /\ RaftFits' /\ Leading' = Leading
  BY RaftKept, Zenon
<1>2. si \in Servers /\ si \in Nat /\ term[si] \in Terms /\ si' \in 0..N
  BY IndexSets DEF PollInv, PollTypes, RaftTypes
<1>3. /\ leaders \in [Terms -> SUBSET Servers] /\ leaders' \in [Terms -> SUBSET Servers]
      /\ \A t \in Terms : t # term[si] => leaders'[t] = leaders[t]
      /\ connected[si] /\ leads[si] => leaders'[term[si]] = leaders[term[si]] \cup {si}
      /\ ~(connected[si] /\ leads[si]) => leaders'[term[si]] = leaders[term[si]]
  BY <1>2, Zenon DEF PollInv, PollTypes
<1>4. PollTypes'
  BY <1>2, <1>3, Zenon DEF PollInv, PollTypes
<1>5. PointsFit'
  BY Zenon DEF PollInv, PointsFit, Scans
<1>6a. CountFits'
  BY Zenon DEF PollInv, CountFits
<1>6b. ReturnFits'
  BY Zenon DEF PollInv, ReturnFits
<1>6c. LeaderPollExact'
  BY Zenon DEF PollInv, LeaderPollExact
<1>6d. StartFits'
  BY Zenon DEF PollInv, StartFits
<1>7. SubmitFits'
  BY SubmitKept, Zenon
<1>8. UNCHANGED <<connected, ledBy>>
  BY Zenon DEF raftvars
<1>9. ASSUME NEW t \in Terms, NEW i \in leaders'[t] PROVE connected[i] /\ ledBy[t] = i
  <2>1. CASE i \in leaders[t]
    BY <2>1, Zenon DEF PollInv, ScanFits
  <2>2. CASE i \notin leaders[t]
    <3>1. t = term[si] /\ i = si /\ connected[si] /\ leads[si]
      BY <2>2, <1>3, Zenon
    <3>. QED  BY <3>1, <1>2, Zenon DEF PollInv, RaftFits
  <2>. QED  BY <2>1, <2>2, Zenon
<1>10. ASSUME NEW t0 \in Terms, leaders'[t0] # {} PROVE HasLast'
  <2>1. CASE ~(connected[si] /\ leads[si])
    <3>1. leaders' = leaders
      BY <2>1, <1>3, Zenon
    <3>. QED  BY <3>1, <1>10, Zenon DEF PollInv, ScanFits, HasLast
  <2>2. CASE connected[si] /\ leads[si] /\ \A t \in Terms : leaders[t] = {}
    <3>1. leaders'[term[si]] # {} /\ \A u \in Terms : leaders'[u] # {} => u = term[si]
      BY <2>2, <1>3, Zenon
    <3>2. term[si] \in Nat
      BY <1>2, IndexSets, Zenon
    <3>. QED  BY <3>1, <3>2, <1>2 DEF HasLast
  <2>3. CASE connected[si] /\ leads[si] /\ \E t \in Terms : leaders[t] # {}
    <3>1. PICK t \in Terms : leaders[t] # {} /\ \A u \in Terms : leaders[u] # {} => t >= u
      BY <2>3, Zenon DEF PollInv, ScanFits, HasLast
    <3>2. t \in Nat /\ term[si] \in Nat /\ \A u \in Terms : u \in Nat
      BY <1>2, IndexSets, Zenon
    <3>3. CASE term[si] >= t
      <4>1. leaders'[term[si]] # {} /\ \A u \in Terms : leaders'[u] # {} => term[si] >= u
        BY <3>1, <3>2, <3>3, <2>3, <1>2, <1>3
      <4>. QED  BY <4>1, <1>2, Zenon DEF HasLast
    <3>4. CASE ~(term[si] >= t)
      <4>1. leaders'[t] # {} /\ \A u \in Terms : leaders'[u] # {} => t >= u
        BY <3>1, <3>2, <3>4, <1>2, <1>3
      <4>. QED  BY <4>1, Zenon DEF HasLast
    <3>. QED  BY <3>3, <3>4, Zenon
  <2>. QED  BY <2>1, <2>2, <2>3, Zenon
<1>11. ASSUME NEW i \in Servers, NEW t \in Terms, <<i, t>> \in steady, i < si + 1
       PROVE  i \in leaders'[t]
  <2>1. i \in Nat
    BY IndexSets, Zenon
  <2>2. CASE i < si
    <3>1. i \in leaders[t]
      BY <2>2, <1>11, Zenon DEF PollInv, ScanFits
    <3>. QED  BY <3>1, <1>2, <1>3, Zenon
  <2>3. CASE i = si
    <3>1. <<i, t>> \in Leading
      BY <1>11, Zenon DEF PollInv, ScanFits
    <3>2. term[i] = t /\ connected[i] /\ leads[i]
      BY <3>1, Zenon DEF Leading
    <3>. QED  BY <3>2, <2>3, <1>2, <1>3, Zenon
  <2>. QED  BY <2>1, <2>2, <2>3, <1>2, <1>11
<1>12. ScanFits'
  <2>1. steady' \subseteq Leading'
    BY <1>1, Zenon DEF PollInv, ScanFits
  <2>. QED  BY <2>1, <1>8, <1>9, <1>10, <1>11, Zenon DEF ScanFits
<1>. QED  BY <1>1, <1>4, <1>5, <1>6a, <1>6b, <1>6c, <1>6d, <1>7, <1>12, Zenon DEF PollInv
(* checkTerms and checkNoLeader note nothing that the others read. *)
LEMMA OtherScansInv ==
    ASSUME PollInv, TermSeen \/ NoLeaderSeen
    PROVE  PollInv'
<1>.  /\ poll \in {"checkTerms", "checkNoLeader"} /\ at = "scan" /\ si < N /\ si' = si + 1
      /\ at' \in {"scan", "fatal"}
      /\ UNCHANGED <<raftvars, poll, expected, startTerm, retry, startedIn, steady>>
      /\ UNCHANGED <<iters, count, cmd, index, starts, leaders>>
  BY Zenon DEF TermSeen, NoLeaderSeen, Scan, args, Fatalf
<1>1. RaftTypes' /\ RaftFits' /\ Leading' = Leading
  BY RaftKept, Zenon
<1>2. si' \in 0..N
  BY IndexSets DEF PollInv, PollTypes
<1>3. PollTypes'
  BY <1>2, Zenon DEF PollInv, PollTypes
<1>4a. PointsFit'
  BY Zenon DEF PollInv, PointsFit, Scans
<1>4b. ReturnFits'
  BY Zenon DEF PollInv, ReturnFits, Scans
<1>5. ScanFits' /\ LeaderPollExact'
  BY <1>1, ScanKept, Zenon
<1>6. SubmitFits' /\ StartFits' /\ CountFits'
  BY SubmitKept, StartKept, CountKept, Zenon
<1>. QED  BY <1>1, <1>3, <1>4a, <1>4b, <1>5, <1>6, Zenon DEF PollInv

LEMMA ScanEndsInv ==
    ASSUME PollInv, ScanEnds
    PROVE  PollInv'
<1>.  /\ at = "scan" /\ si = N
      /\ UNCHANGED <<raftvars, poll, expected, startTerm, retry, startedIn>>
      /\ UNCHANGED <<leaders, xterm, count, cmd, index, starts>>
  BY Zenon DEF ScanEnds, args
<1>1. RaftTypes' /\ RaftFits' /\ Leading' = Leading /\ poll \in Scans
  BY RaftKept, Zenon DEF PollInv, PointsFit, PollTypes
<1>2. SubmitFits'
  BY SubmitKept, Zenon
<1>3. lastTermWithLeader' = lastTermWithLeader /\ (HasLast' <=> HasLast)
  BY Zenon DEF lastTermWithLeader, HasLast
<1>4. UNCHANGED <<connected, ledBy>>
  BY Zenon DEF raftvars
<1>5. CASE poll \in {"checkTerms", "checkNoLeader"}
  <2>1. at' = "returned" /\ UNCHANGED <<si, iters, steady>>
    BY <1>5, Zenon DEF ScanEnds, Return
  <2>2. ScanFits' /\ LeaderPollExact'
    BY <1>1, <1>5, <2>1, ScanKept, Zenon
  <2>3. StartFits' /\ CountFits'
    BY <1>5, <2>1, StartKept, CountKept, Zenon
  <2>4a. PollTypes'
    BY <1>5, <2>1, Zenon DEF PollInv, PollTypes, Scans
  <2>4b. PointsFit'
    BY <1>5, <2>1, Zenon DEF PollInv, PointsFit, Scans
  <2>4c. ReturnFits'
    BY <1>5, <2>1, Zenon DEF PollInv, ReturnFits, Scans
  <2>. QED  BY <1>1, <1>2, <2>2, <2>3, <2>4a, <2>4b, <2>4c, Zenon DEF PollInv
<1>6. CASE poll = "checkOneLeader" /\ \E t \in Terms : \E i, j \in leaders[t] : i # j
  BY <1>6, Zenon DEF PollInv, ScanFits
<1>7. CASE /\ poll = "checkOneLeader" /\ ~\E t \in Terms : \E i, j \in leaders[t] : i # j
           /\ \E t \in Terms : leaders[t] # {}
  <2>1. /\ at' = "returned" /\ UNCHANGED <<si, iters, steady>>
        /\ result' = CHOOSE i \in leaders[lastTermWithLeader] : TRUE
    BY <1>7, Zenon DEF ScanEnds, Return
  <2>2. HasLast
    BY <1>7, Zenon DEF PollInv, ScanFits
  <2>3. /\ lastTermWithLeader \in Terms /\ leaders[lastTermWithLeader] # {}
        /\ \A u \in Terms : leaders[u] # {} => lastTermWithLeader >= u
    BY <2>2, LastTerm, Zenon
  <2>4. result' \in leaders[lastTermWithLeader]
    BY <2>1, <2>3, Zenon
  <2>5. connected[result'] /\ ledBy[lastTermWithLeader] = result'
    BY <2>3, <2>4, Zenon DEF PollInv, ScanFits
  <2>6. ASSUME NEW l \in steady PROVE l[2] <= lastTermWithLeader
    <3>1. PICK i \in Servers : l = <<i, term[i]>>
      BY DEF PollInv, ScanFits, Leading
    <3>5. term[i] \in Terms /\ term[i] \in Nat /\ lastTermWithLeader \in Nat
      BY <2>3, RaftNats, Zenon DEF PollInv
    <3>6. N \in Nat
      BY IndexSets, Zenon
    <3>7. i < si
      BY <3>6 DEF Servers
    <3>2. term[i] \in Terms /\ i < si /\ term[i] \in Nat /\ lastTermWithLeader \in Nat
      BY <3>5, <3>7, Zenon
    <3>3. i \in leaders[term[i]]
      BY <3>1, <3>2, <1>7, Zenon DEF PollInv, ScanFits
    <3>4. lastTermWithLeader >= term[i]
      BY <3>2, <3>3, <2>3, Zenon
    <3>. QED  BY <3>1, <3>2, <3>4, Zenon
  <2>7. LeaderPollExact'
    BY <1>3, <1>4, <2>1, <2>5, <2>6, Zenon DEF LeaderPollExact
  <2>8. ScanFits'
    BY <1>1, <1>3, <1>4, <2>1, Zenon DEF PollInv, ScanFits
  <2>9. ReturnFits'
    BY <1>3, <1>7, <2>2, <2>4, Zenon DEF ReturnFits
  <2>10a. PollTypes'
    BY <1>7, <2>1, Zenon DEF PollInv, PollTypes, Scans
  <2>10b. PointsFit'
    BY <1>7, <2>1, Zenon DEF PollInv, PointsFit, Scans
  <2>11. StartFits' /\ CountFits'
    BY <1>7, <2>1, StartKept, CountKept, Zenon
  <2>. QED  BY <1>1, <1>2, <2>7, <2>8, <2>9, <2>10a, <2>10b, <2>11, Zenon DEF PollInv
<1>8. CASE /\ poll = "checkOneLeader" /\ ~\E t \in Terms : \E i, j \in leaders[t] : i # j
           /\ ~\E t \in Terms : leaders[t] # {}
  <2>1. /\ iters' = iters + 1 /\ si' = 0 /\ steady' = Leading
        /\ \/ UNCHANGED <<at, result>>
           \/ at' = "fatal" /\ result' = "expected one leader, got none"
    BY <1>8, Zenon DEF ScanEnds, Fatalf
  <2>2. LeaderPollExact'
    BY <2>1, Zenon DEF LeaderPollExact
  <2>3. ScanFits'
    <3>1. \A i \in Servers : ~(i < 0)
      BY DEF Servers
    <3>2. \A t \in Terms : leaders'[t] = {}
      BY <1>8, Zenon
    <3>. QED  BY <3>1, <3>2, <1>1, <2>1, Zenon DEF ScanFits
  <2>4. PollTypes'
    <3>3. N \in Nat /\ iters \in Nat
      BY IndexSets, Zenon DEF PollInv, PollTypes
    <3>4. iters' = iters + 1
      BY <2>1, Zenon
    <3>1. 0 \in 0..N /\ iters' \in Nat
      BY <3>3, <3>4
    <3>2. at' \in {"scan", "fatal"}
      BY <2>1, Zenon
    <3>. QED  BY <3>1, <3>2, <2>1, Zenon DEF PollInv, PollTypes
  <2>5a. PointsFit'
    BY <1>8, <2>1, Zenon DEF PointsFit, Scans
  <2>5b. ReturnFits'
    BY <1>8, <2>1, Zenon DEF ReturnFits, Scans
  <2>6. StartFits' /\ CountFits'
    BY <1>8, <2>1, StartKept, CountKept, Zenon
  <2>. QED  BY <1>1, <1>2, <2>2, <2>3, <2>4, <2>5a, <2>5b, <2>6, Zenon DEF PollInv
<1>. QED  BY <1>1, <1>5, <1>6, <1>7, <1>8, Zenon DEF Scans
-----------------------------------------------------------------------------
(* A Start puts the command at the end of the leader's log. *)
LEMMA StartRaft ==
    ASSUME PollInv, NEW i \in Servers, Start(i), index = -1
    PROVE  /\ RaftTypes' /\ RaftFits' /\ Leading' = Leading
           /\ index' \in Nat /\ index' >= 1
           /\ term[i] \in Terms /\ startedIn' = term[i] /\ ledBy'[term[i]] = i
           /\ index' <= Len(log'[i]) /\ log'[i][index'] = Cmd
           /\ (poll = "one" /\ retry) \/ (OnlyAt(chosen, index) /\ \A j \in Servers : OnlyAt(log[j], index))
           /\ (OnlyAt(chosen, index) /\ \A j \in Servers : OnlyAt(log[j], index)) =>
                  OnlyAt(chosen', index') /\ \A j \in Servers : OnlyAt(log'[j], index')
<1>.  /\ log' = [log EXCEPT ![i] = Append(@, Cmd)] /\ index' = Len(log[i]) + 1
      /\ startedIn' = term[i] /\ leads[i]
      /\ UNCHANGED <<connected, finished, term, leads, ledBy, chosen, applied>>
  BY Zenon DEF Start
<1>1. /\ RaftTypes' /\ RaftFits'
      /\ \A j \in Servers : j # i => log'[j] = log[j]
      /\ Len(log'[i]) = Len(log[i]) + 1 /\ log'[i][Len(log[i]) + 1] = Cmd
      /\ Len(log[i]) \in Nat
      /\ \A k \in 1..Len(log[i]) : log'[i][k] = log[i][k]
  BY LongerLog, IndexSets, Zenon DEF PollInv
<1>2. Leading' = Leading
  BY LeadingKept, Zenon
<1>3. term[i] \in Terms /\ ledBy[term[i]] = i
  BY Zenon DEF PollInv, RaftTypes, RaftFits
<1>4. ASSUME OnlyAt(chosen, index), \A j \in Servers : OnlyAt(log[j], index)
      PROVE  OnlyAt(chosen, index') /\ \A j \in Servers : OnlyAt(log'[j], index')
  <2>1. OnlyAt(chosen, index') /\ \A j \in Servers : OnlyAt(log[j], index')
    <3>1. \A l \in Seq(Cmds) : OnlyAt(l, -1) => OnlyAt(l, index')
      BY DEF OnlyAt
    <3>. QED  BY <3>1, <1>4, RaftNats, Zenon DEF PollInv
  <2>2. log[i] \in Seq(Cmds) /\ log'[i] \in Seq(Cmds)
    BY <1>1, Zenon DEF PollInv, RaftTypes
  <2>3. OnlyAt(log'[i], index')
    <3>1. index' = Len(log[i]) + 1 /\ OnlyAt(log[i], index')
      BY <2>1, Zenon
    <3>. QED  BY <3>1, <2>2, <1>1, OnlyAtLonger, Zenon
  <2>. QED  BY <2>1, <2>3, <1>1, Zenon
<1>. QED  BY <1>1, <1>2, <1>3, <1>4 DEF PollInv, SubmitFits
LEMMA BeginWaitInv ==
    ASSUME PollInv, NEW i \in Servers, NEW n \in 1..N, NEW withTerm \in BOOLEAN,
           BeginWait(i, n, withTerm)
    PROVE  PollInv'
<1>.  /\ poll = "none" /\ Start(i) /\ poll' = "wait" /\ at' = "count" /\ expected' = n
      /\ startTerm' = (IF withTerm THEN term[i] ELSE -1)
      /\ si' = 0 /\ count' = 0 /\ cmd' = nil
      /\ UNCHANGED <<retry, iters, leaders, xterm, starts, result, steady>>
  BY Zenon DEF BeginWait, BeginCount
<1>1. index = -1
  BY Zenon DEF PollInv, CountFits
<1>2. /\ RaftTypes' /\ RaftFits' /\ Leading' = Leading
      /\ index' \in Nat /\ index' >= 1
      /\ term[i] \in Terms /\ startedIn' = term[i] /\ ledBy'[term[i]] = i
      /\ index' <= Len(log'[i]) /\ log'[i][index'] = Cmd
      /\ OnlyAt(chosen', index') /\ \A j \in Servers : OnlyAt(log'[j], index')
  BY <1>1, StartRaft, Zenon
<1>3. n \in Nat /\ n >= 1 /\ 0 \in 0..N /\ term[i] \in Nat /\ i # -1
  <2>1. N \in Nat /\ term[i] \in Nat /\ i # -1
    BY <1>2, IndexSets, Zenon
  <2>. QED  BY <2>1
<1>4. startTerm' \in {-1, startedIn'} /\ startTerm' \in Int
  BY <1>2, <1>3
<1>5. PollTypes'
  BY <1>2, <1>3, <1>4 DEF PollInv, PollTypes
<1>6a. PointsFit'
  BY <1>3, Zenon DEF PointsFit, Scans
<1>6b. ReturnFits'
  BY <1>3, Zenon DEF ReturnFits, Scans
<1>7. ScanFits' /\ LeaderPollExact'
  BY <1>2, ScanKept, Zenon
<1>8. CountFits'
  <2>1. AtLeast(0, Passed(applied, index, si)')
    BY AtLeastNone, Zenon
  <2>. QED  BY <2>1, <1>2 DEF CountFits, Scans
<1>9a. SubmitFits'
  BY <1>2, <1>3, <1>4, Zenon DEF SubmitFits
<1>9b. StartFits'
  BY <1>2, <1>3, <1>4, Zenon DEF StartFits
<1>. QED  BY <1>2, <1>5, <1>6a, <1>6b, <1>7, <1>8, <1>9a, <1>9b, Zenon DEF PollInv

(* nCommitted counts a server that has applied the entry. *)
LEMMA AtLeastNext ==
    ASSUME NEW S, NEW n \in Nat, AtLeast(n, S), NEW x, x \notin S
    PROVE  AtLeast(n + 1, S \cup {x})
<1>1. PICK f \in [1..n -> S] : \A a, b \in 1..n : f[a] = f[b] => a = b
  BY Zenon DEF AtLeast
<1>. DEFINE g == [a \in 1..(n + 1) |-> IF a = n + 1 THEN x ELSE f[a]]
<1>2. \A a \in 1..(n + 1) : a = n + 1 \/ a \in 1..n
  OBVIOUS
<1>3. \A a \in 1..n : a # n + 1 /\ a \in 1..(n + 1) /\ f[a] \in S
  OBVIOUS
<1>4. g \in [1..(n + 1) -> S \cup {x}]
  BY <1>2, <1>3
<1>5. ASSUME NEW a \in 1..(n + 1), NEW b \in 1..(n + 1), g[a] = g[b] PROVE a = b
  BY <1>1, <1>2, <1>3, <1>5, Zenon
<1>. QED  BY <1>4, <1>5, Zenon DEF AtLeast

LEMMA AtLeastFewer ==
    ASSUME NEW S, NEW n \in Nat, NEW m \in Nat, m <= n, AtLeast(n, S)
    PROVE  AtLeast(m, S)
<1>1. PICK f \in [1..n -> S] : \A a, b \in 1..n : f[a] = f[b] => a = b
  BY Zenon DEF AtLeast
<1>2. \A a \in 1..m : a \in 1..n
  OBVIOUS
<1>3. [a \in 1..m |-> f[a]] \in [1..m -> S]
  BY <1>2
<1>. QED  BY <1>1, <1>2, <1>3, Zenon DEF AtLeast

LEMMA PassedNext ==
    ASSUME RaftTypes, NEW k \in Int, NEW n \in Servers
    PROVE  /\ Passed(applied, k, n) \subseteq Passed(applied, k, n + 1)
           /\ n \notin Passed(applied, k, n)
           /\ applied[n] >= k => Passed(applied, k, n + 1) = Passed(applied, k, n) \cup {n}
<1>1. \A i \in Servers : i \in Nat
  BY IndexSets, Zenon
<1>. QED  BY <1>1 DEF Passed, Having

LEMMA CountNextInv ==
    ASSUME PollInv, CountNext
    PROVE  PollInv'
<1>.  /\ at \in {"count", "recount"} /\ si < N /\ si' = si + 1
      /\ UNCHANGED <<raftvars, poll, expected, startTerm, retry, startedIn, steady>>
      /\ UNCHANGED <<iters, leaders, xterm, index, starts>>
      /\ \/ applied[si] < index /\ UNCHANGED <<at, count, cmd, result>>
         \/ ~(applied[si] < index) /\ at' = "fatal" /\ UNCHANGED <<count, cmd>>
         \/ ~(applied[si] < index) /\ count' = count + 1 /\ cmd' = chosen[index] /\ UNCHANGED <<at, result>>
  BY Zenon DEF CountNext, args, Fatalf
<1>1. RaftTypes' /\ RaftFits' /\ Leading' = Leading
  BY RaftKept, Zenon
<1>2. /\ poll \in {"wait", "one"} /\ N \in Nat /\ si \in 0..N /\ count \in Nat
      /\ index \in Int /\ index >= 1
  BY IndexSets, Zenon DEF PollInv, PollTypes, PointsFit, CountFits, Scans
<1>3. si \in Servers /\ si \in Nat /\ si' \in 0..N /\ applied[si] \in Nat
  BY <1>2, RaftNats DEF PollInv, Servers
<1>4. count' \in Nat /\ at' \in {at, "fatal"}
  BY <1>2
<1>5. PollTypes'
  BY <1>3, <1>4, Zenon DEF PollInv, PollTypes
<1>6a. PointsFit'
  BY <1>2, <1>4, Zenon DEF PollInv, PointsFit, Scans
<1>6b. ReturnFits'
  BY <1>2, <1>4, Zenon DEF PollInv, ReturnFits, Scans
<1>7. ScanFits' /\ LeaderPollExact'
  BY <1>1, <1>2, ScanKept, Zenon
<1>8. SubmitFits' /\ StartFits'
  BY <1>4, SubmitKept, StartKept, Zenon
<1>9. CountFits'
  <2>0. UNCHANGED <<applied, chosen>>
    BY Zenon DEF raftvars
  <2>1. /\ AtLeast(count, Passed(applied, index, si))
        /\ count > 0 => index <= Len(chosen) /\ cmd = chosen[index]
    BY Zenon DEF PollInv, CountFits
  <2>2. /\ Passed(applied, index, si) \subseteq Passed(applied, index, si + 1)
        /\ si \notin Passed(applied, index, si)
        /\ applied[si] >= index =>
             Passed(applied, index, si + 1) = Passed(applied, index, si) \cup {si}
    BY <1>2, <1>3, PassedNext, Zenon DEF PollInv
  <2>3. AtLeast(count', Passed(applied, index, si + 1))
    <3>1. CASE count' = count
      BY <3>1, <2>1, <2>2, AtLeastMore, Zenon
    <3>2. CASE count' = count + 1 /\ ~(applied[si] < index)
      <4>1. applied[si] >= index
        BY <3>2, <1>2, <1>3
      <4>2. AtLeast(count + 1, Passed(applied, index, si) \cup {si})
        BY <1>2, <2>1, <2>2, AtLeastNext, Zenon
      <4>. QED  BY <3>2, <4>1, <4>2, <2>2, Zenon
    <3>. QED  BY <3>1, <3>2, Zenon
  <2>4. count' > 0 => index <= Len(chosen) /\ cmd' = chosen[index]
    <3>1. applied[si] <= Len(chosen) /\ Len(chosen) \in Nat
      BY <1>3, RaftNats, Zenon DEF PollInv, RaftFits
    <3>. QED  BY <3>1, <1>2, <1>3, <2>1
  <2>. QED  BY <1>2, <1>4, <2>0, <2>3, <2>4, Zenon DEF CountFits, Scans
<1>. QED  BY <1>1, <1>5, <1>6a, <1>6b, <1>7, <1>8, <1>9, Zenon DEF PollInv
(* The rest of wait. *)
LEMMA WaitCountedInv ==
    ASSUME PollInv, WaitCounted
    PROVE  PollInv'
<1>.  /\ poll = "wait" /\ at = "count" /\ si = N /\ si' = 0
      /\ at' \in {"recount", "terms", "next"} /\ (at' = "terms" => startTerm > -1)
      /\ at' = "recount" => count' = 0
      /\ count' \in {0, count}
      /\ UNCHANGED <<raftvars, poll, expected, startTerm, retry, startedIn, steady>>
      /\ UNCHANGED <<iters, leaders, xterm, index, starts, result>>
  BY Zenon DEF WaitCounted, BeginCount, args
<1>1. RaftTypes' /\ RaftFits' /\ Leading' = Leading
  BY RaftKept, Zenon
<1>2. 0 \in 0..N /\ count' \in Nat
  BY IndexSets DEF PollInv, PollTypes
<1>3. PollTypes'
  BY <1>2, Zenon DEF PollInv, PollTypes
<1>4a. PointsFit'
  BY Zenon DEF PollInv, PointsFit, Scans
<1>4b. ReturnFits'
  BY Zenon DEF PollInv, ReturnFits, Scans
<1>5. ScanFits' /\ LeaderPollExact'
  BY <1>1, ScanKept, Zenon
<1>6. startTerm > -1 => startTerm = startedIn
  BY DEF PollInv, StartFits
<1>7. SubmitFits' /\ StartFits'
  BY <1>6, SubmitKept, StartKept, Zenon
<1>8. CountFits'
  <2>1. AtLeast(0, Passed(applied, index, si)')
    BY AtLeastNone, Zenon
  <2>. QED  BY <2>1 DEF PollInv, CountFits, Scans
<1>. QED  BY <1>1, <1>3, <1>4a, <1>4b, <1>5, <1>7, <1>8, Zenon DEF PollInv

LEMMA WaitTermsInv ==
    ASSUME PollInv, WaitTerms
    PROVE  PollInv'
<1>.  /\ poll = "wait" /\ at = "terms"
      /\ \/ si = N /\ at' = "next" /\ UNCHANGED <<si, result>>
         \/ si # N /\ term[si] > startTerm /\ at' = "returned" /\ result' = MinusOne /\ UNCHANGED si
         \/ si # N /\ si' = si + 1 /\ UNCHANGED <<at, result>>
      /\ UNCHANGED <<raftvars, poll, expected, startTerm, retry, startedIn, steady>>
      /\ UNCHANGED <<iters, leaders, xterm, count, cmd, index, starts>>
  BY Zenon DEF WaitTerms, MovedOn, Return, args
<1>1. RaftTypes' /\ RaftFits' /\ Leading' = Leading
  BY RaftKept, Zenon
<1>2. N \in Nat /\ si \in 0..N /\ startTerm = startedIn
  BY IndexSets, Zenon DEF PollInv, PollTypes, StartFits
<1>3. si' \in 0..N /\ (si # N => si \in Servers)
  BY <1>2 DEF Servers
<1>4. PollTypes'
  BY <1>3, Zenon DEF PollInv, PollTypes
<1>5. PointsFit'
  BY Zenon DEF PollInv, PointsFit, Scans
<1>6. ReturnFits'
  <2>1. at' = "returned" => /\ result' = MinusOne /\ \E i \in Servers : term[i] > startedIn
    BY <1>2, <1>3, Zenon
  <2>2. UNCHANGED term
    BY Zenon DEF raftvars
  <2>. QED  BY <2>1, <2>2, Zenon DEF ReturnFits
<1>7. ScanFits' /\ LeaderPollExact'
  BY <1>1, ScanKept, Zenon
<1>8. SubmitFits' /\ StartFits' /\ CountFits'
  BY <1>2, SubmitKept, StartKept, CountKept, Zenon
<1>. QED  BY <1>1, <1>4, <1>5, <1>6, <1>7, <1>8, Zenon DEF PollInv

LEMMA WaitNextInv ==
    ASSUME PollInv, WaitNext
    PROVE  PollInv'
<1>.  /\ poll = "wait" /\ at = "next" /\ iters' = iters + 1
      /\ at' \in {"count", "recount"} /\ si' = 0 /\ count' = 0
      /\ UNCHANGED <<raftvars, poll, expected, startTerm, retry, startedIn, steady>>
      /\ UNCHANGED <<leaders, xterm, index, starts, result>>
  BY Zenon DEF WaitNext, BeginCount, args
<1>1. RaftTypes' /\ RaftFits' /\ Leading' = Leading
  BY RaftKept, Zenon
<1>2. N \in Nat /\ iters \in Nat
  BY IndexSets, Zenon DEF PollInv, PollTypes
<1>3. 0 \in 0..N /\ iters' \in Nat
  BY <1>2
<1>4. PollTypes'
  BY <1>3, Zenon DEF PollInv, PollTypes
<1>5a. PointsFit'
  BY Zenon DEF PollInv, PointsFit, Scans
<1>5b. ReturnFits'
  BY Zenon DEF PollInv, ReturnFits, Scans
<1>6. ScanFits' /\ LeaderPollExact'
  BY <1>1, ScanKept, Zenon
<1>7. SubmitFits' /\ StartFits'
  BY SubmitKept, StartKept, Zenon
<1>8. CountFits'
  <2>1. AtLeast(0, Passed(applied, index, si)')
    BY AtLeastNone, Zenon
  <2>. QED  BY <2>1 DEF PollInv, CountFits, Scans
<1>. QED  BY <1>1, <1>4, <1>5a, <1>5b, <1>6, <1>7, <1>8, Zenon DEF PollInv

(* At the end of a count, the servers counted are those with the entry. *)
LEMMA Counted ==
    ASSUME PollInv, at \in {"count", "recount"}, si = N, count >= expected
    PROVE  /\ AtLeast(expected, Having(applied, index)) /\ index \in 1..Len(chosen)
           /\ cmd = chosen[index] /\ count > 0
<1>1. poll \in {"wait", "one"} /\ expected \in Nat /\ count \in Nat /\ index \in Int
  BY Zenon DEF PollInv, PollTypes, PointsFit, Scans
<1>2. expected >= 1 /\ index >= 1
  BY <1>1, Zenon DEF PollInv, PointsFit, CountFits
<1>3. count > 0
  BY <1>1, <1>2
<1>4. AtLeast(count, Passed(applied, index, si)) /\ index <= Len(chosen) /\ cmd = chosen[index]
  BY <1>3, Zenon DEF PollInv, CountFits
<1>5. Passed(applied, index, si) = Having(applied, index)
  <2>1. \A i \in Servers : i < si
    BY NAssumption DEF Servers
  <2>. QED  BY <2>1, Zenon DEF Passed, Having
<1>7. AtLeast(expected, Having(applied, index))
  BY <1>1, <1>4, <1>5, AtLeastFewer, Zenon
<1>8. Len(chosen) \in Nat
  BY RaftNats, Zenon DEF PollInv
<1>. QED  BY <1>1, <1>2, <1>3, <1>4, <1>7, <1>8
LEMMA WaitEndsInv ==
    ASSUME PollInv, WaitEnds
    PROVE  PollInv'
<1>.  /\ poll = "wait" /\ at = "recount" /\ si = N
      /\ \/ at' = "fatal"
         \/ ~(count < expected) /\ at' = "returned" /\ result' = cmd
      /\ UNCHANGED <<raftvars, poll, expected, startTerm, retry, startedIn, steady>>
      /\ UNCHANGED <<si, iters, leaders, xterm, count, cmd, index, starts>>
  BY Zenon DEF WaitEnds, Fatalf, Return, args
<1>1. RaftTypes' /\ RaftFits' /\ Leading' = Leading
  BY RaftKept, Zenon
<1>2. PollTypes'
  BY Zenon DEF PollInv, PollTypes
<1>3. PointsFit'
  BY Zenon DEF PollInv, PointsFit, Scans
<1>4. ReturnFits'
  <2>1. count \in Nat /\ expected \in Nat
    BY Zenon DEF PollInv, PollTypes
  <2>2. at' = "returned" => /\ AtLeast(expected, Having(applied, index))
                            /\ index \in 1..Len(chosen) /\ result' = chosen[index]
    BY <2>1, Counted
  <2>3. at' = "returned" => index <= Len(chosen)
    BY <2>2, RaftNats DEF PollInv
  <2>4. UNCHANGED <<applied, chosen>>
    BY Zenon DEF raftvars
  <2>. QED  BY <2>2, <2>3, <2>4, Zenon DEF ReturnFits
<1>5. ScanFits' /\ LeaderPollExact'
  BY <1>1, ScanKept, Zenon
<1>6. SubmitFits' /\ StartFits' /\ CountFits'
  BY SubmitKept, StartKept, CountKept, Zenon
<1>. QED  BY <1>1, <1>2, <1>3, <1>4, <1>5, <1>6, Zenon DEF PollInv

(* one. *)
LEMMA BeginOneInv ==
    ASSUME PollInv, NEW n \in 1..N, NEW again \in BOOLEAN, BeginOne(n, again)
    PROVE  PollInv'
<1>.  /\ poll = "none" /\ poll' = "one" /\ expected' = n /\ retry' = again
      /\ \/ at' = "submit"
         \/ finished /\ at' = "returned" /\ result' = -1
      /\ UNCHANGED <<raftvars, startTerm, startedIn, steady>>
      /\ UNCHANGED <<si, iters, leaders, xterm, count, cmd, index, starts>>
  BY Zenon DEF BeginOne, Return
<1>1. RaftTypes' /\ RaftFits' /\ Leading' = Leading
  BY RaftKept, Zenon
<1>2. index = -1 /\ n \in Nat /\ n >= 1
  BY NAssumption DEF PollInv, CountFits
<1>3. PollTypes'
  BY <1>2, Zenon DEF PollInv, PollTypes
<1>4a. PointsFit'
  BY <1>2, Zenon DEF PointsFit, Scans
<1>4b. ReturnFits'
  BY Zenon DEF ReturnFits, raftvars
<1>4c. CountFits'
  BY <1>2, Zenon DEF CountFits, Scans
<1>4d. StartFits'
  BY <1>2, Zenon DEF StartFits, Scans
<1>5. ScanFits' /\ LeaderPollExact'
  BY <1>1, ScanKept, Zenon
<1>6. SubmitFits'
  BY Zenon DEF PollInv, SubmitFits, raftvars
<1>. QED  BY <1>1, <1>3, <1>4a, <1>4b, <1>4c, <1>4d, <1>5, <1>6, Zenon DEF PollInv

LEMMA OneTriesInv ==
    ASSUME PollInv, OneTries
    PROVE  PollInv'
<1>.  /\ poll = "one" /\ at = "submit" /\ si < N /\ starts' = (starts + 1) % N
      /\ UNCHANGED <<poll, expected, startTerm, retry, iters, leaders, xterm, result, steady>>
  BY Zenon DEF OneTries, args
<1>1. N \in Nat /\ N > 0 /\ starts \in 0..(N - 1) /\ index = -1 /\ si \in 0..N
  BY IndexSets, Zenon DEF PollInv, PollTypes, CountFits, Servers
<1>2. starts' \in Servers
  BY <1>1 DEF Servers
<1>3. CASE connected[starts'] /\ Start(starts') /\ at' = "count" /\ BeginCount
  <2>0. at' = "count" /\ si' = 0 /\ count' = 0
    BY <1>3, Zenon DEF BeginCount
  <2>1. PICK i \in Servers : i = starts' /\ Start(i)
    BY <1>2, <1>3, Zenon
  <2>2. /\ RaftTypes' /\ RaftFits' /\ Leading' = Leading
        /\ index' \in Nat /\ index' >= 1
        /\ (poll = "one" /\ retry) \/ (OnlyAt(chosen', index') /\ \A j \in Servers : OnlyAt(log'[j], index'))
    BY <2>1, <1>1, StartRaft, Zenon
  <2>3. 0 \in 0..N
    BY <1>1
  <2>4. PollTypes'
    BY <1>2, <2>0, <2>2, <2>3 DEF PollInv, PollTypes
  <2>5a. PointsFit'
    BY <2>0, Zenon DEF PollInv, PointsFit, Scans
  <2>5b. ReturnFits'
    BY <2>0, Zenon DEF PollInv, ReturnFits, Scans
  <2>5c. StartFits'
    BY <2>0, Zenon DEF PollInv, StartFits, Scans
  <2>6. ScanFits' /\ LeaderPollExact'
    BY <2>2, ScanKept, Zenon
  <2>7. CountFits'
    <3>1. AtLeast(0, Passed(applied, index, si)')
      BY AtLeastNone, Zenon
    <3>. QED  BY <3>1, <2>0, <2>2 DEF CountFits, Scans
  <2>8. SubmitFits'
    BY <2>2, Zenon DEF SubmitFits
  <2>. QED  BY <2>2, <2>4, <2>5a, <2>5b, <2>5c, <2>6, <2>7, <2>8, Zenon DEF PollInv
<1>4. CASE si' = si + 1 /\ UNCHANGED <<raftvars, at, count, cmd, index, startedIn>>
  <2>1. RaftTypes' /\ RaftFits' /\ Leading' = Leading
    BY <1>4, RaftKept, Zenon
  <2>2. si' \in 0..N
    BY <1>1, <1>4
  <2>3. PollTypes'
    BY <1>2, <1>4, <2>2, Zenon DEF PollInv, PollTypes
  <2>4a. PointsFit'
    BY <1>4, Zenon DEF PollInv, PointsFit, Scans
  <2>4b. ReturnFits'
    BY <1>4, Zenon DEF PollInv, ReturnFits, Scans
  <2>5. ScanFits' /\ LeaderPollExact'
    BY <2>1, ScanKept, Zenon
  <2>6. SubmitFits' /\ StartFits' /\ CountFits'
    BY <1>1, <1>4, SubmitKept, StartKept, CountKept, Zenon
  <2>. QED  BY <2>1, <2>3, <2>4a, <2>4b, <2>5, <2>6, Zenon DEF PollInv
<1>. QED  BY <1>3, <1>4, Zenon DEF OneTries

(* The end of an attempt: another one, with retry or if nothing was        *)
(* submitted, or the end of the test.                                      *)
LEMMA NextRoundInv ==
    ASSUME PollInv, poll = "one", at \in {"submit", "count"},
           \/ /\ at' = "submit" /\ si' = 0 /\ index' = -1 /\ iters' = iters + 1
              /\ at = "count" => retry = TRUE
           \/ /\ at' = "fatal" \/ (finished /\ at' = "returned" /\ result' = -1)
              /\ iters' = iters /\ si' = si /\ index' = index,
           UNCHANGED <<raftvars, poll, args, leaders, xterm, count, cmd, starts, startedIn, steady>>
    PROVE  PollInv'
<1>.  /\ UNCHANGED <<raftvars, poll, expected, startTerm, retry, startedIn, steady>>
      /\ UNCHANGED <<leaders, xterm, count, cmd, starts>>
  BY Zenon DEF args
<1>1. RaftTypes' /\ RaftFits' /\ Leading' = Leading
  BY RaftKept, Zenon
<1>2. N \in Nat /\ iters \in Nat /\ si \in 0..N /\ index \in Int
  BY IndexSets, Zenon DEF PollInv, PollTypes
<1>3. iters' \in Nat /\ si' \in 0..N /\ index' \in Int
  BY <1>2
<1>4. PollTypes'
  BY <1>3, Zenon DEF PollInv, PollTypes
<1>5a. PointsFit'
  BY Zenon DEF PollInv, PointsFit, Scans
<1>5b. ReturnFits'
  <2>1. at' = "returned" => finished /\ result' = -1
    OBVIOUS
  <2>2. poll' = "one" /\ finished' = finished
    BY Zenon DEF raftvars
  <2>. QED  BY <2>1, <2>2, Zenon DEF ReturnFits
<1>6. ScanFits' /\ LeaderPollExact'
  BY <1>1, ScanKept, Zenon
<1>7a. StartFits'
  BY Zenon DEF PollInv, StartFits, Scans
<1>7b. CountFits'
  BY Zenon DEF PollInv, CountFits, Scans
<1>8. SubmitFits'
  <2>1. CASE index' = index
    BY <2>1, SubmitKept, Zenon
  <2>2. CASE index' # index /\ retry
    BY <2>2, Zenon DEF SubmitFits
  <2>3. CASE index' # index /\ ~retry
    BY <2>3, Zenon DEF PollInv, CountFits
  <2>. QED  BY <2>1, <2>2, <2>3, Zenon
<1>. QED  BY <1>1, <1>4, <1>5a, <1>5b, <1>6, <1>7a, <1>7b, <1>8, Zenon DEF PollInv
LEMMA OneCountedInv ==
    ASSUME PollInv, OneCounted
    PROVE  PollInv'
<1>.  /\ poll = "one" /\ at = "count" /\ si = N
      /\ \/ OneAgreed /\ at' = "returned" /\ result' = index /\ UNCHANGED <<si, count>>
         \/ si' = 0 /\ count' = 0 /\ UNCHANGED at
      /\ UNCHANGED <<raftvars, poll, expected, startTerm, retry, startedIn, steady>>
      /\ UNCHANGED <<iters, leaders, xterm, index, starts>>
  BY Zenon DEF OneCounted, Return, BeginCount, args
<1>1. RaftTypes' /\ RaftFits' /\ Leading' = Leading
  BY RaftKept, Zenon
<1>2. N \in Nat /\ si \in 0..N /\ count \in Nat /\ expected \in Nat
  BY IndexSets, Zenon DEF PollInv, PollTypes
<1>3. si' \in 0..N /\ count' \in Nat
  BY <1>2
<1>4. PollTypes'
  BY <1>3, Zenon DEF PollInv, PollTypes
<1>5. PointsFit'
  BY Zenon DEF PollInv, PointsFit, Scans
<1>6. ReturnFits'
  <2>1. at' = "returned" => result' = index /\ OneFits(index)
    BY <1>2, Counted, Zenon DEF OneAgreed, OneFits
  <2>2. UNCHANGED <<applied, chosen>>
    BY Zenon DEF raftvars
  <2>. QED  BY <2>1, <2>2, Zenon DEF ReturnFits, OneFits
<1>7. ScanFits' /\ LeaderPollExact'
  BY <1>1, ScanKept, Zenon
<1>8. SubmitFits' /\ StartFits'
  BY SubmitKept, StartKept, Zenon
<1>9. CountFits'
  <2>1. AtLeast(0, Passed(applied, index, si)')
    BY AtLeastNone, Zenon
  <2>. QED  BY <2>1 DEF PollInv, CountFits, Scans
<1>. QED  BY <1>1, <1>4, <1>5, <1>6, <1>7, <1>8, <1>9, Zenon DEF PollInv

LEMMA OneEndsInv ==
    ASSUME PollInv, OneFoundNoLeader \/ OneTimesOut
    PROVE  PollInv'
<1>1. retry => retry = TRUE
  BY Zenon DEF PollInv, PollTypes
<1>. QED  BY <1>1, NextRoundInv, Zenon DEF OneFoundNoLeader, OneTimesOut, NextRound, Fatalf, Return
-----------------------------------------------------------------------------
LEMMA InitPollInv ==
    ASSUME Init
    PROVE  PollInv
<1>. USE DEF Init
<1>1. RaftTypes
  <2>1. (-1) \in (-1)..(N - 1) /\ 0 \in Terms /\ <<>> \in Seq(Cmds)
    BY NAssumption, BoundsAssumption DEF Terms
  <2>. QED  BY <2>1, Zenon DEF RaftTypes
<1>2. PollTypes
  <2>1. 0 \in 0..N /\ 0 \in Servers
    BY NAssumption DEF Servers
  <2>2. leaders \in [Terms -> SUBSET Servers]
    OBVIOUS
  <2>3. poll \in Scans \cup {"none", "wait", "one"} /\ at = "idle"
    OBVIOUS
  <2>4. si = 0 /\ iters = 0 /\ starts = 0 /\ count = 0 /\ expected = 0 /\ retry = FALSE
    OBVIOUS
  <2>5. index \in Int /\ startTerm \in Int
    OBVIOUS
  <2>. HIDE DEF Init
  <2>. QED  BY <2>1, <2>2, <2>3, <2>4, <2>5 DEF PollTypes
<1>3. RaftFits
  <2>1. 0 \in Terms /\ Newest(0)
    BY BoundsAssumption DEF Newest, Terms
  <2>. QED  BY <2>1 DEF RaftFits
<1>4. PointsFit /\ ScanFits /\ CountFits /\ StartFits /\ ReturnFits /\ LeaderPollExact
  <2>1. \A t \in Terms : leaders[t] = {}
    OBVIOUS
  <2>2. ScanFits
    BY <2>1 DEF ScanFits
  <2>. QED  BY <2>2, Zenon DEF PointsFit, CountFits, StartFits, ReturnFits, LeaderPollExact, Scans
<1>5. SubmitFits
  BY DEF SubmitFits, OnlyAt
<1>. QED  BY <1>1, <1>2, <1>3, <1>4, <1>5, Zenon DEF PollInv

LEMMA NextPollInv ==
    ASSUME PollInv, [Next]_vars
    PROVE  PollInv'
<1>1. CASE RaftStep
  BY <1>1, ElectedInv, LaterTermInv, OtherStartInv, CommitInv, ApplyInv, Zenon DEF RaftStep
<1>9. CASE cleanup
  BY <1>9, CleanupInv, Zenon
<1>2. CASE \E p \in {"checkOneLeader", "checkTerms", "checkNoLeader"} : BeginScan(p)
  BY <1>2, BeginScanInv, Zenon DEF Scans
<1>3. CASE \E i \in Servers, n \in 1..N, withTerm \in BOOLEAN : BeginWait(i, n, withTerm)
  BY <1>3, BeginWaitInv, Zenon
<1>4. CASE \E n \in 1..N, again \in BOOLEAN : BeginOne(n, again)
  BY <1>4, BeginOneInv, Zenon
<1>5. CASE LeaderSeen \/ TermSeen \/ NoLeaderSeen \/ ScanEnds
  BY <1>5, LeaderSeenInv, OtherScansInv, ScanEndsInv, Zenon
<1>6. CASE CountNext \/ WaitCounted \/ WaitTerms \/ WaitNext \/ WaitEnds
  BY <1>6, CountNextInv, WaitCountedInv, WaitTermsInv, WaitNextInv, WaitEndsInv, Zenon
<1>7. CASE OneTries \/ OneFoundNoLeader \/ OneCounted \/ OneTimesOut
  BY <1>7, OneTriesInv, OneEndsInv, OneCountedInv, Zenon
<1>8. CASE UNCHANGED vars
  <2>1. UNCHANGED <<raftvars, pollvars, startedIn, steady>>
    BY <1>8, Zenon DEF vars
  <2>2. RaftGrows /\ RaftTypes' /\ RaftFits' /\ Leading' = Leading
    <3>1. UNCHANGED <<connected, finished, term, ledBy, chosen, applied>>
      BY <2>1, Zenon DEF raftvars
    <3>. QED  BY <3>1, <2>1, RaftKept, RaftNats DEF RaftGrows, PollInv
  <2>3. PollTypes' /\ PointsFit' /\ ScanFits' /\ CountFits' /\ ReturnFits' /\ LeaderPollExact'
    BY <2>1, <2>2, SeenStaysTrue, Zenon DEF PollInv, ScanFits
  <2>4. UNCHANGED <<poll, retry, index, startTerm, at>>
    BY <2>1, Zenon DEF pollvars, args, locals
  <2>5. poll' = "wait" => poll = "wait" /\ (at' = "terms" => startTerm = startedIn)
    BY <2>4, Zenon DEF PollInv, StartFits
  <2>6. SubmitFits' /\ StartFits'
    BY <2>1, <2>4, <2>5, SubmitKept, StartKept, Zenon
  <2>. QED  BY <2>2, <2>3, <2>6, Zenon DEF PollInv
<1>. QED  BY <1>1, <1>2, <1>3, <1>4, <1>5, <1>6, <1>7, <1>8, <1>9, Zenon DEF Next

(* The inductive invariant holds throughout. *)
THEOREM PollInvariant == Spec => []PollInv
BY InitPollInv, NextPollInv, PTL DEF Spec

(* checkOneLeader (config.go:421-456) never reports two leaders of a term, *)
(* and returns a connected server that led the last term it saw a leader   *)
(* in, with no connected leader of a later term since its scan began.      *)
THEOREM LeaderPollIsExact == Spec => []LeaderPollExact
<1>1. PollInv => LeaderPollExact
  BY Zenon DEF PollInv
<1>. QED  BY <1>1, PollInvariant, PTL

-----------------------------------------------------------------------------
(* From here on with cardinalities. *)
INSTANCE FiniteSetTheorems

LEMMA AtLeastHolders ==
    ASSUME NEW k, NEW n \in Nat, AtLeast(n, Having(applied, k))
    PROVE  Cardinality(Holders(k)) >= n
<1>1. Holders(k) = Having(applied, k) /\ Having(applied, k) \subseteq 0..(N - 1)
  BY Zenon DEF Holders, Having, Servers
<1>2. IsFiniteSet(0..(N - 1)) /\ IsFiniteSet(1..n) /\ Cardinality(1..n) = n
  BY NAssumption, FS_Interval
<1>3. IsFiniteSet(Having(applied, k)) /\ Cardinality(Having(applied, k)) \in Nat
  BY <1>1, <1>2, FS_Subset, FS_CardinalityType, Zenon
<1>4. PICK f \in [1..n -> Having(applied, k)] : \A a, b \in 1..n : f[a] = f[b] => a = b
  BY Zenon DEF AtLeast
<1>5. ~(Cardinality(Having(applied, k)) < Cardinality(1..n))
  BY <1>2, <1>3, <1>4, FS_PigeonHole
<1>. QED  BY <1>1, <1>2, <1>3, <1>5

(* The index that one (config.go:543-604) returns holds its command, which *)
(* as many servers as were asked for have applied; it returns -1 in its    *)
(* place only when cleanup has begun.                                      *)
THEOREM OneReturnsCommitted == Spec => []OneCommitted
<1>1. PollInv => OneCommitted
  <2>. SUFFICES ASSUME PollInv, poll = "one", at = "returned" PROVE OneCommitted
    BY Zenon DEF OneCommitted
  <2>1. CASE result = -1 /\ finished
    BY <2>1, Zenon DEF OneCommitted
  <2>2. CASE OneFits(result)
    <3>1. /\ chosen[result] = Cmd /\ AtLeast(expected, Having(applied, result))
          /\ expected \in Nat /\ result \in 1..Len(chosen)
      BY <2>2, Zenon DEF PollInv, OneFits, PollTypes
    <3>2. result # -1
      BY <3>1
    <3>. QED  BY <3>1, <3>2, AtLeastHolders, Zenon DEF OneCommitted
  <2>. QED  BY <2>1, <2>2, Zenon DEF PollInv, ReturnFits
<1>. QED  BY <1>1, PollInvariant, PTL

(* Without retry the command of one is committed at most once, however     *)
(* many rounds it takes to find a leader (config.go:553-554).              *)
THEOREM OneSubmitsOnce == Spec => []SubmittedOnce
<1>1. PollInv => SubmittedOnce
  <2>. SUFFICES ASSUME PollInv, poll = "one", ~retry
                PROVE  Cardinality({k \in DOMAIN chosen : chosen[k] = Cmd}) <= 1
    BY Zenon DEF SubmittedOnce
  <2>1. OnlyAt(chosen, index) /\ chosen \in Seq(Cmds)
    BY Zenon DEF PollInv, SubmitFits, RaftTypes
  <2>2. {k \in DOMAIN chosen : chosen[k] = Cmd} \subseteq {index}
    BY <2>1 DEF OnlyAt
  <2>3. IsFiniteSet({index}) /\ Cardinality({index}) = 1
    BY FS_Singleton, Zenon
  <2>4. Cardinality({k \in DOMAIN chosen : chosen[k] = Cmd}) <= Cardinality({index})
    BY <2>2, <2>3, FS_Subset, Zenon
  <2>. QED  BY <2>3, <2>4, Zenon
<1>. QED  BY <1>1, PollInvariant, PTL

(* wait (config.go:512-541) gives up only when a server has left the term  *)
(* of the Start, and otherwise returns what n servers have applied: the    *)
(* command of the Start, unless a later term has had a leader.             *)
THEOREM WaitIsExact == Spec => []WaitExact
<1>2. PollInv => WaitExact
  <2>. SUFFICES ASSUME PollInv, poll = "wait", at = "returned" PROVE WaitExact
    BY Zenon DEF WaitExact
  <2>1. CASE result = MinusOne /\ \E i \in Servers : term[i] > startedIn
    BY <2>1 DEF WaitExact
  <2>2. CASE /\ index <= Len(chosen) /\ result = chosen[index]
             /\ AtLeast(expected, Having(applied, index))
    <3>1. /\ expected \in Nat /\ index \in Int /\ index >= 1 /\ Len(chosen) \in Nat
          /\ chosen \in Seq(Cmds)
      BY RaftNats DEF PollInv, PollTypes, CountFits
    <3>2. chosen[index] \in Cmds
      BY <3>1, <2>2
    <3>3. result # MinusOne
      BY <3>2, <2>2, Zenon DEF Cmds, Cmd, Other, MinusOne
    <3>5. Cardinality(Holders(index)) >= expected
      BY <2>2, <3>1, AtLeastHolders
    <3>6. ASSUME result # Cmd PROVE NewestTerm > startedIn
      <4>1. PICK t \in Terms : Newest(t)
        BY Zenon DEF PollInv, RaftFits
      <4>2. NewestTerm = t
        BY <4>1, NewestUnique, Zenon DEF PollInv
      <4>3. startedIn \in Terms /\ ledBy[startedIn] # -1
        BY Zenon DEF PollInv, StartFits
      <4>4. t # startedIn
        <5>1. ASSUME t = startedIn PROVE FALSE
          <6>1. Newest(startedIn)
            BY <5>1, <4>1, Zenon
          <6>2. log[ledBy[startedIn]][index] = Cmd /\ Agrees(chosen, log[ledBy[startedIn]])
            BY <6>1, <4>3, Zenon DEF PollInv, StartFits, RaftFits
          <6>3. index \in 1..Len(chosen)
            BY <3>1, <2>2
          <6>4. chosen[index] = Cmd
            BY <6>2, <6>3, Zenon DEF Agrees
          <6>. QED  BY <6>4, <3>6, <2>2, Zenon
        <5>. QED  BY <5>1
      <4>5. t \in Nat /\ startedIn \in Nat
        BY <4>1, <4>3, IndexSets, Zenon
      <4>6. ~(startedIn > t)
        BY <4>1, <4>3, Zenon DEF Newest
      <4>. QED  BY <4>2, <4>4, <4>5, <4>6
    <3>. QED  BY <3>3, <3>5, <3>6, <2>2, Zenon DEF WaitExact
  <2>. QED  BY <2>1, <2>2, Zenon DEF PollInv, ReturnFits
<1>. QED  BY <1>2, PollInvariant, PTL
=============================================================================
