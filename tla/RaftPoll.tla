------------------------------ MODULE RaftPoll ------------------------------
(***************************************************************************)
(* The functions of raft/config.go with which a test polls a Raft and asks *)
(* it for an agreement: checkOneLeader, checkTerms, checkNoLeader, wait    *)
(* and one, with nCommitted.  They look at one server at a time, while     *)
(* terms and leaders change and entries are committed.                     *)
(*                                                                         *)
(* Raft has no code in the repository; the one here is correct: a term has *)
(* at most one leader, a leader has every committed entry, and servers     *)
(* apply what is committed in order.  A test connects and crashes servers  *)
(* between its polls, never during one, so connected does not change.      *)
(* Names with an underscore and a suffix are mutated forms.                *)
(***************************************************************************)
EXTENDS Integers, FiniteSets, Sequences

CONSTANTS N,          \* cfg.n
          MaxTerm,    \* bound on the terms
          MaxLog,     \* bound on the entries of a log
          MaxIters,   \* iterations of the polling loops: 10 and 30 in the code
          MaxRounds   \* iterations of the loop of one, which runs for 10 s

ASSUME NAssumption == N \in Nat \ {0}
ASSUME BoundsAssumption == {MaxTerm, MaxLog, MaxIters, MaxRounds} \subseteq Nat

Servers == 0..(N - 1)
Terms == 0..MaxTerm
Cmd == "cmd"      \* the command of the test that polls
Other == "other"  \* any other command

VARIABLES connected,  \* cfg.connected
          finished,   \* cfg.finished: cleanup has begun
          term, leads,  \* what GetState returns for each server
          ledBy,      \* the leader of each term, -1: none (part of Raft)
          log,        \* the log of each server while it leads
          chosen,     \* the entries that are committed
          applied,    \* cfg.logs[i] holds the first applied[i] of them
          poll,       \* the function that runs, or "none"
          at,         \* where it is
          si,         \* the server it looks at next
          iters,      \* iterations of its outer loop
          leaders,    \* checkOneLeader: the leaders of each term
          xterm,      \* checkTerms: the term seen first
          count, cmd, \* nCommitted: its results so far
          index, expected, startTerm, retry,  \* arguments and locals of wait and one
          starts,     \* one: the server it called Start of last
          result,     \* what the function returned
          startedIn,  \* the term of the last Start (history, read by no action)
          steady      \* the connected servers that lead since the scan began,
                      \* with their terms (history, read by no action)

raftvars == <<connected, finished, term, leads, ledBy, log, chosen, applied>>
args == <<expected, startTerm, retry>>
locals == <<si, iters, leaders, xterm, count, cmd, index, starts, result>>
pollvars == <<poll, at, args, locals>>
vars == <<raftvars, pollvars, startedIn, steady>>

nil == "nil"
MinusOne == "-1"

Init ==
    /\ connected \in [Servers -> BOOLEAN] /\ finished = FALSE
    /\ term = [i \in Servers |-> 0] /\ leads = [i \in Servers |-> FALSE]
    /\ ledBy = [t \in Terms |-> -1]
    /\ log = [i \in Servers |-> <<>>] /\ chosen = <<>>
    /\ applied = [i \in Servers |-> 0]
    /\ poll = "none" /\ at = "idle"
    /\ si = 0 /\ iters = 0 /\ leaders = [t \in Terms |-> {}] /\ xterm = -1
    /\ count = 0 /\ cmd = nil
    /\ index = -1 /\ expected = 0 /\ startTerm = -1 /\ retry = FALSE
    /\ starts = 0 /\ result = nil
    /\ startedIn = 0 /\ steady = {}
-----------------------------------------------------------------------------
(* Raft. *)
Leading == {<<i, term[i]>> : i \in {j \in Servers : connected[j] /\ leads[j]}}

StillSteady == steady' = steady \cap Leading'

NewestTerm == CHOOSE t \in Terms : /\ t = 0 \/ ledBy[t] # -1
                                   /\ \A u \in Terms : u > t => ledBy[u] = -1

(* The logs a new leader may have: all that is committed, and what it may  *)
(* have received of an earlier leader's.                                   *)
IsPrefix(s, l) == Len(s) <= Len(l) /\ SubSeq(l, 1, Len(s)) = s

Electable == LET received == UNION {{SubSeq(log[j], 1, n) : n \in 0..Len(log[j])} : j \in Servers}
             IN {l \in {chosen} \cup received : IsPrefix(chosen, l)}

Elected(i, t) ==
    /\ t > term[i] /\ t > NewestTerm
    /\ term' = [term EXCEPT ![i] = t]
    /\ leads' = [leads EXCEPT ![i] = TRUE]
    /\ ledBy' = [ledBy EXCEPT ![t] = i]
    /\ \E l \in Electable : log' = [log EXCEPT ![i] = l]
    /\ UNCHANGED <<connected, finished, chosen, applied, pollvars, startedIn>>
    /\ StillSteady

(* A server that hears of a later term, or stands for election in it. *)
LaterTerm(i, t) ==
    /\ t > term[i]
    /\ term' = [term EXCEPT ![i] = t]
    /\ leads' = [leads EXCEPT ![i] = FALSE]
    /\ UNCHANGED <<connected, finished, ledBy, log, chosen, applied, pollvars, startedIn>>
    /\ StillSteady

(* Another goroutine of the test calls Start, or did so earlier. *)
OtherStart(i) ==
    /\ leads[i] /\ Len(log[i]) < MaxLog
    /\ log' = [log EXCEPT ![i] = Append(@, Other)]
    /\ UNCHANGED <<connected, finished, term, leads, ledBy, chosen, applied, pollvars, startedIn, steady>>

Commit(i) ==
    /\ leads[i] /\ term[i] = NewestTerm /\ Len(chosen) < Len(log[i])
    /\ chosen' = Append(chosen, log[i][Len(chosen) + 1])
    /\ UNCHANGED <<connected, finished, term, leads, ledBy, log, applied, pollvars, startedIn, steady>>

Apply(i) ==
    /\ applied[i] < Len(chosen)
    /\ applied' = [applied EXCEPT ![i] = @ + 1]
    /\ UNCHANGED <<connected, finished, term, leads, ledBy, log, chosen, pollvars, startedIn, steady>>

(* The test's own goroutine returns or fails, which runs cleanup.  Other   *)
(* goroutines of the test may be in one, or still to call it; the other    *)
(* polls are only called by the test's own.                                *)
cleanup ==
    /\ poll \in {"none", "one"} /\ ~finished
    /\ finished' = TRUE
    /\ UNCHANGED <<connected, term, leads, ledBy, log, chosen, applied, pollvars, startedIn, steady>>

RaftStep == \E i \in Servers : \/ \E t \in Terms : Elected(i, t) \/ LaterTerm(i, t)
                               \/ OtherStart(i) \/ Commit(i) \/ Apply(i)
-----------------------------------------------------------------------------
Return(value) == at' = "returned" /\ result' = value

Fatalf(why) == at' = "fatal" /\ result' = why

(* checkOneLeader, checkTerms and checkNoLeader ask one connected server   *)
(* after the other for its state.                                          *)
BeginScan(p) ==
    /\ poll = "none" /\ ~finished
    /\ poll' = p /\ at' = "scan"
    /\ steady' = Leading
    /\ UNCHANGED <<raftvars, args, locals, startedIn>>

Scan(p) == /\ poll = p /\ at = "scan" /\ si < N
           /\ si' = si + 1
           /\ UNCHANGED <<raftvars, poll, args, iters, count, cmd, index, starts, startedIn, steady>>

LeaderSeen ==
    /\ Scan("checkOneLeader")
    /\ leaders' = [leaders EXCEPT ![term[si]] =
                       IF connected[si] /\ leads[si] THEN @ \cup {si} ELSE @]
    /\ UNCHANGED <<at, xterm, result>>

TermSeen ==
    /\ Scan("checkTerms")
    /\ xterm' = IF connected[si] /\ xterm = -1 THEN term[si] ELSE xterm
    /\ IF connected[si] /\ xterm \notin {-1, term[si]}
       THEN Fatalf("servers disagree on term") ELSE UNCHANGED <<at, result>>
    /\ UNCHANGED leaders

NoLeaderSeen ==
    /\ Scan("checkNoLeader")
    /\ IF connected[si] /\ leads[si]
       THEN Fatalf("expected no leader") ELSE UNCHANGED <<at, result>>
    /\ UNCHANGED <<leaders, xterm>>

(* The end of a scan.  checkOneLeader returns the leader of the last term  *)
(* it has seen one in, or tries again.                                     *)
lastTermWithLeader_First ==
    CHOOSE t \in Terms : leaders[t] # {} /\ \A u \in Terms : leaders[u] # {} => t <= u

lastTermWithLeader ==
    CHOOSE t \in Terms : leaders[t] # {} /\ \A u \in Terms : leaders[u] # {} => t >= u

ScanEnds ==
    /\ at = "scan" /\ si = N
    /\ CASE poll = "checkTerms" -> Return(xterm) /\ UNCHANGED <<si, iters, steady>>
         [] poll = "checkNoLeader" -> Return(nil) /\ UNCHANGED <<si, iters, steady>>
         [] poll = "checkOneLeader" ->
              IF \E t \in Terms : \E i, j \in leaders[t] : i # j
              THEN Fatalf("more than one leader") /\ UNCHANGED <<si, iters, steady>>
              ELSE IF \E t \in Terms : leaders[t] # {}
              THEN /\ Return(CHOOSE i \in leaders[lastTermWithLeader] : TRUE)
                   /\ UNCHANGED <<si, iters, steady>>
              ELSE /\ iters' = iters + 1
                   /\ si' = 0
                   /\ steady' = Leading
                   /\ IF iters' < MaxIters THEN UNCHANGED <<at, result>>
                      ELSE Fatalf("expected one leader, got none")
    /\ UNCHANGED <<raftvars, poll, args, leaders, xterm, count, cmd, index, starts, startedIn>>
-----------------------------------------------------------------------------
(* nCommitted looks at the log of one server after the other. *)
BeginCount == si' = 0 /\ count' = 0 /\ cmd' = nil

CountNext ==
    /\ at \in {"count", "recount"} /\ si < N
    /\ si' = si + 1
    /\ IF applied[si] < index
       THEN UNCHANGED <<at, count, cmd, result>>
       ELSE IF count > 0 /\ cmd # chosen[index]
       THEN Fatalf("committed values do not match") /\ UNCHANGED <<count, cmd>>
       ELSE /\ count' = count + 1
            /\ cmd' = chosen[index]
            /\ UNCHANGED <<at, result>>
    /\ UNCHANGED <<raftvars, poll, args, iters, leaders, xterm, index, starts, startedIn, steady>>

Start(i) == /\ leads[i] /\ Len(log[i]) < MaxLog
            /\ log' = [log EXCEPT ![i] = Append(@, Cmd)]
            /\ index' = Len(log[i]) + 1
            /\ startedIn' = term[i]
            /\ UNCHANGED <<connected, finished, term, leads, ledBy, chosen, applied>>

(* A test calls Start of a leader and waits for n servers to commit the    *)
(* entry, with the term of the Start or without one.                       *)
BeginWait(i, n, withTerm) ==
    /\ poll = "none" /\ ~finished /\ Start(i)
    /\ poll' = "wait" /\ at' = "count"
    /\ expected' = n
    /\ startTerm' = IF withTerm THEN term[i] ELSE -1
    /\ BeginCount
    /\ UNCHANGED <<retry, iters, leaders, xterm, starts, result, steady>>

(* After nCommitted: enough, or a look at the terms. *)
WaitCounted ==
    /\ poll = "wait" /\ at = "count" /\ si = N
    /\ at' = IF count >= expected THEN "recount"
             ELSE IF startTerm > -1 THEN "terms" ELSE "next"
    /\ IF count >= expected THEN BeginCount ELSE si' = 0 /\ UNCHANGED <<count, cmd>>
    /\ UNCHANGED <<raftvars, poll, args, iters, leaders, xterm, index, starts, result, startedIn, steady>>

(* Every Raft is asked, connected or not: "someone has moved on". *)
MovedOn_SameTerm(i) == term[i] >= startTerm

MovedOn(i) == term[i] > startTerm

WaitTerms ==
    /\ poll = "wait" /\ at = "terms"
    /\ IF si = N THEN at' = "next" /\ UNCHANGED <<si, result>>
       ELSE IF MovedOn(si) THEN Return(MinusOne) /\ UNCHANGED si
       ELSE si' = si + 1 /\ UNCHANGED <<at, result>>
    /\ UNCHANGED <<raftvars, poll, args, iters, leaders, xterm, count, cmd, index, starts, startedIn, steady>>

WaitNext ==
    /\ poll = "wait" /\ at = "next"
    /\ iters' = iters + 1
    /\ at' = IF iters' < MaxIters THEN "count" ELSE "recount"
    /\ BeginCount
    /\ UNCHANGED <<raftvars, poll, args, leaders, xterm, index, starts, result, startedIn, steady>>

WaitEnds ==
    /\ poll = "wait" /\ at = "recount" /\ si = N
    /\ IF count < expected THEN Fatalf("not enough decided") ELSE Return(cmd)
    /\ UNCHANGED <<raftvars, poll, args, si, iters, leaders, xterm, count, cmd, index, starts, startedIn, steady>>
-----------------------------------------------------------------------------
(* one tries the servers in turn until a leader takes the command, waits   *)
(* for agreement on it, and tries again, unless cleanup has begun.         *)
BeginOne(n, again) ==
    /\ poll = "none"
    /\ poll' = "one"
    /\ IF finished THEN Return(-1) ELSE at' = "submit" /\ UNCHANGED result
    /\ expected' = n /\ retry' = again
    /\ UNCHANGED <<raftvars, startTerm, si, iters, leaders, xterm, count, cmd, index, starts,
                   startedIn, steady>>

OneTries ==
    /\ poll = "one" /\ at = "submit" /\ si < N
    /\ starts' = (starts + 1) % N
    /\ \/ /\ connected[starts'] /\ Start(starts')
          /\ at' = "count"
          /\ BeginCount
       \/ /\ ~connected[starts'] \/ ~leads[starts']
          /\ si' = si + 1
          /\ UNCHANGED <<raftvars, at, count, cmd, index, startedIn>>
    /\ UNCHANGED <<poll, args, iters, leaders, xterm, result, steady>>

(* The next iteration, unless the ten seconds are over or cleanup has      *)
(* begun; in the second case one gives up silently.                        *)
NextRound ==
    \/ /\ ~finished /\ iters + 1 < MaxRounds
       /\ iters' = iters + 1
       /\ at' = "submit" /\ si' = 0 /\ index' = -1
       /\ UNCHANGED result
    \/ /\ IF finished THEN Return(-1) ELSE Fatalf("failed to reach agreement")
       /\ UNCHANGED <<iters, si, index>>

OneFoundNoLeader ==
    /\ poll = "one" /\ at = "submit" /\ si = N
    /\ NextRound
    /\ UNCHANGED <<raftvars, poll, args, leaders, xterm, count, cmd, starts, startedIn, steady>>

OneAgreed_AnyCommand == count > 0 /\ count >= expected

OneAgreed == count > 0 /\ count >= expected /\ cmd = Cmd

OneCounted ==
    /\ poll = "one" /\ at = "count" /\ si = N
    /\ IF OneAgreed THEN Return(index) /\ UNCHANGED <<si, count, cmd>>
       ELSE BeginCount /\ UNCHANGED <<at, result>>
    /\ UNCHANGED <<raftvars, poll, args, iters, leaders, xterm, index, starts, startedIn, steady>>

(* Two seconds without agreement. *)
OneTimesOut_AlwaysRetries ==
    /\ poll = "one" /\ at = "count" /\ si = N /\ ~OneAgreed
    /\ NextRound
    /\ UNCHANGED <<raftvars, poll, args, leaders, xterm, count, cmd, starts, startedIn, steady>>

OneTimesOut ==
    /\ poll = "one" /\ at = "count" /\ si = N /\ ~OneAgreed
    /\ IF retry THEN NextRound
       ELSE Fatalf("failed to reach agreement") /\ UNCHANGED <<iters, si, index>>
    /\ UNCHANGED <<raftvars, poll, args, leaders, xterm, count, cmd, starts, startedIn, steady>>
-----------------------------------------------------------------------------
Next == \/ RaftStep \/ cleanup
        \/ \E p \in {"checkOneLeader", "checkTerms", "checkNoLeader"} : BeginScan(p)
        \/ LeaderSeen \/ TermSeen \/ NoLeaderSeen \/ ScanEnds
        \/ \E i \in Servers, n \in 1..N, withTerm \in BOOLEAN : BeginWait(i, n, withTerm)
        \/ CountNext \/ WaitCounted \/ WaitTerms \/ WaitNext \/ WaitEnds
        \/ \E n \in 1..N, again \in BOOLEAN : BeginOne(n, again)
        \/ OneTries \/ OneFoundNoLeader \/ OneCounted \/ OneTimesOut

Spec == Init /\ [][Next]_vars
-----------------------------------------------------------------------------
Holders(k) == {i \in Servers : applied[i] >= k}

(* checkOneLeader (config.go:421-456) never finds two leaders of one term, *)
(* though it asks the servers one by one while they are elected and step   *)
(* down, and returns the leader of a term: a connected server, and no      *)
(* connected server has led a later term since the scan began.             *)
LeaderPollExact ==
    poll = "checkOneLeader" =>
        /\ at = "fatal" => result # "more than one leader"
        /\ at = "returned" => /\ connected[result]
                              /\ ledBy[lastTermWithLeader] = result
                              /\ \A l \in steady : l[2] <= lastTermWithLeader

(* The index that one returns (config.go:543-604) is that of its command:  *)
(* the command is committed there, by as many servers as were asked for,   *)
(* whatever became of the leaders that took it.  It returns -1 only when   *)
(* cleanup has begun, never because agreement was not reached.             *)
OneCommitted ==
    poll = "one" /\ at = "returned" =>
        IF result = -1 THEN finished
        ELSE chosen[result] = Cmd /\ Cardinality(Holders(result)) >= expected

(* Without retry the command is submitted once (config.go:553-554): it is  *)
(* never committed twice, also when one has gone round several times in    *)
(* search of a leader.                                                     *)
SubmittedOnce ==
    poll = "one" /\ ~retry => Cardinality({k \in DOMAIN chosen : chosen[k] = Cmd}) <= 1

(* wait (config.go:512-541) gives up with -1 only when a server has left   *)
(* the term of the Start, and what it returns is committed by n servers;   *)
(* it is another command than the one submitted only if a later term has   *)
(* had a leader, which the caller was to be told of.                       *)
WaitExact ==
    poll = "wait" /\ at = "returned" =>
        IF result = MinusOne THEN \E i \in Servers : term[i] > startedIn
        ELSE /\ Cardinality(Holders(index)) >= expected
             /\ result = chosen[index]
             /\ result # Cmd => NewestTerm > startedIn
=============================================================================
