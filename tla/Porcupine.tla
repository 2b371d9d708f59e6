----------------------------- MODULE Porcupine -----------------------------
(***************************************************************************)
(* The linearizability checker of porcupine/checker.go with the key/value  *)
(* model of models/kv.go: checkOperations partitions a history by key,     *)
(* checkParallel runs one checkSingle goroutine per partition, with a      *)
(* timeout and a flag that stops the goroutines.                           *)
(*                                                                         *)
(* A string is the sequence of the pieces it was appended from.  A bitset  *)
(* is the set of its members; the hash only chooses a bucket of the cache. *)
(*                                                                         *)
(* Names with an underscore and a suffix are mutated forms.                *)
(***************************************************************************)
EXTENDS Integers, FiniteSets, SequencesExt

CONSTANTS Keys,       \* the keys of the histories
          Histories   \* the histories checked: sequences of Operations

Get == 0
Put == 1

VARIABLES history,   \* the argument of CheckOperationsVerbose or -Timeout
          verbose,   \* computeInfo
          timeout,   \* timeout > 0
          single,    \* the checkSingle goroutine of each partition
          results,   \* the channel it reports to
          kill,
          main,      \* checkParallel: "loop", "drain" or "done"
          count, ok, timedOut,
          verdict    \* the CheckResult returned, or "none"

args == <<history, verbose, timeout>>
pvars == <<args, single, results, kill, main, count, ok, timedOut, verdict>>
-----------------------------------------------------------------------------
(* KvModel: one key's value; Step says whether the output is possible. *)
ModelInit == <<>>

Possible(op, state) == op.Op = Get => op.Out = state

NextState(op, state) == CASE op.Op = Get -> state
                          [] op.Op = Put -> <<op.Value>>
                          [] OTHER -> Append(state, op.Value)

Partition(k) == SelectSeq(history, LAMBDA op : op.Key = k)

Partitions == {k \in Keys : Partition(k) # <<>>}

(* makeEntries: two entries per operation, sorted by time, calls before    *)
(* returns.  Equal ones stay in order: sort.Sort sorts as few as these by  *)
(* insertion.                                                              *)
Less_TimeOnly(a, b) == \/ a.time < b.time
                       \/ a.time = b.time /\ a.id < b.id
                       \/ a.time = b.time /\ a.id = b.id /\ a.kind = "call" /\ b.kind = "return"

Less(a, b) == \/ a.time < b.time
              \/ a.time = b.time /\ a.kind = "call" /\ b.kind = "return"
              \/ a.time = b.time /\ a.kind = b.kind /\ a.id < b.id

makeEntries(ops) ==
    LET all == {[kind |-> "call", id |-> i, time |-> ops[i].Call] : i \in DOMAIN ops}
               \cup {[kind |-> "return", id |-> i, time |-> ops[i].Return] : i \in DOMAIN ops}
    IN  [n \in 1..Cardinality(all) |->
            CHOOSE e \in all : Cardinality({x \in all : Less(x, e)}) = n - 1]
-----------------------------------------------------------------------------
(* A bitset of as many chunks as the operations need is the set of the     *)
(* positions set; set and clear change a clone or the caller's own.        *)
newBitset == {}
set(b, pos) == b \cup {pos}
clear(b, pos) == b \ {pos}

(* Entries are compared by their bitsets and states, not by their hashes. *)
cacheContains(cache, entry) == entry \in cache

(* The list of entries, with the head entry as node 0. *)
nil == -1

makeLinkedEntries(entries) ==
    [next |-> [n \in 0..Len(entries) |-> IF n = Len(entries) THEN nil ELSE n + 1],
     prev |-> [n \in 0..Len(entries) |-> n - 1]]

match(entries, n) ==
    IF entries[n].kind = "return" THEN nil
    ELSE CHOOSE m \in DOMAIN entries : /\ entries[m].kind = "return"
                                       /\ entries[m].id = entries[n].id

Unlink_NextOnly(l, n) == [next |-> [l.next EXCEPT ![l.prev[n]] = l.next[n]], prev |-> l.prev]

Unlink(l, n) == [next |-> [l.next EXCEPT ![l.prev[n]] = l.next[n]],
                 prev |-> IF l.next[n] = nil THEN l.prev
                          ELSE [l.prev EXCEPT ![l.next[n]] = l.prev[n]]]

Relink(l, n) == [next |-> [l.next EXCEPT ![l.prev[n]] = n],
                 prev |-> IF l.next[n] = nil THEN l.prev
                          ELSE [l.prev EXCEPT ![l.next[n]] = n]]

lift(l, call, return) == Unlink(Unlink(l, call), return)

unlift(l, call, return) == Relink(Relink(l, return), call)

(* A goroutine before its first step. *)
NewSingle(ops) ==
    LET entries == makeEntries(ops)
    IN  [running |-> TRUE, entries |-> entries, list |-> makeLinkedEntries(entries),
         entry |-> 1, linearized |-> newBitset, cache |-> {}, calls |-> <<>>,
         state |-> ModelInit, longest |-> [i \in DOMAIN ops |-> <<>>]]

PInit == /\ history \in Histories
         /\ verbose \in BOOLEAN /\ timeout \in BOOLEAN
         /\ single = [k \in Partitions |-> NewSingle(Partition(k))]
         /\ results = <<>> /\ kill = FALSE
         /\ main = "loop" /\ count = 0 /\ ok = TRUE /\ timedOut = FALSE
         /\ verdict = "none"
-----------------------------------------------------------------------------
(* checkSingle.  One iteration of its loop is one step: it shares nothing  *)
(* but the kill flag, read once per iteration.                             *)
Ids(calls) == [i \in DOMAIN calls |-> calls[i].id]

Finish(k, s, result) ==
    /\ single' = [single EXCEPT ![k] = [s EXCEPT !.running = FALSE]]
    /\ results' = Append(results, result)

Continue(k, s) == single' = [single EXCEPT ![k] = s] /\ UNCHANGED results

(* The list is empty: everything is linearized. *)
Complete(k, s) ==
    /\ s.list.next[0] = nil
    /\ Finish(k, [s EXCEPT !.longest = [i \in DOMAIN @ |-> Ids(s.calls)]], TRUE)

Killed(k, s) == /\ s.list.next[0] # nil /\ kill
                /\ Finish(k, s, FALSE)

Linearized(s, op) == [linearized |-> set(s.linearized, s.entries[s.entry].id),
                      state |-> NextState(op, s.state)]

(* A call that is possible here and leads to something new. *)
Lift(k, s, op) ==
    LET new == Linearized(s, op)
        id == s.entries[s.entry].id
        list == lift(s.list, s.entry, match(s.entries, s.entry))
    IN  /\ Possible(op, s.state) /\ ~cacheContains(s.cache, new)
        /\ Continue(k, [s EXCEPT !.cache = @ \cup {new},
                                 !.calls = Append(@, [entry |-> s.entry, id |-> id, state |-> s.state]),
                                 !.state = new.state,
                                 !.linearized = new.linearized,
                                 !.list = list,
                                 !.entry = list.next[0]])

(* A call that is not. *)
Skip(k, s, op) ==
    /\ ~Possible(op, s.state) \/ cacheContains(s.cache, Linearized(s, op))
    /\ Continue(k, [s EXCEPT !.entry = s.list.next[s.entry]])

NewLongest_Latest(s) ==
    [i \in DOMAIN s.longest |->
        IF verbose /\ i \in Range(Ids(s.calls)) THEN Ids(s.calls) ELSE s.longest[i]]

NewLongest(s) ==
    [i \in DOMAIN s.longest |->
        IF verbose /\ i \in Range(Ids(s.calls)) /\ Len(s.calls) > Len(s.longest[i])
        THEN Ids(s.calls) ELSE s.longest[i]]

(* A return whose call is still in the list: undo the last call. *)
Backtrack(k, s) ==
    LET top == Last(s.calls)
        list == unlift(s.list, top.entry, match(s.entries, top.entry))
    IN  /\ s.calls # <<>>
        /\ Continue(k, [s EXCEPT !.longest = NewLongest(s),
                                 !.state = top.state,
                                 !.linearized = clear(@, top.id),
                                 !.calls = Front(@),
                                 !.list = list,
                                 !.entry = list.next[top.entry]])

GiveUp(k, s) == s.calls = <<>> /\ Finish(k, s, FALSE)

checkSingle(k) ==
    LET s == single[k]
    IN  /\ s.running
        /\ \/ Complete(k, s)
           \/ Killed(k, s)
           \/ /\ s.list.next[0] # nil /\ ~kill
              /\ IF s.entries[s.entry].kind = "call"
                 THEN LET op == Partition(k)[s.entries[s.entry].id]
                      IN  Lift(k, s, op) \/ Skip(k, s, op)
                 ELSE Backtrack(k, s) \/ GiveUp(k, s)
        /\ UNCHANGED <<args, kill, main, count, ok, timedOut, verdict>>
-----------------------------------------------------------------------------
(* checkParallel: the loop over results and the timeout channel. *)
CheckResult(good, late) == IF ~good THEN "Illegal" ELSE IF late THEN "Unknown" ELSE "Ok"

(* Leaving the loop: with computeInfo the other goroutines are awaited. *)
BreakLoop(good, late) ==
    IF verbose THEN main' = "drain" /\ UNCHANGED verdict
               ELSE main' = "done" /\ verdict' = CheckResult(good, late)

ReceiveResult ==
    /\ main = "loop" /\ results # <<>>
    /\ results' = Tail(results)
    /\ count' = count + 1
    /\ ok' = (ok /\ Head(results))
    /\ kill' = (kill \/ (~ok' /\ ~verbose))
    /\ IF (~ok' /\ ~verbose) \/ count' >= Cardinality(Partitions)
       THEN BreakLoop(ok', timedOut)
       ELSE UNCHANGED <<main, verdict>>
    /\ UNCHANGED <<args, single, timedOut>>

Timeout ==
    /\ main = "loop" /\ timeout
    /\ timedOut' = TRUE
    /\ kill' = TRUE
    /\ BreakLoop(ok, TRUE)
    /\ UNCHANGED <<args, single, results, count, ok>>

(* The results that come after the loop are counted and not looked at. *)
Drain_Skipped ==
    /\ main = "drain"
    /\ main' = "done" /\ verdict' = CheckResult(ok, timedOut)
    /\ UNCHANGED <<args, single, kill, ok, timedOut, results, count>>

Drain_OneMore ==
    /\ main = "drain"
    /\ \/ /\ count <= Cardinality(Partitions) /\ results # <<>>
          /\ results' = Tail(results)
          /\ count' = count + 1
          /\ UNCHANGED <<main, verdict>>
       \/ /\ count > Cardinality(Partitions)
          /\ main' = "done" /\ verdict' = CheckResult(ok, timedOut)
          /\ UNCHANGED <<results, count>>
    /\ UNCHANGED <<args, single, kill, ok, timedOut>>

Drain ==
    /\ main = "drain"
    /\ \/ /\ count < Cardinality(Partitions) /\ results # <<>>
          /\ results' = Tail(results)
          /\ count' = count + 1
          /\ UNCHANGED <<main, verdict>>
       \/ /\ count = Cardinality(Partitions)
          /\ main' = "done" /\ verdict' = CheckResult(ok, timedOut)
          /\ UNCHANGED <<results, count>>
    /\ UNCHANGED <<args, single, kill, ok, timedOut>>

checkParallel == ReceiveResult \/ Timeout \/ Drain

PNext == checkParallel \/ \E k \in Partitions : checkSingle(k)

PSpec == PInit /\ [][PNext]_pvars

(* The goroutines run.  The timer is not relied on. *)
PFairSpec == /\ PSpec
             /\ WF_pvars(ReceiveResult) /\ WF_pvars(Drain)
             /\ \A k \in Keys : WF_pvars(k \in Partitions /\ checkSingle(k))
-----------------------------------------------------------------------------
(* The definition the checker is measured against.  A prefix of a          *)
(* linearization of ops is a sequence of some of them in which an          *)
(* operation comes after all that returned before it was called, and each  *)
(* output is what the model gives.                                         *)
RealTime(ops, seq) ==
    \A p \in DOMAIN seq : \A i \in DOMAIN ops :
        ops[i].Return < ops[seq[p]].Call => \E q \in 1..(p - 1) : seq[q] = i

StateAfter(ops, seq, k) ==
    FoldLeft(LAMBDA st, i : IF ops[i].Key = k THEN NextState(ops[i], st) ELSE st, ModelInit, seq)

Legal(ops, seq) ==
    \A p \in DOMAIN seq : Possible(ops[seq[p]], StateAfter(ops, SubSeq(seq, 1, p - 1), ops[seq[p]].Key))

LinearPrefixes(ops) ==
    {seq \in UNION {[1..n -> DOMAIN ops] : n \in 0..Len(ops)} :
        IsInjective(seq) /\ RealTime(ops, seq) /\ Legal(ops, seq)}

(* The whole history, over all its keys. *)
Linearizable == \E seq \in LinearPrefixes(history) : Len(seq) = Len(history)

(* The types of the state above. *)
PTypeOK == /\ results \in Seq(BOOLEAN) /\ Len(results) <= Cardinality(Partitions)
           /\ kill \in BOOLEAN /\ ok \in BOOLEAN /\ timedOut \in BOOLEAN
           /\ main \in {"loop", "drain", "done"}
           /\ count \in 0..Cardinality(Partitions)
           /\ verdict \in {"none", "Ok", "Illegal", "Unknown"}

(* The verdict is right whatever the goroutines, the timer and the kill    *)
(* flag do: Ok for a linearizable history only, Illegal for another one    *)
(* only (a goroutine that was killed does not count), and Unknown only     *)
(* after a timeout (porcupine.go:11, model.go:28, 74).                     *)
VerdictRight == /\ verdict = "Ok" => Linearizable
                /\ verdict = "Illegal" => ~Linearizable
                /\ verdict = "Unknown" => timedOut

(* The list holds the entries of the operations not linearized yet, in     *)
(* order, at every step: unlift puts back what lift took out, however deep *)
(* the search is (checker.go:159-177).                                     *)
ListExact ==
    \A k \in Partitions :
        LET s == single[k]
            left == {n \in DOMAIN s.entries : s.entries[n].id \notin s.linearized}
            After(n) == {x \in left : x > n}
        IN  \A n \in left \cup {0} :
                s.list.next[n] = IF After(n) = {} THEN nil
                                 ELSE CHOOSE x \in After(n) : \A y \in After(n) : x <= y

(* What a finished search reports for an operation of a partition that is  *)
(* not linearizable is as long as any prefix that includes the operation   *)
(* ("longest linearizable prefix that includes the given entry",           *)
(* checker.go:185), although the cache cuts the search short.              *)
PartialsLongest ==
    verbose /\ main = "done" /\ ~timedOut =>
        \A k \in Partitions :
            LET ops == Partition(k)
                prefixes == LinearPrefixes(ops)
                With(i) == {seq \in prefixes : i \in Range(seq)}
            IN  \A i \in DOMAIN ops :
                  LET reported == single[k].longest[i]
                  IN  /\ \A seq \in With(i) : Len(seq) <= Len(reported)
                      /\ reported = <<>> \/ reported \in With(i)

(* The partial linearizations are read only after every goroutine that     *)
(* writes them has finished (checker.go:313-318).                          *)
NoRaceOnLongest == verbose /\ main = "done" => \A k \in Partitions : ~single[k].running

(* The check of a history that is not empty returns, also without a        *)
(* timeout.                                                                *)
CheckReturns == history # <<>> ~> main = "done"
=============================================================================
