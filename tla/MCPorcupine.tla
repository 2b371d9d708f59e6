---------------------------- MODULE MCPorcupine ----------------------------
(* Histories of up to two operations on two keys, in any order in the log,  *)
(* and of three operations on one key, in the order of their returns.       *)
EXTENDS Porcupine

CONSTANTS k1, k2

TwoKeys == {k1, k2}

(* Three points in time place intervals in every way that matters: before,  *)
(* overlapping, after, and touching.                                        *)
Times == {t \in (1..3) \X (1..3) : t[1] <= t[2]}

Kind(op, key, value, out) == [Op |-> op, Key |-> key, Value |-> value, Out |-> out]

Kinds == {Kind(Get, k1, "", <<>>), Kind(Get, k1, "", <<"a">>), Kind(Get, k1, "", <<"a", "a">>),
          Kind(Put, k1, "a", <<>>), Kind(2, k1, "a", <<>>),
          Kind(Get, k2, "", <<"a">>), Kind(Put, k2, "a", <<>>)}

Operations(kinds, times) ==
    {[Op |-> o.Op, Key |-> o.Key, Value |-> o.Value, Out |-> o.Out,
      Call |-> t[1], Return |-> t[2]] : o \in kinds, t \in times}

InOrder(h) == \A i \in 1..(Len(h) - 1) : h[i].Return <= h[i + 1].Return

OneKey == {o \in Kinds : o.Key = k1 /\ (o.Op = Get => o.Out # <<>>)}

SmallHistories == UNION {[1..n -> Operations(Kinds, Times)] : n \in 0..2}
                  \cup {h \in [1..3 -> Operations(OneKey, Times \ {<<2, 2>>})] : InOrder(h)}
=============================================================================
