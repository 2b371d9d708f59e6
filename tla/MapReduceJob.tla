--------------------------- MODULE MapReduceJob ---------------------------
(***************************************************************************)
(* What the coordinator promises, with no workers, replies or ownership:   *)
(* each map task is completed once, the reduce tasks exist only when every *)
(* map task is complete, each reduce task is completed once, and the job   *)
(* is finished in the very step that completes the last one.               *)
(***************************************************************************)
EXTENDS Integers

CONSTANTS NMap, NReduce

VARIABLES stage,      \* "map", "reduce" or "finished"
          mapsDone,   \* the completed map tasks
          reducesDone \* the completed reduce tasks

jvars == <<stage, mapsDone, reducesDone>>

Maps == 0..(NMap - 1)
Reduces == 0..(NReduce - 1)

JInit == /\ stage = "map"
         /\ mapsDone = {}
         /\ reducesDone = {}

FinishMap(m) == /\ stage = "map"
                /\ m \notin mapsDone
                /\ mapsDone' = mapsDone \cup {m}
                /\ stage' = IF mapsDone' = Maps THEN "reduce" ELSE "map"
                /\ UNCHANGED reducesDone

FinishReduce(r) == /\ stage = "reduce"
                   /\ r \notin reducesDone
                   /\ reducesDone' = reducesDone \cup {r}
                   /\ stage' = IF reducesDone' = Reduces THEN "finished" ELSE "reduce"
                   /\ UNCHANGED mapsDone

JNext == \/ \E m \in Maps : FinishMap(m)
         \/ \E r \in Reduces : FinishReduce(r)

JSpec == JInit /\ [][JNext]_jvars
=============================================================================
