--------------------------- MODULE MapReduceTasks ---------------------------
(***************************************************************************)
(* The tasks of a MapReduce job (src/mapreduce), numbered from 0 in each   *)
(* of its two phases.                                                      *)
(***************************************************************************)
EXTENDS Integers

CONSTANTS
  NMap,      \* len(mapFiles)
  NReduce    \* nReduce

ASSUME SizeAssumption == NMap \in Nat /\ NReduce \in Nat

MapTask == 0 .. NMap - 1
ReduceTask == 0 .. NReduce - 1
=============================================================================
