---------------------------- MODULE MapReduceJob ----------------------------
(***************************************************************************)
(* A job with what its tasks compute: the steps of MapReduce, the data of  *)
(* MapReduceData.                                                          *)
(***************************************************************************)
EXTENDS MapReduce, MapReduceData

(***************************************************************************)
(* The job's output is right when Wait returns and every task completed:   *)
(* each key once and in order, reduced over every value emitted for it     *)
(* (doMap, doReduce, merge), whatever workers failed on the way.           *)
(***************************************************************************)
OutputRight ==
  pc = "done" /\ Complete("map") /\ Complete("reduce") => AlwaysRight
=============================================================================
