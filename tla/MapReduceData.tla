---------------------------- MODULE MapReduceData ----------------------------
(***************************************************************************)
(* What the tasks of a MapReduce job compute (src/mapreduce): doMap splits *)
(* the pairs of a map task among the reduce tasks, doReduce collects, sorts*)
(* and groups them, merge() puts the results together.                     *)
(*                                                                         *)
(* Nothing in this code looks at a value, so the values are pairwise       *)
(* distinct: the n-th pair mapF returns in task m has the value <<m, n>>.  *)
(* reduceF is left uninterpreted: a result is the key with the slice of    *)
(* values reduceF is called with.  JSON encodes and decodes a pair; that   *)
(* the decoder reads back what the encoder wrote is taken from its use.    *)
(***************************************************************************)
EXTENDS MapReduceTasks, Sequences, FiniteSets, SequencesExt, TLC

CONSTANTS
  MaxKey,    \* bound: the keys are 1 .. MaxKey, in the order of the strings
  MaxPairs   \* bound: pairs that mapF returns in all tasks together

Key == 1 .. MaxKey

\* What mapF returns in task m when the keys are ks.
Pairs(m, ks) == [n \in 1 .. Len(ks) |-> [key |-> ks[n], value |-> <<m, n>>]]

\* doMap: the contents of the file reduceName(jobName, m, r).
Intermediate(kvs, ihash, r) ==
  SelectSeq(kvs, LAMBDA kv : ihash[kv.key] % NReduce = r)

\* sort.Sort is not stable: any order in which the keys do not decrease.
Sorts(kvs) ==
  {s \in {[i \in DOMAIN p |-> kvs[p[i]]] : p \in Permutations(DOMAIN kvs)} :
     \A i, j \in DOMAIN s : i < j => s[i].key <= s[j].key}

\* f[0] \o f[1] \o ...
Concat(f) == FlattenSeq([i \in 1 .. Cardinality(DOMAIN f) |-> f[i - 1]])

\* Mistake: the data of the map tasks are sorted one by one only.
CollectedUnsorted(files) ==
  {Concat(f) : f \in {g \in [MapTask -> UNION {Sorts(files[m]) : m \in MapTask}] :
                        \A m \in MapTask : g[m] \in Sorts(files[m])}}

\* The values data may have after sort.Sort(data), which undoes whatever
\* order sort.Sort(tmps[i]) had left.
Collected(files) == Sorts(Concat(files))

\* doReduce: one result per run of equal keys.
Begins(data) ==
  {i \in DOMAIN data : i = 1 \/ data[i - 1].key # data[i].key}

Run(data, begin) ==
  {i \in begin .. Len(data) :
     \A j \in begin .. i : data[j].key = data[begin].key}

Reduced(data) ==
  LET begins == SetToSortSeq(Begins(data), <)
  IN  [n \in DOMAIN begins |->
         [key |-> data[begins[n]].key,
          values |-> [i \in 1 .. Cardinality(Run(data, begins[n])) |->
                        data[begins[n] + i - 1].value]]]

\* merge(): a later result for a key replaces an earlier one; keys in order.
Merged(results) ==
  LET all  == Concat(results)
      keys == SetToSortSeq({all[i].key : i \in DOMAIN all}, <)
      last(k) == CHOOSE i \in DOMAIN all :
                   /\ all[i].key = k
                   /\ \A j \in DOMAIN all : all[j].key = k => j <= i
  IN  [n \in DOMAIN keys |-> all[last(keys[n])]]

\* The outputs of the job on kvs, the pairs of each map task.
Outputs(kvs, ihash) ==
  LET data == [r \in ReduceTask |->
                 Collected([m \in MapTask |-> Intermediate(kvs[m], ihash, r)])]
      picks == {d \in [ReduceTask -> UNION {data[r] : r \in ReduceTask}] :
                  \A r \in ReduceTask : d[r] \in data[r]}
  IN  {Merged([r \in ReduceTask |-> Reduced(d[r])]) : d \in picks}

(***************************************************************************)
(* The reference: the keys that occur, each once and in order, each with   *)
(* every value that was emitted for it exactly once.                       *)
(***************************************************************************)
Right(kvs, output) ==
  LET all == Concat(kvs) IN
  /\ \A i, j \in DOMAIN output : i < j => output[i].key < output[j].key
  /\ {output[i].key : i \in DOMAIN output} = {all[i].key : i \in DOMAIN all}
  /\ \A n \in DOMAIN output :
       LET values == {all[i].value : i \in {j \in DOMAIN all :
                                              all[j].key = output[n].key}}
       IN  /\ ToSet(output[n].values) = values
           /\ Len(output[n].values) = Cardinality(values)

Inputs ==
  {kvs \in {[m \in MapTask |-> Pairs(m, ks[m])] :
              ks \in [MapTask -> SeqOf(Key, MaxPairs)]} :
     Len(Concat(kvs)) <= MaxPairs}

(***************************************************************************)
(* Whatever mapF returns, however the keys are hashed and whichever order  *)
(* the sort leaves equal keys in, the job's output is right.               *)
(***************************************************************************)
AlwaysRight ==
  \A kvs \in Inputs : \A ihash \in [Key -> ReduceTask] :
    \A output \in Outputs(kvs, ihash) : Right(kvs, output)
=============================================================================
