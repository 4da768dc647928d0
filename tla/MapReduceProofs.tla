--------------------------- MODULE MapReduceProofs ---------------------------
(***************************************************************************)
(* Proofs about a MapReduce job: every worker has one RPC at a time, every *)
(* task is accounted for, the outputs of a phase that is over no longer    *)
(* change, and without failures every task is complete when schedule()     *)
(* returns.                                                                *)
(***************************************************************************)
EXTENDS MapReduce, TLAPS

-----------------------------------------------------------------------------
(* The invariant *)

(* A Sequential job has no workers and leaves schedule() alone.            *)
SequentialOK ==
  mode = "Sequential" =>
    /\ loop = "take" /\ task = NoTask /\ calls = {} /\ workers = <<>>
    /\ \A w \in Worker : loopOf[w] = "off"

(* A worker registers once, before anything is asked of it.                *)
WorkersOK ==
  /\ \A i, j \in 1 .. Len(workers) : workers[i] = workers[j] => i = j
  /\ \A i \in 1 .. Len(workers) : loopOf[workers[i]] \notin {"off", "register"}
  /\ \A p \in Phase : told[p] <= Len(workers)

(* The worker of phase p is one that forwardRegistrations has told of.     *)
Told(p, w) == \E i \in 1 .. told[p] : workers[i] = w

(* A worker of a phase is in one place: offered, or with one goroutine;    *)
(* a failed call keeps it.                                                 *)
SendersOK ==
  /\ \A s \in senders : Told(s.phase, s.worker)
  /\ \A c \in calls : c.phase \in Phase =>
       /\ Told(c.phase, c.worker)
       /\ [phase |-> c.phase, worker |-> c.worker] \notin senders

(* The calls under way are those of the phase, or one Shutdown.            *)
CallOK(c) ==
  /\ c.phase = pc \/ (pc = "panic" /\ c.phase = "reduce")
  /\ c.phase = "kill" => /\ c.stage \notin {"running", "writing"}
                         /\ killed < Len(workers)
                         /\ c.worker = workers[killed + 1]
  /\ c.phase \in Phase => c.task \in TaskOf(c.phase)

CallsOK ==
  /\ \A c \in calls : CallOK(c)
  /\ \A c, d \in calls : c.worker = d.worker => c = d

(* The WaitGroup counts them.                                              *)
Engaged == {c.worker : c \in calls}

WaitGroupOK == pc \in Phase => wg = Cardinality(Engaged)

(* A task of the phase is listed, or in hand, or with one goroutine.       *)
Listed == {tasks[i] : i \in 1 .. Len(tasks)}
InHand == {task} \ {NoTask}
Called == {c.task : c \in calls}
Unfinished == {c.task : c \in {d \in calls : d.stage # "executed"}}

TasksOK ==
  pc \in Phase =>
    /\ loop = "receive" <=> task # NoTask
    /\ Listed \cup InHand \cup Called \subseteq TaskOf(pc)
    /\ Listed \cap Called = {} /\ InHand \cap (Listed \cup Called) = {}
    /\ \A i, j \in 1 .. Len(tasks) : tasks[i] = tasks[j] => i = j
    /\ \A c, d \in calls : c.task = d.task => c = d
    /\ \A t \in TaskOf(pc) \ (Listed \cup InHand \cup Unfinished) :
         out[pc][t] \in {"short", "full"}

(* Without failing workers no call of a phase fails, so that the list is   *)
(* empty when schedule() has left its loop.                                *)
Healthy ==
  /\ loop = "wait" => tasks = <<>>
  /\ \A c \in calls : c.stage # "failed"
  /\ \A w \in Worker : nRPC[w] < 0 /\ loopOf[w] \notin {"closed", "dead"}

ReliableOK ==
  /\ \A t \in MapTask : out["map"][t] # "short"
  /\ Undisturbed =>
       /\ \A t \in ReduceTask : out["reduce"][t] # "short"
       /\ mode = "Distributed" /\ pc \in Phase => Healthy

JobInv ==
  /\ TypeOK /\ DOMAIN out = Phase
  /\ SequentialOK /\ WorkersOK /\ SendersOK /\ CallsOK /\ WaitGroupOK
  /\ TasksOK

DoneInv == JobInv /\ ReliableOK /\ ScheduleCompleteIfReliable
-----------------------------------------------------------------------------
(* Calls, lists and task numbers *)

(* A call that moves on keeps its phase, its task and its worker.          *)
LEMMA AtFields ==
  ASSUME NEW c \in Call, NEW stage \in Stages
  PROVE  /\ At(c, stage) \in Call
         /\ At(c, stage).phase = c.phase /\ At(c, stage).task = c.task
         /\ At(c, stage).worker = c.worker /\ At(c, stage).stage = stage
         /\ At(c, c.stage) = c
BY DEF At, Call

(* Move changes the stage of one call.                                     *)
LEMMA MoveIs ==
  ASSUME calls \subseteq Call, NEW c \in calls, NEW stage \in Stages, Move(c, stage),
         NEW st, st = [d \in calls |-> IF d = c THEN stage ELSE d.stage]
  PROVE  st \in [calls -> Stages] /\ calls' = {At(d, st[d]) : d \in calls}
BY AtFields DEF Call, Move

(* The end of a listener or of a process changes the stages of some calls. *)
LEMMA BrokenIs ==
  ASSUME calls \subseteq Call, NEW w, NEW stages, calls' = Broken(w, stages),
         NEW st, st = [d \in calls |-> IF d.worker = w /\ d.stage \in stages
                                       THEN "failed" ELSE d.stage]
  PROVE  st \in [calls -> Stages] /\ calls' = {At(d, st[d]) : d \in calls}
BY AtFields DEF Call, Stages, Broken

(* The list without its head.                                              *)
LEMMA Rest ==
  ASSUME NEW l \in Seq(Nat), l # <<>>
  PROVE  /\ Head(l) = l[1] /\ Head(l) \in Nat
         /\ Len(l) \in Nat /\ Len(l) >= 1
         /\ Tail(l) \in Seq(Nat) /\ Len(Tail(l)) = Len(l) - 1
         /\ \A i \in 1 .. Len(l) - 1 : Tail(l)[i] = l[i + 1]
OBVIOUS

(* The list with one task more.                                            *)
LEMMA Longer ==
  ASSUME NEW S, NEW l \in Seq(S), NEW t \in S
  PROVE  /\ Append(l, t) \in Seq(S) /\ Len(l) \in Nat
         /\ Len(Append(l, t)) = Len(l) + 1
         /\ Append(l, t)[Len(l) + 1] = t
         /\ \A i \in 1 .. Len(l) : Append(l, t)[i] = l[i]
OBVIOUS

(* It holds that task too, and none twice if the task is new to it.       *)
LEMMA LongerSet ==
  ASSUME NEW l \in Seq(Nat), NEW t \in Nat, NEW m, m = Append(l, t)
  PROVE  /\ {m[i] : i \in 1 .. Len(m)} = {l[i] : i \in 1 .. Len(l)} \cup {t}
         /\ (/\ t \notin {l[i] : i \in 1 .. Len(l)}
             /\ \A i, j \in 1 .. Len(l) : l[i] = l[j] => i = j)
            => \A i, j \in 1 .. Len(m) : m[i] = m[j] => i = j
<1>1. /\ Len(l) \in Nat /\ Len(m) = Len(l) + 1 /\ m[Len(l) + 1] = t
      /\ \A i \in 1 .. Len(l) : m[i] = l[i]
  BY Longer
<1>2. PICK n \in Nat : n = Len(l)
  BY <1>1
<1>3. /\ 1 .. n \subseteq 1 .. n + 1 /\ n + 1 \in 1 .. n + 1
      /\ \A i \in 1 .. n + 1 : i \in 1 .. n \/ i = n + 1
  OBVIOUS
<1>4. {m[i] : i \in 1 .. n + 1} = {l[i] : i \in 1 .. n} \cup {t}
  <2>1. {m[i] : i \in 1 .. n + 1} \subseteq {l[i] : i \in 1 .. n} \cup {t}
    BY <1>1, <1>2, <1>3
  <2>2. {l[i] : i \in 1 .. n} \cup {t} \subseteq {m[i] : i \in 1 .. n + 1}
    BY <1>1, <1>2, <1>3
  <2>3. QED
    BY Zenon, <2>1, <2>2
<1>5. ASSUME \A i \in 1 .. n : l[i] # t, \A i, j \in 1 .. n : l[i] = l[j] => i = j
      PROVE  \A i, j \in 1 .. n + 1 : m[i] = m[j] => i = j
  BY <1>1, <1>2, <1>3, <1>5
<1>6. QED
  BY Zenon, <1>1, <1>2, <1>4, <1>5

(* A step that leaves the calls and the variables of schedule() and doTask *)
(* alone.                                                                  *)
LEMMA TasksUntouched ==
  ASSUME TasksOK, WaitGroupOK, UNCHANGED <<pc, loop, tasks, task, wg, calls, out>>
  PROVE  TasksOK' /\ WaitGroupOK'
<1>1. Listed' = Listed /\ InHand' = InHand
  BY DEF Listed, InHand
<1>2. Called' = Called /\ Unfinished' = Unfinished /\ Engaged' = Engaged
  BY DEF Called, Unfinished, Engaged
<1>3. QED
  BY Zenon, <1>1, <1>2 DEF TasksOK, WaitGroupOK
-----------------------------------------------------------------------------
(* Steps that only move calls on *)

(* What the calls have in common does not depend on their stages.          *)
LEMMA Restaged ==
  ASSUME TypeOK, SendersOK, CallsOK, WaitGroupOK,
         NEW st \in [calls -> Stages], calls' = {At(c, st[c]) : c \in calls},
         \A c \in calls : c.phase = "kill" => st[c] \notin {"running", "writing"},
         UNCHANGED <<masterVars, senders, workers, told>>
  PROVE  calls' \subseteq Call /\ SendersOK' /\ CallsOK' /\ WaitGroupOK'
<1>1. calls \subseteq Call
  BY DEF TypeOK
<1>2. \A c \in calls : /\ At(c, st[c]) \in Call
                       /\ At(c, st[c]).phase = c.phase /\ At(c, st[c]).task = c.task
                       /\ At(c, st[c]).worker = c.worker /\ At(c, st[c]).stage = st[c]
  BY <1>1, AtFields
<1>3. calls' \subseteq Call
  BY <1>2
<1>4. UNCHANGED <<pc, wg, killed, senders, workers, told>>
  BY DEF masterVars
<1>5. SendersOK'
  BY <1>2 DEF SendersOK, Told
<1>6. CallsOK'
  BY <1>2, <1>4 DEF CallsOK, CallOK
<1>7. WaitGroupOK'
  <2>1. Engaged' = Engaged
    BY <1>2 DEF Engaged
  <2>2. QED
    BY <1>4, <2>1 DEF WaitGroupOK
<1>8. QED
  BY <1>3, <1>5, <1>6, <1>7

(* A task stays accounted for when its call comes to the end with output.  *)
LEMMA RestagedTasks ==
  ASSUME TypeOK, CallsOK, TasksOK,
         NEW st \in [calls -> Stages], calls' = {At(c, st[c]) : c \in calls},
         UNCHANGED masterVars,
         pc \in Phase =>
           /\ \A c \in calls : st[c] = "executed" =>
                c.stage = "executed" \/ out'[pc][c.task] \in {"short", "full"}
           /\ \A t \in TaskOf(pc) :
                \/ out'[pc][t] = out[pc][t]
                \/ out'[pc][t] \in {"short", "full"}
                \/ \E c \in calls : c.task = t /\ st[c] # "executed"
  PROVE  TasksOK'
<1>1. calls \subseteq Call
  BY DEF TypeOK
<1>2. \A c \in calls : At(c, st[c]).task = c.task /\ At(c, st[c]).stage = st[c]
  BY <1>1, AtFields
<1>3. UNCHANGED <<pc, loop, tasks, task>>
  BY DEF masterVars
<1>4. SUFFICES ASSUME pc \in Phase PROVE TasksOK'
  BY Zenon, <1>3 DEF TasksOK
<1>5. Called' = Called
  BY <1>2 DEF Called
<1>6. Listed' = Listed /\ InHand' = InHand
  BY <1>3 DEF Listed, InHand
<1>7. \A c, d \in calls' : c.task = d.task => c = d
  BY <1>2, <1>4 DEF TasksOK
<1>8. ASSUME NEW t \in TaskOf(pc) \ (Listed \cup InHand \cup Unfinished')
      PROVE  out'[pc][t] \in {"short", "full"}
  BY <1>2, <1>4, <1>8 DEF Unfinished, TasksOK
<1>9. QED
  BY <1>3, <1>5, <1>6, <1>7, <1>8 DEF TasksOK

(* One call moves on and no output changes.                                *)
LEMMA CallMoves ==
  ASSUME JobInv, NEW c \in calls, NEW stage \in Stages, Move(c, stage),
         stage = "executed" => c.phase = "kill" /\ MasterUp,
         c.phase = "kill" => stage \notin {"running", "writing"},
         UNCHANGED <<masterVars, senders, workers, told, out>>
  PROVE  /\ calls' \subseteq Call /\ SendersOK' /\ CallsOK' /\ WaitGroupOK'
         /\ TasksOK'
<1>1. /\ TypeOK /\ SendersOK /\ CallsOK /\ WaitGroupOK /\ TasksOK
      /\ calls \subseteq Call
  BY Zenon DEF JobInv, TypeOK
<1>2. PICK st : st = [d \in calls |-> IF d = c THEN stage ELSE d.stage]
  BY Zenon
<1>3. st \in [calls -> Stages] /\ calls' = {At(d, st[d]) : d \in calls}
  BY <1>1, <1>2, MoveIs
<1>4. \A d \in calls : d.phase = "kill" => st[d] \notin {"running", "writing"}
  BY <1>1, <1>2 DEF CallsOK, CallOK
<1>5. pc \in Phase => \A d \in calls : st[d] = "executed" => d.stage = "executed"
  BY <1>1, <1>2 DEF CallsOK, CallOK, MasterUp, Phase
<1>6. calls' \subseteq Call /\ SendersOK' /\ CallsOK' /\ WaitGroupOK'
  BY <1>1, <1>3, <1>4, Restaged
<1>7. TasksOK'
  BY <1>1, <1>3, <1>5, RestagedTasks
<1>8. QED
  BY <1>6, <1>7

(* Calls to a worker break and no output changes.                          *)
LEMMA CallsBreak ==
  ASSUME JobInv, NEW w, NEW stages, calls' = Broken(w, stages),
         UNCHANGED <<masterVars, senders, workers, told, out>>
  PROVE  /\ calls' \subseteq Call /\ SendersOK' /\ CallsOK' /\ WaitGroupOK'
         /\ TasksOK'
<1>1. /\ TypeOK /\ SendersOK /\ CallsOK /\ WaitGroupOK /\ TasksOK
      /\ calls \subseteq Call
  BY Zenon DEF JobInv, TypeOK
<1>2. PICK st : st = [d \in calls |-> IF d.worker = w /\ d.stage \in stages
                                      THEN "failed" ELSE d.stage]
  BY Zenon
<1>3. st \in [calls -> Stages] /\ calls' = {At(d, st[d]) : d \in calls}
  BY <1>1, <1>2, BrokenIs
<1>4. \A d \in calls : d.phase = "kill" => st[d] \notin {"running", "writing"}
  BY <1>1, <1>2 DEF CallsOK, CallOK
<1>5. \A d \in calls : st[d] = "executed" => d.stage = "executed"
  BY <1>2
<1>6. calls' \subseteq Call /\ SendersOK' /\ CallsOK' /\ WaitGroupOK'
  BY <1>1, <1>3, <1>4, Restaged
<1>7. TasksOK'
  BY <1>1, <1>3, <1>5, RestagedTasks
<1>8. QED
  BY <1>6, <1>7

(* The state of a worker changes, and no worker comes back.                *)
LEMMA WorkersMove ==
  ASSUME JobInv, mode = "Distributed", calls' \subseteq Call,
         loopOf' \in [Worker -> {"off", "register", "check", "accept", "closed", "dead"}],
         \A w \in Worker : loopOf[w] \notin {"off", "register"} =>
                             loopOf'[w] \notin {"off", "register"},
         nRPC' \in [Worker -> Int], crashes' \in 0 .. MaxCrash,
         DOMAIN out' = Phase, \A p \in Phase : out'[p] \in [TaskOf(p) -> Output],
         UNCHANGED <<masterVars, senders, workers, told, setup>>
  PROVE  TypeOK' /\ DOMAIN out' = Phase /\ SequentialOK' /\ WorkersOK'
<1>1. TypeOK /\ WorkersOK
  BY DEF JobInv
<1>2. TypeOK'
  BY Zenon, <1>1 DEF TypeOK, masterVars, setup
<1>3. SequentialOK'
  BY DEF SequentialOK, setup
<1>4. \A i \in 1 .. Len(workers) : workers[i] \in Worker
  BY <1>1 DEF TypeOK
<1>5. WorkersOK'
  BY Zenon, <1>1, <1>4 DEF WorkersOK
<1>6. QED
  BY <1>2, <1>3, <1>5

(* Writing the output of one task keeps the types of all.                  *)
LEMMA OutputType ==
  ASSUME TypeOK, DOMAIN out = Phase, NEW p \in Phase, NEW t, NEW o \in Output,
         out' = [out EXCEPT ![p][t] = o]
  PROVE  /\ DOMAIN out' = Phase /\ \A q \in Phase : out'[q] \in [TaskOf(q) -> Output]
         /\ \A q \in Phase \ {p} : out'[q] = out[q]
         /\ \A u \in TaskOf(p) : out'[p][u] = IF u = t THEN o ELSE out[p][u]
BY Zenon DEF TypeOK

(* A job with calls under way is a Distributed one.                        *)
LEMMA CallsDistributed ==
  ASSUME JobInv, calls # {}
  PROVE  mode = "Distributed"
BY DEF JobInv, SequentialOK, TypeOK

(* rpc.Dial.                                                               *)
LEMMA DialStep ==
  ASSUME JobInv, NEW c \in calls, Dial(c)
  PROVE  JobInv'
BY Zenon, CallMoves, CallsDistributed, WorkersMove DEF Dial, Stages, JobInv, TypeOK,
       workerVars

(* The process of a worker ends.                                           *)
LEMMA DiesStep ==
  ASSUME JobInv, NEW w \in Worker, Dies(w), mode = "Distributed",
         crashes' \in 0 .. MaxCrash,
         UNCHANGED <<masterVars, senders, workers, told, nRPC, out, setup>>
  PROVE  JobInv'
BY Zenon, CallsBreak, WorkersMove DEF Dies, JobInv, TypeOK

(* The head of DoTask.                                                     *)
LEMMA DoTaskBeginStep ==
  ASSUME JobInv, NEW c \in calls, DoTaskBegin(c)
  PROVE  JobInv'
BY Zenon, CallsDistributed, DiesStep, CallMoves, WorkersMove DEF JobInv, DoTaskBegin,
       TypeOK, Call, Phase, Stages

(* A task writes: its output is opened, or it is written to the end.       *)
LEMMA WriteStep ==
  ASSUME JobInv, MasterUp, NEW c \in calls, OpenOutput(c) \/ DoTaskEnd(c)
  PROVE  JobInv'
<1>1. /\ TypeOK /\ DOMAIN out = Phase /\ SendersOK /\ CallsOK /\ WaitGroupOK /\ TasksOK
      /\ calls \subseteq Call /\ mode = "Distributed"
  BY Zenon, CallsDistributed DEF JobInv, TypeOK
<1>2. c.phase = pc /\ pc \in Phase /\ c.task \in TaskOf(pc)
  BY <1>1 DEF OpenOutput, DoTaskEnd, CallsOK, CallOK, MasterUp, Call, Phase
<1>3. PICK stage \in {"writing", "executed"} : 
        /\ Move(c, stage)
        /\ stage = "writing" => out' = [out EXCEPT ![c.phase][c.task] = "cut"]
        /\ stage = "executed" => out' = [out EXCEPT ![c.phase][c.task] = Result(c.phase)]
  BY DEF OpenOutput, DoTaskEnd
<1>4. UNCHANGED <<masterVars, senders, workers, told, workerVars, crashes, setup>>
  BY DEF OpenOutput, DoTaskEnd
<1>5. PICK o \in Output : /\ out' = [out EXCEPT ![pc][c.task] = o]
                          /\ stage = "executed" => o \in {"short", "full"}
  BY <1>2, <1>3 DEF Output, Result
<1>6. PICK st : st = [d \in calls |-> IF d = c THEN stage ELSE d.stage]
  BY Zenon
<1>7. st \in [calls -> Stages] /\ calls' = {At(d, st[d]) : d \in calls}
  BY <1>1, <1>3, <1>6, MoveIs DEF Stages
<1>8. \A d \in calls : d.phase = "kill" => st[d] \notin {"running", "writing"}
  BY <1>1, <1>2, <1>6 DEF CallsOK, CallOK, Phase
<1>9. calls' \subseteq Call /\ SendersOK' /\ CallsOK' /\ WaitGroupOK'
  BY <1>1, <1>4, <1>7, <1>8, Restaged
<1>10. /\ DOMAIN out' = Phase /\ \A q \in Phase : out'[q] \in [TaskOf(q) -> Output]
       /\ \A u \in TaskOf(pc) : out'[pc][u] = IF u = c.task THEN o ELSE out[pc][u]
  <2>1. PICK p, t : p \in Phase /\ p = pc /\ t = c.task /\ out' = [out EXCEPT ![p][t] = o]
    BY Zenon, <1>2, <1>5
  <2>2. /\ DOMAIN out' = Phase /\ \A q \in Phase : out'[q] \in [TaskOf(q) -> Output]
        /\ \A u \in TaskOf(p) : out'[p][u] = IF u = t THEN o ELSE out[p][u]
    BY Zenon, <1>1, <2>1, OutputType
  <2>3. QED
    BY <2>1, <2>2
<1>11. TasksOK'
  <2>1. \A d \in calls : st[d] = "executed" =>
          d.stage = "executed" \/ out'[pc][d.task] \in {"short", "full"}
    BY <1>2, <1>5, <1>6, <1>10
  <2>2. \A t \in TaskOf(pc) : \/ out'[pc][t] = out[pc][t]
                              \/ out'[pc][t] \in {"short", "full"}
                              \/ \E d \in calls : d.task = t /\ st[d] # "executed"
    BY Zenon, <1>3, <1>5, <1>6, <1>10
  <2>3. QED
    BY Zenon, <1>1, <1>4, <1>7, <2>1, <2>2, RestagedTasks
<1>12. TypeOK' /\ DOMAIN out' = Phase /\ SequentialOK' /\ WorkersOK'
  BY Zenon, <1>1, <1>4, <1>9, <1>10, WorkersMove DEF TypeOK, workerVars
<1>13. QED
  BY <1>9, <1>11, <1>12 DEF JobInv

(* Worker.Shutdown.                                                        *)
LEMMA ShutdownStep ==
  ASSUME JobInv, MasterUp, NEW c \in calls, Shutdown(c)
  PROVE  JobInv'
<1>1. /\ Move(c, "executed") /\ c.phase = "kill"
      /\ UNCHANGED <<masterVars, senders, workers, told, loopOf, out, crashes, setup>>
      /\ nRPC' = [nRPC EXCEPT ![c.worker] = 1]
  BY DEF Shutdown
<1>2. calls' \subseteq Call /\ SendersOK' /\ CallsOK' /\ WaitGroupOK' /\ TasksOK'
  BY <1>1, CallMoves DEF Stages
<1>3. /\ TypeOK /\ DOMAIN out = Phase /\ mode = "Distributed"
      /\ nRPC \in [Worker -> Int]
  BY Zenon, CallsDistributed DEF JobInv, TypeOK
<1>4. nRPC' \in [Worker -> Int]
  BY <1>1, <1>3 DEF TypeOK, Call
<1>5. TypeOK' /\ DOMAIN out' = Phase /\ SequentialOK' /\ WorkersOK'
  BY Zenon, <1>1, <1>2, <1>3, <1>4, WorkersMove DEF TypeOK
<1>6. QED
  BY <1>2, <1>5 DEF JobInv

(* The loop of RunWorker.                                                  *)
LEMMA WorkerLoopStep ==
  ASSUME JobInv, NEW w \in Worker, WorkerCheck(w) \/ WorkerAccept(w)
  PROVE  JobInv'
<1>1. /\ TypeOK /\ DOMAIN out = Phase /\ SendersOK /\ CallsOK /\ WaitGroupOK /\ TasksOK
      /\ calls \subseteq Call
  BY Zenon DEF JobInv, TypeOK
<1>2. mode = "Distributed"
  BY DEF JobInv, SequentialOK, TypeOK, WorkerCheck, WorkerAccept
<1>3. /\ UNCHANGED <<masterVars, senders, workers, told, out, crashes, setup>>
      /\ \E x \in {"check", "accept", "closed"} : loopOf' = [loopOf EXCEPT ![w] = x]
  BY DEF WorkerCheck, WorkerAccept
<1>4. nRPC' \in [Worker -> Int]
  BY <1>1 DEF TypeOK, WorkerCheck, WorkerAccept
<1>5. calls' \subseteq Call /\ SendersOK' /\ CallsOK' /\ WaitGroupOK' /\ TasksOK'
  <2>1. CASE calls' = Broken(w, {"queued"})
    BY <1>3, <2>1, CallsBreak
  <2>2. CASE \E c \in calls : Move(c, "accepted")
    BY <1>3, <2>2, CallMoves DEF Stages
  <2>3. CASE UNCHANGED calls
    <3>1. UNCHANGED <<pc, loop, tasks, task, wg, killed, senders, workers, told, out, calls>>
      BY <1>3, <2>3 DEF masterVars
    <3>2. SendersOK' /\ CallsOK' /\ WaitGroupOK'
      BY Zenon, <1>1, <3>1 DEF SendersOK, Told, CallsOK, CallOK, WaitGroupOK, Engaged
    <3>3. TasksOK'
      BY <1>1, <3>1 DEF TasksOK, Listed, InHand, Called, Unfinished
    <3>4. QED
      BY <1>1, <2>3, <3>2, <3>3
  <2>4. QED
    BY <2>1, <2>2, <2>3 DEF WorkerCheck, WorkerAccept
<1>6. TypeOK' /\ DOMAIN out' = Phase /\ SequentialOK' /\ WorkersOK'
  BY Zenon, <1>1, <1>2, <1>3, <1>4, <1>5, WorkersMove DEF TypeOK
<1>7. QED
  BY <1>5, <1>6 DEF JobInv

(* A worker process dies on its own.                                       *)
LEMMA WorkerCrashStep ==
  ASSUME JobInv, NEW w \in Worker, WorkerCrash(w)
  PROVE  JobInv'
<1>1. mode = "Distributed"
  BY DEF JobInv, SequentialOK, TypeOK, WorkerCrash
<1>2. crashes' \in 0 .. MaxCrash
  BY BoundAssumption DEF JobInv, TypeOK, WorkerCrash
<1>3. QED
  BY <1>1, <1>2, DiesStep DEF WorkerCrash
-----------------------------------------------------------------------------
(* Registration *)

(* A worker starts, or its Register call is dealt with.                    *)
LEMMA RegisterStep ==
  ASSUME JobInv, NEW w \in Worker, StartWorker(w) \/ Register(w)
  PROVE  JobInv'
<1>1. /\ TypeOK /\ DOMAIN out = Phase /\ WorkersOK /\ SendersOK /\ CallsOK /\ WaitGroupOK
      /\ TasksOK
  BY DEF JobInv
<1>2. mode = "Distributed" /\ mode' = mode
  BY DEF JobInv, SequentialOK, TypeOK, StartWorker, Register, setup
<1>3. /\ loopOf[w] \in {"off", "register"}
      /\ loopOf' = [loopOf EXCEPT ![w] = IF loopOf[w] = "off" THEN "register" ELSE "check"]
      /\ workers' = workers \/ (loopOf[w] = "register" /\ workers' = Append(workers, w) /\ LockFree)
      /\ UNCHANGED <<masterVars, senders, calls, told, nRPC, out, crashes, setup>>
  BY DEF StartWorker, Register
<1>4. UNCHANGED <<pc, loop, tasks, task, wg, killed>>
  BY <1>3 DEF masterVars
<1>5. /\ workers' \in Seq(Worker) /\ Len(workers) \in Nat /\ Len(workers') \in Nat
      /\ Len(workers) <= Len(workers')
      /\ \A i \in 1 .. Len(workers) : workers'[i] = workers[i] /\ workers[i] \in Worker
      /\ \A i \in 1 .. Len(workers') : i > Len(workers) =>
           loopOf[w] = "register" /\ workers'[i] = w /\ i = Len(workers) + 1
  <2>1. workers \in Seq(Worker) /\ Len(workers) \in Nat
    BY <1>1 DEF TypeOK
  <2>2. \A i \in 1 .. Len(workers) : workers[i] \in Worker
    BY <2>1
  <2>3. CASE workers' = workers
    BY <2>1, <2>2, <2>3
  <2>4. CASE loopOf[w] = "register" /\ workers' = Append(workers, w)
    <3>1. /\ workers' \in Seq(Worker) /\ Len(workers') = Len(workers) + 1
          /\ workers'[Len(workers) + 1] = w
          /\ \A i \in 1 .. Len(workers) : workers'[i] = workers[i]
      BY <2>1, <2>4, Longer
    <3>2. QED
      BY <2>1, <2>2, <2>4, <3>1
  <2>5. QED
    BY <1>3, <2>3, <2>4
<1>6. loopOf' \in [Worker -> {"off", "register", "check", "accept", "closed", "dead"}]
  BY <1>1, <1>3 DEF TypeOK
<1>7. \A v \in Worker : loopOf[v] \notin {"off", "register"} =>
                          v # w /\ loopOf'[v] \notin {"off", "register"}
  BY <1>1, <1>3 DEF TypeOK
<1>8. \A p \in Phase : told[p] \in 0 .. Len(workers)
  BY <1>1, <1>5 DEF TypeOK, WorkersOK
<1>9. TypeOK' /\ DOMAIN out' = Phase
  BY <1>1, <1>3, <1>4, <1>5, <1>6 DEF TypeOK, setup
<1>10. SequentialOK'
  BY <1>2 DEF SequentialOK
<1>11. WorkersOK'
  <2>1. \A i \in 1 .. Len(workers) : /\ workers'[i] # w
                                     /\ loopOf'[workers'[i]] \notin {"off", "register"}
    BY Zenon, <1>1, <1>5, <1>7 DEF WorkersOK
  <2>2. \A i \in 1 .. Len(workers') : loopOf[w] = "register" => loopOf'[w] = "check"
    BY Zenon, <1>1, <1>3 DEF TypeOK
  <2>3. \A i, j \in 1 .. Len(workers') : workers'[i] = workers'[j] => i = j
    BY <1>1, <1>5, <2>1 DEF WorkersOK
  <2>4. \A i \in 1 .. Len(workers') : loopOf'[workers'[i]] \notin {"off", "register"}
    BY <1>5, <2>1, <2>2
  <2>5. \A p \in Phase : told'[p] <= Len(workers')
    BY <1>3, <1>5, <1>8
  <2>6. QED
    BY <2>3, <2>4, <2>5 DEF WorkersOK
<1>12. SendersOK'
  <2>1. \A p \in Phase : \A v : Told(p, v) => Told(p, v)'
    <3>1. ASSUME NEW p \in Phase, NEW i \in 1 .. told[p]
          PROVE  i \in 1 .. told'[p] /\ workers'[i] = workers[i]
      <4>1. told[p] \in 0 .. Len(workers) /\ told' = told
        BY Zenon, <1>3, <1>8
      <4>2. i \in 1 .. Len(workers)
        BY <1>5, <4>1
      <4>3. QED
        BY Zenon, <1>5, <4>1, <4>2
    <3>2. QED
      BY Zenon, <3>1 DEF Told
  <2>2. \A s \in senders : s.phase \in Phase
    BY Zenon, <1>1 DEF TypeOK
  <2>3. QED
    BY Zenon, <1>1, <1>3, <2>1, <2>2 DEF SendersOK
<1>13. CallsOK'
  <2>1. \A c \in calls : c.phase = "kill" => pc = "kill" /\ killed + 1 \in 1 .. Len(workers)
                                               /\ killed < Len(workers')
    <3>1. killed \in Nat
      BY <1>1 DEF TypeOK
    <3>2. \A c \in calls : c.phase = "kill" => pc = "kill" /\ killed < Len(workers)
      BY <1>1 DEF CallsOK, CallOK
    <3>3. QED
      BY <1>5, <3>1, <3>2
  <2>2. \A c \in calls : CallOK(c)'
    BY Zenon, <1>1, <1>3, <1>4, <1>5, <2>1 DEF CallsOK, CallOK
  <2>3. QED
    BY <1>1, <1>3, <2>2 DEF CallsOK
<1>14. WaitGroupOK' /\ TasksOK'
  BY Zenon, <1>1, <1>3, <1>4, TasksUntouched
<1>15. QED
  BY <1>9, <1>10, <1>11, <1>12, <1>13, <1>14 DEF JobInv

(* forwardRegistrations tells schedule() of one more worker.               *)
LEMMA ForwardStep ==
  ASSUME JobInv, NEW p \in Phase, Forward(p)
  PROVE  JobInv'
<1>1. /\ TypeOK /\ DOMAIN out = Phase /\ WorkersOK /\ SendersOK /\ CallsOK /\ WaitGroupOK
      /\ TasksOK /\ SequentialOK
  BY DEF JobInv
<1>2. /\ workers \in Seq(Worker) /\ Len(workers) \in Nat /\ told \in [Phase -> Nat]
      /\ told[p] < Len(workers)
      /\ told' = [told EXCEPT ![p] = told[p] + 1]
      /\ UNCHANGED <<masterVars, calls, workers, workerVars, out, crashes, setup>>
  BY <1>1 DEF Forward, TypeOK
<1>3. UNCHANGED <<pc, loop, tasks, task, wg, killed, calls, workers, loopOf, mode, out>>
  BY <1>2 DEF masterVars, workerVars, setup
<1>4. PICK w \in Worker : /\ w = workers[told[p] + 1]
                          /\ senders' = senders \cup {[phase |-> p, worker |-> w]}
  BY <1>2 DEF Forward
<1>5. told' \in [Phase -> Nat] /\ \A q \in Phase : told'[q] = IF q = p THEN told[q] + 1 ELSE told[q]
  BY <1>2
<1>6. senders' \subseteq [phase : Phase, worker : Worker]
  BY <1>1, <1>4 DEF TypeOK
<1>7. TypeOK' /\ DOMAIN out' = Phase
  BY Zenon, <1>1, <1>2, <1>3, <1>5, <1>6 DEF TypeOK, setup, workerVars
<1>8. SequentialOK' /\ CallsOK' /\ WaitGroupOK' /\ TasksOK'
  <2>1. WaitGroupOK' /\ TasksOK'
    BY Zenon, <1>1, <1>3, TasksUntouched
  <2>2. QED
    BY Zenon, <1>1, <1>3, <2>1 DEF SequentialOK, CallsOK, CallOK
<1>9. WorkersOK'
  BY <1>1, <1>2, <1>3 DEF WorkersOK
<1>10. SendersOK'
  <2>1. \A q \in Phase : \A v : Told(q, v) => Told(q, v)'
    BY <1>2 DEF Told
  <2>2. Told(p, w)'
    BY <1>2, <1>4 DEF Told
  <2>3. ~Told(p, w)
    BY <1>1, <1>2, <1>4 DEF Told, WorkersOK
  <2>4. \A s \in senders : s.phase \in Phase
    BY <1>1 DEF TypeOK
  <2>5. \A s \in senders' : Told(s.phase, s.worker)'
    BY <1>1, <1>4, <2>1, <2>2, <2>4 DEF SendersOK
  <2>6. ASSUME NEW c \in calls, c.phase \in Phase
        PROVE  [phase |-> c.phase, worker |-> c.worker] \notin senders'
    BY <1>1, <1>4, <2>3, <2>6 DEF SendersOK
  <2>7. QED
    BY <1>1, <1>3, <2>1, <2>5, <2>6 DEF SendersOK
<1>11. QED
  BY <1>7, <1>8, <1>9, <1>10 DEF JobInv
-----------------------------------------------------------------------------
(* schedule() *)

(* The list loses its head, which it had once.                             *)
LEMMA HeadTaken ==
  ASSUME tasks \in Seq(Nat), tasks # <<>>, tasks' = Tail(tasks),
         \A i, j \in 1 .. Len(tasks) : tasks[i] = tasks[j] => i = j,
         NEW t, t = Head(tasks)
  PROVE  /\ tasks' \in Seq(Nat) /\ t \in Nat
         /\ Listed = Listed' \cup {t} /\ t \notin Listed'
         /\ \A i, j \in 1 .. Len(tasks') : tasks'[i] = tasks'[j] => i = j
<1>1. /\ Len(tasks) \in Nat /\ Len(tasks) >= 1 /\ t = tasks[1] /\ t \in Nat
      /\ tasks' \in Seq(Nat) /\ Len(tasks') = Len(tasks) - 1
      /\ \A i \in 1 .. Len(tasks) - 1 : tasks'[i] = tasks[i + 1]
  BY Rest
<1>2. \A i \in 1 .. Len(tasks) : \/ i = 1
                                 \/ i - 1 \in 1 .. Len(tasks') /\ tasks'[i - 1] = tasks[i]
  BY <1>1
<1>3. \A i \in 1 .. Len(tasks') : /\ i + 1 \in 1 .. Len(tasks) /\ i + 1 # 1
                                  /\ tasks'[i] = tasks[i + 1]
  BY <1>1
<1>4. 1 \in 1 .. Len(tasks) /\ tasks[1] = t
  BY <1>1
<1>5. t \notin Listed'
  BY <1>3, <1>4 DEF Listed
<1>6. ASSUME NEW u \in Listed PROVE u \in Listed' \cup {t}
  <2>1. PICK i \in 1 .. Len(tasks) : u = tasks[i]
    BY DEF Listed
  <2>2. CASE i = 1
    BY <1>4, <2>1, <2>2
  <2>3. CASE i - 1 \in 1 .. Len(tasks') /\ tasks'[i - 1] = tasks[i]
    BY Zenon, <2>1, <2>3 DEF Listed
  <2>4. QED
    BY <1>2, <2>2, <2>3
<1>7. \A u : u \in Listed' \cup {t} => u \in Listed
  BY <1>3, <1>4 DEF Listed
<1>8. \A i, j \in 1 .. Len(tasks') : tasks'[i] = tasks'[j] => i = j
  BY <1>3
<1>9. QED
  BY Zenon, <1>1, <1>5, <1>6, <1>7, <1>8

(* The head of the loop.                                                   *)
LEMMA TakeTaskStep ==
  ASSUME JobInv, TakeTask
  PROVE  JobInv'
<1>1. /\ TypeOK /\ DOMAIN out = Phase /\ WorkersOK /\ SendersOK /\ CallsOK /\ WaitGroupOK
      /\ TasksOK /\ SequentialOK
  BY DEF JobInv
<1>2. /\ pc \in Phase /\ mode = "Distributed"
      /\ UNCHANGED <<pc, wg, senders, calls, workers, told, killed, loopOf, nRPC, out,
                     crashes, mode, reliable>>
  BY DEF TakeTask, workerVars, setup
<1>3. SequentialOK' /\ WorkersOK' /\ SendersOK' /\ CallsOK' /\ WaitGroupOK'
  BY <1>1, <1>2 DEF SequentialOK, WorkersOK, SendersOK, Told, CallsOK, CallOK, WaitGroupOK,
                    Engaged
<1>4. CASE tasks = <<>>
  <2>1. loop' = "wait" /\ loop = "take" /\ UNCHANGED <<tasks, task>>
    BY <1>4 DEF TakeTask
  <2>2. TypeOK' /\ DOMAIN out' = Phase
    BY Zenon, <1>1, <1>2, <2>1 DEF TypeOK
  <2>3. TasksOK'
    BY <1>1, <1>2, <2>1 DEF TasksOK, Listed, InHand, Called, Unfinished
  <2>4. QED
    BY <1>3, <2>2, <2>3 DEF JobInv
<1>5. CASE tasks # <<>>
  <2>1. /\ loop' = "receive" /\ loop = "take" /\ task' = Head(tasks)
        /\ tasks' = Tail(tasks) /\ tasks \in Seq(Nat)
    BY <1>1, <1>5 DEF TakeTask, TypeOK
  <2>2. PICK t : t = Head(tasks)
    OBVIOUS
  <2>3. /\ tasks' \in Seq(Nat) /\ t \in Nat
        /\ Listed = Listed' \cup {t} /\ t \notin Listed'
        /\ \A i, j \in 1 .. Len(tasks') : tasks'[i] = tasks'[j] => i = j
    BY Zenon, <1>1, <1>2, <1>5, <2>1, <2>2, HeadTaken DEF TasksOK
  <2>4. task = NoTask /\ task' = t /\ t # NoTask /\ t \in TaskOf(pc)
    BY <1>1, <1>2, <2>1, <2>2, <2>3 DEF TasksOK, NoTask
  <2>5. TypeOK' /\ DOMAIN out' = Phase
    BY Zenon, <1>1, <1>2, <2>1, <2>3, <2>4 DEF TypeOK, Phase
  <2>6. InHand = {} /\ InHand' = {t} /\ Called' = Called /\ Unfinished' = Unfinished
    BY <1>2, <2>4 DEF InHand, Called, Unfinished
  <2>7. TasksOK'
    BY <1>1, <1>2, <2>1, <2>3, <2>4, <2>6 DEF TasksOK
  <2>8. QED
    BY <1>3, <2>5, <2>7 DEF JobInv
<1>6. QED
  BY <1>4, <1>5

(* What a DoTask call adds to the account of its worker and of its task.   *)
LEMMA CallAdded ==
  ASSUME NEW c, calls' = calls \cup {c}
  PROVE  /\ Engaged' = Engaged \cup {c.worker} /\ Called' = Called \cup {c.task}
         /\ Unfinished \subseteq Unfinished'
         /\ c.stage # "executed" => c.task \in Unfinished'
BY DEF Engaged, Called, Unfinished

(* And what it leaves when it has returned.                                *)
LEMMA CallRemoved ==
  ASSUME NEW c \in calls, calls' = calls \ {c},
         \A d \in calls : d.worker = c.worker => d = c
  PROVE  /\ Engaged' = Engaged \ {c.worker} /\ c.worker \in Engaged
         /\ Called' \subseteq Called
         /\ Unfinished' \subseteq Unfinished
         /\ Unfinished \subseteq Unfinished' \cup {c.task}
BY DEF Engaged, Called, Unfinished

INSTANCE FiniteSetTheorems

(* The tasks of a phase are numbered from 0, without gaps.                 *)
LEMMA AllTasksList ==
  ASSUME NEW p \in Phase
  PROVE  /\ AllTasks(p) \in Seq(Nat)
         /\ \A i \in 1 .. Len(AllTasks(p)) : AllTasks(p)[i] = i - 1 /\ i - 1 \in TaskOf(p)
         /\ \A t \in TaskOf(p) : t + 1 \in 1 .. Len(AllTasks(p)) /\ AllTasks(p)[t + 1] = t
<1>1. PICK n : n = IF p = "map" THEN NMap ELSE NReduce
  OBVIOUS
<1>2. n \in Nat /\ TaskOf(p) = 0 .. n - 1
  BY <1>1, SizeAssumption DEF TaskOf, MapTask, ReduceTask, Phase
<1>3. Cardinality(0 .. n - 1) = n
  BY <1>2, FS_Interval
<1>4. AllTasks(p) = [i \in 1 .. n |-> i - 1]
  BY <1>2, <1>3 DEF AllTasks
<1>5. QED
  BY <1>2, <1>4

(* The workers with a call are finitely many.                              *)
LEMMA EngagedFinite ==
  ASSUME TypeOK
  PROVE  IsFiniteSet(Engaged) /\ Engaged \subseteq Worker
BY WorkerAssumption, FS_Subset DEF TypeOK, Call, Engaged

(* A worker is received and the goroutine of the task is started, or the   *)
(* index into mapFiles is out of range.                                    *)
LEMMA IssueTaskStep ==
  ASSUME JobInv, NEW s \in senders, IssueTask(s)
  PROVE  JobInv'
<1>1. /\ TypeOK /\ DOMAIN out = Phase /\ WorkersOK /\ SendersOK /\ CallsOK /\ WaitGroupOK
      /\ TasksOK /\ SequentialOK
  BY DEF JobInv
<1>2. /\ pc \in Phase /\ s.phase = pc /\ loop = "receive" /\ wg' = wg + 1
      /\ senders' = senders \ {s}
      /\ UNCHANGED <<tasks, workers, told, killed, loopOf, nRPC, out, crashes, mode, reliable>>
  BY DEF IssueTask, workerVars, setup
<1>3. /\ s \in [phase : Phase, worker : Worker] /\ wg \in Nat /\ mode = "Distributed"
      /\ task \in TaskOf(pc) /\ task # NoTask /\ calls \subseteq Call
  BY Zenon, <1>1, <1>2 DEF TypeOK, SequentialOK, TasksOK, InHand
<1>4. SequentialOK' /\ WorkersOK'
  BY Zenon, <1>1, <1>2 DEF SequentialOK, WorkersOK
<1>5. CASE task < NMap
  <2>1. PICK c : c = [phase |-> s.phase, task |-> task, worker |-> s.worker, stage |-> "dial"]
    BY Zenon
  <2>2. /\ c.phase = pc /\ c.task = task /\ c.worker = s.worker /\ c.stage = "dial"
        /\ c \in Call /\ s = [phase |-> c.phase, worker |-> c.worker]
    BY <1>2, <1>3, <2>1 DEF TaskOf, MapTask, ReduceTask, Call, Stages
  <2>3. calls' = calls \cup {c} /\ task' = NoTask /\ loop' = "take" /\ pc' = pc
    BY Zenon, <1>5, <2>1 DEF IssueTask
  <2>4. TypeOK' /\ DOMAIN out' = Phase
    BY <1>1, <1>2, <2>2, <2>3 DEF TypeOK
  <2>5. \A d \in calls : d.phase = pc
    BY Zenon, <1>1, <1>2 DEF CallsOK, CallOK, Phase
  <2>6. \A d \in calls : d.worker # c.worker
    BY Zenon, <1>1, <1>2, <2>2, <2>5 DEF SendersOK
  <2>7. SendersOK'
    BY Zenon, <1>1, <1>2, <2>2, <2>3 DEF SendersOK, Told
  <2>8. CallsOK'
    BY Zenon, <1>1, <1>3, <2>2, <2>3, <2>6 DEF CallsOK, CallOK, Phase
  <2>9. WaitGroupOK'
    <3>1. Engaged' = Engaged \cup {c.worker} /\ c.worker \notin Engaged
      BY <2>3, <2>6 DEF Engaged
    <3>2. IsFiniteSet(Engaged)
      BY <1>1, EngagedFinite
    <3>3. Cardinality(Engaged') = Cardinality(Engaged) + 1
      BY Zenon, <3>1, <3>2, FS_AddElement
    <3>4. QED
      BY <1>1, <1>2, <3>3 DEF WaitGroupOK
  <2>10. TasksOK'
    <3>1. /\ Called' = Called \cup {task} /\ Unfinished \subseteq Unfinished'
          /\ task \in Unfinished'
      BY Zenon, <2>2, <2>3, CallAdded
    <3>2. Listed' = Listed /\ InHand = {task} /\ InHand' = {}
      BY Zenon, <1>2, <1>3, <2>3 DEF Listed, InHand
    <3>3. \A d \in calls : d.task # c.task
      BY Zenon, <1>1, <1>2, <2>2, <3>2 DEF TasksOK, Called
    <3>4. \A d, e \in calls' : d.task = e.task => d = e
      BY Zenon, <1>1, <1>2, <2>3, <3>3 DEF TasksOK
    <3>5. QED
      BY Zenon, <1>1, <1>2, <2>3, <3>1, <3>2, <3>4 DEF TasksOK
  <2>11. QED
    BY <1>4, <2>4, <2>7, <2>8, <2>9, <2>10 DEF JobInv
<1>6. CASE ~(task < NMap)
  <2>1. pc' = "panic" /\ UNCHANGED <<calls, task, loop>>
    BY Zenon, <1>6 DEF IssueTask
  <2>2. pc = "reduce"
    BY <1>2, <1>3, <1>6, SizeAssumption DEF TaskOf, MapTask, Phase
  <2>3. TypeOK' /\ DOMAIN out' = Phase
    BY <1>1, <1>2, <2>1 DEF TypeOK
  <2>4. SendersOK'
    BY Zenon, <1>1, <1>2, <2>1 DEF SendersOK, Told
  <2>5. CallsOK'
    BY Zenon, <1>1, <2>1, <2>2 DEF CallsOK, CallOK
  <2>6. WaitGroupOK' /\ TasksOK'
    BY Zenon, <2>1 DEF WaitGroupOK, TasksOK, Phase
  <2>7. QED
    BY <1>4, <2>3, <2>4, <2>5, <2>6 DEF JobInv
<1>7. QED
  BY <1>5, <1>6

(* The call has returned: the task is done, or it goes back to the list.   *)
LEMMA TaskReturnsStep ==
  ASSUME JobInv, MasterUp, NEW c \in calls, TaskDone(c) \/ TaskFailed(c)
  PROVE  JobInv'
<1>1. /\ TypeOK /\ DOMAIN out = Phase /\ WorkersOK /\ SendersOK /\ CallsOK /\ WaitGroupOK
      /\ TasksOK /\ mode = "Distributed"
  BY CallsDistributed DEF JobInv
<1>2. /\ calls' = calls \ {c} /\ wg' = wg - 1 /\ c.phase \in Phase
      /\ UNCHANGED <<pc, loop, task, killed, workers, told, loopOf, nRPC, out, crashes,
                     mode, reliable>>
  BY Zenon DEF TaskDone, TaskFailed, workerVars, setup
<1>3. /\ c.phase = pc /\ c.task \in TaskOf(pc) /\ c.worker \in Worker /\ c \in Call
      /\ \A d \in calls : d.worker = c.worker => d = c
  BY Zenon, <1>1, <1>2 DEF CallsOK, CallOK, MasterUp, TypeOK, Call
<1>4. /\ Engaged' = Engaged \ {c.worker} /\ c.worker \in Engaged
      /\ Called' \subseteq Called /\ Unfinished' \subseteq Unfinished
      /\ Unfinished \subseteq Unfinished' \cup {c.task}
  BY <1>2, <1>3, CallRemoved
<1>5. WaitGroupOK' /\ wg' \in Nat
  <2>1. IsFiniteSet(Engaged) /\ IsFiniteSet(Engaged')
    BY <1>1, <1>4, EngagedFinite, FS_Subset
  <2>2. /\ Cardinality(Engaged') = Cardinality(Engaged) - 1
        /\ Cardinality(Engaged') \in Nat
    BY <1>4, <2>1, FS_RemoveElement, FS_CardinalityType
  <2>3. wg = Cardinality(Engaged)
    BY <1>1, <1>2, <1>3 DEF WaitGroupOK
  <2>4. QED
    BY <1>2, <2>2, <2>3 DEF WaitGroupOK
<1>6. SequentialOK' /\ WorkersOK'
  BY Zenon, <1>1, <1>2 DEF SequentialOK, WorkersOK
<1>7. CallsOK'
  BY Zenon, <1>1, <1>2 DEF CallsOK, CallOK
<1>8. \A p, w : Told(p, w)' <=> Told(p, w)
  BY <1>2 DEF Told
<1>9. c.task \in Called /\ c.task \notin Called'
  BY Zenon, <1>1, <1>2, <1>3 DEF TasksOK, Called
<1>10. CASE TaskDone(c)
  <2>1. /\ c.stage = "executed" /\ UNCHANGED tasks
        /\ senders' = senders \cup {[phase |-> c.phase, worker |-> c.worker]}
    BY Zenon, <1>10 DEF TaskDone
  <2>2. TypeOK' /\ DOMAIN out' = Phase
    BY <1>1, <1>2, <1>3, <1>5, <2>1 DEF TypeOK
  <2>3. SendersOK'
    <3>1. Told(c.phase, c.worker) /\ \A s \in senders : Told(s.phase, s.worker)
      BY Zenon, <1>1, <1>2 DEF SendersOK
    <3>2. \A s \in senders' : Told(s.phase, s.worker)
      BY <2>1, <3>1
    <3>3. ASSUME NEW d \in calls', d.phase \in Phase
          PROVE  /\ Told(d.phase, d.worker)
                 /\ [phase |-> d.phase, worker |-> d.worker] \notin senders'
      <4>1. d \in calls /\ d.worker # c.worker
        BY Zenon, <1>2, <1>3, <3>3
      <4>2. /\ Told(d.phase, d.worker)
            /\ [phase |-> d.phase, worker |-> d.worker] \notin senders
        BY Zenon, <1>1, <3>3, <4>1 DEF SendersOK
      <4>3. QED
        BY <2>1, <4>1, <4>2
    <3>4. QED
      BY Zenon, <1>8, <3>2, <3>3 DEF SendersOK
  <2>4. TasksOK'
    <3>1. Listed' = Listed /\ InHand' = InHand
      BY Zenon, <1>2, <2>1 DEF Listed, InHand
    <3>2. Unfinished = Unfinished'
      BY Zenon, <1>2, <2>1 DEF Unfinished
    <3>3. QED
      BY Zenon, <1>1, <1>2, <1>4, <2>1, <3>1, <3>2 DEF TasksOK
  <2>5. QED
    BY <1>5, <1>6, <1>7, <2>2, <2>3, <2>4 DEF JobInv
<1>11. CASE TaskFailed(c)
  <2>1. UNCHANGED senders /\ tasks' = Append(tasks, c.task)
    BY Zenon, <1>11 DEF TaskFailed
  <2>2. c.task \in Nat
    BY <1>3, SizeAssumption DEF TaskOf, MapTask, ReduceTask
  <2>3. /\ tasks' \in Seq(Nat) /\ Len(tasks) \in Nat
        /\ Len(tasks') = Len(tasks) + 1 /\ tasks'[Len(tasks) + 1] = c.task
        /\ \A i \in 1 .. Len(tasks) : tasks'[i] = tasks[i]
    <3>1. tasks \in Seq(Nat)
      BY Zenon, <1>1 DEF TypeOK
    <3>2. QED
      BY <2>1, <2>2, <3>1, Longer
  <2>4. TypeOK' /\ DOMAIN out' = Phase
    BY Zenon, <1>1, <1>2, <1>5, <2>1, <2>3 DEF TypeOK
  <2>5. SendersOK'
    BY Zenon, <1>1, <1>2, <1>8, <2>1 DEF SendersOK
  <2>6. TasksOK'
    <3>1. tasks \in Seq(Nat)
      BY Zenon, <1>1 DEF TypeOK
    <3>2. /\ c.task \notin Listed
          /\ \A i, j \in 1 .. Len(tasks) : tasks[i] = tasks[j] => i = j
      BY Zenon, <1>1, <1>2, <1>3, <1>9 DEF TasksOK
    <3>3. /\ Listed' = Listed \cup {c.task}
          /\ \A i, j \in 1 .. Len(tasks') : tasks'[i] = tasks'[j] => i = j
      BY <2>1, <2>2, <3>1, <3>2, LongerSet DEF Listed
    <3>4. InHand' = InHand
      BY <1>2 DEF InHand
    <3>5. c.task \notin InHand /\ c.task \in TaskOf(pc)
      BY Zenon, <1>1, <1>2, <1>3, <1>9 DEF TasksOK
    <3>6. Unfinished \subseteq Unfinished' \cup Listed'
      BY Zenon, <1>4, <3>3
    <3>7. /\ loop' = "receive" <=> task' # NoTask
          /\ \A d, e \in calls' : d.task = e.task => d = e
      BY Zenon, <1>1, <1>2, <1>3 DEF TasksOK
    <3>8. /\ Listed' \cup InHand' \cup Called' \subseteq TaskOf(pc)
          /\ Listed' \cap Called' = {} /\ InHand' \cap (Listed' \cup Called') = {}
      <4>1. /\ Listed \cup InHand \cup Called \subseteq TaskOf(pc)
            /\ Listed \cap Called = {} /\ InHand \cap (Listed \cup Called) = {}
        BY Zenon, <1>1, <1>2, <1>3 DEF TasksOK
      <4>2. QED
        BY <1>4, <1>9, <3>3, <3>4, <3>5, <4>1
    <3>9. \A t \in TaskOf(pc) \ (Listed' \cup InHand' \cup Unfinished') :
            out'[pc][t] \in {"short", "full"}
      BY Zenon, <1>1, <1>2, <1>3, <3>3, <3>4, <3>6 DEF TasksOK
    <3>10. QED
      BY Zenon, <1>2, <3>3, <3>7, <3>8, <3>9 DEF TasksOK
  <2>7. QED
    BY <1>5, <1>6, <1>7, <2>4, <2>5, <2>6 DEF JobInv
<1>12. QED
  BY <1>10, <1>11

(* The first steps of a phase find every task in the list.                 *)
LEMMA PhaseBegins ==
  ASSUME NEW p \in Phase, pc' = p, tasks' = AllTasks(p), loop' = "take",
         task' = NoTask, calls' = {}, wg' = 0
  PROVE  TasksOK' /\ WaitGroupOK' /\ tasks' \in Seq(Nat)
<1>1. /\ tasks' \in Seq(Nat)
      /\ \A i \in 1 .. Len(tasks') : tasks'[i] = i - 1 /\ i - 1 \in TaskOf(p)
      /\ \A t \in TaskOf(p) : t + 1 \in 1 .. Len(tasks') /\ tasks'[t + 1] = t
  BY Zenon, AllTasksList
<1>2. Listed' = TaskOf(p)
  BY <1>1 DEF Listed
<1>3. InHand' = {} /\ Called' = {} /\ Engaged' = {}
  BY DEF InHand, Called, Engaged
<1>4. \A i, j \in 1 .. Len(tasks') : tasks'[i] = tasks'[j] => i = j
  BY <1>1
<1>5. TasksOK'
  BY Zenon, <1>2, <1>3, <1>4 DEF TasksOK
<1>6. QED
  BY <1>1, <1>3, <1>5, FS_EmptySet DEF WaitGroupOK

(* wg.Wait is over.                                                        *)
LEMMA ScheduleReturnsStep ==
  ASSUME JobInv, ScheduleReturns
  PROVE  JobInv' /\ calls = {} /\ task = NoTask
<1>1. /\ TypeOK /\ DOMAIN out = Phase /\ WorkersOK /\ SendersOK /\ CallsOK /\ WaitGroupOK
      /\ TasksOK /\ mode = "Distributed"
  BY Zenon DEF JobInv, TypeOK, SequentialOK, ScheduleReturns
<1>2. /\ pc \in Phase /\ loop = "wait" /\ loop' = "take" /\ wg = 0
      /\ UNCHANGED <<task, wg, senders, calls, workers, told, killed, loopOf, nRPC, out,
                     crashes, mode, reliable>>
  BY DEF ScheduleReturns, workerVars, setup
<1>3. calls = {} /\ task = NoTask
  <2>1. Engaged = {}
    BY Zenon, <1>1, <1>2, EngagedFinite, FS_EmptySet DEF WaitGroupOK
  <2>2. calls = {}
    BY Zenon, <2>1 DEF Engaged
  <2>3. task = NoTask
    BY Zenon, <1>1, <1>2 DEF TasksOK
  <2>4. QED
    BY <2>2, <2>3
<1>4. SequentialOK' /\ WorkersOK' /\ SendersOK' /\ CallsOK'
  BY Zenon, <1>1, <1>2, <1>3 DEF SequentialOK, WorkersOK, SendersOK, Told, CallsOK
<1>5. CASE pc = "map"
  BY Zenon, <1>2, <1>3, <1>4, <1>5, PhaseBegins DEF ScheduleReturns, Phase, TypeOK,
         JobInv
<1>6. CASE pc # "map"
  BY Zenon, <1>2, <1>3, <1>4, <1>6 DEF ScheduleReturns, TasksOK, WaitGroupOK, Phase,
         TypeOK, JobInv
<1>7. QED
  BY <1>5, <1>6
-----------------------------------------------------------------------------
(* The end of the job, and the Sequential master *)

(* killWorkers sends the next Shutdown call.                               *)
LEMMA KillNextStep ==
  ASSUME JobInv, KillNext
  PROVE  JobInv'
<1>1. /\ TypeOK /\ DOMAIN out = Phase /\ WorkersOK /\ SendersOK /\ CallsOK /\ WaitGroupOK
      /\ TasksOK
  BY DEF JobInv
<1>2. /\ pc = "kill" /\ killed < Len(workers) /\ \A c \in calls : c.phase # "kill"
      /\ UNCHANGED <<pc, loop, tasks, task, wg, killed, senders, workers, told, loopOf, nRPC,
                     out, crashes, mode, reliable>>
  BY DEF KillNext, masterVars, workerVars, setup
<1>3. /\ workers \in Seq(Worker) /\ Len(workers) \in Nat /\ killed \in Nat
      /\ killed + 1 \in 1 .. Len(workers)
  BY <1>1, <1>2 DEF TypeOK
<1>4. workers[killed + 1] \in Worker
  BY <1>3
<1>5. PICK c : /\ c = [phase |-> "kill", task |-> NoTask,
                       worker |-> workers[killed + 1], stage |-> "dial"]
               /\ calls' = calls \cup {c}
  BY Zenon DEF KillNext
<1>6. c \in Call /\ c.phase = "kill" /\ c.worker = workers[killed + 1] /\ c.stage = "dial"
  BY <1>4, <1>5 DEF Call, Stages, NoTask
<1>7. calls = {} /\ calls' = {c}
  BY Zenon, <1>1, <1>2, <1>5 DEF CallsOK, CallOK
<1>8. mode = "Distributed" /\ mode' = mode
  BY <1>2 DEF JobInv, SequentialOK, TypeOK
<1>9. TypeOK' /\ DOMAIN out' = Phase
  BY Zenon, <1>1, <1>2, <1>6, <1>7 DEF TypeOK
<1>10. SequentialOK' /\ WorkersOK'
  BY Zenon, <1>1, <1>2, <1>8 DEF SequentialOK, WorkersOK
<1>11. SendersOK'
  BY Zenon, <1>1, <1>2, <1>6, <1>7 DEF SendersOK, Told, Phase
<1>12. CallsOK'
  BY Zenon, <1>2, <1>6, <1>7 DEF CallsOK, CallOK, Phase
<1>13. WaitGroupOK' /\ TasksOK'
  BY Zenon, <1>2 DEF WaitGroupOK, TasksOK, Phase
<1>14. QED
  BY <1>9, <1>10, <1>11, <1>12, <1>13 DEF JobInv

(* It has returned.                                                        *)
LEMMA KillReturnsStep ==
  ASSUME JobInv, MasterUp, NEW c \in calls, KillReturns(c)
  PROVE  JobInv'
<1>1. /\ TypeOK /\ DOMAIN out = Phase /\ WorkersOK /\ SendersOK /\ CallsOK
      /\ mode = "Distributed"
  BY CallsDistributed DEF JobInv
<1>2. /\ c.phase = "kill" /\ calls' = calls \ {c} /\ killed' = killed + 1
      /\ UNCHANGED <<pc, loop, tasks, task, wg, senders, workers, told, loopOf, nRPC, out,
                     crashes, mode, reliable>>
  BY DEF KillReturns, workerVars, setup
<1>3. pc = "kill" /\ killed < Len(workers) /\ c.worker = workers[killed + 1]
  BY <1>1, <1>2 DEF CallsOK, CallOK
<1>4. calls' = {}
  BY <1>1, <1>2 DEF CallsOK, CallOK
<1>5. killed \in Nat /\ Len(workers) \in Nat
  BY <1>1 DEF TypeOK
<1>6. killed' \in 0 .. Len(workers')
  BY <1>2, <1>3, <1>5
<1>7. TypeOK' /\ DOMAIN out' = Phase
  BY Zenon, <1>1, <1>2, <1>6 DEF TypeOK
<1>8. SequentialOK' /\ WorkersOK' /\ SendersOK' /\ CallsOK'
  BY Zenon, <1>1, <1>2, <1>4 DEF SequentialOK, WorkersOK, SendersOK, Told, CallsOK
<1>9. WaitGroupOK' /\ TasksOK'
  BY Zenon, <1>2, <1>3 DEF WaitGroupOK, TasksOK, Phase
<1>10. QED
  BY <1>7, <1>8, <1>9 DEF JobInv

(* killWorkers, stopRPCServer, merge or CleanupFiles is over.              *)
LEMMA FinishStep ==
  ASSUME JobInv, KillDone \/ StopRPCServer \/ Merge \/ CleanupFiles
  PROVE  JobInv' /\ calls = {}
<1>1. /\ TypeOK /\ DOMAIN out = Phase /\ WorkersOK /\ SendersOK /\ CallsOK /\ SequentialOK
  BY DEF JobInv
<1>2. /\ pc \in {"kill", "stop", "merge", "done"}
      /\ pc' \in {"stop", "merge", "fatal", "done", "clean"}
      /\ pc = "kill" => killed = Len(workers)
      /\ UNCHANGED <<loop, tasks, task, wg, killed, senders, calls, workers, told, loopOf,
                     nRPC, crashes, mode, reliable>>
  BY Zenon DEF KillDone, StopRPCServer, Merge, CleanupFiles, workerVars, setup
<1>3. calls = {}
  <2>1. ASSUME NEW c \in calls PROVE FALSE
    <3>1. c.phase \in {"map", "reduce", "kill"}
      BY Zenon, <1>1 DEF TypeOK, Call, Phase
    <3>2. c.phase = "kill" /\ pc = "kill" /\ killed < Len(workers)
      BY Zenon, <1>1, <1>2, <3>1 DEF CallsOK, CallOK
    <3>3. QED
      BY <1>2, <3>2
  <2>2. QED
    BY <2>1
<1>4. DOMAIN out' = Phase /\ \A p \in Phase : out'[p] \in [TaskOf(p) -> Output]
  BY <1>1 DEF TypeOK, Output, KillDone, StopRPCServer, Merge, CleanupFiles
<1>5. TypeOK'
  BY Zenon, <1>1, <1>2, <1>4 DEF TypeOK
<1>6. SequentialOK' /\ WorkersOK' /\ SendersOK' /\ CallsOK'
  BY <1>1, <1>2, <1>3 DEF SequentialOK, WorkersOK, SendersOK, Told, CallsOK
<1>7. WaitGroupOK' /\ TasksOK'
  BY Zenon, <1>2 DEF WaitGroupOK, TasksOK, Phase
<1>8. QED
  BY <1>3, <1>4, <1>5, <1>6, <1>7 DEF JobInv

(* The loops of a Sequential job.                                          *)
LEMMA SequentialStep ==
  ASSUME JobInv, SequentialTask \/ SequentialReturns
  PROVE  JobInv'
<1>1. /\ TypeOK /\ DOMAIN out = Phase /\ WorkersOK /\ SendersOK /\ CallsOK /\ WaitGroupOK
      /\ TasksOK /\ SequentialOK
  BY DEF JobInv
<1>2. /\ mode = "Sequential" /\ pc \in Phase
      /\ UNCHANGED <<loop, task, wg, killed, senders, calls, workers, told, loopOf, nRPC,
                     crashes, mode, reliable>>
  BY DEF SequentialTask, SequentialReturns, workerVars, setup
<1>3. loop = "take" /\ task = NoTask /\ calls = {}
  BY <1>1, <1>2 DEF SequentialOK
<1>4. SequentialOK' /\ WorkersOK' /\ SendersOK' /\ CallsOK'
  BY <1>1, <1>2 DEF SequentialOK, WorkersOK, SendersOK, Told, CallsOK
<1>5. Engaged = {} /\ wg = 0
  BY <1>1, <1>2, <1>3, FS_EmptySet DEF Engaged, WaitGroupOK
<1>6. CASE SequentialTask
  <2>1. /\ tasks # <<>> /\ tasks' = Tail(tasks) /\ tasks \in Seq(Nat) /\ pc' = pc
        /\ out' = [out EXCEPT ![pc][Head(tasks)] = Result(pc)]
    BY Zenon, <1>1, <1>6 DEF SequentialTask, TypeOK
  <2>2. PICK p, t, o : p = pc /\ t = Head(tasks) /\ o = Result(pc)
    OBVIOUS
  <2>3. o \in Output /\ o \in {"short", "full"} /\ p \in Phase
    BY <1>2, <2>2 DEF Result, Output
  <2>4. out' = [out EXCEPT ![p][t] = o]
    BY <2>1, <2>2
  <2>5. /\ DOMAIN out' = Phase /\ \A q \in Phase : out'[q] \in [TaskOf(q) -> Output]
        /\ \A u \in TaskOf(p) : out'[p][u] = IF u = t THEN o ELSE out[p][u]
    BY Zenon, <1>1, <2>3, <2>4, OutputType
  <2>6. /\ tasks' \in Seq(Nat)
        /\ Listed = Listed' \cup {t}
        /\ \A i, j \in 1 .. Len(tasks') : tasks'[i] = tasks'[j] => i = j
    BY Zenon, <1>1, <1>2, <2>1, <2>2, HeadTaken DEF TasksOK
  <2>7. TypeOK' /\ DOMAIN out' = Phase
    BY <1>1, <1>2, <2>1, <2>5 DEF TypeOK
  <2>8. /\ InHand' = InHand /\ Called' = Called /\ Unfinished' = Unfinished
        /\ Engaged' = Engaged
    BY <1>2 DEF InHand, Called, Unfinished, Engaged
  <2>9. \A u \in TaskOf(pc) \ (Listed' \cup InHand \cup Unfinished) :
          out'[pc][u] \in {"short", "full"}
    BY Zenon, <1>1, <2>2, <2>3, <2>5, <2>6 DEF TasksOK
  <2>10. TasksOK'
    BY Zenon, <1>1, <1>2, <2>1, <2>6, <2>8, <2>9 DEF TasksOK
  <2>11. WaitGroupOK'
    BY Zenon, <1>1, <1>2, <2>8 DEF WaitGroupOK
  <2>12. QED
    BY <1>4, <2>7, <2>10, <2>11 DEF JobInv
<1>7. CASE SequentialReturns /\ pc = "map"
  <2>1. pc' = "reduce" /\ tasks' = AllTasks("reduce") /\ out' = out
    BY <1>7 DEF SequentialReturns
  <2>2. TasksOK' /\ WaitGroupOK' /\ tasks' \in Seq(Nat)
    BY Zenon, <1>2, <1>3, <1>5, <2>1, PhaseBegins DEF Phase
  <2>3. TypeOK' /\ DOMAIN out' = Phase
    BY Zenon, <1>1, <1>2, <2>1, <2>2 DEF TypeOK, Phase
  <2>4. QED
    BY <1>4, <2>2, <2>3 DEF JobInv
<1>8. CASE SequentialReturns /\ pc # "map"
  <2>1. pc' = "merge" /\ tasks' = tasks /\ out' = out
    BY <1>8 DEF SequentialReturns
  <2>2. TasksOK' /\ WaitGroupOK'
    BY Zenon, <2>1 DEF TasksOK, WaitGroupOK, Phase
  <2>3. TypeOK' /\ DOMAIN out' = Phase
    BY Zenon, <1>1, <1>2, <2>1 DEF TypeOK
  <2>4. QED
    BY <1>4, <2>2, <2>3 DEF JobInv
<1>9. QED
  BY <1>6, <1>7, <1>8
-----------------------------------------------------------------------------
(* The invariant is one *)

(* A step of the goroutine of a call.                                      *)
LEMMA CallStepStep ==
  ASSUME JobInv, MasterUp, NEW c \in calls, CallStep(c)
  PROVE  JobInv'
BY DialStep, DoTaskBeginStep, WriteStep, ShutdownStep, TaskReturnsStep, KillReturnsStep
   DEF CallStep

(* A step of the master's main goroutine.                                  *)
LEMMA MasterStep ==
  ASSUME JobInv, Master
  PROVE  JobInv'
BY TakeTaskStep, ScheduleReturnsStep, IssueTaskStep, KillNextStep, FinishStep,
   SequentialStep DEF Master

(* Every step keeps the invariant.                                         *)
LEMMA JobStep ==
  ASSUME JobInv, [Next]_vars
  PROVE  JobInv'
<1>1. CASE Master \/ CleanupFiles
  BY <1>1, MasterStep, FinishStep
<1>2. CASE \E p \in Phase : Forward(p)
  BY <1>2, ForwardStep
<1>3. ASSUME NEW w \in Worker, StartWorker(w) \/ RunWorker(w) \/ CallTo(w) \/ WorkerCrash(w)
      PROVE  JobInv'
  BY <1>3, RegisterStep, WorkerLoopStep, CallStepStep, WorkerCrashStep DEF RunWorker,
         CallTo
<1>4. CASE UNCHANGED vars
  <2>1. /\ TypeOK /\ DOMAIN out = Phase /\ WorkersOK /\ SendersOK /\ CallsOK /\ WaitGroupOK
        /\ TasksOK /\ SequentialOK
    BY DEF JobInv
  <2>2. UNCHANGED <<pc, loop, tasks, task, wg, killed, senders, calls, workers, told, loopOf,
                    nRPC, out, crashes, mode, reliable>>
    BY <1>4 DEF vars, masterVars, workerVars, setup
  <2>3. TypeOK' /\ DOMAIN out' = Phase /\ SequentialOK'
    BY Zenon, <2>1, <2>2 DEF TypeOK, SequentialOK
  <2>4. WorkersOK' /\ SendersOK' /\ CallsOK' /\ WaitGroupOK'
    BY Zenon, <2>1, <2>2 DEF WorkersOK, SendersOK, Told, CallsOK, CallOK, WaitGroupOK,
           Engaged
  <2>5. TasksOK'
    BY Zenon, <2>1, <2>2, TasksUntouched
  <2>6. QED
    BY <2>3, <2>4, <2>5 DEF JobInv
<1>5. QED
  BY <1>1, <1>2, <1>3, <1>4 DEF Next

(* It holds when the job begins.                                           *)
LEMMA JobInit ==
  ASSUME Init
  PROVE  JobInv
<1>1. "map" \in Phase /\ Phase = {"map", "reduce"}
  BY DEF Phase
<1>2. /\ AllTasks("map") \in Seq(Nat)
      /\ \A i \in 1 .. Len(tasks) : tasks[i] = i - 1 /\ i - 1 \in TaskOf("map")
      /\ \A t \in TaskOf("map") : t + 1 \in 1 .. Len(tasks) /\ tasks[t + 1] = t
  BY <1>1, AllTasksList DEF Init
<1>3. /\ told \in [Phase -> Nat] /\ loopOf \in [Worker -> {"off"}]
      /\ DOMAIN out = Phase /\ \A p \in Phase : out[p] \in [TaskOf(p) -> Output]
  BY DEF Init, Output
<1>4. TypeOK
  BY <1>1, <1>2, <1>3, BoundAssumption DEF Init, TypeOK
<1>5. SequentialOK /\ WorkersOK /\ SendersOK /\ CallsOK
  BY DEF Init, SequentialOK, WorkersOK, SendersOK, CallsOK
<1>6. Engaged = {} /\ Listed = TaskOf("map") /\ InHand = {} /\ Called = {}
  <2>1. Listed = TaskOf("map")
    BY Zenon, <1>2 DEF Listed
  <2>2. calls = {} /\ task = NoTask
    BY DEF Init
  <2>3. QED
    BY <2>1, <2>2 DEF Engaged, InHand, Called
<1>7. WaitGroupOK
  BY <1>6, FS_EmptySet DEF Init, WaitGroupOK
<1>8. TasksOK
  BY <1>2, <1>6 DEF Init, TasksOK
<1>9. QED
  BY <1>3, <1>4, <1>5, <1>7, <1>8 DEF JobInv

(* The invariant of a job, whatever the workers do.                        *)
THEOREM JobInvariance == Spec => []JobInv
<1>1. Init => JobInv
  BY JobInit
<1>2. JobInv /\ [Next]_vars => JobInv'
  BY JobStep
<1>3. QED
  BY <1>1, <1>2, PTL DEF Spec

(* In particular wg.Done never takes the WaitGroup below zero, and         *)
(* killWorkers never goes past the registered workers.                     *)
THEOREM JobTypeCorrect == Spec => []TypeOK
<1>1. JobInv => TypeOK
  BY DEF JobInv
<1>2. QED
  BY <1>1, JobInvariance, PTL

(* A worker never has two RPCs at a time.                                  *)
THEOREM WorkersNotShared == Spec => []OneRPCPerWorker
<1>1. JobInv => OneRPCPerWorker
  BY DEF JobInv, CallsOK, OneRPCPerWorker
<1>2. QED
  BY <1>1, JobInvariance, PTL

(* A set with no two elements.                                             *)
LEMMA AtMostOne ==
  ASSUME NEW S, \A x, y \in S : x = y
  PROVE  S = {} \/ \E x : S = {x}
OBVIOUS

(* No task of a running phase is forgotten, or handed out twice at a time. *)
THEOREM NoTaskForgotten == Spec => []TasksAccounted
<1>1. ASSUME JobInv, pc \in Phase, NEW t \in TaskOf(pc)
      PROVE  Places(t) <= 1 /\ (Places(t) = 0 => out[pc][t] \in {"short", "full"})
  <2>1. TypeOK /\ CallsOK /\ TasksOK
    BY <1>1 DEF JobInv
  <2>2. PICK L, C, h : /\ L = {i \in 1 .. Len(tasks) : tasks[i] = t}
                       /\ C = {c \in calls : c.phase = pc /\ c.task = t}
                       /\ h = IF task = t THEN 1 ELSE 0
    BY Zenon
  <2>3. /\ L = {} \/ \E i : L = {i}
        /\ C = {} \/ \E c : C = {c}
    <3>1. \A i, j \in L : i = j
      BY <1>1, <2>1, <2>2 DEF TasksOK
    <3>2. \A c, d \in C : c = d
      BY <1>1, <2>1, <2>2 DEF TasksOK
    <3>3. QED
      BY <3>1, <3>2, AtMostOne
  <2>4. /\ Cardinality(L) \in {0, 1} /\ Cardinality(C) \in {0, 1}
        /\ Cardinality(L) = 0 <=> L = {}
        /\ Cardinality(C) = 0 <=> C = {}
    BY Zenon, <2>3, FS_EmptySet, FS_Singleton
  <2>5. t # NoTask
    BY DEF TaskOf, MapTask, ReduceTask, NoTask
  <2>6. /\ L # {} <=> t \in Listed
        /\ C # {} <=> t \in Called
        /\ h = 1 <=> t \in InHand
    BY <1>1, <2>1, <2>2, <2>5 DEF CallsOK, CallOK, Phase, Called, Listed, InHand
  <2>7. Places(t) = Cardinality(L) + h + Cardinality(C) /\ h \in {0, 1}
    BY <2>2 DEF Places
  <2>8. \/ t \notin Listed /\ t \notin InHand
        \/ t \notin Listed /\ t \notin Called
        \/ t \notin InHand /\ t \notin Called
    BY Zenon, <1>1, <2>1 DEF TasksOK
  <2>9. t \notin Listed \cup InHand \cup Called => out[pc][t] \in {"short", "full"}
    BY Zenon, <1>1, <2>1 DEF TasksOK, Called, Unfinished
  <2>10. QED
    BY <2>4, <2>6, <2>7, <2>8, <2>9
<1>2. JobInv => TasksAccounted
  BY <1>1 DEF TasksAccounted
<1>3. QED
  BY <1>2, JobInvariance, PTL
-----------------------------------------------------------------------------
(* The outputs of a phase that is over *)

(* A step writes one output of the phase that runs, or none, except that   *)
(* CleanupFiles removes them all.                                          *)
LEMMA OutputStep ==
  ASSUME JobInv, [Next]_vars
  PROVE  \/ out' = out
         \/ pc = "done" /\ pc' = "clean"
         \/ /\ pc \in Phase /\ pc' = pc
            /\ \E t, o : /\ out' = [out EXCEPT ![pc][t] = o]
                         /\ o \in {"cut", Result(pc)}
<1>1. CASE Master \/ CleanupFiles
  <2>1. CASE SequentialTask
    BY Zenon, <2>1 DEF SequentialTask
  <2>2. CASE Master /\ ~SequentialTask
    BY Zenon, <2>2 DEF Master, TakeTask, ScheduleReturns, IssueTask, KillNext,
           KillDone, StopRPCServer, Merge, SequentialReturns
  <2>3. CASE CleanupFiles
    BY <2>3 DEF CleanupFiles
  <2>4. QED
    BY Zenon, <1>1, <2>1, <2>2, <2>3
<1>2. CASE \E p \in Phase : Forward(p)
  BY <1>2 DEF Forward
<1>3. ASSUME NEW w \in Worker, StartWorker(w) \/ RunWorker(w) \/ WorkerCrash(w)
      PROVE  out' = out
  BY Zenon, <1>3 DEF StartWorker, RunWorker, Register, WorkerCheck, WorkerAccept,
         WorkerCrash
<1>4. ASSUME NEW w \in Worker, CallTo(w)
      PROVE  \/ out' = out
             \/ /\ pc \in Phase /\ pc' = pc
                /\ \E t, o : /\ out' = [out EXCEPT ![pc][t] = o]
                             /\ o \in {"cut", Result(pc)}
  <2>1. PICK c \in calls : MasterUp /\ CallStep(c)
    BY <1>4 DEF CallTo
  <2>2. CASE OpenOutput(c) \/ DoTaskEnd(c)
    <3>1. CallOK(c) /\ c.phase \in {"map", "reduce", "kill"}
      BY Zenon DEF JobInv, CallsOK, TypeOK, Call, Phase
    <3>2. c.phase = pc /\ pc \in Phase
      BY Zenon, <2>1, <2>2, <3>1 DEF CallOK, MasterUp, OpenOutput, DoTaskEnd, Phase
    <3>3. pc' = pc
      BY Zenon, <2>2 DEF OpenOutput, DoTaskEnd, masterVars
    <3>4. QED
      BY Zenon, <2>2, <3>2, <3>3 DEF OpenOutput, DoTaskEnd
  <2>3. CASE ~(OpenOutput(c) \/ DoTaskEnd(c))
    BY Zenon, <2>1, <2>3 DEF CallStep, Dial, DoTaskBegin, Shutdown, TaskDone,
           TaskFailed, KillReturns
  <2>4. QED
    BY Zenon, <2>2, <2>3
<1>5. CASE UNCHANGED vars
  BY <1>5 DEF vars
<1>6. QED
  BY <1>1, <1>2, <1>3, <1>4, <1>5 DEF Next

(* No straggler: nobody writes an output of a phase that is over.          *)
THEOREM NoStraggler == Spec => OutputsFrozen
<1> DEFINE Frozen == /\ pc \notin {"map", "done"} => out'["map"] = out["map"]
                     /\ pc \notin Phase \cup {"done"} => out'["reduce"] = out["reduce"]
<1>1. ASSUME JobInv, [Next]_vars PROVE Frozen
  BY <1>1, OutputStep DEF Phase, JobInv
<1>2. JobInv /\ [Next]_vars => [Frozen]_vars
  BY <1>1
<1>3. QED
  BY <1>2, JobInvariance, PTL DEF Spec, OutputsFrozen
-----------------------------------------------------------------------------
(* Jobs without failures *)

(* A step of the master alone leaves the calls and the workers sound.      *)
LEMMA HealthyMaster ==
  ASSUME JobInv, Healthy, Master, pc \in Phase, mode = "Distributed"
  PROVE  Healthy'
<1>1. UNCHANGED <<nRPC, loopOf>>
  BY Zenon DEF Master, TakeTask, ScheduleReturns, IssueTask, KillNext, KillDone,
         StopRPCServer, Merge, SequentialTask, SequentialReturns, workerVars
<1>2. TakeTask \/ ScheduleReturns \/ \E s \in senders : IssueTask(s)
  BY Zenon DEF Master, KillNext, KillDone, StopRPCServer, Merge, SequentialTask,
         SequentialReturns, Phase
<1>3. CASE TakeTask
  BY Zenon, <1>1, <1>3 DEF TakeTask, Healthy
<1>4. CASE ScheduleReturns
  BY <1>1, <1>4 DEF ScheduleReturns, Healthy
<1>5. ASSUME NEW s \in senders, IssueTask(s)
      PROVE  Healthy'
  BY <1>1, <1>5 DEF IssueTask, Healthy
<1>6. QED
  BY <1>2, <1>3, <1>4, <1>5

(* Nor do the workers fail.                                                *)
LEMMA HealthyWorker ==
  ASSUME JobInv, Healthy, pc \in Phase, reliable = Worker, NEW w \in Worker,
         StartWorker(w) \/ RunWorker(w) \/ WorkerCrash(w)
  PROVE  Healthy'
<1>1. loopOf \in [Worker -> {"off", "register", "check", "accept", "closed", "dead"}]
      /\ nRPC \in [Worker -> Int] /\ calls \subseteq Call
  BY Zenon DEF JobInv, TypeOK
<1>2. UNCHANGED <<loop, tasks>>
  BY Zenon DEF StartWorker, RunWorker, Register, WorkerCheck, WorkerAccept,
         WorkerCrash, masterVars
<1>3. CASE StartWorker(w) \/ Register(w)
  BY Zenon, <1>1, <1>2, <1>3 DEF Healthy, StartWorker, Register
<1>4. CASE WorkerCheck(w)
  BY <1>1, <1>2, <1>4 DEF Healthy, WorkerCheck
<1>5. CASE WorkerAccept(w)
  BY <1>1, <1>2, <1>5, AtFields DEF WorkerAccept, Healthy, Stages, Move
<1>6. QED
  BY <1>3, <1>4, <1>5 DEF RunWorker, WorkerCrash

(* Nor the calls, if a reduce task finds what it reads.                    *)
LEMMA HealthyCall ==
  ASSUME JobInv, Healthy, pc \in Phase, pc = "reduce" => Complete("map"),
         NEW c \in calls, CallStep(c)
  PROVE  Healthy'
<1>1. /\ loopOf \in [Worker -> {"off", "register", "check", "accept", "closed", "dead"}]
      /\ c \in Call /\ c.worker \in Worker /\ c.stage # "failed"
      /\ workers \in Seq(Worker)
  BY Zenon DEF JobInv, TypeOK, Call, Healthy
<1>2. c.phase = pc
  BY Zenon DEF JobInv, CallsOK, CallOK, Phase
<1>3. ASSUME NEW stage \in Stages, stage # "failed", Move(c, stage),
             UNCHANGED <<masterVars, workerVars>>
      PROVE  Healthy'
  BY <1>1, <1>3, AtFields DEF Move, Healthy, masterVars, workerVars
<1>4. CASE Dial(c)
  <2>1. Told(c.phase, c.worker)
    BY Zenon, <1>2 DEF JobInv, SendersOK
  <2>2. PICK i \in 1 .. told[pc] : workers[i] = c.worker
    BY <1>2, <2>1 DEF Told
  <2>3. i \in 1 .. Len(workers)
    <3>1. told \in [Phase -> Nat] /\ told[pc] <= Len(workers)
      BY Zenon DEF JobInv, TypeOK, WorkersOK
    <3>2. QED
      BY <1>1, <3>1
  <2>4. loopOf[c.worker] \notin {"off", "register", "closed", "dead"}
    BY Zenon, <1>1, <2>2, <2>3 DEF JobInv, WorkersOK, Healthy
  <2>5. Listening(c.worker)
    BY <1>1, <2>4 DEF Listening
  <2>6. QED
    BY <1>3, <1>4, <2>5 DEF Dial, Stages
<1>5. CASE DoTaskBegin(c)
  BY Zenon, <1>2, <1>3, <1>5 DEF DoTaskBegin, Busy, JobInv, CallsOK, MayMiss,
         Complete, TaskOf, workerVars, Stages
<1>6. CASE OpenOutput(c) \/ DoTaskEnd(c)
  BY Zenon, <1>3, <1>6 DEF OpenOutput, DoTaskEnd, Stages
<1>7. CASE TaskDone(c)
  BY Zenon, <1>7 DEF TaskDone, workerVars, Healthy
<1>8. QED
  BY <1>1, <1>2, <1>4, <1>5, <1>6, <1>7
     DEF CallStep, Shutdown, TaskFailed, KillReturns, Phase

(* When schedule(), or the loop of a Sequential job, is over the list is   *)
(* empty and no task has been handed out: every task is complete.          *)
LEMMA PhaseComplete ==
  ASSUME JobInv, ReliableOK, Undisturbed, ScheduleReturns \/ SequentialReturns
  PROVE  \A t \in TaskOf(pc) : out[pc][t] = "full"
<1>1. /\ pc \in Phase /\ tasks = <<>> /\ task = NoTask /\ calls = {}
  BY Zenon, ScheduleReturnsStep DEF ScheduleReturns, JobInv, TypeOK, SequentialOK,
         ReliableOK, Healthy, SequentialReturns
<1>2. Listed = {} /\ InHand = {} /\ Unfinished = {}
  BY <1>1 DEF Listed, InHand, Unfinished
<1>3. \A t \in TaskOf(pc) : out[pc][t] \in {"short", "full"}
  BY Zenon, <1>1, <1>2 DEF JobInv, TasksOK
<1>4. \A t \in TaskOf(pc) : out[pc][t] # "short"
  BY Zenon, <1>1 DEF ReliableOK, TaskOf, Phase
<1>5. QED
  BY <1>3, <1>4

(* How run() moves on, when no index into mapFiles is out of range.        *)
LEMMA MasterMoves ==
  ASSUME JobInv, [Next]_vars, NReduce <= NMap
  PROVE  /\ \/ pc' = pc
            \/ ScheduleReturns \/ SequentialReturns \/ KillDone \/ StopRPCServer \/ Merge
            \/ CleanupFiles
         /\ UNCHANGED <<mode, reliable>>
<1>1. CASE Master \/ CleanupFiles
  <2>1. ASSUME NEW s \in senders, IssueTask(s)
        PROVE  pc' = pc
    BY <2>1, SizeAssumption DEF IssueTask, JobInv, TasksOK, InHand, TaskOf, MapTask,
           ReduceTask, Phase
  <2>2. UNCHANGED <<mode, reliable>>
    BY Zenon, <1>1 DEF Master, TakeTask, ScheduleReturns, IssueTask, KillNext,
           KillDone, StopRPCServer, Merge, SequentialTask, SequentialReturns,
           CleanupFiles, setup
  <2>3. TakeTask \/ KillNext \/ SequentialTask => pc' = pc
    BY Zenon DEF TakeTask, KillNext, SequentialTask, masterVars
  <2>4. QED
    BY <1>1, <2>1, <2>2, <2>3 DEF Master
<1>2. CASE \E p \in Phase : Forward(p)
  BY Zenon, <1>2 DEF Forward, masterVars, setup
<1>3. ASSUME NEW w \in Worker, StartWorker(w) \/ RunWorker(w) \/ WorkerCrash(w)
      PROVE  UNCHANGED <<pc, mode, reliable>>
  BY Zenon, <1>3 DEF StartWorker, RunWorker, Register, WorkerCheck, WorkerAccept,
         WorkerCrash, masterVars, setup
<1>4. ASSUME NEW w \in Worker, CallTo(w)
      PROVE  UNCHANGED <<pc, mode, reliable>>
  BY Zenon, <1>4 DEF CallTo, CallStep, Dial, DoTaskBegin, OpenOutput, DoTaskEnd,
         Shutdown, TaskDone, TaskFailed, KillReturns, masterVars, setup
<1>5. CASE UNCHANGED vars
  BY Zenon, <1>5 DEF vars, masterVars, setup
<1>6. QED
  BY <1>1, <1>2, <1>3, <1>4, <1>5 DEF Next

(* Sound calls and workers stay sound while a phase runs.                  *)
LEMMA HealthyStep ==
  ASSUME JobInv, Healthy, [Next]_vars, pc \in Phase, mode = "Distributed",
         reliable = Worker, pc = "reduce" => Complete("map")
  PROVE  Healthy'
BY Zenon, HealthyMaster, HealthyWorker, HealthyCall DEF CleanupFiles, Phase, Forward,
       Healthy, masterVars, workerVars, CallTo, vars, Next

(* Every task is complete where run() goes on, and stays so.               *)
LEMMA CompleteStep ==
  ASSUME JobInv, ReliableOK, ScheduleComplete, pc # "fatal", Undisturbed,
         NReduce <= NMap, [Next]_vars
  PROVE  ScheduleComplete' /\ pc' # "fatal"
<1>1. /\ pc \notin {"map", "clean"} => \A t \in MapTask : out["map"][t] = "full"
      /\ pc \notin {"map", "reduce", "clean"} => \A t \in ReduceTask : out["reduce"][t] = "full"
  BY DEF ScheduleComplete, Complete, TaskOf, Phase
<1>2. /\ pc' \notin {"map", "clean"} => \A t \in MapTask : out["map"][t] = "full"
      /\ pc' \notin {"map", "reduce", "clean"} => \A t \in ReduceTask : out["reduce"][t] = "full"
      /\ pc' # "fatal"
      /\ pc' \notin {"map", "reduce"} \/ pc \in {"map", "reduce"}
  BY Zenon, <1>1, PhaseComplete, MasterMoves DEF ScheduleReturns, SequentialReturns,
         Phase, TaskOf, KillDone, StopRPCServer, Merge, CleanupFiles, MayMiss
<1>3. /\ pc' \notin {"map", "clean"} => out'["map"] = out["map"]
      /\ pc' \notin {"map", "reduce", "clean"} => out'["reduce"] = out["reduce"]
  BY Zenon, OutputStep DEF JobInv, Phase
<1>4. QED
  BY <1>2, <1>3 DEF ScheduleComplete, Complete, TaskOf, Phase

(* A task that was computed from incomplete inputs needs a failure.        *)
LEMMA ReliableStep ==
  ASSUME JobInv, JobInv', ReliableOK, Undisturbed => ScheduleComplete,
         NReduce <= NMap, [Next]_vars
  PROVE  ReliableOK'
<1>1. UNCHANGED <<mode, reliable>> /\ (Undisturbed' <=> Undisturbed)
  BY MasterMoves DEF Undisturbed
<1>2. pc' \in Phase => pc \in Phase
  BY Zenon, MasterMoves DEF ScheduleReturns, SequentialReturns, KillDone,
         StopRPCServer, Merge, CleanupFiles, Phase
<1>3. /\ \A t \in MapTask : out'["map"][t] # "short"
      /\ Undisturbed => \A t \in ReduceTask : out'["reduce"][t] # "short"
  <2>1. CASE out' = out
    BY <2>1 DEF ReliableOK
  <2>2. CASE pc = "done" /\ pc' = "clean"
    BY <2>2, MasterMoves DEF ScheduleReturns, SequentialReturns, KillDone,
           StopRPCServer, Merge, CleanupFiles, Phase, TaskOf
  <2>3. ASSUME pc \in Phase, NEW t, NEW o, out' = [out EXCEPT ![pc][t] = o],
               o \in {"cut", Result(pc)}
        PROVE  /\ \A u \in MapTask : out'["map"][u] # "short"
               /\ Undisturbed => \A u \in ReduceTask : out'["reduce"][u] # "short"
    <3>1. PICK p \in Phase : p = pc
      BY <2>3
    <3>2. o \in Output /\ out' = [out EXCEPT ![p][t] = o]
      BY Zenon, <2>3, <3>1 DEF Result, Output
    <3>3. /\ \A q \in Phase \ {p} : out'[q] = out[q]
          /\ \A u \in TaskOf(p) : out'[p][u] = IF u = t THEN o ELSE out[p][u]
      BY Zenon, <3>2, OutputType DEF JobInv
    <3>4. p = "map" => o # "short"
      BY <2>3, <3>1 DEF Result
    <3>5. p = "reduce" /\ Undisturbed => o # "short"
      BY <2>3 DEF Result, ScheduleComplete
    <3>6. QED
      BY Zenon, <3>3, <3>4, <3>5 DEF ReliableOK, TaskOf, Phase
  <2>4. QED
    BY Zenon, <2>1, <2>2, <2>3, OutputStep
<1>4. ASSUME Undisturbed, mode = "Distributed", pc' \in Phase
      PROVE  Healthy'
  BY Zenon, <1>2, <1>4, HealthyStep DEF ReliableOK, Undisturbed, ScheduleComplete
<1>5. QED
  BY <1>1, <1>3, <1>4 DEF ReliableOK

(* schedule() returns only when every task is complete, in a job without   *)
(* failing workers.  The assumption is that of schedule.go:98, which takes *)
(* mapFiles[task] in the reduce phase too: without it the master of a job  *)
(* with more reduce tasks than files ends in a panic.                      *)
THEOREM CompleteIfReliable ==
  ASSUME NReduce <= NMap
  PROVE  Spec => []ScheduleCompleteIfReliable
<1>1. Init => ReliableOK /\ ScheduleCompleteIfReliable
  BY DEF Init, TaskOf, Phase, Undisturbed, Healthy, ScheduleCompleteIfReliable,
         ScheduleComplete, ReliableOK
<1>2. ASSUME JobInv, JobInv', ReliableOK, ScheduleCompleteIfReliable, [Next]_vars
      PROVE  ReliableOK' /\ ScheduleCompleteIfReliable'
  BY Zenon, <1>2, ReliableStep, MasterMoves, CompleteStep
     DEF ScheduleCompleteIfReliable, Undisturbed
<1>3. QED
  BY <1>1, <1>2, JobInvariance, PTL DEF Spec
=============================================================================
