------------------------------ MODULE MapReduce ------------------------------
(***************************************************************************)
(* A MapReduce job of src/mapreduce: the master's run(), for a Distributed *)
(* job the schedule() loop with one goroutine per task,                    *)
(* forwardRegistrations, the workers' accept loops and DoTask handlers and *)
(* killWorkers, for a Sequential one the loops over the tasks; merge() and *)
(* CleanupFiles.                                                           *)
(*                                                                         *)
(* A call() fails exactly when nobody is listening at the worker's socket  *)
(* or the connection breaks because the worker's process ended: call() has *)
(* no timeout of its own.                                                  *)
(***************************************************************************)
EXTENDS MapReduceTasks, Sequences, FiniteSets

CONSTANTS
  Worker,     \* the workers that may be started
  Fleets,     \* the sets of workers that may be reliable in a behaviour
  MaxServe,   \* the nRPC argument of the others: connections they accept
  MaxCrash    \* bound: worker processes that die in a behaviour

ASSUME WorkerAssumption == IsFiniteSet(Worker) /\ Fleets \subseteq SUBSET Worker
ASSUME BoundAssumption == MaxServe \in Nat /\ MaxCrash \in Nat

VARIABLES
  pc,        \* where run() is; "panic" and "fatal" end the master
  loop,      \* where schedule() is inside its loop
  tasks,     \* schedule's list of tasks to hand out
  task,      \* the task schedule has taken from the list
  wg,        \* the counter of schedule's WaitGroup
  senders,   \* goroutines blocked in registerChan <- worker, per phase
  calls,     \* RPCs to workers under way
  workers,   \* mr.workers
  told,      \* the index i of each phase's forwardRegistrations
  killed,    \* workers killWorkers has dealt with
  loopOf,    \* where each worker's RunWorker is
  nRPC,      \* wk.nRPC
  out,       \* the output files of every task, on the shared file system
  crashes,   \* worker processes that died so far
  mode,      \* the function that started the job; never changes
  reliable   \* workers started with nRPC = -1 that never die; never changes

masterVars == <<pc, loop, tasks, task, wg, killed>>
workerVars == <<loopOf, nRPC>>
setup == <<mode, reliable>>
vars == <<masterVars, senders, calls, workers, told, workerVars, out, crashes,
          setup>>

Phase == {"map", "reduce"}

TaskOf(p) == IF p = "map" THEN MapTask ELSE ReduceTask

AllTasks(p) == [i \in 1 .. Cardinality(TaskOf(p)) |-> i - 1]

NoTask == -1

(***************************************************************************)
(* The output of a task: "cut" while it is being written, or after its     *)
(* writer died; "short" when it was computed from map outputs that were    *)
(* not complete.                                                           *)
(***************************************************************************)
Output == {"none", "cut", "short", "full"}

Stages == {"dial", "queued", "accepted", "running", "writing",
           "executed", "failed"}

Call ==
  [phase : Phase \cup {"kill"}, task : Int, worker : Worker, stage : Stages]

TypeOK ==
  /\ pc \in Phase \cup {"kill", "stop", "merge", "done", "clean",
                    "panic", "fatal"}
  /\ loop \in {"take", "receive", "wait"}
  /\ tasks \in Seq(Nat)
  /\ task \in TaskOf("map") \cup TaskOf("reduce") \cup {NoTask}
  /\ wg \in Nat
  /\ senders \subseteq [phase : Phase, worker : Worker]
  /\ calls \subseteq Call
  /\ workers \in Seq(Worker)
  /\ told \in [Phase -> Nat]
  /\ killed \in 0 .. Len(workers)
  /\ loopOf \in [Worker -> {"off", "register", "check", "accept", "closed", "dead"}]
  /\ nRPC \in [Worker -> Int]
  /\ \A p \in Phase : out[p] \in [TaskOf(p) -> Output]
  /\ crashes \in 0 .. MaxCrash
  /\ mode \in {"Distributed", "Sequential"} /\ reliable \in Fleets

Init ==
  /\ pc = "map" /\ loop = "take"
  /\ tasks = AllTasks("map") /\ task = NoTask /\ wg = 0
  /\ senders = {} /\ calls = {} /\ workers = <<>>
  /\ told = [p \in Phase |-> 0]
  /\ killed = 0
  /\ loopOf = [w \in Worker |-> "off"]
  /\ mode \in {"Distributed", "Sequential"} /\ reliable \in Fleets
  /\ nRPC = [w \in Worker |-> IF w \in reliable THEN -1 ELSE MaxServe]
  /\ out = [p \in Phase |-> [t \in TaskOf(p) |-> "none"]]
  /\ crashes = 0

At(c, stage) == [c EXCEPT !.stage = stage]
Move(c, stage) == calls' = (calls \ {c}) \cup {At(c, stage)}

Complete(p) == \A t \in TaskOf(p) : out[p][t] = "full"

\* What a task of phase p leaves when it comes to its end.
Result(p) == IF p = "reduce" /\ ~Complete("map") THEN "short" ELSE "full"

\* doReduce opens a file of every map task: there is none if the task never
\* ran, and there may be none if its worker died between two of its files.
Missing == \E t \in TaskOf("map") : out["map"][t] = "none"
MayMiss == \E t \in TaskOf("map") : out["map"][t] \in {"none", "cut"}

-----------------------------------------------------------------------------
(* The master of a Sequential job *)

\* Mistake: the loop over the reduce tasks leaves out the last one.
SequentialTaskShort ==
  /\ mode = "Sequential" /\ pc \in Phase
  /\ tasks # <<>>
  /\ out' = IF pc = "reduce" /\ Tail(tasks) = <<>> THEN out
            ELSE [out EXCEPT ![pc][Head(tasks)] = Result(pc)]
  /\ tasks' = Tail(tasks)
  /\ UNCHANGED <<pc, loop, task, wg, killed, senders, calls, workers, told,
                 workerVars, crashes, setup>>

\* One round of the loop: doMap or doReduce of the next task.
SequentialTask ==
  /\ mode = "Sequential" /\ pc \in Phase
  /\ tasks # <<>>
  /\ out' = [out EXCEPT ![pc][Head(tasks)] = Result(pc)]
  /\ tasks' = Tail(tasks)
  /\ UNCHANGED <<pc, loop, task, wg, killed, senders, calls, workers, told,
                 workerVars, crashes, setup>>

\* The phase is over; after the last, finish() has only statistics to keep.
SequentialReturns ==
  /\ mode = "Sequential" /\ pc \in Phase
  /\ tasks = <<>>
  /\ pc' = IF pc = "map" THEN "reduce" ELSE "merge"
  /\ tasks' = IF pc = "map" THEN AllTasks("reduce") ELSE tasks
  /\ UNCHANGED <<loop, task, wg, killed, senders, calls, workers, told,
                 workerVars, out, crashes, setup>>

-----------------------------------------------------------------------------
(* The master: schedule() *)

\* The head of the loop: take the next task, or leave when the list is empty.
TakeTask ==
  /\ mode = "Distributed" /\ pc \in Phase /\ loop = "take"
  /\ IF tasks = <<>>
     THEN loop' = "wait" /\ UNCHANGED <<tasks, task>>
     ELSE loop' = "receive" /\ task' = Head(tasks) /\ tasks' = Tail(tasks)
  /\ UNCHANGED <<pc, wg, senders, calls, workers, told, killed, workerVars,
                 out, crashes, setup>>

\* Mutant: the worker is free for the next task before its RPC has returned.
IssueTaskShared(s) ==
  /\ pc \in Phase /\ loop = "receive" /\ s.phase = pc
  /\ wg' = wg + 1
  /\ task' = NoTask /\ loop' = "take"
  /\ calls' = calls \cup {[phase |-> pc, task |-> task, worker |-> s.worker,
                           stage |-> "dial"]}
  /\ UNCHANGED <<pc, tasks, senders, workers, told, killed, workerVars, out, crashes, setup>>

\* Mutant: wg.Add is left out.
IssueTaskUncounted(s) ==
  /\ pc \in Phase /\ loop = "receive" /\ s.phase = pc
  /\ senders' = senders \ {s}
  /\ task' = NoTask /\ loop' = "take"
  /\ calls' = calls \cup {[phase |-> pc, task |-> task, worker |-> s.worker,
                           stage |-> "dial"]}
  /\ UNCHANGED <<pc, tasks, wg, workers, told, killed, workerVars, out, crashes, setup>>

\* worker := <- registerChan, then the goroutine with the DoTask call.  The
\* arguments name mapFiles[task] in both phases.
IssueTask(s) ==
  /\ pc \in Phase /\ loop = "receive" /\ s.phase = pc
  /\ senders' = senders \ {s}
  /\ wg' = wg + 1
  /\ IF task < NMap
     THEN /\ calls' = calls \cup {[phase |-> pc, task |-> task,
                                   worker |-> s.worker, stage |-> "dial"]}
          /\ task' = NoTask /\ loop' = "take" /\ UNCHANGED pc
     ELSE pc' = "panic" /\ UNCHANGED <<calls, task, loop>>
  /\ UNCHANGED <<tasks, workers, told, killed, workerVars, out, crashes, setup>>

\* Mutant: the failed task is not put back.
TaskFailedDropped(c) ==
  /\ c.phase \in Phase /\ c.stage = "failed"
  /\ calls' = calls \ {c}
  /\ wg' = wg - 1
  /\ UNCHANGED <<pc, loop, tasks, task, killed, senders, workers, told,
                 workerVars, out, crashes, setup>>

\* call returned false: the task goes back to the list, the worker nowhere.
TaskFailed(c) ==
  /\ c.phase \in Phase /\ c.stage = "failed"
  /\ calls' = calls \ {c}
  /\ tasks' = Append(tasks, c.task)
  /\ wg' = wg - 1
  /\ UNCHANGED <<pc, loop, task, killed, senders, workers, told, workerVars,
                 out, crashes, setup>>

\* Mutant: the worker is not offered again.
TaskDoneKept(c) ==
  /\ c.phase \in Phase /\ c.stage = "executed"
  /\ calls' = calls \ {c}
  /\ wg' = wg - 1
  /\ UNCHANGED <<pc, loop, tasks, task, killed, senders, workers, told,
                 workerVars, out, crashes, setup>>

\* call returned true: wg.Done, and the worker is offered on the channel of
\* its phase, for ever if schedule has left the loop.
TaskDone(c) ==
  /\ c.phase \in Phase /\ c.stage = "executed"
  /\ calls' = calls \ {c}
  /\ wg' = wg - 1
  /\ senders' = senders \cup {[phase |-> c.phase, worker |-> c.worker]}
  /\ UNCHANGED <<pc, loop, tasks, task, killed, workers, told, workerVars,
                 out, crashes, setup>>

\* Mutant: schedule returns without waiting for the goroutines.
ScheduleReturnsEarly ==
  /\ pc \in Phase /\ loop = "wait"
  /\ pc' = IF pc = "map" THEN "reduce" ELSE "kill"
  /\ loop' = "take"
  /\ tasks' = IF pc = "map" THEN AllTasks("reduce") ELSE tasks
  /\ wg' = 0
  /\ UNCHANGED <<task, senders, calls, workers, told, killed, workerVars, out, crashes, setup>>

\* wg.Wait is over: run() goes on to the next phase, whose schedule() has a
\* list and a WaitGroup of its own, and from the last one to finish().
ScheduleReturns ==
  /\ pc \in Phase /\ loop = "wait" /\ wg = 0
  /\ pc' = IF pc = "map" THEN "reduce" ELSE "kill"
  /\ loop' = "take"
  /\ tasks' = IF pc = "map" THEN AllTasks("reduce") ELSE tasks
  /\ UNCHANGED <<task, wg, senders, calls, workers, told, killed, workerVars,
                 out, crashes, setup>>

-----------------------------------------------------------------------------
(* The master: registration, shutdown and merge *)

\* killWorkers holds the master's lock from beginning to end.
LockFree == pc # "kill"

\* After a panic or log.Fatal in the master nothing is followed any further.
MasterUp == pc \notin {"panic", "fatal"}

\* The forwardRegistrations goroutine of a phase, which outlives the phase.
Forward(p) ==
  /\ p = "map" \/ pc # "map"
  /\ LockFree /\ MasterUp
  /\ told[p] < Len(workers)
  /\ told' = [told EXCEPT ![p] = @ + 1]
  /\ senders' = senders \cup {[phase |-> p, worker |-> workers[told[p] + 1]]}
  /\ UNCHANGED <<masterVars, calls, workers, workerVars, out, crashes, setup>>

\* killWorkers: one Shutdown call after another, failed ones skipped.
KillNext ==
  /\ pc = "kill" /\ killed < Len(workers)
  /\ \A c \in calls : c.phase # "kill"
  /\ calls' = calls \cup {[phase |-> "kill", task |-> NoTask,
                           worker |-> workers[killed + 1], stage |-> "dial"]}
  /\ UNCHANGED <<masterVars, senders, workers, told, workerVars, out, crashes, setup>>

KillReturns(c) ==
  /\ c.phase = "kill" /\ c.stage \in {"executed", "failed"}
  /\ calls' = calls \ {c}
  /\ killed' = killed + 1
  /\ UNCHANGED <<pc, loop, tasks, task, wg, senders, workers, told,
                 workerVars, out, crashes, setup>>

KillDone ==
  /\ pc = "kill" /\ killed = Len(workers)
  /\ pc' = "stop"
  /\ UNCHANGED <<loop, tasks, task, wg, killed, senders, calls, workers, told,
                 workerVars, out, crashes, setup>>

StopRPCServer ==
  /\ pc = "stop" /\ pc' = "merge"
  /\ UNCHANGED <<loop, tasks, task, wg, killed, senders, calls, workers, told,
                 workerVars, out, crashes, setup>>

\* merge() dies on a reduce output that does not exist; otherwise Wait returns.
Merge ==
  /\ pc = "merge"
  /\ pc' = IF \E t \in TaskOf("reduce") : out["reduce"][t] = "none"
           THEN "fatal" ELSE "done"
  /\ UNCHANGED <<loop, tasks, task, wg, killed, senders, calls, workers, told,
                 workerVars, out, crashes, setup>>

\* CleanupFiles, called after Wait has returned, dies on a file that is not
\* there.
CleanupFiles ==
  /\ pc = "done"
  /\ \/ MayMiss /\ pc' = "fatal" /\ UNCHANGED out
     \/ /\ ~Missing
        /\ pc' = "clean"
        /\ out' = [p \in Phase |-> [t \in TaskOf(p) |-> "none"]]
  /\ UNCHANGED <<loop, tasks, task, wg, killed, senders, calls, workers, told,
                 workerVars, crashes, setup>>

-----------------------------------------------------------------------------
(* The workers *)

\* RunWorker up to the Register call: the worker listens before it registers.
StartWorker(w) ==
  /\ mode = "Distributed" /\ loopOf[w] = "off" /\ MasterUp
  /\ loopOf' = [loopOf EXCEPT ![w] = "register"]
  /\ UNCHANGED <<masterVars, senders, calls, workers, told, nRPC, out, crashes, setup>>

\* Master.Register; once the master's RPC server is stopped the call fails,
\* and the worker enters its loop all the same.
Register(w) ==
  /\ loopOf[w] = "register" /\ LockFree
  /\ loopOf' = [loopOf EXCEPT ![w] = "check"]
  /\ workers' = IF pc \in Phase \cup {"stop"} THEN Append(workers, w) ELSE workers
  /\ UNCHANGED <<masterVars, senders, calls, told, nRPC, out, crashes, setup>>

Listening(w) == loopOf[w] \in {"register", "check", "accept"}

\* rpc.Dial: the socket's backlog takes the connection if anyone listens.
Dial(c) ==
  /\ c.stage = "dial"
  /\ Move(c, IF Listening(c.worker) THEN "queued" ELSE "failed")
  /\ UNCHANGED <<masterVars, senders, workers, told, workerVars, out, crashes, setup>>

\* The connections to w that break when its listener, or its process, ends.
Broken(w, stages) ==
  {IF c.worker = w /\ c.stage \in stages THEN At(c, "failed") ELSE c : c \in calls}

\* The head of RunWorker's loop: out of quota, the listener is closed.
WorkerCheck(w) ==
  /\ loopOf[w] = "check"
  /\ IF nRPC[w] = 0
     THEN /\ loopOf' = [loopOf EXCEPT ![w] = "closed"]
          /\ calls' = Broken(w, {"queued"})
     ELSE loopOf' = [loopOf EXCEPT ![w] = "accept"] /\ UNCHANGED calls
  /\ UNCHANGED <<masterVars, senders, workers, told, nRPC, out, crashes, setup>>

WorkerAccept(w) ==
  /\ loopOf[w] = "accept"
  /\ \E c \in calls : c.worker = w /\ c.stage = "queued" /\ Move(c, "accepted")
  /\ nRPC' = [nRPC EXCEPT ![w] = @ - 1]
  /\ loopOf' = [loopOf EXCEPT ![w] = "check"]
  /\ UNCHANGED <<masterVars, senders, workers, told, out, crashes, setup>>

\* log.Fatal in a worker, or the end of its process for any other reason.
Dies(w) ==
  /\ loopOf' = [loopOf EXCEPT ![w] = "dead"]
  /\ calls' = Broken(w, {"queued", "accepted", "running", "writing", "executed"})

\* The worker already runs a task: wk.concurrent would exceed 1.
Busy(w) == \E c \in calls : c.worker = w /\ c.stage \in {"running", "writing"}

\* The head of DoTask and the reading of the inputs.  The worker dies when
\* another DoTask is running, or when doReduce cannot open one of its inputs.
DoTaskBegin(c) ==
  /\ c.phase \in Phase /\ c.stage = "accepted"
  /\ \/ /\ Busy(c.worker) \/ (c.phase = "reduce" /\ MayMiss)
        /\ Dies(c.worker)
     \/ /\ ~Busy(c.worker)
        /\ c.phase = "reduce" => ~Missing
        /\ Move(c, "running") /\ UNCHANGED loopOf
  /\ UNCHANGED <<masterVars, senders, workers, told, nRPC, out, crashes, setup>>

\* The output is opened with O_TRUNC, over whatever an earlier run left.
OpenOutput(c) ==
  /\ c.stage = "running"
  /\ Move(c, "writing")
  /\ out' = [out EXCEPT ![c.phase][c.task] = "cut"]
  /\ UNCHANGED <<masterVars, senders, workers, told, workerVars, crashes, setup>>

\* The rest of doMap or doReduce, and of DoTask.
DoTaskEnd(c) ==
  /\ c.stage = "writing"
  /\ Move(c, "executed")
  /\ out' = [out EXCEPT ![c.phase][c.task] = Result(c.phase)]
  /\ UNCHANGED <<masterVars, senders, workers, told, workerVars, crashes, setup>>

\* Worker.Shutdown: one more connection is to be accepted.
Shutdown(c) ==
  /\ c.phase = "kill" /\ c.stage = "accepted"
  /\ Move(c, "executed")
  /\ nRPC' = [nRPC EXCEPT ![c.worker] = 1]
  /\ UNCHANGED <<masterVars, senders, workers, told, loopOf, out, crashes, setup>>

WorkerCrash(w) ==
  /\ w \notin reliable /\ loopOf[w] \notin {"off", "dead"} /\ MasterUp
  /\ crashes < MaxCrash /\ crashes' = crashes + 1
  /\ Dies(w)
  /\ UNCHANGED <<masterVars, senders, workers, told, nRPC, out, setup>>

-----------------------------------------------------------------------------
Master ==
  \/ TakeTask \/ ScheduleReturns \/ (\E s \in senders : IssueTask(s))
  \/ KillNext \/ KillDone \/ StopRPCServer \/ Merge
  \/ SequentialTask \/ SequentialReturns

CallStep(c) ==
  \/ Dial(c) \/ DoTaskBegin(c) \/ OpenOutput(c) \/ DoTaskEnd(c) \/ Shutdown(c)
  \/ TaskDone(c) \/ TaskFailed(c) \/ KillReturns(c)

\* The goroutine of the call to w, on either side of the connection.
CallTo(w) == MasterUp /\ \E c \in calls : c.worker = w /\ CallStep(c)

RunWorker(w) == MasterUp /\ (Register(w) \/ WorkerCheck(w) \/ WorkerAccept(w))

Next ==
  \/ Master \/ CleanupFiles
  \/ \E p \in Phase : Forward(p)
  \/ \E w \in Worker : StartWorker(w) \/ RunWorker(w) \/ CallTo(w) \/ WorkerCrash(w)

(***************************************************************************)
(* Every goroutine that can take a step eventually does, and the reliable  *)
(* workers are started; the others may never be, and nobody has to crash.  *)
(***************************************************************************)
Fairness ==
  /\ WF_vars(Master)
  /\ \A p \in Phase : WF_vars(Forward(p))
  /\ \A w \in Worker : WF_vars(RunWorker(w)) /\ WF_vars(CallTo(w))
  /\ \A w \in Worker : WF_vars(w \in reliable /\ StartWorker(w))

Spec == Init /\ [][Next]_vars /\ Fairness

-----------------------------------------------------------------------------
(* Properties *)

(***************************************************************************)
(* schedule() never has two RPCs to one worker under way, whatever fails   *)
(* and whichever channel of whichever phase the worker was taken from      *)
(* (worker.go:51, where DoTask dies otherwise).                            *)
(***************************************************************************)
OneRPCPerWorker ==
  \A c, d \in calls :
    c.worker = d.worker /\ "failed" \notin {c.stage, d.stage} => c = d

Places(t) ==
  Cardinality({i \in 1 .. Len(tasks) : tasks[i] = t})
  + (IF task = t THEN 1 ELSE 0)
  + Cardinality({c \in calls : c.phase = pc /\ c.task = t})

(***************************************************************************)
(* While a phase runs each of its tasks is in one place only: in the list, *)
(* in the hands of the loop, or with one goroutine.  A task that is in     *)
(* none of them has been executed to its end (schedule.go:85-114).         *)
(***************************************************************************)
TasksAccounted ==
  pc \in Phase =>
    \A t \in TaskOf(pc) :
      /\ Places(t) <= 1
      /\ Places(t) = 0 => out[pc][t] \in {"short", "full"}

(***************************************************************************)
(* No straggler: once schedule() has returned nobody writes an output of   *)
(* its phase any more, so reduce tasks read files that no longer change,   *)
(* merge() too, and CleanupFiles leaves none (master.go:142-145, the       *)
(* WaitGroup of schedule.go:97-116).                                       *)
(***************************************************************************)
OutputsFrozen ==
  [][/\ pc \notin {"map", "done"} => out'["map"] = out["map"]
     /\ pc \notin Phase \cup {"done"} => out'["reduce"] = out["reduce"]]_vars

(***************************************************************************)
(* schedule() returns only when every task of its phase has completed      *)
(* (schedule.go:31-32), so that merge() finds every output.                *)
(***************************************************************************)
ScheduleComplete ==
  /\ pc \notin {"map", "clean"} => Complete("map")
  /\ pc \notin Phase \cup {"clean"} => Complete("reduce")

Undisturbed == mode = "Sequential" \/ reliable = Worker

(***************************************************************************)
(* Without failing workers that is so, in a Distributed job as in a        *)
(* Sequential one, and neither merge() nor CleanupFiles dies on a missing  *)
(* file (master_splitmerge.go:20-23, 55-58).                               *)
(***************************************************************************)
ScheduleCompleteIfReliable ==
  Undisturbed => ScheduleComplete /\ pc # "fatal"

(***************************************************************************)
(* With one reliable worker schedule() comes to an end, although workers   *)
(* close their sockets, die in a task or never start: failed tasks are     *)
(* handed out again and free workers return to registerChan.  A reduce     *)
(* phase needs the map outputs, whose absence kills the worker.            *)
(***************************************************************************)
PhasesEnd ==
  /\ <>(pc # "map")
  /\ (pc = "reduce" /\ Complete("map")) ~> (pc # "reduce")

(***************************************************************************)
(* A job whose workers never fail completes: run() reaches the end, Wait   *)
(* returns (master.go:132-157).                                            *)
(***************************************************************************)
JobDoneIfReliable == Undisturbed => <>(pc = "done")
=============================================================================
