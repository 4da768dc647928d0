# Verification of the Raft peers, their network and the MapReduce library

TLA+ models of the Go code under `src/src`: the Raft implementation (`raft/`)
with its test harness, the simulated network (`labrpc/`) it runs on, and the
MapReduce library (`mapreduce/`). Line numbers below are those of the files
named.

## The system

| Part | Source | State | Operations | Model |
|---|---|---|---|---|
| Leader election | `raft/raft.go` 419-490, 1406-1550 | `CurrentTerm`, `VoteFor`, `state`, `nVotes` of each election | `startElection`, its goroutine per peer, `RequestVote` | `Raft` |
| Log replication | `raft.go` 206-386, 527-832, 1209-1225 | `Log`, `nextIndex`, `commitIndex`, `nReplica`/`isAgree` of each broadcast | `Start`, `broadcastAppendEntries` with its retry loop, `AppendEntries`, `getNextIndex`, `broadcastHeartbeat` | `Raft` |
| Application | `raft.go` 1058-1087, `config.go` 166-203 | `lastApplied`, `applyCh`, `cfg.logs` | `applyEntries`, the harness's reader | `Raft`, `RaftHarness`, `RaftLoops` |
| Persistence, crash, restart | `raft.go` 143-203, 1563-1616, `persister.go`, `config.go` 98-215 | `Persister.raftstate`, `cfg.saved` | `persist`, `readPersist`, `Make`, `crash1`, `start1` | `Raft`, `RaftLoops`, `LabRPC` |
| Timers and event loop | `raft.go` 1058-1203, 1392-1400 | `rf.mu`, time stamps, two channels, three condition variables | `electionTimeoutTick`, `heartbeatPeriodTick`, `eventLoop`, `applyEntries`, `switchTo` | `RaftLoops` |
| Network | `labrpc/labrpc.go` | ends, servers, connections, RPCs under way | `Call`, `ProcessReq`, `Enable`, `Connect`, `AddServer`, `DeleteServer`, `Cleanup` | `LabRPC`; `Raft` has it as its clients see it |
| Harness | `raft/config.go` | `connected`, `saved`, `logs` | `make_config`, `crash1`, `start1`, `connect`, `disconnect`, `cleanup` | `LabRPC`, `RaftHarness` |
| Encoder checks | `labgob/labgob.go` | none of the protocol | `checkType`, `checkDefault` | no |
| Scheduling | `mapreduce/schedule.go` | task list, WaitGroup, `registerChan` | the loop of `schedule`, a goroutine per task | `MapReduce` |
| Master | `master.go`, `master_rpc.go`, `master_splitmerge.go` | `workers`, phase, lock | `run`, `Sequential`, `Register`, `forwardRegistrations`, `killWorkers`, `stopRPCServer`, `merge`, `CleanupFiles` | `MapReduce` |
| Worker | `worker.go`, `common_rpc.go` | `nRPC`, `concurrent`, the listener | `RunWorker`, `DoTask`, `Shutdown`, `call` | `MapReduce` |
| Task data | `common_map.go`, `common_reduce.go`, `master_splitmerge.go` | intermediate and output files | `doMap`, `doReduce`, `merge` | `MapReduceData` (contents), `MapReduce` (when they exist), `MapReduceJob` (both) |

The peers of Raft interact only through `labrpc` calls, each made by a
goroutine of its own, so any number of requests and replies are under way and
arrive in any order. Inside a peer all goroutines share `rf.mu`. In MapReduce
the master's goroutines share the task list and the channel of a phase, and the
workers share a file system.

What makes this code hard: it gives up `rf.mu` between testing a condition and
acting on it in many places; it blocks in a channel send with `rf.mu` held;
replies arrive terms later; a peer may crash between two `persist` calls, and a
crashed instance goes on running; a call that returns false may have been
executed; the scheduler reads its task list while failing calls write to it.

The models are stacked. `RaftLoops` is one peer's goroutines without terms and
logs: whether elections and heartbeats begin. `Raft` lets them begin at any
time, which covers every schedule of the timers, and is about what they do.
`Raft` uses the network as `RemoteCall` describes it: any delay, executed at
most once, and a positive reply only of an update that is persistent.
`LabRPC` is shown to implement `RemoteCall`, and `RaftHarness` to implement
`ReplicatedLog`, which is what a service on top of Raft relies on.

## Raft

`Raft.tla` has one action per critical section of `rf.mu`. Where the code
unlocks and locks again with nothing in between, the gap has a name and the
constant `Preempt` says which gaps are open. A closed gap makes one action of
the two sections; an open one leaves a goroutine in an intermediate stage, and
every other goroutine may run.

| Gap | Lines | Between |
|---|---|---|
| `issue` | 1425 to 1439 | starting an election and building the request of each peer |
| `voteReply` | 1481 to 1487 or 1508 | finding a vote reply current and acting on it |
| `appendReply` | 699 to 706 or 744 | finding an append reply current and acting on it |
| `start` | 811 to 814 | testing for leadership in `Start` and appending |
| `send` | 740, 831 or 1224 to 618 | the `go` statement or `goto retry` and the sending goroutine |

So the model separates what the protocol as coded guarantees from what the gaps
break, and a property is claimed for exactly the gaps it holds with.

Correspondence. The durable and volatile fields of `rf` are variables of the
same name, indexed by peer; `log` leaves out the sentinel entry `Log[0]`, so an
index of the model is an index of the code. `applied` is the sequence of
commands sent on `applyCh`; its length is `lastApplied`. `voteCalls` and
`appendCalls` hold one record per goroutine of an election or broadcast, with
the RPC it waits for: `request` (on its way), `reply`, `act` (inside an open
gap), `counted` (a vote in `nVotes`), `orphan` (a request whose sender has
crashed). `casts` holds the captured variables of each broadcast. An RPC may
take any time and be lost in either direction; it is executed at most once, as
in `ProcessReq`. A crash makes a peer restart from what its Persister holds,
also in the middle of a handler that calls `persist` twice.

Time is left out: an election or a heartbeat may start at any moment.
`matchIndex` and `leaderId` are never read by the code and are left out.

Always closed are the gaps at 618/623/630 (the tests before a request is built),
827/830 (in `Start`) and 1212/1216/1221 (the three sections of
`broadcastHeartbeat`), and one window that is not between two sections: the
`Entries` of a request are a slice of `rf.Log` taken at 655, and are encoded only
in `labrpc.go:93`, after the unlock at 671. An `AppendEntries` handled in between
may write into the array they share (291). The model's request carries the log
as it was at 655, so what is said of logs below, proofs included, says nothing
of a request changed in this window.

### Runs (three peers)

Bounds are totals over a behaviour: elections, entries a log may hold when
`Start` is called, broadcasts, crashes, lost RPCs. `View` in `MCRaft.tla` merges
states that differ in goroutines with nothing left to do; peers and commands
are symmetric.

| Run | Open gaps | Bounds | Shows |
|---|---|---|---|
| `RaftElection` | issue | 3, 0, 0, 1, 0 | `ElectionSafety`; the open gap is harmless with three peers, where the candidate's own vote and one granted vote of the current term already are a majority |
| `RaftDurable` | all | 2, 1, 1, 0, 1 | `TypeOK`, `PersistedIsCurrent` |
| `RaftLog` | none | see below | `LogMatching`, `IndexInRange`, `LeaderCompleteness`, `CommittedOnQuorum`, `CommitMonotonic`, `TermMonotonic`, `VoteOnce`, `ImplementsReplicatedLog` |
| `RaftLateVote` | voteReply | 3, 0, 0, 0, 0 | two leaders of one term |
| `RaftStaleRejection` | appendReply | 3, 0, 1, 0, 0 | a term goes back |
| `RaftLateStart` | start | 2, 1, 2, 0, 0 | same index and term, different commands |

Two elections are the least in which an old leader and a new one compete, and a
third lets a late reply meet a later term; two entries and two broadcasts let
requests overtake each other and a rejection be retried.

`RaftLog` checks two kinds of behaviours of `MCRaftLog`. In the first all peers
reach each other: two elections, two broadcasts, and either two entries per log
or one crash and restart. In the second one link is down and nobody crashes:
five elections make the peers at its two ends leaders in turn, with three
broadcasts of one entry. It is the shortest behaviour in which an entry of an
old term reaches a majority under a later leader and a leader without it
follows: only the test of line 766 keeps the entry from being committed by
counting replicas, and then lost.

`ImplementsReplicatedLog` is the harness's own check (`config.go` 175-191) as a
refinement: the longest of `cfg.logs` is one sequence that only grows, every
peer delivers a prefix of it in order, and a restarted peer, which delivers
from the first entry again, delivers the same. `Kill` is empty, so that
`applyEntries` of a crashed instance and its reader (`config.go` 168-203) go on
delivering to `cfg.logs` what the instance holds as committed; in the model they
end when the peer restarts.

The last three runs are violations, found in the gaps they name: the code acts
on a test made before it gave up the lock. The log properties are not claimed
with the `start` gap open.

No fairness is assumed of the peers and no liveness is claimed of the protocol
as a whole: elections may split votes for ever, and the code relies on random
timeouts there. Liveness is claimed of one peer's goroutines, below.

### Proofs

For every finite set of peers and all values of the bounds. The theorems are in
`RaftTheorems`; each names the gaps it needs closed, and the violation runs
above show why.

| Theorem | Closed gaps | Establishes |
|---|---|---|
| `TypeCorrect`, `IndexesInRange`, `Durable`, `TermsGrow`, `VotesStay` | `appendReply` | types, `IndexInRange`, `PersistedIsCurrent`, `TermMonotonic`, `VoteOnce` |
| `AtMostOneLeader` | `issue`, `voteReply`, `appendReply` | `ElectionSafety` |
| `LogsAreMatched`, `LeadersAreComplete`, `CommitsAreDurable`, `OnlyCommandsApplied`, `CommitsGrow` | these and `start` | `LogMatching`, `LeaderCompleteness`, `CommittedOnQuorum`, `TypeOK`, `CommitMonotonic` |
| `RaftImplements` | these and `start` | `HarnessSpec` implements `ReplicatedLog` |

The `send` gap is open in all of them.

The invariants are in `RaftInvariants`, each built on the one before:

- `IndexInv`: types, durability and `IndexInRange`. They are proved together
  because each needs the others: the type of `getNextIndex` needs the conflict
  index to lie in the leader's log, which needs that a current reply belongs to
  a broadcast of the current term whose index is still in the log; a term
  survives a crash because what is persisted is current.
- `ElectionInv`: a granted vote's peer is past the term or has its `VoteFor` set
  to the candidate, two granted votes of one peer and term go to one candidate,
  and a peer leads exactly when a majority of counted votes is behind it. Two
  majorities meet.
- `LogInv(won, led, held)` speaks of the past, which no variable of the program
  records, so the invariant says that a history exists: `won` are the terms
  somebody has led, `led[t]` the last log of the leader of term `t`, and
  `held` who, while in a term, has had which entry of that term. Every entry of
  a log lies on the log of its term's leader. An entry is `Lost` when a majority
  has passed its term without having held it; a leader of a later term has every
  entry that is not lost. The induction step is the vote: the voters of a winner
  and the holders of an entry meet in a peer that voted under the test of lines
  468-469 (`AtLeastUpToDate`).
- `CommitInv`: what a peer holds as committed agrees with the log of a leader
  one of whose own entries, at that index or after it, a majority has held
  (`Chosen`; the test of line 766), and the peers that a broadcast has counted
  in `nReplica` are distinct and hold its entry.
- `AppliedOK` and `Delivered`: nothing is applied that is not committed, and
  what each reader of `applyCh` has kept are the commands of chosen entries. So
  a step either delivers what was delivered before or appends one command to the
  longest of the logs or catches up with it, which are the steps of
  `ReplicatedLog`.

`RaftPeerProofs` proves that every action keeps `IndexInv` and `ElectionInv`,
`RaftLogProofs` that for every history a step has another that extends it and
keeps `LogInv`, `RaftCommitProofs` the same of `CommitInv` and of what is
delivered, each with one lemma per action. `RaftLogLemmas` has the lemmas about
logs that the last two share. Facts about the sizes of sets of peers are used
through `PeerSets`, and facts about the searches for the conflict index through
`BacktrackDefined`; both are proved once.

The steps that cite `Zenon` name the prover because they are set and equality
reasoning over large invariants, on which the SMT encoding is slow.

## The goroutines of a peer

`RaftLoops.tla`: `pc` says where the two ticks, `eventLoop`, `applyEntries` and
a client in `Start` are; `mu` is free or held by a tick that sends (the only
operation that blocks with `rf.mu` held); a sleeper is `asleep` on its condition
variable until a `Broadcast` finds it there. `elapsed` and `due` say that a
timer has run out. The RPC handlers and reply handlers are what they do to
`rf.state`, the timers and `commitIndex` (`StepDown`, `Hear`, `Win`, `Commit`).
A behaviour chooses at the start which gaps are open:

| Gap | Lines | Between |
|---|---|---|
| `wait` | 1133 to 1135, 1164 to 1166, 1066 to 1070 | testing a condition and `Wait` |
| `loop` | 1189 to 1190, 1195 to 1196 | `eventLoop`'s receive and its `Lock` |
| `go` | 1194 to 1407; 1200, 774 or 1535 to 1212 | a `go` statement and the goroutine's first section |
| `make` | 1605 to 1612 | starting the goroutines and `readPersist`, delayed for an election timeout |

| Run | Open gaps | Shows |
|---|---|---|
| `RaftLoops` | `make`; `go` and `make`; `wait`; `loop` | `TypeOK`, `NoLostWakeup`, `MakeRestores`, that elections begin, heartbeats are sent and entries applied, each with the gaps open that do not break it, and, with all of these gaps, `StartReturnsOrDeadlocks` |
| `RaftDeadlock` | `loop` | a tick sends with `rf.mu` held while `eventLoop` waits for it: `Start` never returns |
| `RaftLostWakeup` | `wait` | the election tick sleeps through the end of the leadership: no election |

`MaxCommit = 2` lets an entry be committed while another is being applied;
`MaxGo = 1` bounds the goroutines a `go` statement has started and the scheduler
has not, and a second one could not do more than the first. The five maximal
sets of gaps (also `wait`, `go` and `make` together) give no other result and
take longer than is convenient.

Each `…IfUndisturbed` property names the gaps that break it: an election needs
`wait`, `loop` and `go` closed (with `go` open an election begun before the peer
won runs after it, and `switchTo` at 1120 broadcasts nothing on Leader to
Candidate); heartbeats and application need `wait` and `loop` closed;
`MakeRestores` needs `make` closed. `StartReturnsOrDeadlocks` excuses no gap: a
`Start` that was called returns unless a tick holds `rf.mu` and sends to an
`eventLoop` that is not at its `select`. So the deadlock which `RaftDeadlock`
shows, and no other use of `rf.mu`, is what can keep a client waiting.

Fairness: a goroutine that can run does, and time passes. `Start` has strong
fairness because `sync.Mutex` hands the lock to a goroutine that has waited for
a millisecond. Nothing is assumed of the calls a peer receives.

Proved (`RaftLoopsProofs`, for all sets of schedules and all bounds):
`TypeCorrect`, `WakeupsKept`, `SavedStateRestored`. The invariant `LoopsInv`
adds `GapsKept` (nobody is inside a closed gap, and `applyEntries` has something
to apply) and `MakeQuiet` (before `Make` returns no election is on its way,
since the timer cannot have run out).

## The network and the harness

`LabRPC.tla` has one record per call with the stage of `Call`/`ProcessReq`
(`proc`) and of the goroutine that runs the handler (`handler`). What the test
calls is several steps, in the order of the code. `connect` and `disconnect` set
`connected[i]` and then call `Enable` for one end after the other, the outgoing
ones first; each call takes `rn.mu` for itself, and `pending` are the ends still
to come. `crash1` is `disconnect`, delete the server, copy the Persister;
`start1` is `crash1`, then new ends, copy and `Make`, and add the server. The
tests connect a peer only after they have started it, and so does the model.
Calls, handlers and old instances run between any two of these steps. `disk[i]` are the updates in
`cfg.saved[i]`, and `attached[i]` says that the newest instance writes there
rather than to a Persister that was superseded. A handler may hang (it waits for
a lock of its peer); the poll of `isServerDead` is what ends such a call.
`Network.cfg` has two peers, two instances of each, and one call: `ProcessReq`
of one call reads and writes nothing of another, so more calls add no behaviour
of any one of them, and the proofs are for any number.

| Property | Meaning |
|---|---|
| `OldInstancesIsolated` | in every intermediate state an enabled end is of an instance that serves, towards a peer that does; and between calls of `connect` and `disconnect` the enabled ends are exactly those between the newest instances of connected peers |
| `ImplementsRemoteCall` | a call is executed at most once; a positive reply is of an update in the Persister that survives |
| `CallReturns` | `Call` returns unless its handler hangs on a live server |
| `HandlerEnds` | a handler goroutine whose handler has returned ends: someone takes its reply |

Fairness: the goroutines of a call run; nothing is assumed of the test.

Proved (`LabRPCProofs`, any peers, instances and calls): `Isolation` and the
refinement `NetworkImplements`. The invariant `NetInv` adds that a serving
instance is the newest and attached, that a connected peer serves, how far the
test is, that every end but the pending ones is as `connected` says, and, of
every call, that an update made on the serving instance is in the Persister that survives.
That last conjunct is what the recheck in `ProcessReq` (lines 253-259) and the
order of `crash1` are for: `IsServerDead` after the handler returned false means
that the instance which executed the call still serves.

## MapReduce

`MapReduce.tla` has the master's `run` as a program counter (`pc`: `map`,
`reduce`, `kill`, `stop`, `merge`, `clean`, `done`; `panic` and `fatal` end it),
the loop of `schedule`, and one record in `calls` per RPC to a worker with its
stage: `dial`, `queued` in the socket's backlog, `accepted`, `running`,
`writing`, `executed`, `failed`. `senders` are the goroutines blocked on the
unbuffered `registerChan` of a phase. Each phase has its own channel and its own
`forwardRegistrations`, which lives on after the phase. `mode` is the function
that started the job: `Sequential` runs the tasks one after the other and has
no workers. `reliable` workers are started with nRPC -1; the others accept
`MaxServe` connections and may die. The comment on `call` says "you should
assume that call() will time out and return false after a while if it doesn't
get a reply from the server" (`common_rpc.go:45-46`), but the code sets no
timeout: it fails when nobody listens, when the listener closes with the
connection in the backlog, or when the process dies, before or after the task
was executed. `OneRPCPerWorker` and `OutputsFrozen` rest on that: with a
timeout, a task given up could still be running, and writing, on a worker. An output file is
`none`, `cut` (truncated, being written or left so by a dead worker), `short`
(reduced from incomplete input) or `full`; `CleanupFiles` removes them.

`MapReduceTasks.tla` has the numbers of tasks, which `MapReduce` and
`MapReduceData` share, and `MapReduceJob.tla` puts the two together for the
checker: a job and what its output holds.

`MapReduceData.tla` is what the files hold: `doMap` splits the pairs of a task,
`doReduce` collects, sorts (not stably: any order the sort may leave) and groups
them, `merge` puts the results together. `AlwaysRight` compares the output with
a reference: each key once, in order, with all values emitted for it, for every
assignment of keys to map tasks and every hash function within the bounds
(three keys, three pairs, three map and two reduce tasks).

Fairness: every goroutine and worker loop that can take a step eventually does
(the Go scheduler), and reliable workers are started. The other workers may
never be started, and nobody has to crash.

| Run | Instance | Shows |
|---|---|---|
| `Job` | 3 map and 2 reduce tasks; a Sequential job, a Distributed one with two reliable workers, one with a reliable worker and one with two connections that may die | `TypeOK`, `OneRPCPerWorker`, `TasksAccounted`, `OutputsFrozen`, `PhasesEnd`, `OutputRight`; undisturbed jobs have every task done (`ScheduleCompleteIfReliable`) and end (`JobDoneIfReliable`) |
| `JobLostTask` | a worker with one connection | `schedule` returns with a task undone |

With two workers and two tasks per phase a call can fail while the loop takes
another task, waits for a worker, or has left, and a worker can be offered by
both `forwardRegistrations` goroutines.

Two more behaviours of the code are in the model. With more reduce tasks than
map files `IssueTask` takes the master to `panic`, since `schedule.go:98`
indexes `mapFiles` in both phases (`NMap = 1`, `NReduce = 2` violates
`ScheduleCompleteIfReliable`). After `Shutdown` a worker is back in `Accept`,
because nRPC is set to 1 after the connection of `Shutdown` was counted.

After a panic or `log.Fatal` of the master nothing is followed any further. In
the tests all workers share one process, so that `log.Fatal` in one ends all;
the model ends that worker only.

### Proofs

`MapReduceProofs`, for every finite set of workers, all fleets, any number of
map and reduce tasks and any number of failures:

| Theorem | Establishes |
|---|---|
| `JobTypeCorrect` | `TypeOK`: the WaitGroup never falls below zero, `killWorkers` stays within the registered workers |
| `WorkersNotShared` | `OneRPCPerWorker`, though a worker is offered by two `forwardRegistrations` goroutines |
| `NoTaskForgotten` | `TasksAccounted`: while a phase runs a task is in one place at most, and one that is in none was executed |
| `NoStraggler` | `OutputsFrozen`: nobody writes the files of a phase that is over |
| `CompleteIfReliable` | `ScheduleCompleteIfReliable`, assuming `NReduce <= NMap` |

The invariant is `JobInv`. A worker that a phase knows of is offered once or has
one goroutine, and what keeps a phase from being left with calls under way is
that the WaitGroup is the number of workers engaged (`WaitGroupOK`), which needs
that no worker has two calls. A task is listed, in hand or with one goroutine,
else its file is complete (`TasksOK`). `CompleteIfReliable` adds `ReliableOK`:
without failures no call fails, so the list stays empty once the loop has left
it. Its assumption is the one `schedule.go:98` makes when it indexes `mapFiles`
by reduce tasks.

## Only model-checked

- Liveness, everywhere: `CallReturns`, `HandlerEnds`, the `…IfUndisturbed`
  properties of a peer's goroutines, `StartReturnsOrDeadlocks`, `PhasesEnd`,
  `JobDoneIfReliable`.
- `OutputRight`: what the recursive and folded definitions of `MapReduceData`
  compute for every input is induction over data, out of the provers' reach.
- `ElectionSafety` with the `issue` gap open (`RaftElection`): it holds with
  three peers because of their number, and is not claimed for others.
- `TypeOK` and `PersistedIsCurrent` of Raft with all gaps open (`RaftDurable`):
  with the `appendReply` gap open terms go back, and the invariant that the
  proofs rest on does not hold.

## Not modelled

- `labgob`: warnings found by reflection; encoding a value and decoding it again
  gives the value, as far as `src/src/raft` uses it.
- Arguments, replies and the dispatch by name in `labrpc`; its counters.
- In `Raft`, the gaps at 618/623/630, 827/830 and 1212/1216/1221 of `raft.go`;
  the array that the entries of a request share with the log until they are
  encoded (655, 671, `labrpc.go:93`); `matchIndex` and `leaderId`, which are
  never read.
- In `RaftHarness`, what the reader of a crashed instance still records after
  the peer was restarted.
- Snapshots of `Persister` (no caller in the repository).
- The harness's `one`, `wait`, `nCommitted`, `checkOneLeader` and `checkTerms`
  only read; what they demand is stated as properties (`ElectionSafety`,
  `ImplementsReplicatedLog`).
- The statistics of the MapReduce master and the tests' parallelism counters.
- Lab 3: the repository has notes on it but no code.
