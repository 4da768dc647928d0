------------------------------ MODULE RaftLoops ------------------------------
(***************************************************************************)
(* The long-running goroutines of one peer of src/raft/raft.go and what    *)
(* they share: rf.mu, the unbuffered channels electionTimeoutChan and      *)
(* heartbeatPeriodChan, the condition variables nonLeaderCond, leaderCond  *)
(* and applyCond.  Raft.tla lets an election or a heartbeat begin at any   *)
(* time; this module is about whether they begin at all.                   *)
(*                                                                         *)
(* A critical section of rf.mu that does not block is one action, enabled  *)
(* when rf.mu is free.  Only the two ticks block while they hold rf.mu, in *)
(* a channel send.  Terms and logs are left to Raft.tla: a handler is here *)
(* what it does to rf.state, to the timers and to commitIndex.             *)
(***************************************************************************)
EXTENDS Naturals

CONSTANTS
  Schedules,  \* the sets of gaps that may be open in a behaviour
  MaxCommit,  \* bound: entries committed in a behaviour
  MaxGo       \* bound: goroutines of a kind started and not yet scheduled

(***************************************************************************)
(* The gaps of raft.go in which other goroutines of the peer may run; a    *)
(* gap that is not open is crossed in one step.                            *)
(*  "wait"  from the test of a condition to Wait: 1133 -> 1135,            *)
(*          1164 -> 1166, 1066 -> 1070                                     *)
(*  "loop"  eventLoop, from the receive to Lock: 1189 -> 1190,             *)
(*          1195 -> 1196                                                   *)
(*  "go"    from a go statement to the first section of startElection or   *)
(*          broadcastHeartbeat: 1194 -> 1407, 1200 or 774 or 1535 -> 1212  *)
(*  "make"  Make is delayed for a whole election timeout between 1605,     *)
(*          where it starts the goroutines, and readPersist at 1612        *)
(***************************************************************************)
Gaps == {"wait", "loop", "go", "make"}

ASSUME LoopBounds ==
  /\ Schedules \subseteq SUBSET Gaps /\ Schedules # {}
  /\ MaxCommit \in Nat /\ MaxGo \in Nat \ {0}

VARIABLES
  open,        \* the gaps open in this behaviour; never changes
  mu,          \* rf.mu: "free", or the tick that holds it while it sends
  pc,          \* where each goroutine is
  state,       \* rf.state
  elapsed,     \* electionTimeout has passed since latestHeardTime
  due,         \* heartbeatPeriod has passed since latestIssueTime
  ballots,     \* startElection goroutines not yet scheduled
  beats,       \* broadcastHeartbeat goroutines not yet scheduled
  commitIndex, \* rf.commitIndex
  lastApplied, \* rf.lastApplied
  upTo,        \* the local commitIndex of applyEntries
  made,        \* Make has returned: the peer can be called
  disk         \* the Persister: "saved", or "blank" once overwritten

timers    == <<elapsed, due>>
spawned   == <<ballots, beats>>
applyVars == <<commitIndex, lastApplied, upTo>>
makeVars  == <<made, disk>>
vars == <<open, mu, pc, state, elapsed, due, ballots, beats, commitIndex,
          lastApplied, upTo, made, disk>>

Follower  == "Follower"
Candidate == "Candidate"
Leader    == "Leader"

Goroutine == {"eTick", "hTick", "loop", "apply", "client"}

Label == {"idle", "test", "wait", "asleep", "woken", "check", "send", "select",
          "election", "heartbeat", "apply", "deliver", "append"}

(* Type invariant; nothing is applied before it is committed.              *)
TypeOK ==
  /\ open \in Schedules
  /\ mu \in {"free", "eTick", "hTick"}
  /\ pc \in [Goroutine -> Label]
  /\ state \in {Follower, Candidate, Leader}
  /\ elapsed \in BOOLEAN /\ due \in BOOLEAN
  /\ ballots \in 0..MaxGo /\ beats \in 0..MaxGo
  /\ commitIndex \in 0..MaxCommit
  /\ lastApplied \in 0..commitIndex /\ upTo \in 0..commitIndex
  /\ made \in BOOLEAN /\ disk \in {"saved", "blank"}

(* A mistake in Make: the election timer is not set before the goroutines  *)
(* start, so that latestHeardTime is 0.                                    *)
InitTimerUnset ==
  /\ open \in Schedules
  /\ mu = "free"
  /\ pc = [g \in Goroutine |-> CASE g = "loop" -> "select"
                                 [] g = "client" -> "idle"
                                 [] OTHER -> "test"]
  /\ state = Follower
  /\ elapsed = TRUE /\ due = TRUE
  /\ ballots = 0 /\ beats = 0
  /\ commitIndex = 0 /\ lastApplied = 0 /\ upTo = 0
  /\ made = FALSE /\ disk = "saved"

(* Make up to the go statements.  latestIssueTime is still 0.              *)
Init ==
  /\ open \in Schedules
  /\ mu = "free"
  /\ pc = [g \in Goroutine |-> CASE g = "loop" -> "select"
                                 [] g = "client" -> "idle"
                                 [] OTHER -> "test"]
  /\ state = Follower
  /\ elapsed = FALSE /\ due = TRUE
  /\ ballots = 0 /\ beats = 0
  /\ commitIndex = 0 /\ lastApplied = 0 /\ upTo = 0
  /\ made = FALSE /\ disk = "saved"
-----------------------------------------------------------------------------
Free == mu = "free"

Goto(g, l) == pc' = [pc EXCEPT ![g] = l]

(* Broadcast on the condition variables the goroutines in G wait for.      *)
Wake(G) == [g \in Goroutine |->
              IF g \in G /\ pc[g] = "asleep" THEN "woken" ELSE pc[g]]

(* Mistakes in switchTo: one of the two broadcasts is missing.             *)
SignalledNonLeaderOnly(old, new) ==
  IF old = Leader /\ new = Follower THEN {"eTick"} ELSE {}
SignalledLeaderOnly(old, new) ==
  IF old = Candidate /\ new = Leader THEN {"hTick"} ELSE {}

(* switchTo: whom the change from old to new wakes.  From Leader to        *)
(* Candidate it wakes nobody.                                              *)
Signalled(old, new) ==
  IF old = Leader /\ new = Follower THEN {"eTick"}
  ELSE IF old = Candidate /\ new = Leader THEN {"hTick"}
  ELSE {}

(* From the test of a condition to Wait: at once, or through a gap.        *)
Doze == IF "wait" \in open THEN "wait" ELSE "asleep"

(* The first section of startElection.  Before readPersist it saves the    *)
(* zero state over what the Persister held.                                *)
StartElection ==
  /\ state' = Candidate
  /\ elapsed' = FALSE
  /\ disk' = IF made THEN disk ELSE "blank"

LaunchElection ==
  \/ /\ "go" \in open
     /\ ballots' = ballots + 1
     /\ UNCHANGED <<state, elapsed, disk>>
  \/ "go" \notin open /\ StartElection /\ UNCHANGED ballots

(* broadcastHeartbeat: a leader notes the time and broadcasts.             *)
LaunchHeartbeat(st) ==
  \/ "go" \in open /\ beats' = beats + 1 /\ UNCHANGED due
  \/ /\ "go" \notin open
     /\ due' = IF st = Leader THEN FALSE ELSE due
     /\ UNCHANGED beats

RunElection ==
  /\ ballots > 0 /\ Free
  /\ ballots' = ballots - 1
  /\ StartElection
  /\ UNCHANGED <<open, mu, pc, due, beats, applyVars, made>>

RunHeartbeat ==
  /\ beats > 0 /\ Free
  /\ beats' = beats - 1
  /\ due' = IF state = Leader THEN FALSE ELSE due
  /\ UNCHANGED <<open, mu, pc, state, elapsed, ballots, applyVars, makeVars>>
-----------------------------------------------------------------------------
(* The two ticks.  A tick that must wait has condition Sleeps; a tick that *)
(* finds its timer expired sends with rf.mu held.                          *)
Sleeps(g) == IF g = "eTick" THEN state = Leader ELSE state # Leader
Expired(g) == IF g = "eTick" THEN elapsed ELSE due
Room(g) == IF g = "eTick" THEN ballots < MaxGo ELSE beats < MaxGo

(* GetState, at the head of the loop.                                      *)
TickTest(g) ==
  /\ pc[g] = "test" /\ Free
  /\ Goto(g, IF Sleeps(g) THEN Doze ELSE "check")
  /\ UNCHANGED <<open, mu, state, timers, spawned, applyVars, makeVars>>

TickWait(g) ==
  /\ pc[g] = "wait" /\ Free
  /\ Goto(g, "asleep")
  /\ UNCHANGED <<open, mu, state, timers, spawned, applyVars, makeVars>>

(* Wait returns: it takes rf.mu again, and the tick releases it.           *)
TickWoken(g) ==
  /\ pc[g] = "woken" /\ Free
  /\ Goto(g, "test")
  /\ UNCHANGED <<open, mu, state, timers, spawned, applyVars, makeVars>>

(* eventLoop, once it has rf.mu: print, unlock, start the goroutine.       *)
Launch(g) ==
  \/ g = "eTick" /\ LaunchElection /\ UNCHANGED <<due, beats, made>>
  \/ /\ g = "hTick" /\ LaunchHeartbeat(state)
     /\ UNCHANGED <<state, elapsed, ballots, makeVars>>

(* The timer, read with rf.mu held.  When it has run out the tick sends:   *)
(* with the gap of eventLoop closed the receiver is there, and what it     *)
(* does follows at once.                                                   *)
TickCheck(g) ==
  /\ pc[g] = "check" /\ Free
  /\ \/ /\ ~(Expired(g) /\ Room(g))
        /\ Goto(g, "test")
        /\ UNCHANGED <<mu, state, timers, spawned, makeVars>>
     \/ /\ Expired(g) /\ Room(g) /\ "loop" \in open
        /\ Goto(g, "send") /\ mu' = g
        /\ UNCHANGED <<state, timers, spawned, makeVars>>
     \/ /\ Expired(g) /\ Room(g) /\ "loop" \notin open
        /\ Goto(g, "test") /\ Launch(g)
        /\ UNCHANGED mu
  /\ UNCHANGED <<open, applyVars>>

(* A mistake in the tick: it does not unlock rf.mu after the send.         *)
TickSendKeepsLock(g) ==
  /\ pc[g] = "send" /\ pc["loop"] = "select"
  /\ pc' = [pc EXCEPT ![g] = "test",
                      !["loop"] = IF g = "eTick" THEN "election"
                                                 ELSE "heartbeat"]
  /\ UNCHANGED <<open, mu, state, timers, spawned, applyVars, makeVars>>

(* The send meets eventLoop's receive; the tick unlocks rf.mu.             *)
TickSend(g) ==
  /\ pc[g] = "send" /\ pc["loop"] = "select"
  /\ mu' = "free"
  /\ pc' = [pc EXCEPT ![g] = "test",
                      !["loop"] = IF g = "eTick" THEN "election"
                                                 ELSE "heartbeat"]
  /\ UNCHANGED <<open, state, timers, spawned, applyVars, makeVars>>

EventLoop ==
  /\ Free
  /\ \/ pc["loop"] = "election" /\ Room("eTick") /\ Launch("eTick")
     \/ pc["loop"] = "heartbeat" /\ Room("hTick") /\ Launch("hTick")
  /\ Goto("loop", "select")
  /\ UNCHANGED <<open, mu, applyVars>>

Tick(g) == \/ TickTest(g) \/ TickWait(g) \/ TickWoken(g) \/ TickCheck(g)
           \/ TickSend(g)
-----------------------------------------------------------------------------
(* applyEntries.                                                           *)
ApplyTest ==
  /\ pc["apply"] = "test" /\ Free
  /\ upTo' = commitIndex
  /\ Goto("apply", IF lastApplied = commitIndex THEN Doze ELSE "apply")
  /\ UNCHANGED <<open, mu, state, timers, spawned, commitIndex, lastApplied,
                 makeVars>>

ApplyWait ==
  /\ pc["apply"] \in {"wait", "woken"} /\ Free
  /\ Goto("apply", IF pc["apply"] = "wait" THEN "asleep" ELSE "test")
  /\ UNCHANGED <<open, mu, state, timers, spawned, applyVars, makeVars>>

ApplyEntry ==
  /\ pc["apply"] = "apply" /\ Free
  /\ lastApplied' = lastApplied + 1
  /\ Goto("apply", "deliver")
  /\ UNCHANGED <<open, mu, state, timers, spawned, commitIndex, upTo, makeVars>>

(* A mistake in applyEntries: the loop runs one entry too far.             *)
ApplyDeliverPast ==
  /\ pc["apply"] = "deliver"
  /\ Goto("apply", IF lastApplied <= upTo THEN "apply" ELSE "test")
  /\ UNCHANGED <<open, mu, state, timers, spawned, applyVars, makeVars>>

(* The send on applyCh, without rf.mu; its reader is always ready.         *)
ApplyDeliver ==
  /\ pc["apply"] = "deliver"
  /\ Goto("apply", IF lastApplied < upTo THEN "apply" ELSE "test")
  /\ UNCHANGED <<open, mu, state, timers, spawned, applyVars, makeVars>>

ApplyEntries == ApplyTest \/ ApplyWait \/ ApplyEntry \/ ApplyDeliver
-----------------------------------------------------------------------------
(* Start, called by the service: GetState, then the append and, in a       *)
(* section that changes nothing here, the broadcast.                       *)
Call ==
  /\ made /\ pc["client"] = "idle"
  /\ Goto("client", "test")
  /\ UNCHANGED <<open, mu, state, timers, spawned, applyVars, makeVars>>

Start ==
  /\ Free
  /\ \/ /\ pc["client"] = "test"
        /\ Goto("client", IF state = Leader THEN "append" ELSE "idle")
        /\ UNCHANGED due
     \/ pc["client"] = "append" /\ Goto("client", "idle") /\ due' = FALSE
  /\ UNCHANGED <<open, mu, state, elapsed, spawned, applyVars, makeVars>>
-----------------------------------------------------------------------------
(* The other goroutines: RPC handlers and the goroutines that wait for     *)
(* replies.                                                                *)

(* A newer term in a RequestVote that is not granted, or in a rejection.   *)
StepDown ==
  /\ made /\ Free
  /\ state' = Follower
  /\ pc' = Wake(Signalled(state, Follower))
  /\ UNCHANGED <<open, mu, timers, spawned, applyVars, makeVars>>

(* A vote granted, or an AppendEntries of a newer term, or one that passes *)
(* the consistency check; the last may carry a larger LeaderCommit.        *)
Hear ==
  /\ made /\ Free
  /\ state' = Follower
  /\ elapsed' = FALSE
  /\ \/ pc' = Wake(Signalled(state, Follower)) /\ UNCHANGED commitIndex
     \/ /\ commitIndex < MaxCommit
        /\ commitIndex' = commitIndex + 1
        /\ pc' = Wake(Signalled(state, Follower) \cup {"apply"})
  /\ UNCHANGED <<open, mu, due, spawned, lastApplied, upTo, makeVars>>

(* The vote that makes a majority.                                         *)
Win ==
  /\ made /\ Free /\ state = Candidate
  /\ beats < MaxGo
  /\ state' = Leader
  /\ pc' = Wake(Signalled(state, Leader))
  /\ LaunchHeartbeat(Leader)
  /\ UNCHANGED <<open, mu, elapsed, ballots, applyVars, makeVars>>

(* A mistake in the leader's commit: applyCond is not signalled.           *)
CommitNoSignal ==
  /\ made /\ Free /\ state = Leader
  /\ beats < MaxGo
  /\ commitIndex < MaxCommit
  /\ commitIndex' = commitIndex + 1
  /\ LaunchHeartbeat(Leader)
  /\ UNCHANGED <<open, mu, pc, state, elapsed, ballots, lastApplied, upTo,
                 makeVars>>

(* The AppendEntries reply that makes a majority.                          *)
Commit ==
  /\ made /\ Free /\ state = Leader
  /\ beats < MaxGo
  /\ commitIndex < MaxCommit
  /\ commitIndex' = commitIndex + 1
  /\ LaunchHeartbeat(Leader)
  /\ pc' = Wake({"apply"})
  /\ UNCHANGED <<open, mu, state, elapsed, ballots, lastApplied, upTo,
                 makeVars>>

(* The last section of Make.                                               *)
ReadPersist ==
  /\ ~made /\ Free
  /\ made' = TRUE
  /\ UNCHANGED <<open, mu, pc, state, timers, spawned, applyVars, disk>>

(* Time: an election timeout, longer than Make takes unless "make" is      *)
(* open, and a heartbeat period.                                           *)
Elapse ==
  /\ ~elapsed /\ (made \/ "make" \in open)
  /\ elapsed' = TRUE
  /\ UNCHANGED <<open, mu, pc, state, due, spawned, applyVars, makeVars>>

FallDue ==
  /\ ~due
  /\ due' = TRUE
  /\ UNCHANGED <<open, mu, pc, state, elapsed, spawned, applyVars, makeVars>>

Next ==
  \/ \E g \in {"eTick", "hTick"} : Tick(g)
  \/ EventLoop \/ RunElection \/ RunHeartbeat
  \/ ApplyEntries
  \/ Call \/ Start
  \/ StepDown \/ Hear \/ Win \/ Commit
  \/ ReadPersist \/ Elapse \/ FallDue

(* A goroutine that can run does run, and time passes; nothing is assumed  *)
(* of the calls a peer receives.  Start has strong fairness: sync.Mutex    *)
(* hands rf.mu to a goroutine that has waited a millisecond, so Start is   *)
(* never passed over for ever.                                             *)
Fairness ==
  /\ WF_vars(Tick("eTick")) /\ WF_vars(Tick("hTick"))
  /\ WF_vars(EventLoop)
  /\ WF_vars(RunElection) /\ WF_vars(RunHeartbeat)
  /\ WF_vars(ApplyEntries)
  /\ SF_vars(Start)
  /\ WF_vars(ReadPersist)
  /\ WF_vars(Elapse) /\ WF_vars(FallDue)

Spec == Init /\ [][Next]_vars /\ Fairness
-----------------------------------------------------------------------------
(* A goroutine asleep on a condition variable still has its reason to      *)
(* sleep: the peer is (or is not) the leader, or everything committed is   *)
(* applied.                                                                *)
NoLostWakeup ==
  "wait" \notin open =>
    /\ pc["hTick"] = "asleep" => state # Leader
    /\ pc["apply"] = "asleep" => lastApplied = commitIndex
    /\ pc["eTick"] = "asleep" /\ open \cap {"loop", "go"} = {} =>
         state = Leader

(* Make restores what the peer had saved before the crash: no election     *)
(* of the goroutines it has already started saves the zero state first.    *)
MakeRestores == "make" \notin open => disk = "saved"

(* A peer that is not leader and whose election timer has run out starts   *)
(* an election, or hears from another peer, or has become leader.          *)
Campaigns == elapsed /\ state # Leader ~> ~elapsed \/ state = Leader
CampaignsIfUndisturbed == open \cap {"wait", "loop", "go"} = {} => Campaigns

(* A leader whose heartbeat period is over sends heartbeats.               *)
Beats == due /\ state = Leader ~> ~due \/ state # Leader
BeatsIfUndisturbed == open \cap {"wait", "loop"} = {} => Beats

(* Every committed entry is applied.                                       *)
Applies == \A i \in 1..MaxCommit : commitIndex >= i ~> lastApplied >= i
AppliesIfUndisturbed == open \cap {"wait", "loop"} = {} => Applies

(* Start returns.                                                          *)
StartReturns == pc["client"] # "idle" ~> pc["client"] = "idle"

(* A tick holds rf.mu and sends to eventLoop, which waits for rf.mu.       *)
Deadlocked == \E g \in {"eTick", "hTick"} :
                mu = g /\ pc[g] = "send" /\ pc["loop"] # "select"

(* The ticks take rf.mu to send, and nothing but that deadlock keeps Start *)
(* from it: whoever else holds rf.mu gives it back.                        *)
StartReturnsOrDeadlocks ==
  pc["client"] # "idle" ~> pc["client"] = "idle" \/ Deadlocked
=============================================================================
