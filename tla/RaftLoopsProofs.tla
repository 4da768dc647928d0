--------------------------- MODULE RaftLoopsProofs ---------------------------
(***************************************************************************)
(* What holds of the goroutines of a peer whichever gaps are open, and for *)
(* any number of commits and of goroutines waiting to be scheduled.        *)
(***************************************************************************)
EXTENDS RaftLoops, TLAPS

(* applyEntries has something to apply when it applies, and nobody is      *)
(* inside a gap that is not open.                                          *)
GapsKept ==
  /\ pc["apply"] = "apply" => lastApplied < upTo
  /\ "wait" \notin open => \A g \in Goroutine : pc[g] # "wait"
  /\ "loop" \notin open => /\ pc["loop"] = "select"
                           /\ \A g \in Goroutine : pc[g] # "send"
  /\ "go" \notin open => ballots = 0

(* Before Make has returned the election timer cannot run out, so that no  *)
(* election is on its way.                                                 *)
MakeQuiet ==
  "make" \notin open /\ ~made =>
    /\ elapsed = FALSE
    /\ ballots = 0
    /\ pc["loop"] # "election"
    /\ pc["eTick"] # "send"

LoopsInv == TypeOK /\ GapsKept /\ NoLostWakeup /\ MakeQuiet /\ MakeRestores

LEMMA InitInv == Init => LoopsInv
<1> SUFFICES ASSUME Init PROVE LoopsInv
  OBVIOUS
<1>1. /\ pc["eTick"] = "test" /\ pc["hTick"] = "test" /\ pc["apply"] = "test"
      /\ pc["loop"] = "select" /\ pc["client"] = "idle"
  BY DEF Init, Goroutine
<1>3. TypeOK
  <2>1. pc \in [Goroutine -> Label]
    BY DEF Init, Label
  <2>2. elapsed \in BOOLEAN /\ due \in BOOLEAN /\ made \in BOOLEAN
    BY DEF Init
  <2>3. /\ ballots \in 0..MaxGo /\ beats \in 0..MaxGo
        /\ commitIndex \in 0..MaxCommit
        /\ lastApplied \in 0..commitIndex /\ upTo \in 0..commitIndex
    BY LoopBounds DEF Init
  <2>4. /\ open \in Schedules /\ mu \in {"free", "eTick", "hTick"}
        /\ state \in {Follower, Candidate, Leader} /\ disk \in {"saved", "blank"}
    BY DEF Init
  <2> QED
    BY <2>1, <2>2, <2>3, <2>4 DEF TypeOK
<1> QED
  BY <1>1, <1>3 DEF Init, LoopsInv, GapsKept, NoLostWakeup, MakeQuiet,
     MakeRestores, Goroutine, Follower, Leader

(* The goroutines that a go statement adds.                                *)
LEMMA BeatsAdded ==
  ASSUME NEW st, LaunchHeartbeat(st)
  PROVE  beats' = beats \/ beats' = beats + 1
  BY Zenon DEF LaunchHeartbeat

LEMMA BallotsAdded ==
  ASSUME LaunchElection
  PROVE  ballots' = ballots \/ ballots' = ballots + 1
  BY Zenon DEF LaunchElection

LEMMA LaunchAdds ==
  ASSUME TypeOK, NEW g, Launch(g), Room(g)
  PROVE  ballots' \in 0..MaxGo /\ beats' \in 0..MaxGo
<1>1. ballots \in 0..MaxGo /\ beats \in 0..MaxGo
  BY DEF TypeOK
<1>2. CASE g = "eTick"
  <2>1. (ballots' = ballots \/ ballots' = ballots + 1) /\ beats' = beats
    BY <1>2, BallotsAdded DEF Launch
  <2>2. ballots < MaxGo
    BY <1>2 DEF Room
  <2> QED
    BY <1>1, <2>1, <2>2, LoopBounds
<1>3. CASE g = "hTick"
  <2>1. (beats' = beats \/ beats' = beats + 1) /\ ballots' = ballots
    BY <1>3, BeatsAdded DEF Launch
  <2>2. beats < MaxGo
    BY <1>3 DEF Room
  <2> QED
    BY <1>1, <2>1, <2>2, LoopBounds
<1> QED
  BY <1>2, <1>3 DEF Launch

LEMMA TickTestInv ==
  ASSUME LoopsInv, NEW g \in {"eTick", "hTick"}, TickTest(g)
  PROVE  LoopsInv'
<1>1. pc' \in [Goroutine -> Label]
  BY DEF LoopsInv, TypeOK, Label, TickTest, Sleeps, Doze, Goroutine, Goto
<1>2. elapsed' \in BOOLEAN /\ due' \in BOOLEAN /\ made' \in BOOLEAN
  BY DEF LoopsInv, TypeOK, TickTest, Sleeps, Doze, timers, makeVars
<1>3. TypeOK'
  BY <1>1, <1>2, LoopBounds DEF LoopsInv, TypeOK, GapsKept, TickTest, Sleeps,
     Doze, Goroutine, Follower, Candidate, Leader, timers, spawned, applyVars,
     makeVars, Free, Goto
<1>4. GapsKept' /\ NoLostWakeup'
  BY DEF LoopsInv, TypeOK, GapsKept, NoLostWakeup, TickTest, Sleeps, Doze,
     Goroutine, Follower, Candidate, Leader, timers, spawned, applyVars,
     makeVars, Free, Goto
<1>5. MakeQuiet' /\ MakeRestores'
  BY DEF LoopsInv, TypeOK, GapsKept, MakeQuiet, MakeRestores, TickTest,
     Sleeps, Doze, Goroutine, Follower, Candidate, Leader, timers, spawned,
     applyVars, makeVars, Free, Goto
<1> QED
  BY <1>3, <1>4, <1>5 DEF LoopsInv

LEMMA TickWaitInv ==
  ASSUME LoopsInv, NEW g \in {"eTick", "hTick"}, TickWait(g)
  PROVE  LoopsInv'
<1>1. pc' \in [Goroutine -> Label]
  BY DEF LoopsInv, TypeOK, Label, TickWait, Goroutine, Goto
<1>2. elapsed' \in BOOLEAN /\ due' \in BOOLEAN /\ made' \in BOOLEAN
  BY DEF LoopsInv, TypeOK, TickWait, timers, makeVars
<1>3. TypeOK'
  BY <1>1, <1>2, LoopBounds DEF LoopsInv, TypeOK, GapsKept, TickWait,
     Goroutine, Follower, Candidate, Leader, timers, spawned, applyVars,
     makeVars, Free, Goto
<1>4. GapsKept' /\ NoLostWakeup'
  BY DEF LoopsInv, TypeOK, GapsKept, NoLostWakeup, TickWait, Goroutine,
     Follower, Candidate, Leader, timers, spawned, applyVars, makeVars, Free,
     Goto
<1>5. MakeQuiet' /\ MakeRestores'
  BY DEF LoopsInv, TypeOK, GapsKept, MakeQuiet, MakeRestores, TickWait,
     Goroutine, Follower, Candidate, Leader, timers, spawned, applyVars,
     makeVars, Free, Goto
<1> QED
  BY <1>3, <1>4, <1>5 DEF LoopsInv

LEMMA TickWokenInv ==
  ASSUME LoopsInv, NEW g \in {"eTick", "hTick"}, TickWoken(g)
  PROVE  LoopsInv'
<1>1. pc' \in [Goroutine -> Label]
  BY DEF LoopsInv, TypeOK, Label, TickWoken, Goroutine, Goto
<1>2. elapsed' \in BOOLEAN /\ due' \in BOOLEAN /\ made' \in BOOLEAN
  BY DEF LoopsInv, TypeOK, TickWoken, timers, makeVars
<1>3. TypeOK'
  BY <1>1, <1>2, LoopBounds DEF LoopsInv, TypeOK, GapsKept, TickWoken,
     Goroutine, Follower, Candidate, Leader, timers, spawned, applyVars,
     makeVars, Free, Goto
<1>4. GapsKept' /\ NoLostWakeup'
  BY DEF LoopsInv, TypeOK, GapsKept, NoLostWakeup, TickWoken, Goroutine,
     Follower, Candidate, Leader, timers, spawned, applyVars, makeVars, Free,
     Goto
<1>5. MakeQuiet' /\ MakeRestores'
  BY DEF LoopsInv, TypeOK, GapsKept, MakeQuiet, MakeRestores, TickWoken,
     Goroutine, Follower, Candidate, Leader, timers, spawned, applyVars,
     makeVars, Free, Goto
<1> QED
  BY <1>3, <1>4, <1>5 DEF LoopsInv

LEMMA TickCheckInv ==
  ASSUME LoopsInv, NEW g \in {"eTick", "hTick"}, TickCheck(g)
  PROVE  LoopsInv'
<1>1. pc' \in [Goroutine -> Label]
  BY ZenonT(60) DEF LoopsInv, TypeOK, Label, TickCheck, Launch, LaunchElection,
     LaunchHeartbeat, StartElection, Expired, Room, Goroutine, Goto
<1>2. elapsed' \in BOOLEAN /\ due' \in BOOLEAN /\ made' \in BOOLEAN
  BY DEF LoopsInv, TypeOK, TickCheck, Launch, LaunchElection, LaunchHeartbeat,
     StartElection, Expired, Room, timers, makeVars
<1>3. TypeOK'
  <2>1. ballots' \in 0..MaxGo /\ beats' \in 0..MaxGo
    <3>1. CASE UNCHANGED spawned
      BY <3>1 DEF LoopsInv, TypeOK, spawned
    <3>2. CASE Room(g) /\ Launch(g)
      BY <3>2, LaunchAdds DEF LoopsInv
    <3> QED
      BY <3>1, <3>2 DEF TickCheck
  <2>2. /\ commitIndex' \in 0..MaxCommit
        /\ lastApplied' \in 0..commitIndex' /\ upTo' \in 0..commitIndex'
    BY LoopBounds DEF LoopsInv, TypeOK, TickCheck, applyVars
  <2>3. /\ open' \in Schedules /\ mu' \in {"free", "eTick", "hTick"}
        /\ state' \in {Follower, Candidate, Leader}
        /\ disk' \in {"saved", "blank"}
    BY DEF LoopsInv, TypeOK, TickCheck, Launch, LaunchElection,
       LaunchHeartbeat, StartElection, Expired, Room, makeVars
  <2> QED
    BY <1>1, <1>2, <2>1, <2>2, <2>3 DEF TypeOK, Follower, Candidate, Leader
<1>4. GapsKept' /\ NoLostWakeup'
  BY ZenonT(60) DEF LoopsInv, TypeOK, GapsKept, NoLostWakeup, TickCheck, Launch,
     LaunchElection, LaunchHeartbeat, StartElection, Expired, Room, Goroutine,
     Follower, Candidate, Leader, timers, spawned, applyVars, makeVars, Free,
     Goto
<1>5. MakeQuiet' /\ MakeRestores'
  BY DEF LoopsInv, TypeOK, GapsKept, MakeQuiet, MakeRestores, TickCheck,
     Launch, LaunchElection, LaunchHeartbeat, StartElection, Expired, Room,
     Goroutine, Follower, Candidate, Leader, timers, spawned, applyVars,
     makeVars, Free, Goto
<1> QED
  BY <1>3, <1>4, <1>5 DEF LoopsInv

LEMMA TickSendInv ==
  ASSUME LoopsInv, NEW g \in {"eTick", "hTick"}, TickSend(g)
  PROVE  LoopsInv'
<1>1. pc' \in [Goroutine -> Label]
  BY DEF LoopsInv, TypeOK, Label, TickSend, Goroutine, Goto
<1>2. elapsed' \in BOOLEAN /\ due' \in BOOLEAN /\ made' \in BOOLEAN
  BY DEF LoopsInv, TypeOK, TickSend, timers, makeVars
<1>3. TypeOK'
  BY <1>1, <1>2, LoopBounds DEF LoopsInv, TypeOK, GapsKept, TickSend,
     Goroutine, Follower, Candidate, Leader, timers, spawned, applyVars,
     makeVars, Free, Goto
<1>4. GapsKept' /\ NoLostWakeup'
  BY DEF LoopsInv, TypeOK, GapsKept, NoLostWakeup, TickSend, Goroutine,
     Follower, Candidate, Leader, timers, spawned, applyVars, makeVars, Free,
     Goto
<1>5. MakeQuiet' /\ MakeRestores'
  BY DEF LoopsInv, TypeOK, GapsKept, MakeQuiet, MakeRestores, TickSend,
     Goroutine, Follower, Candidate, Leader, timers, spawned, applyVars,
     makeVars, Free, Goto
<1> QED
  BY <1>3, <1>4, <1>5 DEF LoopsInv

LEMMA EventLoopInv ==
  ASSUME LoopsInv, EventLoop
  PROVE  LoopsInv'
<1>1. pc' \in [Goroutine -> Label]
  BY DEF LoopsInv, TypeOK, Label, EventLoop, Launch, LaunchElection,
     LaunchHeartbeat, StartElection, Room, Goroutine, Goto
<1>2. elapsed' \in BOOLEAN /\ due' \in BOOLEAN /\ made' \in BOOLEAN
  BY DEF LoopsInv, TypeOK, EventLoop, Launch, LaunchElection, LaunchHeartbeat,
     StartElection, Room, timers, makeVars
<1>3. TypeOK'
  <2>1. ballots' \in 0..MaxGo /\ beats' \in 0..MaxGo
    BY LaunchAdds DEF LoopsInv, EventLoop
  <2>2. /\ commitIndex' \in 0..MaxCommit
        /\ lastApplied' \in 0..commitIndex' /\ upTo' \in 0..commitIndex'
    BY LoopBounds DEF LoopsInv, TypeOK, EventLoop, applyVars
  <2>3. /\ open' \in Schedules /\ mu' \in {"free", "eTick", "hTick"}
        /\ state' \in {Follower, Candidate, Leader}
        /\ disk' \in {"saved", "blank"}
    BY DEF LoopsInv, TypeOK, EventLoop, Launch, LaunchElection,
       LaunchHeartbeat, StartElection, Room, makeVars
  <2> QED
    BY <1>1, <1>2, <2>1, <2>2, <2>3 DEF TypeOK, Follower, Candidate, Leader
<1>4. GapsKept' /\ NoLostWakeup'
  BY DEF LoopsInv, TypeOK, GapsKept, NoLostWakeup, EventLoop, Launch,
     LaunchElection, LaunchHeartbeat, StartElection, Room, Goroutine,
     Follower, Candidate, Leader, timers, spawned, applyVars, makeVars, Free,
     Goto
<1>5. MakeQuiet' /\ MakeRestores'
  BY DEF LoopsInv, TypeOK, GapsKept, MakeQuiet, MakeRestores, EventLoop,
     Launch, LaunchElection, LaunchHeartbeat, StartElection, Room, Goroutine,
     Follower, Candidate, Leader, timers, spawned, applyVars, makeVars, Free,
     Goto
<1> QED
  BY <1>3, <1>4, <1>5 DEF LoopsInv

LEMMA RunElectionInv ==
  ASSUME LoopsInv, RunElection
  PROVE  LoopsInv'
<1>1. pc' \in [Goroutine -> Label]
  BY DEF LoopsInv, TypeOK, Label, RunElection, StartElection, Goroutine, Goto
<1>2. elapsed' \in BOOLEAN /\ due' \in BOOLEAN /\ made' \in BOOLEAN
  BY DEF LoopsInv, TypeOK, RunElection, StartElection, timers, makeVars
<1>3. TypeOK'
  BY <1>1, <1>2, LoopBounds DEF LoopsInv, TypeOK, GapsKept, RunElection,
     StartElection, Goroutine, Follower, Candidate, Leader, timers, spawned,
     applyVars, makeVars, Free, Goto
<1>4. GapsKept' /\ NoLostWakeup'
  BY DEF LoopsInv, TypeOK, GapsKept, NoLostWakeup, RunElection, StartElection,
     Goroutine, Follower, Candidate, Leader, timers, spawned, applyVars,
     makeVars, Free, Goto
<1>5. MakeQuiet' /\ MakeRestores'
  BY DEF LoopsInv, TypeOK, GapsKept, MakeQuiet, MakeRestores, RunElection,
     StartElection, Goroutine, Follower, Candidate, Leader, timers, spawned,
     applyVars, makeVars, Free, Goto
<1> QED
  BY <1>3, <1>4, <1>5 DEF LoopsInv

LEMMA RunHeartbeatInv ==
  ASSUME LoopsInv, RunHeartbeat
  PROVE  LoopsInv'
<1>1. pc' \in [Goroutine -> Label]
  BY DEF LoopsInv, TypeOK, Label, RunHeartbeat, Goroutine, Goto
<1>2. elapsed' \in BOOLEAN /\ due' \in BOOLEAN /\ made' \in BOOLEAN
  BY DEF LoopsInv, TypeOK, RunHeartbeat, timers, makeVars
<1>3. TypeOK'
  <2>1. ballots' \in 0..MaxGo /\ beats' \in 0..MaxGo
    BY LoopBounds DEF LoopsInv, TypeOK, RunHeartbeat, spawned
  <2>2. /\ commitIndex' \in 0..MaxCommit
        /\ lastApplied' \in 0..commitIndex' /\ upTo' \in 0..commitIndex'
    BY LoopBounds DEF LoopsInv, TypeOK, RunHeartbeat, applyVars
  <2>3. /\ open' \in Schedules /\ mu' \in {"free", "eTick", "hTick"}
        /\ state' \in {Follower, Candidate, Leader}
        /\ disk' \in {"saved", "blank"}
    BY DEF LoopsInv, TypeOK, RunHeartbeat, makeVars
  <2> QED
    BY <1>1, <1>2, <2>1, <2>2, <2>3 DEF TypeOK, Follower, Candidate, Leader
<1>4. GapsKept' /\ NoLostWakeup'
  BY DEF LoopsInv, TypeOK, GapsKept, NoLostWakeup, RunHeartbeat, Goroutine,
     Follower, Candidate, Leader, timers, spawned, applyVars, makeVars, Free,
     Goto
<1>5. MakeQuiet' /\ MakeRestores'
  BY DEF LoopsInv, TypeOK, GapsKept, MakeQuiet, MakeRestores, RunHeartbeat,
     Goroutine, Follower, Candidate, Leader, timers, spawned, applyVars,
     makeVars, Free, Goto
<1> QED
  BY <1>3, <1>4, <1>5 DEF LoopsInv

LEMMA ApplyTestInv ==
  ASSUME LoopsInv, ApplyTest
  PROVE  LoopsInv'
<1>1. pc' \in [Goroutine -> Label]
  BY DEF LoopsInv, TypeOK, Label, ApplyTest, Doze, Goroutine, Goto
<1>2. elapsed' \in BOOLEAN /\ due' \in BOOLEAN /\ made' \in BOOLEAN
  BY DEF LoopsInv, TypeOK, ApplyTest, Doze, timers, makeVars
<1>3. TypeOK'
  BY <1>1, <1>2, LoopBounds DEF LoopsInv, TypeOK, GapsKept, ApplyTest, Doze,
     Goroutine, Follower, Candidate, Leader, timers, spawned, applyVars,
     makeVars, Free, Goto
<1>4. GapsKept' /\ NoLostWakeup'
  BY DEF LoopsInv, TypeOK, GapsKept, NoLostWakeup, ApplyTest, Doze, Goroutine,
     Follower, Candidate, Leader, timers, spawned, applyVars, makeVars, Free,
     Goto
<1>5. MakeQuiet' /\ MakeRestores'
  BY DEF LoopsInv, TypeOK, GapsKept, MakeQuiet, MakeRestores, ApplyTest, Doze,
     Goroutine, Follower, Candidate, Leader, timers, spawned, applyVars,
     makeVars, Free, Goto
<1> QED
  BY <1>3, <1>4, <1>5 DEF LoopsInv

LEMMA ApplyWaitInv ==
  ASSUME LoopsInv, ApplyWait
  PROVE  LoopsInv'
<1>1. pc' \in [Goroutine -> Label]
  BY DEF LoopsInv, TypeOK, Label, ApplyWait, Goroutine, Goto
<1>2. elapsed' \in BOOLEAN /\ due' \in BOOLEAN /\ made' \in BOOLEAN
  BY DEF LoopsInv, TypeOK, ApplyWait, timers, makeVars
<1>3. TypeOK'
  BY <1>1, <1>2, LoopBounds DEF LoopsInv, TypeOK, GapsKept, ApplyWait,
     Goroutine, Follower, Candidate, Leader, timers, spawned, applyVars,
     makeVars, Free, Goto
<1>4. GapsKept' /\ NoLostWakeup'
  BY DEF LoopsInv, TypeOK, GapsKept, NoLostWakeup, ApplyWait, Goroutine,
     Follower, Candidate, Leader, timers, spawned, applyVars, makeVars, Free,
     Goto
<1>5. MakeQuiet' /\ MakeRestores'
  BY DEF LoopsInv, TypeOK, GapsKept, MakeQuiet, MakeRestores, ApplyWait,
     Goroutine, Follower, Candidate, Leader, timers, spawned, applyVars,
     makeVars, Free, Goto
<1> QED
  BY <1>3, <1>4, <1>5 DEF LoopsInv

LEMMA ApplyEntryInv ==
  ASSUME LoopsInv, ApplyEntry
  PROVE  LoopsInv'
<1>1. pc' \in [Goroutine -> Label]
  BY DEF LoopsInv, TypeOK, Label, ApplyEntry, Goroutine, Goto
<1>2. elapsed' \in BOOLEAN /\ due' \in BOOLEAN /\ made' \in BOOLEAN
  BY DEF LoopsInv, TypeOK, ApplyEntry, timers, makeVars
<1>3. TypeOK'
  BY <1>1, <1>2, LoopBounds DEF LoopsInv, TypeOK, GapsKept, ApplyEntry,
     Goroutine, Follower, Candidate, Leader, timers, spawned, applyVars,
     makeVars, Free, Goto
<1>4. GapsKept' /\ NoLostWakeup'
  BY DEF LoopsInv, TypeOK, GapsKept, NoLostWakeup, ApplyEntry, Goroutine,
     Follower, Candidate, Leader, timers, spawned, applyVars, makeVars, Free,
     Goto
<1>5. MakeQuiet' /\ MakeRestores'
  BY DEF LoopsInv, TypeOK, GapsKept, MakeQuiet, MakeRestores, ApplyEntry,
     Goroutine, Follower, Candidate, Leader, timers, spawned, applyVars,
     makeVars, Free, Goto
<1> QED
  BY <1>3, <1>4, <1>5 DEF LoopsInv

LEMMA ApplyDeliverInv ==
  ASSUME LoopsInv, ApplyDeliver
  PROVE  LoopsInv'
<1>1. pc' \in [Goroutine -> Label]
  BY DEF LoopsInv, TypeOK, Label, ApplyDeliver, Goroutine, Goto
<1>2. elapsed' \in BOOLEAN /\ due' \in BOOLEAN /\ made' \in BOOLEAN
  BY DEF LoopsInv, TypeOK, ApplyDeliver, timers, makeVars
<1>3. TypeOK'
  BY <1>1, <1>2, LoopBounds DEF LoopsInv, TypeOK, GapsKept, ApplyDeliver,
     Goroutine, Follower, Candidate, Leader, timers, spawned, applyVars,
     makeVars, Free, Goto
<1>4. GapsKept' /\ NoLostWakeup'
  BY DEF LoopsInv, TypeOK, GapsKept, NoLostWakeup, ApplyDeliver, Goroutine,
     Follower, Candidate, Leader, timers, spawned, applyVars, makeVars, Free,
     Goto
<1>5. MakeQuiet' /\ MakeRestores'
  BY DEF LoopsInv, TypeOK, GapsKept, MakeQuiet, MakeRestores, ApplyDeliver,
     Goroutine, Follower, Candidate, Leader, timers, spawned, applyVars,
     makeVars, Free, Goto
<1> QED
  BY <1>3, <1>4, <1>5 DEF LoopsInv

LEMMA CallInv ==
  ASSUME LoopsInv, Call
  PROVE  LoopsInv'
<1>1. pc' \in [Goroutine -> Label]
  BY DEF LoopsInv, TypeOK, Label, Call, Goroutine, Goto
<1>2. elapsed' \in BOOLEAN /\ due' \in BOOLEAN /\ made' \in BOOLEAN
  BY DEF LoopsInv, TypeOK, Call, timers, makeVars
<1>3. TypeOK'
  BY <1>1, <1>2, LoopBounds DEF LoopsInv, TypeOK, GapsKept, Call, Goroutine,
     Follower, Candidate, Leader, timers, spawned, applyVars, makeVars, Free,
     Goto
<1>4. GapsKept' /\ NoLostWakeup'
  BY DEF LoopsInv, TypeOK, GapsKept, NoLostWakeup, Call, Goroutine, Follower,
     Candidate, Leader, timers, spawned, applyVars, makeVars, Free, Goto
<1>5. MakeQuiet' /\ MakeRestores'
  BY DEF LoopsInv, TypeOK, GapsKept, MakeQuiet, MakeRestores, Call, Goroutine,
     Follower, Candidate, Leader, timers, spawned, applyVars, makeVars, Free,
     Goto
<1> QED
  BY <1>3, <1>4, <1>5 DEF LoopsInv

LEMMA StartInv ==
  ASSUME LoopsInv, Start
  PROVE  LoopsInv'
<1>1. pc' \in [Goroutine -> Label]
  BY DEF LoopsInv, TypeOK, Label, Start, Goroutine, Goto
<1>2. elapsed' \in BOOLEAN /\ due' \in BOOLEAN /\ made' \in BOOLEAN
  BY DEF LoopsInv, TypeOK, Start, timers, makeVars
<1>3. TypeOK'
  BY <1>1, <1>2, LoopBounds DEF LoopsInv, TypeOK, GapsKept, Start, Goroutine,
     Follower, Candidate, Leader, timers, spawned, applyVars, makeVars, Free,
     Goto
<1>4. GapsKept' /\ NoLostWakeup'
  BY DEF LoopsInv, TypeOK, GapsKept, NoLostWakeup, Start, Goroutine, Follower,
     Candidate, Leader, timers, spawned, applyVars, makeVars, Free, Goto
<1>5. MakeQuiet' /\ MakeRestores'
  BY DEF LoopsInv, TypeOK, GapsKept, MakeQuiet, MakeRestores, Start,
     Goroutine, Follower, Candidate, Leader, timers, spawned, applyVars,
     makeVars, Free, Goto
<1> QED
  BY <1>3, <1>4, <1>5 DEF LoopsInv

LEMMA StepDownInv ==
  ASSUME LoopsInv, StepDown
  PROVE  LoopsInv'
<1>1. pc' \in [Goroutine -> Label]
  BY DEF LoopsInv, TypeOK, Label, StepDown, Wake, Signalled, Goroutine, Goto
<1>2. elapsed' \in BOOLEAN /\ due' \in BOOLEAN /\ made' \in BOOLEAN
  BY DEF LoopsInv, TypeOK, StepDown, Wake, Signalled, timers, makeVars
<1>3. TypeOK'
  BY <1>1, <1>2, LoopBounds DEF LoopsInv, TypeOK, GapsKept, StepDown, Wake,
     Signalled, Goroutine, Follower, Candidate, Leader, timers, spawned,
     applyVars, makeVars, Free, Goto
<1>4. GapsKept' /\ NoLostWakeup'
  BY DEF LoopsInv, TypeOK, GapsKept, NoLostWakeup, StepDown, Wake, Signalled,
     Goroutine, Follower, Candidate, Leader, timers, spawned, applyVars,
     makeVars, Free, Goto
<1>5. MakeQuiet' /\ MakeRestores'
  BY DEF LoopsInv, TypeOK, GapsKept, MakeQuiet, MakeRestores, StepDown, Wake,
     Signalled, Goroutine, Follower, Candidate, Leader, timers, spawned,
     applyVars, makeVars, Free, Goto
<1> QED
  BY <1>3, <1>4, <1>5 DEF LoopsInv

LEMMA HearInv ==
  ASSUME LoopsInv, Hear
  PROVE  LoopsInv'
<1>1. pc' \in [Goroutine -> Label]
  BY DEF LoopsInv, TypeOK, Label, Hear, Wake, Signalled, Goroutine, Goto
<1>2. elapsed' \in BOOLEAN /\ due' \in BOOLEAN /\ made' \in BOOLEAN
  BY DEF LoopsInv, TypeOK, Hear, Wake, Signalled, timers, makeVars
<1>3. TypeOK'
  BY <1>1, <1>2, LoopBounds DEF LoopsInv, TypeOK, GapsKept, Hear, Wake,
     Signalled, Goroutine, Follower, Candidate, Leader, timers, spawned,
     applyVars, makeVars, Free, Goto
<1>4. GapsKept' /\ NoLostWakeup'
  BY DEF LoopsInv, TypeOK, GapsKept, NoLostWakeup, Hear, Wake, Signalled,
     Goroutine, Follower, Candidate, Leader, timers, spawned, applyVars,
     makeVars, Free, Goto
<1>5. MakeQuiet' /\ MakeRestores'
  BY DEF LoopsInv, TypeOK, GapsKept, MakeQuiet, MakeRestores, Hear, Wake,
     Signalled, Goroutine, Follower, Candidate, Leader, timers, spawned,
     applyVars, makeVars, Free, Goto
<1> QED
  BY <1>3, <1>4, <1>5 DEF LoopsInv

LEMMA WinInv ==
  ASSUME LoopsInv, Win
  PROVE  LoopsInv'
<1>1. pc' \in [Goroutine -> Label]
  BY DEF LoopsInv, TypeOK, Label, Win, Wake, Signalled, LaunchHeartbeat,
     Goroutine, Goto
<1>2. elapsed' \in BOOLEAN /\ due' \in BOOLEAN /\ made' \in BOOLEAN
  BY DEF LoopsInv, TypeOK, Win, Wake, Signalled, LaunchHeartbeat, timers,
     makeVars
<1>3. TypeOK'
  <2>1. ballots' \in 0..MaxGo /\ beats' \in 0..MaxGo
    <3>1. (beats' = beats \/ beats' = beats + 1) /\ ballots' = ballots
      BY BeatsAdded DEF Win
    <3>2. beats < MaxGo
      BY DEF Win
    <3>3. ballots \in 0..MaxGo /\ beats \in 0..MaxGo
      BY DEF LoopsInv, TypeOK
    <3> QED
      BY <3>1, <3>2, <3>3, LoopBounds
  <2>2. /\ commitIndex' \in 0..MaxCommit
        /\ lastApplied' \in 0..commitIndex' /\ upTo' \in 0..commitIndex'
    BY LoopBounds DEF LoopsInv, TypeOK, Win, applyVars
  <2>3. /\ open' \in Schedules /\ mu' \in {"free", "eTick", "hTick"}
        /\ state' \in {Follower, Candidate, Leader}
        /\ disk' \in {"saved", "blank"}
    BY DEF LoopsInv, TypeOK, Win, LaunchHeartbeat, makeVars
  <2> QED
    BY <1>1, <1>2, <2>1, <2>2, <2>3 DEF TypeOK, Follower, Candidate, Leader
<1>4. GapsKept' /\ NoLostWakeup'
  BY DEF LoopsInv, TypeOK, GapsKept, NoLostWakeup, Win, Wake, Signalled,
     LaunchHeartbeat, Goroutine, Follower, Candidate, Leader, timers, spawned,
     applyVars, makeVars, Free, Goto
<1>5. MakeQuiet' /\ MakeRestores'
  BY DEF LoopsInv, TypeOK, GapsKept, MakeQuiet, MakeRestores, Win, Wake,
     Signalled, LaunchHeartbeat, Goroutine, Follower, Candidate, Leader,
     timers, spawned, applyVars, makeVars, Free, Goto
<1> QED
  BY <1>3, <1>4, <1>5 DEF LoopsInv

LEMMA CommitInv ==
  ASSUME LoopsInv, Commit
  PROVE  LoopsInv'
<1>1. pc' \in [Goroutine -> Label]
  BY DEF LoopsInv, TypeOK, Label, Commit, Wake, LaunchHeartbeat, Goroutine,
     Goto
<1>2. elapsed' \in BOOLEAN /\ due' \in BOOLEAN /\ made' \in BOOLEAN
  BY DEF LoopsInv, TypeOK, Commit, Wake, LaunchHeartbeat, timers, makeVars
<1>3. TypeOK'
  <2>1. ballots' \in 0..MaxGo /\ beats' \in 0..MaxGo
    <3>1. (beats' = beats \/ beats' = beats + 1) /\ ballots' = ballots
      BY BeatsAdded DEF Commit
    <3>2. beats < MaxGo
      BY DEF Commit
    <3>3. ballots \in 0..MaxGo /\ beats \in 0..MaxGo
      BY DEF LoopsInv, TypeOK
    <3> QED
      BY <3>1, <3>2, <3>3, LoopBounds
  <2>2. /\ commitIndex' \in 0..MaxCommit
        /\ lastApplied' \in 0..commitIndex' /\ upTo' \in 0..commitIndex'
    BY LoopBounds DEF LoopsInv, TypeOK, Commit, applyVars
  <2>3. /\ open' \in Schedules /\ mu' \in {"free", "eTick", "hTick"}
        /\ state' \in {Follower, Candidate, Leader}
        /\ disk' \in {"saved", "blank"}
    BY DEF LoopsInv, TypeOK, Commit, LaunchHeartbeat, makeVars
  <2> QED
    BY <1>1, <1>2, <2>1, <2>2, <2>3 DEF TypeOK, Follower, Candidate, Leader
<1>4. GapsKept' /\ NoLostWakeup'
  BY DEF LoopsInv, TypeOK, GapsKept, NoLostWakeup, Commit, Wake,
     LaunchHeartbeat, Goroutine, Follower, Candidate, Leader, timers, spawned,
     applyVars, makeVars, Free, Goto
<1>5. MakeQuiet' /\ MakeRestores'
  BY DEF LoopsInv, TypeOK, GapsKept, MakeQuiet, MakeRestores, Commit, Wake,
     LaunchHeartbeat, Goroutine, Follower, Candidate, Leader, timers, spawned,
     applyVars, makeVars, Free, Goto
<1> QED
  BY <1>3, <1>4, <1>5 DEF LoopsInv

LEMMA ReadPersistInv ==
  ASSUME LoopsInv, ReadPersist
  PROVE  LoopsInv'
<1>1. pc' \in [Goroutine -> Label]
  BY DEF LoopsInv, TypeOK, Label, ReadPersist, Goroutine, Goto
<1>2. elapsed' \in BOOLEAN /\ due' \in BOOLEAN /\ made' \in BOOLEAN
  BY DEF LoopsInv, TypeOK, ReadPersist, timers, makeVars
<1>3. TypeOK'
  BY <1>1, <1>2, LoopBounds DEF LoopsInv, TypeOK, GapsKept, ReadPersist,
     Goroutine, Follower, Candidate, Leader, timers, spawned, applyVars,
     makeVars, Free, Goto
<1>4. GapsKept' /\ NoLostWakeup'
  BY DEF LoopsInv, TypeOK, GapsKept, NoLostWakeup, ReadPersist, Goroutine,
     Follower, Candidate, Leader, timers, spawned, applyVars, makeVars, Free,
     Goto
<1>5. MakeQuiet' /\ MakeRestores'
  BY DEF LoopsInv, TypeOK, GapsKept, MakeQuiet, MakeRestores, ReadPersist,
     Goroutine, Follower, Candidate, Leader, timers, spawned, applyVars,
     makeVars, Free, Goto
<1> QED
  BY <1>3, <1>4, <1>5 DEF LoopsInv

LEMMA ElapseInv ==
  ASSUME LoopsInv, Elapse
  PROVE  LoopsInv'
<1>1. pc' \in [Goroutine -> Label]
  BY DEF LoopsInv, TypeOK, Label, Elapse, Goroutine, Goto
<1>2. elapsed' \in BOOLEAN /\ due' \in BOOLEAN /\ made' \in BOOLEAN
  BY DEF LoopsInv, TypeOK, Elapse, timers, makeVars
<1>3. TypeOK'
  BY <1>1, <1>2, LoopBounds DEF LoopsInv, TypeOK, GapsKept, Elapse, Goroutine,
     Follower, Candidate, Leader, timers, spawned, applyVars, makeVars, Free,
     Goto
<1>4. GapsKept' /\ NoLostWakeup'
  BY DEF LoopsInv, TypeOK, GapsKept, NoLostWakeup, Elapse, Goroutine,
     Follower, Candidate, Leader, timers, spawned, applyVars, makeVars, Free,
     Goto
<1>5. MakeQuiet' /\ MakeRestores'
  BY DEF LoopsInv, TypeOK, GapsKept, MakeQuiet, MakeRestores, Elapse,
     Goroutine, Follower, Candidate, Leader, timers, spawned, applyVars,
     makeVars, Free, Goto
<1> QED
  BY <1>3, <1>4, <1>5 DEF LoopsInv

LEMMA FallDueInv ==
  ASSUME LoopsInv, FallDue
  PROVE  LoopsInv'
<1>1. pc' \in [Goroutine -> Label]
  BY DEF LoopsInv, TypeOK, Label, FallDue, Goroutine, Goto
<1>2. elapsed' \in BOOLEAN /\ due' \in BOOLEAN /\ made' \in BOOLEAN
  BY DEF LoopsInv, TypeOK, FallDue, timers, makeVars
<1>3. TypeOK'
  BY <1>1, <1>2, LoopBounds DEF LoopsInv, TypeOK, GapsKept, FallDue,
     Goroutine, Follower, Candidate, Leader, timers, spawned, applyVars,
     makeVars, Free, Goto
<1>4. GapsKept' /\ NoLostWakeup'
  BY DEF LoopsInv, TypeOK, GapsKept, NoLostWakeup, FallDue, Goroutine,
     Follower, Candidate, Leader, timers, spawned, applyVars, makeVars, Free,
     Goto
<1>5. MakeQuiet' /\ MakeRestores'
  BY DEF LoopsInv, TypeOK, GapsKept, MakeQuiet, MakeRestores, FallDue,
     Goroutine, Follower, Candidate, Leader, timers, spawned, applyVars,
     makeVars, Free, Goto
<1> QED
  BY <1>3, <1>4, <1>5 DEF LoopsInv

LEMMA NextInv == LoopsInv /\ [Next]_vars => LoopsInv'
<1> SUFFICES ASSUME LoopsInv, [Next]_vars PROVE LoopsInv'
  OBVIOUS
<1>1. CASE \E g \in {"eTick", "hTick"} : Tick(g)
  BY <1>1, TickTestInv, TickWaitInv, TickWokenInv, TickCheckInv, TickSendInv
     DEF Tick
<1>2. CASE EventLoop \/ RunElection \/ RunHeartbeat
  BY <1>2, EventLoopInv, RunElectionInv, RunHeartbeatInv
<1>3. CASE ApplyEntries
  BY <1>3, ApplyTestInv, ApplyWaitInv, ApplyEntryInv, ApplyDeliverInv
     DEF ApplyEntries
<1>4. CASE Call \/ Start
  BY <1>4, CallInv, StartInv
<1>5. CASE StepDown \/ Hear \/ Win \/ Commit
  BY <1>5, StepDownInv, HearInv, WinInv, CommitInv
<1>6. CASE ReadPersist \/ Elapse \/ FallDue
  BY <1>6, ReadPersistInv, ElapseInv, FallDueInv
<1>7. CASE UNCHANGED vars
  BY <1>7 DEF vars, LoopsInv, TypeOK, GapsKept, NoLostWakeup, MakeQuiet,
     MakeRestores
<1> QED
  BY <1>1, <1>2, <1>3, <1>4, <1>5, <1>6, <1>7 DEF Next

LEMMA LoopsInvariant == Spec => []LoopsInv
  BY InitInv, NextInv, PTL DEF Spec

(* applyEntries never runs ahead of commitIndex, whatever interrupts it.   *)
THEOREM TypeCorrect == Spec => []TypeOK
<1>1. LoopsInv => TypeOK
  BY DEF LoopsInv
<1> QED
  BY <1>1, LoopsInvariant, PTL

(* No goroutine sleeps on a condition variable without its reason, as long *)
(* as nobody gets between its test and its Wait: switchTo and the two      *)
(* updates of commitIndex wake whom they have to wake.                     *)
THEOREM WakeupsKept == Spec => []NoLostWakeup
<1>1. LoopsInv => NoLostWakeup
  BY DEF LoopsInv
<1> QED
  BY <1>1, LoopsInvariant, PTL

(* What a peer had saved is not overwritten before Make has read it, as    *)
(* long as Make takes less than an election timeout.                       *)
THEOREM SavedStateRestored == Spec => []MakeRestores
<1>1. LoopsInv => MakeRestores
  BY DEF LoopsInv
<1> QED
  BY <1>1, LoopsInvariant, PTL
=============================================================================
