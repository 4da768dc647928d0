-------------------------------- MODULE Raft --------------------------------
(***************************************************************************)
(* The Raft peers of src/raft/raft.go, the persisters of persister.go and  *)
(* the network of labrpc as raft.go sees it.                               *)
(*                                                                         *)
(* One action is one critical section of rf.mu.  Where the code releases   *)
(* rf.mu and takes it again without any other step in between (it tests a  *)
(* condition in one section and acts on it in the next), the two sections  *)
(* are one action unless the gap between them is listed in Preempt: then   *)
(* every other goroutine of the same peer may run inside the gap.          *)
(***************************************************************************)
EXTENDS Naturals, Sequences, FiniteSets

CONSTANTS
  Server,    \* the peers; rf.me is a member
  Command,   \* commands a client hands to Start
  None,      \* VoteFor == -1
  Preempt,   \* the unlock/lock gaps inside which other goroutines may run
  MaxElection, \* bound: elections in a behaviour
  MaxLog,    \* bound: entries a log may hold when Start is called
  MaxCast,   \* bound: calls of broadcastAppendEntries in a behaviour
  MaxCrash,  \* bound: crashes in a behaviour
  MaxLoss    \* bound: RPCs that return false in a behaviour

(***************************************************************************)
(* The gaps, each between the unlock and the lock of raft.go it names:     *)
(*  "issue"        startElection 1425 -> 1439, again before every peer     *)
(*  "voteReply"    startElection 1481 -> 1487 or 1508                      *)
(*  "appendReply"  broadcastAppendEntries 699 -> 706 or 744                *)
(*  "start"        Start, GetState at 811 -> 814                           *)
(*  "send"         the go statement of a broadcast (831, 1224), or the     *)
(*                 unlock before goto retry (740), -> 618, where the       *)
(*                 per-peer goroutine tests, builds args and sends         *)
(* Always closed: 618 -> 623 -> 630, the tests before args are built;      *)
(* 827 -> 830 in Start; 1212 -> 1216 -> 1221 in broadcastHeartbeat; and    *)
(* 671 -> labrpc.go 93, where the Entries of a request, a slice of rf.Log  *)
(* taken at 655, are encoded: they are those of rf.Log at 655.             *)
(***************************************************************************)
Gaps == {"issue", "voteReply", "appendReply", "start", "send"}

ASSUME ServerAssumption == IsFiniteSet(Server) /\ Server # {}
ASSUME NoneAssumption == None \notin Server
ASSUME BoundsAssumption ==
  /\ MaxElection \in Nat /\ MaxLog \in Nat /\ MaxCast \in Nat
  /\ MaxCrash \in Nat /\ MaxLoss \in Nat
  /\ Preempt \subseteq Gaps

VARIABLES
  currentTerm,  \* rf.CurrentTerm
  voteFor,      \* rf.VoteFor
  log,          \* rf.Log[1:]; the sentinel Log[0] has term 0
  state,        \* rf.state
  commitIndex,  \* rf.commitIndex
  applied,      \* commands sent on applyCh; its length is rf.lastApplied
  nextIndex,    \* rf.nextIndex
  persisted,    \* what the peer's Persister holds
  voteCalls,    \* RequestVote goroutines and the RPCs they wait for
  appendCalls,  \* AppendEntries goroutines and the RPCs they wait for
  casts,        \* the shared variables of each broadcastAppendEntries
  starting,     \* peers inside Start, between its leader test and its append
  crashes,      \* crashes so far
  losses,       \* RPCs lost so far
  elections     \* elections started so far

bounds == <<crashes, losses, elections>>
applyVars  == <<commitIndex, applied>>
appendVars == <<appendCalls, casts, starting>>
vars == <<currentTerm, voteFor, log, state, commitIndex, applied, nextIndex,
          persisted, voteCalls, appendCalls, casts, starting, crashes,
          losses, elections>>

Follower  == "Follower"
Candidate == "Candidate"
Leader    == "Leader"

Term  == Nat
Entry == [term : Term, cmd : Command]
Vote  == Server \cup {None}

VoteStages == {"issue", "request", "orphan", "reply", "act", "counted"}

(* One RequestVote goroutine of startElection.  elec is the term in which  *)
(* its election was started, term the args.Term it sent.                   *)
VoteCall == [src : Server, dst : Server, elec : Term, stage : VoteStages,
             term : Term, lastLogIndex : Nat, lastLogTerm : Term,
             rterm : Term, granted : BOOLEAN]

AppendStages == {"ready", "request", "orphan", "reply", "act"}

(* One per-peer goroutine of broadcastAppendEntries; cid is the broadcast  *)
(* it belongs to.                                                          *)
AppendCall == [src : Server, dst : Server, cid : Nat, stage : AppendStages,
               term : Term, prevLogIndex : Nat, prevLogTerm : Term,
               entries : Seq(Entry), leaderCommit : Nat,
               rterm : Term, success : BOOLEAN,
               conflictTerm : Term, conflictFirst : Nat]

(* The arguments and the captured variables of broadcastAppendEntries.     *)
Cast == [index : Nat, term : Term, commit : Nat, nReplica : Nat,
         isAgree : BOOLEAN]

ProtocolTypeOK ==
  /\ currentTerm \in [Server -> Term]
  /\ voteFor \in [Server -> Vote]
  /\ log \in [Server -> Seq(Entry)]
  /\ state \in [Server -> {Follower, Candidate, Leader}]
  /\ commitIndex \in [Server -> Nat]
  /\ nextIndex \in [Server -> [Server -> Nat]]
  /\ persisted \in [Server -> [term : Term, vote : Vote, log : Seq(Entry)]]
  /\ voteCalls \subseteq VoteCall
  /\ appendCalls \subseteq AppendCall
  /\ casts \in Seq(Cast)
  /\ starting \subseteq Server
  /\ crashes \in Nat /\ losses \in Nat /\ elections \in Nat

(* Type invariant.  That what applyEntries sends is a command says that    *)
(* lastApplied never runs past rf.Log: it rests on the whole protocol.     *)
TypeOK == ProtocolTypeOK /\ applied \in [Server -> Seq(Command)]

Init ==
  /\ currentTerm = [s \in Server |-> 0]
  /\ voteFor = [s \in Server |-> None]
  /\ log = [s \in Server |-> <<>>]
  /\ state = [s \in Server |-> Follower]
  /\ commitIndex = [s \in Server |-> 0]
  /\ applied = [s \in Server |-> <<>>]
  /\ nextIndex = [s \in Server |-> [d \in Server |-> 0]]
  /\ persisted = [s \in Server |-> [term |-> 0, vote |-> None, log |-> <<>>]]
  /\ voteCalls = {}
  /\ appendCalls = {}
  /\ casts = <<>>
  /\ starting = {}
  /\ crashes = 0 /\ losses = 0 /\ elections = 0
-----------------------------------------------------------------------------
Peers(s) == Server \ {s}
Majority == Cardinality(Server) \div 2 + 1

(* Term of the entry at index i, the sentinel included.                    *)
TermAt(l, i) == IF i = 0 THEN 0 ELSE l[i].term
LastTerm(l) == TermAt(l, Len(l))

(* Mistakes in persist(): fields encoded in another order than readPersist *)
(* decodes them; the term, the vote or the log left out.                   *)
PersistSwapped(s) ==
  persisted' = [persisted EXCEPT ![s] =
    [term |-> voteFor'[s], vote |-> currentTerm'[s], log |-> log'[s]]]
PersistNoTerm(s) ==
  persisted' = [persisted EXCEPT ![s].vote = voteFor'[s],
                                 ![s].log = log'[s]]
PersistNoVote(s) ==
  persisted' = [persisted EXCEPT ![s] =
    [term |-> currentTerm'[s], vote |-> None, log |-> log'[s]]]
PersistNoLog(s) ==
  persisted' = [persisted EXCEPT ![s].term = currentTerm'[s],
                                 ![s].vote = voteFor'[s]]

(* persist(): the three durable fields, as they are at the end of the      *)
(* critical section.                                                       *)
Persist(s) ==
  persisted' = [persisted EXCEPT ![s] =
    [term |-> currentTerm'[s], vote |-> voteFor'[s], log |-> log'[s]]]

-----------------------------------------------------------------------------
(* Elections *)

VoteRequest(s, d, elec, term) ==
  [src |-> s, dst |-> d, elec |-> elec, stage |-> "request", term |-> term,
   lastLogIndex |-> Len(log[s]), lastLogTerm |-> LastTerm(log[s]),
   rterm |-> 0, granted |-> FALSE]

UnissuedVote(s, d, elec) ==
  [src |-> s, dst |-> d, elec |-> elec, stage |-> "issue", term |-> 0,
   lastLogIndex |-> 0, lastLogTerm |-> 0, rterm |-> 0, granted |-> FALSE]

(* startElection does not look at rf.state: its goroutine may be scheduled *)
(* after the peer has become a leader.                                     *)
StartElection(s) ==
  LET term == currentTerm[s] + 1 IN
  /\ elections < MaxElection
  /\ elections' = elections + 1
  /\ state' = [state EXCEPT ![s] = Candidate]
  /\ currentTerm' = [currentTerm EXCEPT ![s] = term]
  /\ voteFor' = [voteFor EXCEPT ![s] = s]
  /\ voteCalls' = voteCalls \cup
       IF "issue" \in Preempt THEN {UnissuedVote(s, d, term) : d \in Peers(s)}
                              ELSE {VoteRequest(s, d, term, term) : d \in Peers(s)}
  /\ UNCHANGED <<log, nextIndex, applyVars, appendVars, crashes, losses>>
  /\ Persist(s)

(* The section that builds args for one peer reads rf.CurrentTerm again.   *)
IssueVote(c) ==
  /\ c.stage = "issue"
  /\ voteCalls' = (voteCalls \ {c}) \cup
                    {VoteRequest(c.src, c.dst, c.elec, currentTerm[c.src])}
  /\ UNCHANGED <<currentTerm, voteFor, log, persisted, state, nextIndex,
                 applyVars, appendVars, bounds>>

(* Mistake: the log is not compared at all.                                *)
UpToDateIgnored(lastLogTerm, lastLogIndex, l) == TRUE

AtLeastUpToDate(lastLogTerm, lastLogIndex, l) ==
  \/ LastTerm(l) < lastLogTerm
  \/ LastTerm(l) = lastLogTerm /\ Len(l) <= lastLogIndex

(* Mistake: the vote already given in this term is not looked at.          *)
GrantsAnyone(s, vote, c) ==
  /\ currentTerm[s] <= c.term
  /\ AtLeastUpToDate(c.lastLogTerm, c.lastLogIndex, log[s])

(* vote is rf.VoteFor as the handler sees it after adopting args.Term.     *)
GrantsVote(s, vote, c) ==
  /\ currentTerm[s] <= c.term
  /\ vote \in {None, c.src}
  /\ AtLeastUpToDate(c.lastLogTerm, c.lastLogIndex, log[s])

VoteAnswer(c, term, granted) ==
  [c EXCEPT !.stage = "reply", !.lastLogIndex = 0, !.lastLogTerm = 0,
            !.rterm = term, !.granted = granted]

(* The RequestVote handler of c.dst.  Nobody waits for the answer to an    *)
(* orphan, a request whose sender has crashed.                             *)
HandleRequestVote(c) ==
  LET s     == c.dst
      newer == currentTerm[s] < c.term
      vote  == IF newer THEN None ELSE voteFor[s]
      grant == GrantsVote(s, vote, c)
  IN
  /\ c.stage \in {"request", "orphan"}
  /\ currentTerm' = IF newer THEN [currentTerm EXCEPT ![s] = c.term]
                             ELSE currentTerm
  /\ voteFor' = [voteFor EXCEPT ![s] = IF grant THEN c.src ELSE vote]
  /\ state' = [state EXCEPT ![s] = IF newer \/ grant THEN Follower ELSE @]
  /\ voteCalls' = (voteCalls \ {c}) \cup
       IF c.stage = "orphan" THEN {}
                             ELSE {VoteAnswer(c, currentTerm'[s], grant)}
  /\ UNCHANGED <<log, nextIndex, applyVars, appendVars, bounds>>
  /\ IF newer \/ grant THEN Persist(s) ELSE UNCHANGED persisted

(* *nVotes of the election of call c once c's own vote has been added.     *)
NVotes(c) ==
  2 + Cardinality({v \in voteCalls : /\ v.src = c.src /\ v.elec = c.elec
                                     /\ v.stage = "counted"})

(* Mistake: nextIndex starts one too far.                                  *)
CountVotePast(c) ==
  LET s   == c.src
      win == state[s] = Candidate /\ NVotes(c) >= Majority
  IN
  /\ voteCalls' = (voteCalls \ {c}) \cup {[c EXCEPT !.stage = "counted"]}
  /\ state' = [state EXCEPT ![s] = IF win THEN Leader ELSE @]
  /\ nextIndex' = [nextIndex EXCEPT ![s] =
       IF win THEN [d \in Server |-> Len(log[s]) + 2] ELSE @]
  /\ UNCHANGED <<currentTerm, voteFor, log>>
  /\ IF win THEN Persist(s) ELSE UNCHANGED persisted

(* A granted vote of the current term: a candidate with a majority leads,  *)
(* and every nextIndex starts after its last entry.                        *)
CountVote(c) ==
  LET s   == c.src
      win == state[s] = Candidate /\ NVotes(c) >= Majority
  IN
  /\ voteCalls' = (voteCalls \ {c}) \cup {[c EXCEPT !.stage = "counted"]}
  /\ state' = [state EXCEPT ![s] = IF win THEN Leader ELSE @]
  /\ nextIndex' = [nextIndex EXCEPT ![s] =
       IF win THEN [d \in Server |-> Len(log[s]) + 1] ELSE @]
  /\ UNCHANGED <<currentTerm, voteFor, log>>
  /\ IF win THEN Persist(s) ELSE UNCHANGED persisted

(* Mistake: persist() forgotten.                                           *)
StepDownVolatile(s, term) ==
  /\ currentTerm' = [currentTerm EXCEPT ![s] = term]
  /\ voteFor' = [voteFor EXCEPT ![s] = None]
  /\ state' = [state EXCEPT ![s] = Follower]
  /\ UNCHANGED <<log, persisted>>

(* rf.CurrentTerm = reply.Term, rf.VoteFor = -1, follower, persist().      *)
StepDown(s, term) ==
  /\ currentTerm' = [currentTerm EXCEPT ![s] = term]
  /\ voteFor' = [voteFor EXCEPT ![s] = None]
  /\ state' = [state EXCEPT ![s] = Follower]
  /\ UNCHANGED log
  /\ Persist(s)

ActOnVoteReply(c) ==
  /\ UNCHANGED <<applyVars, appendVars, bounds>>
  /\ \/ c.granted /\ CountVote(c)
     \/ /\ ~c.granted
        /\ voteCalls' = voteCalls \ {c}
        /\ UNCHANGED nextIndex
        /\ IF currentTerm[c.src] < c.rterm
             THEN StepDown(c.src, c.rterm)
             ELSE UNCHANGED <<currentTerm, voteFor, log, state, persisted>>

(* The goroutine wakes with a reply and drops it when the term has moved.  *)
ReceiveVoteReply(c) ==
  LET current == currentTerm[c.src] = c.term IN
  /\ c.stage = "reply"
  /\ \/ current /\ "voteReply" \notin Preempt /\ ActOnVoteReply(c)
     \/ /\ current => "voteReply" \in Preempt
        /\ voteCalls' = (voteCalls \ {c}) \cup
             IF current THEN {[c EXCEPT !.stage = "act"]} ELSE {}
        /\ UNCHANGED <<currentTerm, voteFor, log, persisted, state, nextIndex,
                       applyVars, appendVars, bounds>>

ResumeVoteReply(c) == c.stage = "act" /\ ActOnVoteReply(c)

(* Call returns false: the request or the reply is lost, or the callee is  *)
(* unreachable.                                                            *)
LoseVote(c) ==
  /\ c.stage \in {"request", "orphan", "reply"}
  /\ losses < MaxLoss
  /\ losses' = losses + 1
  /\ voteCalls' = voteCalls \ {c}
  /\ UNCHANGED <<currentTerm, voteFor, log, persisted, state, nextIndex,
                 applyVars, appendVars, crashes, elections>>
-----------------------------------------------------------------------------
(* Log replication *)

ReadyCall(s, d, k) ==
  [src |-> s, dst |-> d, cid |-> k, stage |-> "ready", term |-> 0,
   prevLogIndex |-> 0, prevLogTerm |-> 0, entries |-> <<>>,
   leaderCommit |-> 0, rterm |-> 0, success |-> FALSE,
   conflictTerm |-> 0, conflictFirst |-> 0]

(* The RPC a goroutine of broadcast k (its variables in cast) sends peer d *)
(* when rf.Log is l and rf.nextIndex[d] is next.                           *)
AppendRequest(s, d, k, cast, l, next) ==
  [ReadyCall(s, d, k) EXCEPT !.stage = "request", !.term = cast.term,
     !.prevLogIndex = next - 1, !.prevLogTerm = TermAt(l, next - 1),
     !.entries = SubSeq(l, next, cast.index), !.leaderCommit = cast.commit]

(* go broadcastAppendEntries(index, rf.CurrentTerm, rf.commitIndex, 1).    *)
(* Its own leader and term tests at 585-595 are those each per-peer        *)
(* goroutine makes again before it sends: see SendAppend.                  *)
Broadcast(s, l, index) ==
  LET k    == Len(casts) + 1
      cast == [index |-> index, term |-> currentTerm[s],
               commit |-> commitIndex[s], nReplica |-> 1, isAgree |-> FALSE]
  IN
  /\ k <= MaxCast
  /\ casts' = Append(casts, cast)
  /\ appendCalls' = appendCalls \cup
       IF "send" \in Preempt THEN {ReadyCall(s, d, k) : d \in Peers(s)}
       ELSE IF state[s] # Leader THEN {}
       ELSE {AppendRequest(s, d, k, cast, l, nextIndex[s][d]) : d \in Peers(s)}

AppendCommand(s, cmd) ==
  /\ Len(log[s]) < MaxLog
  /\ log' = [log EXCEPT ![s] =
               Append(@, [term |-> currentTerm[s], cmd |-> cmd])]
  /\ Broadcast(s, log'[s], Len(log[s]) + 1)
  /\ UNCHANGED <<currentTerm, voteFor, state, nextIndex, applyVars,
                 voteCalls, bounds>>
  /\ Persist(s)

(* Start while nobody else runs between its two sections.                  *)
Start(s, cmd) ==
  /\ state[s] = Leader
  /\ AppendCommand(s, cmd)
  /\ UNCHANGED starting

(* Start with its first gap open: GetState, and later the append, which    *)
(* does not look at rf.state again.                                        *)
StartTest(s) ==
  /\ "start" \in Preempt
  /\ state[s] = Leader
  /\ starting' = starting \cup {s}
  /\ UNCHANGED <<currentTerm, voteFor, log, persisted, state, nextIndex,
                 applyVars, voteCalls, appendCalls, casts, bounds>>

StartResume(s, cmd) ==
  /\ s \in starting
  /\ AppendCommand(s, cmd)
  /\ starting' = starting \ {s}

(* The goroutine of the heartbeat tick, of an election won (1535) or of an *)
(* advance of commitIndex (774); it may be scheduled at any later time.    *)
BroadcastHeartbeat(s) ==
  /\ state[s] = Leader
  /\ Broadcast(s, log[s], Len(log[s]))
  /\ UNCHANGED <<currentTerm, voteFor, log, persisted, state, nextIndex,
                 applyVars, voteCalls, starting, bounds>>

(* From the retry label to the RPC: leader and term tests, then args.      *)
SendAppend(c) ==
  LET s    == c.src
      cast == casts[c.cid]
      sent == AppendRequest(s, c.dst, c.cid, cast, log[s], nextIndex[s][c.dst])
  IN
  /\ c.stage = "ready"
  /\ appendCalls' = (appendCalls \ {c}) \cup
       IF state[s] = Leader /\ currentTerm[s] = cast.term THEN {sent} ELSE {}
  /\ UNCHANGED <<currentTerm, voteFor, log, persisted, state, nextIndex,
                 applyVars, voteCalls, casts, starting, bounds>>

Consistent(l, prevLogIndex, prevLogTerm) ==
  Len(l) >= prevLogIndex /\ TermAt(l, prevLogIndex) = prevLogTerm

(* isMatch: every entry sent is already there, compared by term.           *)
HasEntries(l, prev, entries) ==
  \A i \in 1..Len(entries) :
    prev + i <= Len(l) /\ l[prev + i].term = entries[i].term

(* Mistake: the entries are appended without cutting the log at prev.      *)
ReplicatedUncut(l, prev, entries) ==
  IF HasEntries(l, prev, entries) THEN l ELSE l \o entries

(* The log after a passed check: truncated only on a conflict.             *)
Replicated(l, prev, entries) ==
  IF HasEntries(l, prev, entries) THEN l ELSE SubSeq(l, 1, prev) \o entries

(* Mistake: commitIndex follows the message without the > test.            *)
CommitOverwritten(commit, leaderCommit, lastNew) ==
  IF leaderCommit > lastNew THEN lastNew ELSE leaderCommit

NewCommitIndex(commit, leaderCommit, lastNew) ==
  IF leaderCommit <= commit THEN commit
  ELSE IF leaderCommit > lastNew THEN lastNew ELSE leaderCommit

(* ConflictFirstIndex: the first index of the run of equal terms that ends *)
(* at p.                                                                   *)
RunStart(l, p) ==
  CHOOSE i \in 1..p :
    /\ \A j \in i..p : l[j].term = l[p].term
    /\ i = 1 \/ l[i-1].term # l[p].term

AppendAnswer(c, term, success, cterm, cfirst) ==
  [c EXCEPT !.stage = "reply", !.entries = <<>>, !.prevLogTerm = 0,
            !.leaderCommit = 0, !.rterm = term, !.success = success,
            !.conflictTerm = cterm, !.conflictFirst = cfirst]

(* What the handler answers in each of its four outcomes.                  *)
AppendReply(c, s) ==
  LET prev == c.prevLogIndex IN
  IF c.term < currentTerm[s] THEN AppendAnswer(c, currentTerm[s], FALSE, 0, 0)
  ELSE IF Consistent(log[s], prev, c.prevLogTerm)
    THEN AppendAnswer(c, c.term, TRUE, 0, 0)
  ELSE IF Len(log[s]) < prev
    THEN AppendAnswer(c, c.term, FALSE, 0, Len(log[s]) + 1)
    ELSE AppendAnswer(c, c.term, FALSE, log[s][prev].term, RunStart(log[s], prev))

(* The AppendEntries handler of c.dst.                                     *)
HandleAppendEntries(c) ==
  LET s      == c.dst
      prev   == c.prevLogIndex
      newer  == currentTerm[s] < c.term
      accept == currentTerm[s] <= c.term /\ Consistent(log[s], prev, c.prevLogTerm)
  IN
  /\ c.stage \in {"request", "orphan"}
  /\ currentTerm' = IF newer THEN [currentTerm EXCEPT ![s] = c.term]
                             ELSE currentTerm
  /\ voteFor' = IF newer THEN [voteFor EXCEPT ![s] = None] ELSE voteFor
  /\ state' = [state EXCEPT ![s] = IF newer \/ accept THEN Follower ELSE @]
  /\ log' = [log EXCEPT ![s] = IF accept THEN Replicated(@, prev, c.entries) ELSE @]
  /\ commitIndex' = [commitIndex EXCEPT ![s] =
       IF accept THEN NewCommitIndex(@, c.leaderCommit, prev + Len(c.entries))
                 ELSE @]
  /\ appendCalls' = (appendCalls \ {c}) \cup
       IF c.stage = "orphan" THEN {} ELSE {AppendReply(c, s)}
  /\ UNCHANGED <<applied, nextIndex, voteCalls, casts, starting, bounds>>
  /\ IF newer \/ accept THEN Persist(s) ELSE UNCHANGED persisted

(* getNextIndex(reply, next) on the leader's log l: where to retry.        *)
GetNextIndex(l, cterm, cfirst, next) ==
  LET same == {i \in 1..cfirst : l[i].term = cterm}
  IN
  IF cterm = 0 \/ TermAt(l, cfirst) < cterm \/ same = {} THEN cfirst
  ELSE LET k == CHOOSE i \in same : \A j \in same : j <= i
           end == {i \in k..next-1 : \A j \in k..i : l[j].term = cterm}
       IN  1 + CHOOSE i \in end : \A j \in end : j <= i

(* The reply says no: a newer term ends the goroutine, a failed            *)
(* consistency check sends it back to the retry label.  The test compares  *)
(* args.Term, not rf.CurrentTerm, with the reply.                          *)
ActOnRejection(c) ==
  LET s     == c.src
      next  == GetNextIndex(log[s], c.conflictTerm, c.conflictFirst, c.prevLogIndex + 1)
      retry == IF "send" \in Preempt THEN {ReadyCall(s, c.dst, c.cid)}
               ELSE IF state[s] # Leader THEN {}
               ELSE {AppendRequest(s, c.dst, c.cid, casts[c.cid], log[s], next)}
  IN
  /\ ~c.success
  /\ \/ /\ c.term < c.rterm
        /\ StepDown(s, c.rterm)
        /\ appendCalls' = appendCalls \ {c}
        /\ UNCHANGED nextIndex
     \/ /\ c.term >= c.rterm
        /\ nextIndex' = [nextIndex EXCEPT ![s][c.dst] = next]
        /\ appendCalls' = (appendCalls \ {c}) \cup retry
        /\ UNCHANGED <<currentTerm, voteFor, log, state, persisted>>
  /\ UNCHANGED <<commitIndex, casts>>

(* The reply says yes: nReplica is counted, and the leader commits once a  *)
(* majority holds an entry of its own term.                                *)
MayCommit(s, index) ==
  commitIndex[s] < index /\ TermAt(log[s], index) = currentTerm[s]

ActOnSuccess(c) ==
  LET s     == c.src
      k     == casts[c.cid]
      agree == ~k.isAgree /\ state[s] = Leader /\ k.nReplica + 1 >= Majority
  IN
  /\ c.success
  /\ nextIndex' = [nextIndex EXCEPT ![s][c.dst] =
       IF @ < k.index + 1 THEN k.index + 1 ELSE @]
  /\ commitIndex' = [commitIndex EXCEPT ![s] =
       IF agree /\ MayCommit(s, k.index) THEN k.index ELSE @]
  /\ appendCalls' = appendCalls \ {c}
  /\ casts' = [casts EXCEPT ![c.cid].nReplica = @ + 1,
                            ![c.cid].isAgree = @ \/ agree]
  /\ UNCHANGED <<currentTerm, voteFor, log, state, persisted>>

ActOnAppendReply(c) ==
  /\ ActOnRejection(c) \/ ActOnSuccess(c)
  /\ UNCHANGED <<applied, voteCalls, starting, bounds>>

ReceiveAppendReply(c) ==
  LET current == currentTerm[c.src] = c.term IN
  /\ c.stage = "reply"
  /\ \/ current /\ "appendReply" \notin Preempt /\ ActOnAppendReply(c)
     \/ /\ current => "appendReply" \in Preempt
        /\ appendCalls' = (appendCalls \ {c}) \cup
             IF current THEN {[c EXCEPT !.stage = "act"]} ELSE {}
        /\ UNCHANGED <<currentTerm, voteFor, log, persisted, state, nextIndex,
                       applyVars, voteCalls, casts, starting, bounds>>

ResumeAppendReply(c) == c.stage = "act" /\ ActOnAppendReply(c)

LoseAppend(c) ==
  /\ c.stage \in {"request", "orphan", "reply"}
  /\ losses < MaxLoss
  /\ losses' = losses + 1
  /\ appendCalls' = appendCalls \ {c}
  /\ UNCHANGED <<currentTerm, voteFor, log, persisted, state, nextIndex,
                 applyVars, voteCalls, casts, starting, crashes,
                 elections>>

(* One round of applyEntries' loop.                                        *)
ApplyEntry(s) ==
  LET i == Len(applied[s]) + 1 IN
  /\ i <= commitIndex[s]
  /\ applied' = [applied EXCEPT ![s] = Append(@, log[s][i].cmd)]
  /\ UNCHANGED <<currentTerm, voteFor, log, persisted, state, commitIndex,
                 nextIndex, appendVars, voteCalls, bounds>>
-----------------------------------------------------------------------------
(* Crash and restart *)

(* A handler that adopts a newer term calls persist() before it votes or   *)
(* appends and persists again: the crash may fall between the two.         *)
HalfPersisted(s, c) ==
  [term |-> c.term, vote |-> None, log |-> persisted[s].log]

(* The restarted peer reads back image; its goroutines are gone, and the   *)
(* requests they have sent stay in the network.                            *)
Restart(s, image, lost) ==
  /\ crashes < MaxCrash
  /\ crashes' = crashes + 1
  /\ UNCHANGED <<casts, losses, elections>>
  /\ persisted' = [persisted EXCEPT ![s] = image]
  /\ currentTerm' = [currentTerm EXCEPT ![s] = image.term]
  /\ voteFor' = [voteFor EXCEPT ![s] = image.vote]
  /\ log' = [log EXCEPT ![s] = image.log]
  /\ state' = [state EXCEPT ![s] = Follower]
  /\ commitIndex' = [commitIndex EXCEPT ![s] = 0]
  /\ applied' = [applied EXCEPT ![s] = <<>>]
  /\ nextIndex' = [nextIndex EXCEPT ![s] = [d \in Server |-> 0]]
  /\ starting' = starting \ {s}
  /\ voteCalls' = {v \in voteCalls \ lost : v.src # s \/ v.stage \in {"orphan", "counted"}}
       \cup {[v EXCEPT !.stage = "orphan"] :
               v \in {u \in voteCalls : u.src = s /\ u.stage = "request"}}
  /\ appendCalls' = {a \in appendCalls \ lost : a.src # s \/ a.stage = "orphan"}
       \cup {[a EXCEPT !.stage = "orphan"] :
               a \in {b \in appendCalls : b.src = s /\ b.stage = "request"}}

Crash(s) ==
  \/ Restart(s, persisted[s], {})
  \/ \E c \in voteCalls \cup appendCalls :
       /\ c.dst = s /\ c.stage \in {"request", "orphan"}
       /\ currentTerm[s] < c.term
       /\ Restart(s, HalfPersisted(s, c), {c})
-----------------------------------------------------------------------------
Next ==
  \/ \E s \in Server :
       \/ StartElection(s)
       \/ BroadcastHeartbeat(s)
       \/ StartTest(s)
       \/ \E cmd \in Command : Start(s, cmd) \/ StartResume(s, cmd)
       \/ ApplyEntry(s)
       \/ Crash(s)
  \/ \E c \in voteCalls :
       \/ IssueVote(c)
       \/ HandleRequestVote(c)
       \/ ReceiveVoteReply(c)
       \/ ResumeVoteReply(c)
       \/ LoseVote(c)
  \/ \E c \in appendCalls :
       \/ SendAppend(c)
       \/ HandleAppendEntries(c)
       \/ ReceiveAppendReply(c)
       \/ ResumeAppendReply(c)
       \/ LoseAppend(c)

Spec == Init /\ [][Next]_vars
-----------------------------------------------------------------------------
(* Properties *)

(* Election safety: startElection never makes two peers leaders of one     *)
(* term, whatever replies, crashes and late elections interleave           *)
(* (checkOneLeader's "term has >1 leaders").                               *)
ElectionSafety ==
  \A s, t \in Server :
    state[s] = Leader /\ state[t] = Leader /\ currentTerm[s] = currentTerm[t]
      => s = t

(* rf.CurrentTerm "increases monotonically" (raft.go:97): no reply, request *)
(* or restart takes a peer back to an earlier term.                        *)
TermMonotonic ==
  [][\A s \in Server : currentTerm'[s] >= currentTerm[s]]_vars

(* What a peer tells others is durable: at the end of every critical       *)
(* section, in whatever order goroutines interleave, the Persister holds   *)
(* the term, vote and log the peer acts on.                                *)
PersistedIsCurrent ==
  \A s \in Server :
    persisted[s] = [term |-> currentTerm[s], vote |-> voteFor[s], log |-> log[s]]

(* A peer votes once per term: within a term neither a handler, a reply    *)
(* nor a crash and restart replaces or forgets a vote that was given.      *)
VoteOnce ==
  [][\A s \in Server :
       currentTerm'[s] = currentTerm[s] /\ voteFor[s] # None
         => voteFor'[s] = voteFor[s]]_vars

(* Log matching: if AppendEntries left two logs with the same term at the  *)
(* same index, the logs are the same, commands included, up to that index. *)
LogMatching ==
  \A s, t \in Server :
    \A i \in 1..Len(log[s]) :
      i <= Len(log[t]) /\ log[s][i].term = log[t][i].term
        => SubSeq(log[s], 1, i) = SubSeq(log[t], 1, i)

(* Leader completeness: what a peer holds as committed is in the log of    *)
(* every leader whose term is not older than the peer's own.               *)
LeaderCompleteness ==
  \A s, t \in Server :
    state[s] = Leader /\ currentTerm[t] <= currentTerm[s]
      => /\ commitIndex[t] <= Len(log[s])
         /\ SubSeq(log[t], 1, commitIndex[t]) = SubSeq(log[s], 1, commitIndex[t])

(* An entry a peer holds as committed is in the Persister of a majority,   *)
(* so the crash of any minority, in whatever handler, cannot lose it.      *)
CommittedOnQuorum ==
  \A s \in Server : \A i \in 1..commitIndex[s] :
    Cardinality({t \in Server : /\ Len(persisted[t].log) >= i
                                /\ persisted[t].log[i] = log[s][i]}) >= Majority

(* commitIndex "increase[s] monotonically" (raft.go:103) while the peer    *)
(* lives, and stays within the log that applyEntries indexes.              *)
CommitMonotonic ==
  [][\A s \in Server : crashes' = crashes =>
       /\ commitIndex'[s] >= commitIndex[s]
       /\ commitIndex'[s] <= Len(log'[s])]_vars

(* rf.nextIndex is one past an entry of the leader's log.                  *)
LeaderIndexes ==
  \A s \in Server : state[s] = Leader =>
    \A d \in Server : nextIndex[s][d] \in 1..(Len(log[s]) + 1)

(* A broadcast's index and prevLogIndex stay in the log while its term     *)
(* lasts; a rejection of a current term names a conflict at or before      *)
(* prevLogIndex.                                                           *)
CallInRange(c) ==
  LET s    == c.src
      cast == casts[c.cid]
      own  == currentTerm[s] = cast.term /\ state[s] # Follower
  IN
  /\ c.prevLogIndex = 0 => c.prevLogTerm = 0
  /\ c.stage = "reply" /\ ~c.success /\ c.rterm <= c.term
       => c.conflictFirst \in 1..c.prevLogIndex
  /\ c.stage # "orphan" =>
       /\ c.cid \in 1..Len(casts)
       /\ cast.term <= currentTerm[s]
       /\ c.stage # "ready" => c.term = cast.term
       /\ own => cast.index <= Len(log[s]) /\ c.prevLogIndex <= Len(log[s])

(* No index out of range: the indices with which a leader's goroutines     *)
(* read rf.Log (raft.go:630-671, 527-574) lie in the log, however late the *)
(* goroutine or the reply is scheduled.                                    *)
IndexInRange == LeaderIndexes /\ \A c \in appendCalls : CallInRange(c)
=============================================================================
