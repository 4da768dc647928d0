--------------------------- MODULE RaftPeerProofs ---------------------------
(***************************************************************************)
(* What the peers keep.  First type correctness, index ranges, durability  *)
(* and monotonicity: every action preserves IndexInv and takes no peer     *)
(* back.  Then election safety.  A leader has the counted votes of a       *)
(* majority, its own included.  A vote that was granted is remembered by   *)
(* the voter, who cannot vote for anybody else in that term, so the votes  *)
(* of two winners of one term would meet in a peer that voted twice.       *)
(***************************************************************************)
EXTENDS RaftInvariants, TLAPS

(* The length of a sequence is a number.                                   *)
LEMMA LenNat ==
  ASSUME NEW S, NEW l \in Seq(S)
  PROVE  Len(l) \in Nat
OBVIOUS

(* What casts holds after an assignment to a field of one of its members.  *)
LEMMA CastSet ==
  ASSUME NEW k \in Seq(Cast), NEW i \in 1..Len(k), NEW x \in Cast
  PROVE  /\ [k EXCEPT ![i] = x] \in Seq(Cast) /\ Len([k EXCEPT ![i] = x]) = Len(k)
         /\ \A j \in 1..Len(k) : [k EXCEPT ![i] = x][j] = IF j = i THEN x ELSE k[j]
OBVIOUS

(* Reading a term inside the log, sentinel included, gives a term.         *)
LEMMA TermAtType ==
  ASSUME NEW l \in Seq(Entry), NEW i \in 0..Len(l)
  PROVE  TermAt(l, i) \in Nat
<1>1. ASSUME i # 0 PROVE l[i] \in Entry
  BY <1>1
<1>2. QED
  BY <1>1 DEF TermAt, Entry, Term

(* The args of startElection are an RPC record.                            *)
LEMMA VoteRequestType ==
  ASSUME ProtocolTypeOK, NEW s \in Server, NEW d \in Server,
         NEW elec \in Nat, NEW term \in Nat
  PROVE  VoteRequest(s, d, elec, term) \in VoteCall
<1>1. log[s] \in Seq(Entry)
  BY DEF ProtocolTypeOK
<1>2. Len(log[s]) \in Nat /\ LastTerm(log[s]) \in Nat
  BY <1>1, TermAtType DEF LastTerm
<1>3. QED
  BY <1>2 DEF VoteRequest, VoteCall, VoteStages, Term

(* A goroutine of a broadcast starts as an RPC record.                     *)
LEMMA ReadyCallType ==
  ASSUME NEW s \in Server, NEW d \in Server, NEW k \in Nat
  PROVE  ReadyCall(s, d, k) \in AppendCall
<1>1. <<>> \in Seq(Entry)
  OBVIOUS
<1>2. QED
  BY <1>1 DEF ReadyCall, AppendCall, AppendStages, Term

(* The args of broadcastAppendEntries are an RPC record.                   *)
LEMMA AppendRequestType ==
  ASSUME NEW s \in Server, NEW d \in Server, NEW k \in Nat, NEW cast \in Cast,
         NEW l \in Seq(Entry), NEW next \in 1..(Len(l) + 1),
         cast.index <= Len(l)
  PROVE  AppendRequest(s, d, k, cast, l, next) \in AppendCall
<1>1. TermAt(l, next - 1) \in Nat
  BY TermAtType
<1>2. SubSeq(l, next, cast.index) \in Seq(Entry)
  BY DEF Cast
<1>3. ReadyCall(s, d, k) \in AppendCall
  BY ReadyCallType
<1>4. next - 1 \in Nat /\ cast.term \in Nat /\ cast.commit \in Nat
  BY DEF Cast, Term
<1>5. QED
  BY ZenonT(60), <1>1, <1>2, <1>3, <1>4 DEF AppendRequest, AppendCall, AppendStages, Term

(* A call that a step does not touch stays in range.                       *)
LEMMA CallStays ==
  ASSUME ProtocolTypeOK, NEW c \in appendCalls, CallInRange(c),
         Advances(c.src), currentTerm'[c.src] \in Nat,
         log'[c.src] \in Seq(Entry), casts' \in Seq(Cast),
         Len(casts') >= Len(casts),
         \A k \in 1..Len(casts) : casts'[k].term = casts[k].term
                                  /\ casts'[k].index = casts[k].index
  PROVE  CallInRange(c)'
<1>1. /\ c \in AppendCall
      /\ Len(casts) \in Nat /\ Len(casts') \in Nat
      /\ currentTerm[c.src] \in Nat
      /\ Len(log[c.src]) \in Nat /\ Len(log'[c.src]) \in Nat
      /\ \A k \in 1..Len(casts) : casts[k].term \in Nat /\ casts[k].index \in Nat
  <2>1. c \in AppendCall /\ c.src \in Server /\ casts \in Seq(Cast)
    BY Zenon DEF ProtocolTypeOK, AppendCall
  <2>2. currentTerm[c.src] \in Nat /\ log[c.src] \in Seq(Entry)
    BY Zenon, <2>1 DEF ProtocolTypeOK, Term
  <2>3. \A k \in 1..Len(casts) : casts[k] \in Cast
    BY <2>1
  <2>4. \A k \in 1..Len(casts) : casts[k].term \in Nat /\ casts[k].index \in Nat
    BY ZenonT(60), <2>3 DEF Cast, Term
  <2>5. QED
    BY ZenonT(60), <2>1, <2>2, <2>4, LenNat
<1>2. SUFFICES ASSUME c.stage # "orphan"
               PROVE  /\ c.cid \in 1..Len(casts')
                      /\ casts'[c.cid].term <= currentTerm'[c.src]
                      /\ c.stage # "ready" => c.term = casts'[c.cid].term
                      /\ currentTerm'[c.src] = casts'[c.cid].term
                           /\ state'[c.src] # Follower
                         => /\ casts'[c.cid].index <= Len(log'[c.src])
                            /\ c.prevLogIndex <= Len(log'[c.src])
  BY Zenon DEF CallInRange
<1>3. /\ c.cid \in 1..Len(casts)
      /\ casts[c.cid].term <= currentTerm[c.src]
      /\ c.stage # "ready" => c.term = casts[c.cid].term
      /\ currentTerm[c.src] = casts[c.cid].term /\ state[c.src] # Follower
           => /\ casts[c.cid].index <= Len(log[c.src])
              /\ c.prevLogIndex <= Len(log[c.src])
  BY Zenon, <1>2 DEF CallInRange
<1>4. c.prevLogIndex \in Nat
  BY <1>1 DEF AppendCall
<1>5. /\ casts'[c.cid].term = casts[c.cid].term
      /\ casts'[c.cid].index = casts[c.cid].index
      /\ casts[c.cid].term \in Nat /\ casts[c.cid].index \in Nat
      /\ c.cid \in 1..Len(casts')
  BY SMTT(60), <1>1, <1>3
<1>6. CASE currentTerm'[c.src] > currentTerm[c.src]
  BY <1>1, <1>3, <1>5, <1>6
<1>7. CASE currentTerm'[c.src] = currentTerm[c.src]
  BY SMTT(60), <1>1, <1>3, <1>4, <1>5, <1>7 DEF Advances
<1>8. QED
  BY <1>6, <1>7 DEF Advances

(* A step that leaves the append goroutines alone keeps them in range.     *)
LEMMA CallsStay ==
  ASSUME IndexInv, \A s \in Server : Advances(s), ProtocolTypeOK',
         appendCalls' \subseteq appendCalls, casts' = casts
  PROVE  /\ \A c \in appendCalls' : CallInRange(c)'
         /\ \A c \in appendCalls' : c.stage # "act"
<1>1. ASSUME NEW c \in appendCalls' PROVE CallInRange(c)'
  <2>1. c \in appendCalls /\ CallInRange(c) /\ c.src \in Server
    BY Zenon, <1>1 DEF IndexInv, IndexInRange, ProtocolTypeOK, AppendCall
  <2>2. /\ currentTerm'[c.src] \in Nat /\ log'[c.src] \in Seq(Entry)
        /\ casts' \in Seq(Cast) /\ Len(casts') >= Len(casts)
    BY <2>1 DEF ProtocolTypeOK, Term
  <2>3. QED
    BY <2>1, <2>2, CallStays DEF IndexInv
<1>2. QED
  BY <1>1 DEF IndexInv

(* When one peer advances and the others rest, all advance.                *)
LEMMA AdvancesAll ==
  ASSUME ProtocolTypeOK, NEW s \in Server, Advances(s), OnlyPeer(s)
  PROVE  \A t \in Server : Advances(t)
<1>1. \A t \in Server : Len(log[t]) \in Nat
  BY DEF ProtocolTypeOK
<1>2. QED
  BY <1>1 DEF OnlyPeer, Advances

(* persist() writes the fields as they are at the end of the section.      *)
LEMMA PersistStep ==
  ASSUME ProtocolTypeOK, PersistedIsCurrent, NEW s \in Server, Persist(s),
         currentTerm'[s] \in Nat, voteFor'[s] \in Vote, log'[s] \in Seq(Entry),
         OnlyPeer(s)
  PROVE  /\ PersistedIsCurrent'
         /\ persisted' \in [Server -> [term : Term, vote : Vote, log : Seq(Entry)]]
<1>1. persisted'[s] = [term |-> currentTerm'[s], vote |-> voteFor'[s], log |-> log'[s]]
  BY Zenon DEF Persist, ProtocolTypeOK
<1>2. \A t \in Server \ {s} : persisted'[t] = persisted[t]
  BY Zenon DEF Persist, ProtocolTypeOK
<1>3. PersistedIsCurrent'
  BY Zenon, <1>1, <1>2 DEF PersistedIsCurrent, OnlyPeer
<1>4. [term |-> currentTerm'[s], vote |-> voteFor'[s], log |-> log'[s]]
        \in [term : Term, vote : Vote, log : Seq(Entry)]
  BY DEF Term
<1>5. QED
  BY <1>3, <1>4 DEF Persist, ProtocolTypeOK

(* Leaders that keep their log and nextIndex keep their indices in range.  *)
LEMMA LeadersStay ==
  ASSUME IndexInv, ProtocolTypeOK', nextIndex' = nextIndex, log' = log,
         \A s \in Server : state'[s] = Leader => state[s] = Leader
  PROVE  LeaderIndexes'
BY DEF IndexInv, IndexInRange, LeaderIndexes

(* A step inside goroutines and bounds only.                               *)
LEMMA QuietStep ==
  ASSUME IndexInv,
         UNCHANGED <<currentTerm, voteFor, log, persisted, state, nextIndex,
                     commitIndex, casts>>,
         voteCalls' \subseteq VoteCall, appendCalls' \subseteq appendCalls,
         starting' \subseteq Server,
         crashes' \in Nat, losses' \in Nat, elections' \in Nat
  PROVE  StepOK
<1> USE DEF IndexInv
<1>1. ProtocolTypeOK' /\ PersistedIsCurrent'
  BY Zenon DEF ProtocolTypeOK, PersistedIsCurrent
<1>2. \A t \in Server : Advances(t)
  <2>1. \A t \in Server : Len(log[t]) \in Nat
    BY DEF ProtocolTypeOK
  <2>2. QED
    BY <2>1 DEF Advances
<1>3. LeaderIndexes'
  BY <1>1, LeadersStay
<1>4. QED
  BY <1>1, <1>2, <1>3, CallsStay DEF StepOK, IndexInRange

(* Stepping down for a newer term.                                         *)
LEMMA StepDownStep ==
  ASSUME IndexInv, NEW s \in Server, NEW term \in Nat, currentTerm[s] < term,
         StepDown(s, term),
         UNCHANGED <<nextIndex, commitIndex, casts, starting, bounds>>,
         voteCalls' \subseteq voteCalls, appendCalls' \subseteq appendCalls
  PROVE  StepOK
<1> USE DEF IndexInv
<1>1. /\ currentTerm' \in [Server -> Term]
      /\ voteFor' \in [Server -> Vote]
      /\ state' \in [Server -> {Follower, Candidate, Leader}]
      /\ log' = log /\ log[s] \in Seq(Entry)
  BY Zenon DEF StepDown, ProtocolTypeOK, Term, Vote
<1>2. OnlyPeer(s) /\ currentTerm'[s] > currentTerm[s]
  BY Zenon DEF StepDown, OnlyPeer, ProtocolTypeOK, Term
<1>3. /\ PersistedIsCurrent'
      /\ persisted' \in [Server -> [term : Term, vote : Vote, log : Seq(Entry)]]
  BY Zenon, <1>1, <1>2, PersistStep DEF StepDown, Term
<1>4. ProtocolTypeOK'
  BY Zenon, <1>1, <1>3 DEF ProtocolTypeOK, bounds
<1>5. \A t \in Server : Advances(t)
  BY Zenon, <1>2, AdvancesAll DEF Advances
<1>6. \A t \in Server : state'[t] = Leader => state[t] = Leader
  BY Zenon DEF StepDown, ProtocolTypeOK, Leader, Follower
<1>7. LeaderIndexes'
  BY Zenon, <1>1, <1>4, <1>6, LeadersStay
<1>8. QED
  BY <1>3, <1>4, <1>5, <1>7, CallsStay DEF StepOK, IndexInRange

(* Elections, crashes and restarts *)

(* startElection keeps the invariant.                                      *)
LEMMA StartElectionStep ==
  ASSUME IndexInv, NEW s \in Server, StartElection(s)
  PROVE  StepOK
<1> DEFINE term == currentTerm[s] + 1
<1> USE DEF IndexInv, applyVars, appendVars
<1>1. currentTerm[s] \in Nat /\ term \in Nat /\ log[s] \in Seq(Entry)
  BY DEF ProtocolTypeOK, Term
<1>2. voteCalls' \subseteq VoteCall
  <2>1. \A d \in Peers(s) : VoteRequest(s, d, term, term) \in VoteCall
    BY Zenon, <1>1, VoteRequestType DEF Peers
  <2>2. \A d \in Peers(s) : UnissuedVote(s, d, term) \in VoteCall
    BY Zenon, <1>1 DEF UnissuedVote, VoteCall, VoteStages, Term, Peers
  <2>3. QED
    BY <2>1, <2>2 DEF StartElection, ProtocolTypeOK
<1>3. /\ currentTerm' \in [Server -> Term]
      /\ voteFor' \in [Server -> Vote]
      /\ state' \in [Server -> {Follower, Candidate, Leader}]
      /\ elections' \in Nat
  BY <1>1 DEF StartElection, ProtocolTypeOK, Term, Vote
<1>4. OnlyPeer(s) /\ currentTerm'[s] > currentTerm[s]
  BY <1>1 DEF StartElection, OnlyPeer, ProtocolTypeOK
<1>5. /\ PersistedIsCurrent'
      /\ persisted' \in [Server -> [term : Term, vote : Vote, log : Seq(Entry)]]
  BY SMTT(60), <1>3, <1>4, PersistStep DEF StartElection, ProtocolTypeOK, Term
<1>6. ProtocolTypeOK'
  BY Zenon, <1>2, <1>3, <1>5 DEF StartElection, ProtocolTypeOK
<1>7. \A t \in Server : Advances(t)
  BY Zenon, <1>4, AdvancesAll DEF Advances
<1>8. LeaderIndexes'
  BY Zenon DEF StartElection, ProtocolTypeOK, LeaderIndexes, IndexInRange, Leader,
         Candidate
<1>9. QED
  BY <1>5, <1>6, <1>7, <1>8, CallsStay DEF StartElection, StepOK, IndexInRange

(* Building the RequestVote args of one peer keeps the invariant.          *)
LEMMA IssueVoteStep ==
  ASSUME IndexInv, NEW c \in voteCalls, IssueVote(c)
  PROVE  StepOK
<1>1. c.src \in Server /\ c.dst \in Server /\ c.elec \in Nat
  BY ZenonT(60) DEF IndexInv, ProtocolTypeOK, VoteCall, Term
<1>2. VoteRequest(c.src, c.dst, c.elec, currentTerm[c.src]) \in VoteCall
  BY ZenonT(60), <1>1, VoteRequestType DEF IndexInv, ProtocolTypeOK, Term
<1>3. voteCalls' \subseteq VoteCall
  BY Zenon, <1>2 DEF IssueVote, IndexInv, ProtocolTypeOK
<1>4. QED
  BY ZenonT(60), <1>3, QuietStep DEF IssueVote, IndexInv, ProtocolTypeOK, applyVars,
       appendVars, bounds

(* The RequestVote handler keeps the invariant.                            *)
LEMMA HandleRequestVoteStep ==
  ASSUME IndexInv, NEW c \in voteCalls, HandleRequestVote(c)
  PROVE  StepOK
<1> DEFINE s     == c.dst
           newer == currentTerm[s] < c.term
           vote  == IF newer THEN None ELSE voteFor[s]
           grant == GrantsVote(s, vote, c)
<1> USE DEF IndexInv
<1>1. /\ c \in VoteCall /\ s \in Server /\ c.src \in Server /\ c.term \in Nat
      /\ currentTerm[s] \in Nat /\ voteFor[s] \in Vote /\ vote \in Vote
      /\ log[s] \in Seq(Entry) /\ Len(log[s]) \in Nat
  BY ZenonT(60), LenNat DEF ProtocolTypeOK, VoteCall, Term, Vote
<1>2. grant => vote \in {None, c.src} /\ currentTerm[s] <= c.term
  BY DEF GrantsVote
<1> HIDE DEF grant
<1>3. /\ currentTerm' = IF newer THEN [currentTerm EXCEPT ![s] = c.term]
                                 ELSE currentTerm
      /\ voteFor' = [voteFor EXCEPT ![s] = IF grant THEN c.src ELSE vote]
      /\ state' = [state EXCEPT ![s] = IF newer \/ grant THEN Follower ELSE @]
      /\ voteCalls' = (voteCalls \ {c}) \cup
           IF c.stage = "orphan" THEN {}
                                 ELSE {VoteAnswer(c, currentTerm'[s], grant)}
      /\ UNCHANGED <<log, nextIndex, applyVars, appendVars, bounds>>
      /\ IF newer \/ grant THEN Persist(s) ELSE UNCHANGED persisted
  BY Zenon DEF HandleRequestVote, grant
<1>4. /\ currentTerm' \in [Server -> Term]
      /\ voteFor' \in [Server -> Vote]
      /\ state' \in [Server -> {Follower, Candidate, Leader}]
  BY ZenonT(60), <1>1, <1>3 DEF ProtocolTypeOK, Term, Vote
<1>5. OnlyPeer(s)
  BY Zenon, <1>3 DEF OnlyPeer, ProtocolTypeOK
<1>6. /\ PersistedIsCurrent'
      /\ persisted' \in [Server -> [term : Term, vote : Vote, log : Seq(Entry)]]
  <2>1. CASE newer \/ grant
    BY Zenon, <1>1, <1>3, <1>4, <1>5, <2>1, PersistStep DEF Term
  <2>2. CASE ~(newer \/ grant)
    <3>1. currentTerm' = currentTerm /\ voteFor' = voteFor /\ log' = log
      BY Zenon, <1>3, <2>2 DEF ProtocolTypeOK
    <3>2. QED
      BY Zenon, <1>3, <2>2, <3>1 DEF ProtocolTypeOK, PersistedIsCurrent
  <2>3. QED
    BY Zenon, <2>1, <2>2
<1>7. voteCalls' \subseteq VoteCall
  <2>1. VoteAnswer(c, currentTerm'[s], grant) \in VoteCall
    <3>1. grant \in BOOLEAN
      BY Zenon DEF grant, GrantsVote
    <3>2. currentTerm'[s] \in Nat
      BY Zenon, <1>1, <1>4 DEF Term
    <3>3. QED
      BY ZenonT(60), <1>1, <3>1, <3>2 DEF VoteAnswer, VoteCall, VoteStages, Term
  <2>2. QED
    BY Zenon, <1>3, <2>1 DEF ProtocolTypeOK
<1>8. ProtocolTypeOK'
  BY ZenonT(60), <1>3, <1>4, <1>6, <1>7 DEF ProtocolTypeOK, applyVars, appendVars, bounds
<1>9. Advances(s)
  <2>1. CASE newer
    BY Zenon, <1>1, <1>3, <2>1 DEF Advances, ProtocolTypeOK
  <2>2. CASE ~newer
    <3>1. currentTerm'[s] = currentTerm[s] /\ log' = log /\ vote = voteFor[s]
      BY Zenon, <1>3, <2>2
    <3>2. voteFor[s] # None => voteFor'[s] = voteFor[s]
      BY Zenon, <1>1, <1>2, <1>3, <3>1 DEF ProtocolTypeOK
    <3>3. state'[s] # Follower => state[s] # Follower
      BY Zenon, <1>1, <1>3 DEF ProtocolTypeOK
    <3>4. QED
      BY <1>1, <3>1, <3>2, <3>3 DEF Advances
  <2>3. QED
    BY Zenon, <2>1, <2>2
<1>10. \A t \in Server : Advances(t)
  BY Zenon, <1>1, <1>5, <1>9, AdvancesAll
<1>11. \A t \in Server : state'[t] = Leader => state[t] = Leader
  BY Zenon, <1>3 DEF ProtocolTypeOK, Leader, Follower
<1>12. LeaderIndexes'
  BY Zenon, <1>3, <1>8, <1>11, LeadersStay
<1>13. QED
  BY <1>3, <1>6, <1>8, <1>10, <1>12, CallsStay DEF StepOK, IndexInRange, appendVars

(* Counting a vote and becoming leader keeps the invariant.                *)
LEMMA CountVoteStep ==
  ASSUME IndexInv, NEW c \in voteCalls, CountVote(c),
         UNCHANGED <<applyVars, appendVars, bounds>>
  PROVE  StepOK
<1> DEFINE s   == c.src
           win == state[s] = Candidate /\ NVotes(c) >= Majority
<1> USE DEF IndexInv
<1>1. /\ c \in VoteCall /\ s \in Server
      /\ currentTerm[s] \in Nat /\ voteFor[s] \in Vote
      /\ log[s] \in Seq(Entry) /\ Len(log[s]) \in Nat
  BY ZenonT(60), LenNat DEF ProtocolTypeOK, VoteCall, Term
<1>2. win => state[s] = Candidate
  OBVIOUS
<1> HIDE DEF win
<1>3. /\ voteCalls' = (voteCalls \ {c}) \cup {[c EXCEPT !.stage = "counted"]}
      /\ state' = [state EXCEPT ![s] = IF win THEN Leader ELSE @]
      /\ nextIndex' = [nextIndex EXCEPT ![s] =
           IF win THEN [d \in Server |-> Len(log[s]) + 1] ELSE @]
      /\ UNCHANGED <<currentTerm, voteFor, log>>
      /\ IF win THEN Persist(s) ELSE UNCHANGED persisted
  BY Zenon DEF CountVote, win
<1>4. /\ state' \in [Server -> {Follower, Candidate, Leader}]
      /\ nextIndex' \in [Server -> [Server -> Nat]]
  <2>1. [d \in Server |-> Len(log[s]) + 1] \in [Server -> Nat]
    BY <1>1
  <2>2. QED
    BY Zenon, <1>1, <1>3, <2>1 DEF ProtocolTypeOK
<1>5. voteCalls' \subseteq VoteCall
  <2>1. [c EXCEPT !.stage = "counted"] \in VoteCall
    BY Zenon, <1>1 DEF VoteCall, VoteStages
  <2>2. QED
    BY ZenonT(60), <1>3, <2>1 DEF ProtocolTypeOK
<1>6. OnlyPeer(s)
  BY Zenon, <1>3 DEF OnlyPeer, ProtocolTypeOK
<1>7. /\ PersistedIsCurrent'
      /\ persisted' \in [Server -> [term : Term, vote : Vote, log : Seq(Entry)]]
  <2>1. CASE win
    BY Zenon, <1>1, <1>3, <1>6, <2>1, PersistStep
  <2>2. CASE ~win
    BY Zenon, <1>3, <2>2 DEF ProtocolTypeOK, PersistedIsCurrent
  <2>3. QED
    BY <2>1, <2>2
<1>8. ProtocolTypeOK'
  BY ZenonT(60), <1>3, <1>4, <1>5, <1>7 DEF ProtocolTypeOK, applyVars, appendVars, bounds
<1>9. Advances(s)
  <2>1. state'[s] # Follower => state[s] # Follower
    BY Zenon, <1>1, <1>2, <1>3 DEF ProtocolTypeOK, Candidate, Follower
  <2>2. QED
    BY <1>1, <1>3, <2>1 DEF Advances
<1>10. \A t \in Server : Advances(t)
  BY Zenon, <1>1, <1>6, <1>9, AdvancesAll
<1>11. LeaderIndexes'
  <2>1. SUFFICES ASSUME NEW t \in Server, state'[t] = Leader, NEW d \in Server
                 PROVE  nextIndex'[t][d] \in 1..(Len(log[t]) + 1)
    BY Zenon, <1>3 DEF LeaderIndexes
  <2>2. CASE t = s /\ win
    <3>1. nextIndex'[s][d] = Len(log[s]) + 1
      BY Zenon, <1>1, <1>3, <2>2 DEF ProtocolTypeOK
    <3>2. QED
      BY <1>1, <2>2, <3>1
  <2>3. CASE ~(t = s /\ win)
    <3>1. nextIndex'[t] = nextIndex[t] /\ state'[t] = state[t]
      BY ZenonT(60), <1>1, <1>3, <2>3 DEF ProtocolTypeOK
    <3>2. QED
      BY Zenon, <2>1, <3>1 DEF IndexInRange, LeaderIndexes
  <2>4. QED
    BY Zenon, <2>2, <2>3
<1>12. QED
  BY <1>7, <1>8, <1>10, <1>11, CallsStay DEF StepOK, IndexInRange, appendVars

(* Acting on a RequestVote reply keeps the invariant.                      *)
LEMMA ActOnVoteReplyStep ==
  ASSUME IndexInv, NEW c \in voteCalls, ActOnVoteReply(c)
  PROVE  StepOK
<1>1. c.src \in Server /\ c.rterm \in Nat
  BY ZenonT(60) DEF IndexInv, ProtocolTypeOK, VoteCall, Term
<1>2. CASE c.granted
  BY <1>2, CountVoteStep DEF ActOnVoteReply
<1>3. CASE ~c.granted /\ currentTerm[c.src] < c.rterm
  BY <1>1, <1>3, StepDownStep DEF ActOnVoteReply, applyVars, appendVars
<1>4. CASE ~c.granted /\ ~(currentTerm[c.src] < c.rterm)
  BY Zenon, <1>4, QuietStep DEF ActOnVoteReply, IndexInv, ProtocolTypeOK, applyVars,
         appendVars, bounds
<1>5. QED
  BY <1>2, <1>3, <1>4

(* The goroutine that wakes with a RequestVote reply keeps the invariant.  *)
LEMMA ReceiveVoteReplyStep ==
  ASSUME IndexInv, NEW c \in voteCalls, ReceiveVoteReply(c)
  PROVE  StepOK
<1>1. CASE ActOnVoteReply(c)
  BY <1>1, ActOnVoteReplyStep
<1>2. CASE ~ActOnVoteReply(c)
  <2>1. [c EXCEPT !.stage = "act"] \in VoteCall
    BY ZenonT(60) DEF IndexInv, ProtocolTypeOK, VoteCall, VoteStages
  <2>2. voteCalls' \subseteq VoteCall
    BY ZenonT(60), <1>2, <2>1 DEF ReceiveVoteReply, IndexInv, ProtocolTypeOK
  <2>3. QED
    BY Zenon, <1>2, <2>2, QuietStep DEF ReceiveVoteReply, IndexInv, ProtocolTypeOK,
           applyVars, appendVars, bounds
<1>3. QED
  BY <1>1, <1>2

(* A RequestVote call that returns false keeps the invariant.              *)
LEMMA LoseVoteStep ==
  ASSUME IndexInv, NEW c \in voteCalls, LoseVote(c)
  PROVE  StepOK
BY QuietStep DEF LoseVote, IndexInv, ProtocolTypeOK, applyVars, appendVars

(* What the restarted peer reads back is what it acted on, or one persist  *)
(* of a newer term ahead of it.                                            *)
LEMMA RestartStep ==
  ASSUME IndexInv, NEW s \in Server, NEW image, NEW lost,
         image \in [term : Term, vote : Vote, log : Seq(Entry)],
         image = persisted[s] \/ image.term > currentTerm[s],
         Restart(s, image, lost)
  PROVE  StepOK
<1> USE DEF IndexInv
<1>1. /\ persisted' = [persisted EXCEPT ![s] = image]
      /\ currentTerm' = [currentTerm EXCEPT ![s] = image.term]
      /\ voteFor' = [voteFor EXCEPT ![s] = image.vote]
      /\ log' = [log EXCEPT ![s] = image.log]
      /\ state' = [state EXCEPT ![s] = Follower]
      /\ commitIndex' = [commitIndex EXCEPT ![s] = 0]
      /\ nextIndex' = [nextIndex EXCEPT ![s] = [d \in Server |-> 0]]
      /\ starting' = starting \ {s} /\ casts' = casts
      /\ crashes' = crashes + 1 /\ UNCHANGED <<losses, elections>>
  BY Zenon DEF Restart
<1>2. image.term \in Nat /\ image.vote \in Vote /\ image.log \in Seq(Entry)
  BY DEF Term
<1>3. voteCalls' \subseteq VoteCall
  <2>1. ASSUME NEW v \in voteCalls PROVE [v EXCEPT !.stage = "orphan"] \in VoteCall
    <3>1. v \in VoteCall
      BY Zenon DEF ProtocolTypeOK
    <3>2. QED
      BY Zenon, <3>1 DEF VoteCall, VoteStages
  <2>2. QED
    BY Zenon, <2>1 DEF Restart, ProtocolTypeOK
<1>4. \A a \in appendCalls' :
        \/ a \in appendCalls
        \/ \E b \in appendCalls : a = [b EXCEPT !.stage = "orphan"]
  BY Zenon DEF Restart
<1>5. OnlyPeer(s)
  BY Zenon, <1>1 DEF OnlyPeer, ProtocolTypeOK
<1>6. Advances(s)
  <2>1. CASE image.term > currentTerm[s]
    BY Zenon, <1>1, <2>1 DEF Advances, ProtocolTypeOK
  <2>2. CASE image = persisted[s]
    <3>1. image.term = currentTerm[s] /\ image.vote = voteFor[s]
      <4>1. persisted[s] = [term |-> currentTerm[s], vote |-> voteFor[s], log |-> log[s]]
        BY Zenon DEF PersistedIsCurrent
      <4>2. QED
        BY <2>2, <4>1
    <3>2. /\ currentTerm'[s] = image.term /\ voteFor'[s] = image.vote
          /\ state'[s] = Follower
      BY Zenon, <1>1 DEF ProtocolTypeOK
    <3>3. QED
      BY Zenon, <3>1, <3>2 DEF Advances
  <2>3. QED
    BY Zenon, <2>1, <2>2
<1>7. \A t \in Server : Advances(t)
  BY <1>5, <1>6, AdvancesAll
<1>8. /\ currentTerm' \in [Server -> Nat] /\ log' \in [Server -> Seq(Entry)]
      /\ voteFor' \in [Server -> Vote]
      /\ state' \in [Server -> {Follower, Candidate, Leader}]
      /\ commitIndex' \in [Server -> Nat]
      /\ persisted' \in [Server -> [term : Term, vote : Vote, log : Seq(Entry)]]
      /\ nextIndex' \in [Server -> [Server -> Nat]]
  BY Zenon, <1>1, <1>2 DEF ProtocolTypeOK, Term
<1>9. ASSUME NEW b \in appendCalls
      PROVE  b \in AppendCall /\ b.stage # "act" /\ CallInRange(b)'
  <2>1. b \in AppendCall /\ b.src \in Server /\ b.stage # "act" /\ CallInRange(b)
    BY Zenon DEF ProtocolTypeOK, AppendCall, IndexInRange
  <2>2. /\ currentTerm'[b.src] \in Nat /\ log'[b.src] \in Seq(Entry)
        /\ casts' \in Seq(Cast) /\ Len(casts') >= Len(casts)
    <3>1. casts' = casts /\ casts \in Seq(Cast)
      BY Zenon, <1>1 DEF ProtocolTypeOK
    <3>2. Len(casts) \in Nat
      BY <3>1
    <3>3. currentTerm'[b.src] \in Nat /\ log'[b.src] \in Seq(Entry)
      BY Zenon, <1>8, <2>1
    <3>4. QED
      BY <3>1, <3>2, <3>3
  <2>3. QED
    BY Zenon, <1>1, <1>7, <2>1, <2>2, CallStays
<1>10. ASSUME NEW b \in appendCalls, NEW a, a = [b EXCEPT !.stage = "orphan"]
       PROVE  a \in AppendCall /\ a.stage # "act" /\ CallInRange(a)'
  <2>1. b \in AppendCall /\ CallInRange(b)'
    BY Zenon, <1>9
  <2>2. /\ a \in AppendCall /\ a.stage = "orphan"
        /\ a.prevLogIndex = b.prevLogIndex /\ a.prevLogTerm = b.prevLogTerm
    BY Zenon, <1>10, <2>1 DEF AppendCall, AppendStages
  <2>3. QED
    BY Zenon, <2>1, <2>2 DEF CallInRange
<1>11. ASSUME NEW a \in appendCalls'
       PROVE  a \in AppendCall /\ a.stage # "act" /\ CallInRange(a)'
  BY Zenon, <1>4, <1>9, <1>10, <1>11
<1>12. ProtocolTypeOK'
  <2>1. /\ casts' \in Seq(Cast) /\ starting' \subseteq Server
        /\ crashes' \in Nat /\ losses' \in Nat /\ elections' \in Nat
    BY <1>1 DEF ProtocolTypeOK
  <2>2. appendCalls' \subseteq AppendCall
    BY Zenon, <1>11
  <2>3. QED
    BY ZenonT(60), <1>3, <1>8, <2>1, <2>2 DEF ProtocolTypeOK, Term
<1>13. PersistedIsCurrent'
  <2>1. ASSUME NEW t \in Server
        PROVE  persisted'[t] = [term |-> currentTerm'[t], vote |-> voteFor'[t],
                                log |-> log'[t]]
    <3>1. CASE t = s
      BY Zenon, <1>1, <3>1 DEF ProtocolTypeOK
    <3>2. CASE t # s
      BY Zenon, <1>1, <3>2 DEF ProtocolTypeOK, PersistedIsCurrent
    <3>3. QED
      BY Zenon, <3>1, <3>2
  <2>2. QED
    BY Zenon, <2>1 DEF PersistedIsCurrent
<1>14. LeaderIndexes'
  BY Zenon, <1>1 DEF ProtocolTypeOK, LeaderIndexes, IndexInRange, Leader, Follower
<1>15. QED
  BY <1>7, <1>11, <1>12, <1>13, <1>14 DEF StepOK, IndexInRange

(* A crash at any point of a handler, and the restart, keep the invariant. *)
LEMMA CrashStep ==
  ASSUME IndexInv, NEW s \in Server, Crash(s)
  PROVE  StepOK
<1>1. persisted[s] \in [term : Term, vote : Vote, log : Seq(Entry)]
  BY Zenon DEF IndexInv, ProtocolTypeOK
<1>2. CASE Restart(s, persisted[s], {})
  BY <1>1, <1>2, RestartStep
<1>3. ASSUME NEW c \in voteCalls \cup appendCalls, currentTerm[s] < c.term,
             Restart(s, HalfPersisted(s, c), {c})
      PROVE  StepOK
  <2>1. c.term \in Nat /\ currentTerm[s] \in Nat
    BY Zenon DEF IndexInv, ProtocolTypeOK, VoteCall, AppendCall, Term
  <2> DEFINE image == HalfPersisted(s, c)
  <2>2. image \in [term : Term, vote : Vote, log : Seq(Entry)] /\ image.term = c.term
    BY Zenon, <1>1, <2>1 DEF HalfPersisted, Vote, Term
  <2>3. image.term > currentTerm[s] /\ Restart(s, image, {c})
    BY <1>3, <2>1, <2>2
  <2> HIDE DEF image
  <2>4. QED
    BY <2>2, <2>3, RestartStep
<1>4. QED
  BY ZenonT(60), <1>2, <1>3 DEF Crash

(* Log replication *)

(* What a goroutine sends from the retry label is in range if rf.nextIndex *)
(* and the broadcast's index are.                                          *)
LEMMA AppendRequestInRange ==
  ASSUME NEW s \in Server, NEW d \in Server, NEW k \in 1..Len(casts'),
         NEW cast \in Cast, NEW l \in Seq(Entry), NEW next \in 1..(Len(l) + 1),
         casts'[k] = cast, log'[s] = l, cast.term <= currentTerm'[s],
         cast.index <= Len(l),
         NEW c, c = AppendRequest(s, d, k, cast, l, next)
  PROVE  c \in AppendCall /\ c.stage # "act" /\ CallInRange(c)'
<1>1. k \in Nat /\ Len(l) \in Nat
  OBVIOUS
<1>2. c \in AppendCall
  BY Zenon, <1>1, AppendRequestType
<1>3. /\ c.src = s /\ c.cid = k /\ c.stage = "request" /\ c.term = cast.term
      /\ c.prevLogIndex = next - 1 /\ c.prevLogTerm = TermAt(l, next - 1)
  BY DEF AppendRequest, ReadyCall
<1>4. c.prevLogIndex = 0 => c.prevLogTerm = 0
  BY Zenon, <1>3 DEF TermAt
<1>5. c.prevLogIndex <= Len(l)
  BY <1>1, <1>3
<1>6. CallInRange(c)'
  BY Zenon, <1>3, <1>4, <1>5 DEF CallInRange
<1>7. QED
  BY <1>2, <1>3, <1>6

(* A goroutine that has not built its args yet is in range when its        *)
(* broadcast is.                                                           *)
LEMMA ReadyCallInRange ==
  ASSUME NEW s \in Server, NEW d \in Server, NEW k \in 1..Len(casts'),
         NEW cast \in Cast, NEW l \in Seq(Entry),
         casts'[k] = cast, log'[s] = l, cast.term <= currentTerm'[s],
         currentTerm'[s] = cast.term /\ state'[s] # Follower
           => cast.index <= Len(l),
         NEW c, c = ReadyCall(s, d, k)
  PROVE  c \in AppendCall /\ c.stage # "act" /\ CallInRange(c)'
<1>1. c \in AppendCall
  BY ReadyCallType
<1>2. /\ c.src = s /\ c.cid = k /\ c.stage = "ready"
      /\ c.prevLogIndex = 0 /\ c.prevLogTerm = 0
  BY Zenon DEF ReadyCall
<1>3. 0 <= Len(l)
  OBVIOUS
<1>4. CallInRange(c)'
  BY Zenon, <1>2, <1>3 DEF CallInRange
<1>5. QED
  BY <1>1, <1>2, <1>4

(* broadcastAppendEntries of an index in the log adds calls that are in    *)
(* range.                                                                  *)
LEMMA BroadcastCalls ==
  ASSUME IndexInv, NEW s \in Server, NEW l \in Seq(Entry), NEW index \in Nat,
         index <= Len(l), Len(log[s]) <= Len(l), log'[s] = l,
         log' \in [Server -> Seq(Entry)], OnlyPeer(s), Advances(s),
         UNCHANGED <<currentTerm, state>>,
         Broadcast(s, l, index)
  PROVE  /\ casts' \in Seq(Cast) /\ appendCalls' \subseteq AppendCall
         /\ \A c \in appendCalls' : CallInRange(c)'
         /\ \A c \in appendCalls' : c.stage # "act"
<1> DEFINE k    == Len(casts) + 1
           cast == [index |-> index, term |-> currentTerm[s],
                    commit |-> commitIndex[s], nReplica |-> 1, isAgree |-> FALSE]
<1> USE DEF IndexInv
<1>1. /\ currentTerm \in [Server -> Nat] /\ currentTerm[s] \in Nat
      /\ casts \in Seq(Cast) /\ cast \in Cast /\ Len(log[s]) \in Nat /\ Len(l) \in Nat
  BY DEF ProtocolTypeOK, Cast, Term
<1>2. /\ casts' \in Seq(Cast) /\ Len(casts') = k /\ Len(casts) \in Nat
      /\ casts'[k] = cast
      /\ \A j \in 1..Len(casts) : casts'[j] = casts[j]
  <2>1. casts' = Append(casts, cast)
    BY Zenon DEF Broadcast
  <2> HIDE DEF cast
  <2>2. QED
    BY <1>1, <2>1
<1>3. cast.index = index /\ cast.term = currentTerm[s]
  BY Zenon
<1>4. appendCalls' = appendCalls \cup
        IF "send" \in Preempt THEN {ReadyCall(s, d, k) : d \in Peers(s)}
        ELSE IF state[s] # Leader THEN {}
        ELSE {AppendRequest(s, d, k, cast, l, nextIndex[s][d]) : d \in Peers(s)}
  BY Zenon DEF Broadcast
<1> HIDE DEF cast
<1>5. ASSUME NEW c \in appendCalls
      PROVE  c \in AppendCall /\ c.stage # "act" /\ CallInRange(c)'
  <2>1. c \in AppendCall /\ c.src \in Server /\ c.stage # "act" /\ CallInRange(c)
    BY Zenon, <1>5 DEF ProtocolTypeOK, AppendCall, IndexInRange
  <2>2. Advances(c.src)
    BY <2>1, AdvancesAll
  <2>3. /\ currentTerm'[c.src] \in Nat /\ log'[c.src] \in Seq(Entry)
        /\ Len(casts') >= Len(casts)
    BY <1>1, <1>2, <2>1
  <2>4. QED
    BY SMTT(60), <1>2, <1>5, <2>1, <2>2, <2>3, CallStays
<1>6. k \in 1..Len(casts')
  BY <1>2
<1>7. ASSUME "send" \in Preempt, NEW d \in Peers(s), NEW c, c = ReadyCall(s, d, k)
      PROVE  c \in AppendCall /\ c.stage # "act" /\ CallInRange(c)'
  <2>1. d \in Server /\ cast.term <= currentTerm'[s] /\ cast.index <= Len(l)
    BY <1>1, <1>3, <1>7 DEF Peers
  <2>2. QED
    BY Zenon, <1>1, <1>2, <1>6, <1>7, <2>1, ReadyCallInRange
<1>8. ASSUME state[s] = Leader, NEW d \in Peers(s),
             NEW c, c = AppendRequest(s, d, k, cast, l, nextIndex[s][d])
      PROVE  c \in AppendCall /\ c.stage # "act" /\ CallInRange(c)'
  <2>1. d \in Server /\ cast.term <= currentTerm'[s] /\ cast.index <= Len(l)
    BY <1>1, <1>3, <1>8 DEF Peers
  <2>2. nextIndex[s][d] \in 1..(Len(log[s]) + 1)
    BY Zenon, <1>8, <2>1 DEF IndexInRange, LeaderIndexes
  <2>3. nextIndex[s][d] \in 1..(Len(l) + 1)
    BY <1>1, <2>2
  <2>4. log'[s] = l /\ casts'[k] = cast /\ cast \in Cast
    BY Zenon, <1>1, <1>2
  <2> HIDE DEF k
  <2>5. QED
    BY Zenon, <1>6, <1>8, <2>1, <2>3, <2>4, AppendRequestInRange
<1>9. ASSUME NEW c \in appendCalls'
      PROVE  c \in AppendCall /\ c.stage # "act" /\ CallInRange(c)'
  <2>1. CASE c \in appendCalls
    BY Zenon, <1>5, <2>1
  <2>2. CASE c \notin appendCalls /\ "send" \in Preempt
    BY Zenon, <1>4, <1>7, <1>9, <2>2
  <2>3. CASE c \notin appendCalls /\ "send" \notin Preempt
    BY Zenon, <1>4, <1>8, <1>9, <2>3
  <2>4. QED
    BY Zenon, <2>1, <2>2, <2>3
<1>10. QED
  BY <1>2, <1>9

(* Start: appending, persisting and broadcasting a command keeps the       *)
(* invariant.                                                              *)
LEMMA AppendCommandStep ==
  ASSUME IndexInv, NEW s \in Server, NEW cmd \in Command, AppendCommand(s, cmd),
         starting' \subseteq Server
  PROVE  StepOK
<1> DEFINE e == [term |-> currentTerm[s], cmd |-> cmd]
<1> USE DEF IndexInv
<1>1. /\ currentTerm[s] \in Nat /\ voteFor[s] \in Vote /\ e \in Entry
      /\ log[s] \in Seq(Entry) /\ Len(log[s]) \in Nat
  BY ZenonT(60), LenNat DEF ProtocolTypeOK, Entry, Term
<1>2. log' = [log EXCEPT ![s] = Append(log[s], e)]
  BY DEF AppendCommand
<1>3. UNCHANGED <<currentTerm, voteFor, state, nextIndex, commitIndex, voteCalls,
                  crashes, losses, elections>>
      /\ Broadcast(s, log'[s], Len(log[s]) + 1) /\ Persist(s)
  BY Zenon DEF AppendCommand, applyVars, bounds
<1> HIDE DEF e
<1>4. Append(log[s], e) \in Seq(Entry) /\ Len(Append(log[s], e)) = Len(log[s]) + 1
  BY <1>1
<1>5. /\ log'[s] = Append(log[s], e) /\ log' \in [Server -> Seq(Entry)]
      /\ \A t \in Server \ {s} : log'[t] = log[t]
  BY Zenon, <1>2, <1>4 DEF ProtocolTypeOK
<1>6. OnlyPeer(s) /\ Advances(s)
  BY <1>1, <1>3, <1>4, <1>5 DEF OnlyPeer, Advances
<1>7. /\ PersistedIsCurrent'
      /\ persisted' \in [Server -> [term : Term, vote : Vote, log : Seq(Entry)]]
  BY Zenon, <1>1, <1>3, <1>4, <1>5, <1>6, PersistStep
<1>8. /\ casts' \in Seq(Cast) /\ appendCalls' \subseteq AppendCall
      /\ \A c \in appendCalls' : CallInRange(c)'
      /\ \A c \in appendCalls' : c.stage # "act"
  <2> DEFINE l == Append(log[s], e)
             index == Len(log[s]) + 1
  <2>1. l \in Seq(Entry) /\ index \in Nat /\ index <= Len(l) /\ Len(log[s]) <= Len(l)
    BY <1>1, <1>4
  <2>2. log'[s] = l /\ Broadcast(s, l, index)
    BY Zenon, <1>3, <1>5
  <2> HIDE DEF l, index
  <2>3. QED
    BY Zenon, <1>3, <1>5, <1>6, <2>1, <2>2, BroadcastCalls
<1>9. ProtocolTypeOK'
  BY Zenon, <1>3, <1>5, <1>7, <1>8 DEF ProtocolTypeOK
<1>10. LeaderIndexes'
  <2>1. SUFFICES ASSUME NEW t \in Server, state[t] = Leader, NEW d \in Server
                 PROVE  nextIndex[t][d] \in 1..(Len(log'[t]) + 1)
    BY Zenon, <1>3 DEF LeaderIndexes
  <2>2. nextIndex[t][d] \in 1..(Len(log[t]) + 1)
    BY Zenon, <2>1 DEF IndexInRange, LeaderIndexes
  <2>3. Len(log[t]) \in Nat /\ Len(log'[t]) \in Nat /\ Len(log[t]) <= Len(log'[t])
    <3>1. log[t] \in Seq(Entry) /\ log'[t] \in Seq(Entry)
      BY Zenon, <1>5 DEF ProtocolTypeOK
    <3>2. Len(log[t]) \in Nat /\ Len(log'[t]) \in Nat
      BY <3>1
    <3>3. CASE t = s
      BY <1>1, <1>4, <1>5, <3>2, <3>3
    <3>4. CASE t # s
      BY <1>5, <3>2, <3>4
    <3>5. QED
      BY Zenon, <3>2, <3>3, <3>4
  <2>4. QED
    BY <2>2, <2>3
<1>11. \A t \in Server : Advances(t)
  BY <1>6, AdvancesAll
<1>12. QED
  BY <1>7, <1>8, <1>9, <1>10, <1>11 DEF StepOK, IndexInRange

(* broadcastHeartbeat keeps the invariant.                                 *)
LEMMA BroadcastHeartbeatStep ==
  ASSUME IndexInv, NEW s \in Server, BroadcastHeartbeat(s)
  PROVE  StepOK
<1> USE DEF IndexInv
<1>1. log[s] \in Seq(Entry) /\ \A t \in Server : Len(log[t]) \in Nat
  BY DEF ProtocolTypeOK
<1>2. UNCHANGED <<currentTerm, voteFor, log, persisted, state, nextIndex,
                  commitIndex, voteCalls, starting, crashes, losses, elections>>
      /\ Broadcast(s, log[s], Len(log[s]))
  BY DEF BroadcastHeartbeat, applyVars, bounds
<1>3. OnlyPeer(s) /\ \A t \in Server : Advances(t)
  BY <1>1, <1>2 DEF OnlyPeer, Advances
<1>4. /\ casts' \in Seq(Cast) /\ appendCalls' \subseteq AppendCall
      /\ \A c \in appendCalls' : CallInRange(c)'
      /\ \A c \in appendCalls' : c.stage # "act"
  <2>1. /\ Len(log[s]) \in Nat /\ Len(log[s]) <= Len(log[s])
        /\ log'[s] = log[s] /\ log' \in [Server -> Seq(Entry)]
    BY <1>1, <1>2 DEF ProtocolTypeOK
  <2>2. QED
    BY Zenon, <1>1, <1>2, <1>3, <2>1, BroadcastCalls
<1>5. ProtocolTypeOK' /\ PersistedIsCurrent'
  BY Zenon, <1>2, <1>4 DEF ProtocolTypeOK, PersistedIsCurrent
<1>6. LeaderIndexes'
  BY Zenon, <1>2, <1>5, LeadersStay
<1>7. QED
  BY <1>3, <1>4, <1>5, <1>6 DEF StepOK, IndexInRange

(* One goroutine replaces its call; nothing else moves but rf.nextIndex.   *)
LEMMA CallReplaced ==
  ASSUME IndexInv, NEW c \in appendCalls, NEW new,
         \A d \in new : d \in AppendCall /\ d.stage # "act" /\ CallInRange(d)',
         appendCalls' = (appendCalls \ {c}) \cup new,
         UNCHANGED <<currentTerm, voteFor, log, persisted, state, commitIndex,
                     voteCalls, casts, starting, bounds>>,
         nextIndex' \in [Server -> [Server -> Nat]], LeaderIndexes'
  PROVE  StepOK
<1> USE DEF IndexInv
<1>1. \A t \in Server : Advances(t)
  <2>1. \A t \in Server : Len(log[t]) \in Nat
    BY DEF ProtocolTypeOK
  <2>2. QED
    BY <2>1 DEF Advances
<1>2. ASSUME NEW d \in appendCalls PROVE CallInRange(d)'
  <2>1. CallInRange(d) /\ d.src \in Server
    BY Zenon DEF IndexInRange, ProtocolTypeOK, AppendCall
  <2>2. QED
    BY Zenon, <2>1 DEF CallInRange
<1>3. ProtocolTypeOK' /\ PersistedIsCurrent'
  BY Zenon DEF ProtocolTypeOK, PersistedIsCurrent, bounds
<1>4. QED
  BY <1>1, <1>2, <1>3 DEF StepOK, IndexInRange

(* The tests after the retry label and the args they guard keep the        *)
(* invariant.                                                              *)
LEMMA SendAppendStep ==
  ASSUME IndexInv, NEW c \in appendCalls, SendAppend(c)
  PROVE  StepOK
<1> DEFINE s    == c.src
           cast == casts[c.cid]
           next == nextIndex[s][c.dst]
           sent == AppendRequest(s, c.dst, c.cid, cast, log[s], next)
           new  == IF state[s] = Leader /\ currentTerm[s] = cast.term
                     THEN {sent} ELSE {}
<1> USE DEF IndexInv
<1>1. /\ s \in Server /\ c.dst \in Server /\ c.stage = "ready"
      /\ casts \in Seq(Cast) /\ CallInRange(c) /\ log[s] \in Seq(Entry)
      /\ currentTerm[s] \in Nat
  BY ZenonT(60) DEF ProtocolTypeOK, AppendCall, SendAppend, IndexInRange, Term
<1>2. c.cid \in 1..Len(casts) /\ cast.term <= currentTerm[s]
  BY Zenon, <1>1 DEF CallInRange
<1>3. cast \in Cast
  BY <1>1, <1>2
<1>4. /\ UNCHANGED <<currentTerm, voteFor, log, persisted, state, nextIndex,
                     commitIndex, voteCalls, casts, starting, bounds>>
      /\ appendCalls' = (appendCalls \ {c}) \cup new
  BY Zenon DEF SendAppend, applyVars
<1>5. ASSUME NEW d \in new
      PROVE  d \in AppendCall /\ d.stage # "act" /\ CallInRange(d)'
  <2>1. state[s] = Leader /\ currentTerm[s] = cast.term /\ d = sent
    BY Zenon, <1>5
  <2>2. cast.index <= Len(log[s])
    BY Zenon, <1>1, <2>1 DEF CallInRange, Leader, Follower
  <2>3. next \in 1..(Len(log[s]) + 1)
    BY Zenon, <1>1, <2>1 DEF IndexInRange, LeaderIndexes
  <2>4. /\ c.cid \in 1..Len(casts') /\ casts'[c.cid] = cast /\ log'[s] = log[s]
        /\ cast.term <= currentTerm'[s]
    BY Zenon, <1>2, <1>4
  <2> HIDE DEF s, cast, next
  <2>5. QED
    BY Zenon, <1>1, <1>3, <2>1, <2>2, <2>3, <2>4, AppendRequestInRange
<1>6. LeaderIndexes' /\ nextIndex' \in [Server -> [Server -> Nat]]
  BY Zenon, <1>4 DEF ProtocolTypeOK, IndexInRange, LeaderIndexes
<1> HIDE DEF new
<1>7. QED
  BY ZenonT(60), <1>4, <1>5, <1>6, CallReplaced

(* What AppendEntries leaves in the log is a log.                          *)
LEMMA ReplicatedType ==
  ASSUME NEW l \in Seq(Entry), NEW prev \in Nat, prev <= Len(l),
         NEW entries \in Seq(Entry)
  PROVE  Replicated(l, prev, entries) \in Seq(Entry)
<1>1. SubSeq(l, 1, prev) \in Seq(Entry)
  <2>1. \A i \in 1..prev : l[i] \in Entry
    OBVIOUS
  <2>2. QED
    BY <2>1
<1>2. SubSeq(l, 1, prev) \o entries \in Seq(Entry)
  BY <1>1
<1>3. QED
  BY <1>2 DEF Replicated

(* What AppendEntries answers is an RPC record.                            *)
LEMMA AppendAnswerType ==
  ASSUME NEW c \in AppendCall, NEW term \in Nat, NEW success \in BOOLEAN,
         NEW cterm \in Nat, NEW cfirst \in Nat
  PROVE  AppendAnswer(c, term, success, cterm, cfirst) \in AppendCall
<1>1. <<>> \in Seq(Entry)
  OBVIOUS
<1>2. QED
  BY ZenonT(60), <1>1 DEF AppendAnswer, AppendCall, AppendStages, Term

(* A reply is a call, and its conflict index lies at or before the index   *)
(* that was tested: AppendEntries never rejects prevLogIndex 0.            *)
LEMMA AppendReplyType ==
  ASSUME BacktrackDefined, ProtocolTypeOK, NEW c \in AppendCall, NEW s \in Server,
         c.prevLogIndex = 0 => c.prevLogTerm = 0,
         NEW a, a = AppendReply(c, s)
  PROVE  /\ a \in AppendCall /\ a.stage = "reply" /\ a.prevLogTerm = 0
         /\ a.src = c.src /\ a.cid = c.cid /\ a.term = c.term
         /\ a.prevLogIndex = c.prevLogIndex
         /\ ~a.success /\ a.rterm <= a.term => a.conflictFirst \in 1..a.prevLogIndex
<1> DEFINE prev == c.prevLogIndex
<1>1. /\ log[s] \in Seq(Entry) /\ Len(log[s]) \in Nat /\ currentTerm[s] \in Nat
      /\ c.term \in Nat /\ prev \in Nat
  BY DEF ProtocolTypeOK, AppendCall, Term
<1>2. /\ a.stage = "reply" /\ a.prevLogTerm = 0
      /\ a.src = c.src /\ a.cid = c.cid /\ a.term = c.term
      /\ a.prevLogIndex = c.prevLogIndex
  BY Zenon DEF AppendReply, AppendAnswer, AppendCall
<1>3. CASE c.term < currentTerm[s]
  <2>1. a = AppendAnswer(c, currentTerm[s], FALSE, 0, 0)
    BY Zenon, <1>3 DEF AppendReply
  <2>2. a \in AppendCall
    BY ZenonT(60), <1>1, <2>1, AppendAnswerType
  <2>3. a.rterm = currentTerm[s]
    BY <2>1 DEF AppendAnswer, AppendCall
  <2>4. ~(a.rterm <= a.term)
    BY <1>1, <1>2, <1>3, <2>3
  <2>5. QED
    BY Zenon, <1>2, <2>2, <2>4
<1>4. CASE ~(c.term < currentTerm[s]) /\ Consistent(log[s], prev, c.prevLogTerm)
  <2>1. a = AppendAnswer(c, c.term, TRUE, 0, 0)
    BY Zenon, <1>4 DEF AppendReply
  <2>2. a \in AppendCall
    BY ZenonT(60), <1>1, <2>1, AppendAnswerType
  <2>3. a.success
    BY Zenon, <2>1 DEF AppendAnswer, AppendCall
  <2>4. QED
    BY Zenon, <1>2, <2>2, <2>3
<1>5. CASE /\ ~(c.term < currentTerm[s])
           /\ ~Consistent(log[s], prev, c.prevLogTerm)
           /\ Len(log[s]) < prev
  <2>1. a = AppendAnswer(c, c.term, FALSE, 0, Len(log[s]) + 1)
    BY Zenon, <1>5 DEF AppendReply
  <2>2. Len(log[s]) + 1 \in 1..prev
    BY <1>1, <1>5
  <2>3. a \in AppendCall
    <3>1. Len(log[s]) + 1 \in Nat
      BY <1>1
    <3>2. QED
      BY ZenonT(60), <1>1, <2>1, <3>1, AppendAnswerType
  <2>4. a.conflictFirst = Len(log[s]) + 1
    BY <2>1 DEF AppendAnswer, AppendCall
  <2>5. QED
    BY Zenon, <1>2, <2>2, <2>3, <2>4
<1>6. CASE /\ ~(c.term < currentTerm[s])
           /\ ~Consistent(log[s], prev, c.prevLogTerm)
           /\ ~(Len(log[s]) < prev)
  <2> DEFINE cterm == log[s][prev].term
             cfirst == RunStart(log[s], prev)
  <2>1. a = AppendAnswer(c, c.term, FALSE, cterm, cfirst)
    BY Zenon, <1>6 DEF AppendReply
  <2>2. prev >= 1
    BY <1>1, <1>6 DEF Consistent, TermAt
  <2>3. cfirst \in 1..prev
    BY <1>1, <2>2, ZenonT(60) DEF BacktrackDefined
  <2>4. cterm \in Nat
    <3>1. prev \in 0..Len(log[s]) /\ prev # 0
      BY <1>1, <1>6, <2>2
    <3>2. TermAt(log[s], prev) \in Nat
      BY Zenon, <1>1, <3>1, TermAtType
    <3>3. QED
      BY Zenon, <3>1, <3>2 DEF TermAt
  <2> HIDE DEF cterm, cfirst
  <2>5. a \in AppendCall
    <3>1. cfirst \in Nat
      BY <2>3
    <3>2. QED
      BY ZenonT(60), <1>1, <2>1, <2>4, <3>1, AppendAnswerType
  <2>6. a.conflictFirst = cfirst
    BY Zenon, <2>1 DEF AppendAnswer, AppendCall
  <2>7. QED
    BY Zenon, <1>2, <2>3, <2>5, <2>6
<1>7. QED
  BY <1>3, <1>4, <1>5, <1>6

(* The AppendEntries handler keeps the invariant.                          *)
LEMMA HandleAppendEntriesStep ==
  ASSUME BacktrackDefined, IndexInv, NEW c \in appendCalls, HandleAppendEntries(c)
  PROVE  StepOK
<1> DEFINE s      == c.dst
           prev   == c.prevLogIndex
           newer  == currentTerm[s] < c.term
           accept == currentTerm[s] <= c.term /\ Consistent(log[s], prev, c.prevLogTerm)
           l      == Replicated(log[s], prev, c.entries)
           ci     == NewCommitIndex(commitIndex[s], c.leaderCommit, prev + Len(c.entries))
<1> USE DEF IndexInv
<1>1. /\ c \in AppendCall /\ s \in Server /\ c.src \in Server
      /\ c.term \in Nat /\ prev \in Nat /\ c.entries \in Seq(Entry)
      /\ c.leaderCommit \in Nat /\ c.stage \in {"request", "orphan"}
      /\ CallInRange(c)
  BY Zenon DEF ProtocolTypeOK, AppendCall, Term, HandleAppendEntries, IndexInRange
<1>2. /\ currentTerm[s] \in Nat /\ voteFor[s] \in Vote /\ commitIndex[s] \in Nat
      /\ log[s] \in Seq(Entry) /\ Len(log[s]) \in Nat /\ Len(c.entries) \in Nat
  <2>1. /\ currentTerm[s] \in Nat /\ voteFor[s] \in Vote /\ commitIndex[s] \in Nat
        /\ log[s] \in Seq(Entry)
    BY Zenon, <1>1 DEF ProtocolTypeOK, Term
  <2>2. QED
    BY <1>1, <2>1
<1>3. accept => l \in Seq(Entry)
  BY Zenon, <1>1, <1>2, ReplicatedType DEF Consistent
<1>4. ci \in Nat
  BY <1>1, <1>2 DEF NewCommitIndex
<1> HIDE DEF accept, l, ci
<1>5. /\ currentTerm' = IF newer THEN [currentTerm EXCEPT ![s] = c.term]
                                 ELSE currentTerm
      /\ voteFor' = IF newer THEN [voteFor EXCEPT ![s] = None] ELSE voteFor
      /\ state' = [state EXCEPT ![s] = IF newer \/ accept THEN Follower ELSE @]
      /\ log' = [log EXCEPT ![s] = IF accept THEN l ELSE log[s]]
      /\ commitIndex' = [commitIndex EXCEPT ![s] = IF accept THEN ci ELSE @]
      /\ appendCalls' = (appendCalls \ {c}) \cup
           IF c.stage = "orphan" THEN {} ELSE {AppendReply(c, s)}
      /\ UNCHANGED <<applied, nextIndex, voteCalls, casts, starting, bounds>>
      /\ IF newer \/ accept THEN Persist(s) ELSE UNCHANGED persisted
  BY Zenon DEF HandleAppendEntries, accept, l, ci
<1>6. /\ currentTerm' \in [Server -> Term]
      /\ voteFor' \in [Server -> Vote]
      /\ state' \in [Server -> {Follower, Candidate, Leader}]
      /\ log' \in [Server -> Seq(Entry)]
      /\ commitIndex' \in [Server -> Nat]
  BY ZenonT(60), <1>1, <1>2, <1>3, <1>4, <1>5 DEF ProtocolTypeOK, Term, Vote
<1>7. OnlyPeer(s)
  BY Zenon, <1>5 DEF OnlyPeer, ProtocolTypeOK
<1>8. /\ PersistedIsCurrent'
      /\ persisted' \in [Server -> [term : Term, vote : Vote, log : Seq(Entry)]]
  <2>1. CASE newer \/ accept
    BY Zenon, <1>1, <1>5, <1>6, <1>7, <2>1, PersistStep DEF Term
  <2>2. CASE ~(newer \/ accept)
    <3>1. currentTerm' = currentTerm /\ voteFor' = voteFor /\ log' = log
      BY Zenon, <1>5, <2>2 DEF ProtocolTypeOK
    <3>2. QED
      BY Zenon, <1>5, <2>2, <3>1 DEF ProtocolTypeOK, PersistedIsCurrent
  <2>3. QED
    BY Zenon, <2>1, <2>2
<1>9. Advances(s)
  <2>1. CASE newer
    BY Zenon, <1>1, <1>2, <1>5, <2>1 DEF Advances, ProtocolTypeOK
  <2>2. CASE ~newer
    <3>1. currentTerm'[s] = currentTerm[s] /\ voteFor'[s] = voteFor[s]
      BY Zenon, <1>5, <2>2
    <3>2. state'[s] # Follower => state[s] # Follower /\ Len(log'[s]) >= Len(log[s])
      BY <1>1, <1>2, <1>5 DEF ProtocolTypeOK
    <3>3. QED
      BY Zenon, <3>1, <3>2 DEF Advances
  <2>3. QED
    BY Zenon, <2>1, <2>2
<1>10. \A t \in Server : Advances(t)
  BY Zenon, <1>1, <1>7, <1>9, AdvancesAll
<1>11. ASSUME NEW d \in appendCalls PROVE CallInRange(d)'
  <2>1. d.src \in Server /\ CallInRange(d)
    BY Zenon DEF ProtocolTypeOK, AppendCall, IndexInRange
  <2>2. /\ currentTerm'[d.src] \in Nat /\ log'[d.src] \in Seq(Entry)
        /\ Len(casts') >= Len(casts) /\ casts' \in Seq(Cast) /\ casts' = casts
    <3>1. casts' = casts /\ casts \in Seq(Cast)
      BY Zenon, <1>5 DEF ProtocolTypeOK
    <3>2. Len(casts) \in Nat
      BY <3>1
    <3>3. currentTerm'[d.src] \in Nat /\ log'[d.src] \in Seq(Entry)
      BY Zenon, <1>6, <2>1 DEF Term
    <3>4. QED
      BY <3>1, <3>2, <3>3
  <2>3. QED
    BY Zenon, <1>10, <2>1, <2>2, CallStays
<1>12. ASSUME c.stage # "orphan", NEW a, a = AppendReply(c, s)
       PROVE  a \in AppendCall /\ a.stage # "act" /\ CallInRange(a)'
  <2>1. c.prevLogIndex = 0 => c.prevLogTerm = 0
    BY Zenon, <1>1 DEF CallInRange
  <2>2. /\ a \in AppendCall /\ a.stage = "reply" /\ a.prevLogTerm = 0
        /\ a.src = c.src /\ a.cid = c.cid /\ a.term = c.term
        /\ a.prevLogIndex = c.prevLogIndex
        /\ ~a.success /\ a.rterm <= a.term => a.conflictFirst \in 1..a.prevLogIndex
    BY <1>1, <1>12, <2>1, AppendReplyType
  <2>3. CallInRange(c)' /\ c.stage = "request"
    BY Zenon, <1>1, <1>11, <1>12
  <2>4. QED
    BY Zenon, <2>2, <2>3 DEF CallInRange
<1>13. ASSUME NEW d \in appendCalls'
       PROVE  d \in AppendCall /\ d.stage # "act" /\ CallInRange(d)'
  BY Zenon, <1>5, <1>11, <1>12, <1>13 DEF ProtocolTypeOK
<1>14. ProtocolTypeOK'
  BY Zenon, <1>5, <1>6, <1>8, <1>13 DEF ProtocolTypeOK, bounds
<1>15. LeaderIndexes'
  <2>1. \A t \in Server : state'[t] = Leader =>
          state[t] = Leader /\ log'[t] = log[t]
    BY Zenon, <1>1, <1>5 DEF ProtocolTypeOK, Leader, Follower
  <2>2. QED
    BY Zenon, <1>5, <2>1 DEF LeaderIndexes, IndexInRange
<1>16. QED
  BY <1>8, <1>10, <1>13, <1>14, <1>15 DEF StepOK, IndexInRange

(* Handling a rejected AppendEntries, retry included, keeps the invariant. *)
LEMMA ActOnRejectionStep ==
  ASSUME BacktrackDefined, IndexInv, NEW c \in appendCalls, c.stage = "reply",
         currentTerm[c.src] = c.term, ActOnRejection(c),
         UNCHANGED <<applied, voteCalls, starting, bounds>>
  PROVE  StepOK
<1> DEFINE s     == c.src
           cast  == casts[c.cid]
           next  == GetNextIndex(log[s], c.conflictTerm, c.conflictFirst, c.prevLogIndex + 1)
           retry == IF "send" \in Preempt THEN {ReadyCall(s, c.dst, c.cid)}
                    ELSE IF state[s] # Leader THEN {}
                    ELSE {AppendRequest(s, c.dst, c.cid, cast, log[s], next)}
<1> USE DEF IndexInv
<1>1. /\ c \in AppendCall /\ s \in Server /\ c.dst \in Server /\ c.rterm \in Nat
      /\ c.term \in Nat /\ c.prevLogIndex \in Nat /\ CallInRange(c)
  BY ZenonT(60) DEF ProtocolTypeOK, AppendCall, Term, IndexInRange
<1>2. CASE c.term < c.rterm
  <2>1. /\ StepDown(s, c.rterm) /\ appendCalls' \subseteq appendCalls
        /\ UNCHANGED <<nextIndex, commitIndex, casts>>
    BY <1>1, <1>2 DEF ActOnRejection
  <2>2. QED
    BY <1>1, <1>2, <2>1, StepDownStep
<1>3. CASE ~(c.term < c.rterm)
  <2>1. /\ nextIndex' = [nextIndex EXCEPT ![s][c.dst] = next]
        /\ appendCalls' = (appendCalls \ {c}) \cup retry
        /\ UNCHANGED <<currentTerm, voteFor, log, state, persisted, commitIndex, casts>>
        /\ ~c.success
    BY Zenon, <1>1, <1>3 DEF ActOnRejection
  <2>2. /\ c.cid \in 1..Len(casts) /\ cast.term = currentTerm[s]
        /\ c.conflictFirst \in 1..c.prevLogIndex
        /\ state[s] # Follower => /\ cast.index <= Len(log[s])
                                  /\ c.prevLogIndex <= Len(log[s])
    BY <1>1, <1>3, <2>1 DEF CallInRange
  <2>3. next \in 1..(c.prevLogIndex + 1)
    <3>1. /\ c.prevLogIndex + 1 \in Nat /\ c.conflictFirst \in Nat
          /\ 1 <= c.conflictFirst /\ c.conflictFirst < c.prevLogIndex + 1
      BY <1>1, <2>2, SMTT(30)
    <3>2. log[s] \in Seq(Entry) /\ c.conflictTerm \in Nat
      BY Zenon, <1>1 DEF ProtocolTypeOK, AppendCall, Term
    <3>3. QED
      BY <3>1, <3>2, ZenonT(60) DEF BacktrackDefined
  <2>4. cast \in Cast /\ log[s] \in Seq(Entry) /\ Len(log[s]) \in Nat
        /\ currentTerm[s] \in Nat
    BY <1>1, <2>2 DEF ProtocolTypeOK
  <2> HIDE DEF next, cast
  <2>5. ASSUME state[s] = Leader PROVE next \in 1..(Len(log[s]) + 1)
    <3>1. c.prevLogIndex <= Len(log[s])
      BY Zenon, <2>2, <2>5 DEF Leader, Follower
    <3>2. QED
      BY <1>1, <2>3, <2>4, <3>1, SMTT(30)
  <2>6. next \in Nat
    BY <1>1, <2>3
  <2>7. LeaderIndexes' /\ nextIndex' \in [Server -> [Server -> Nat]]
    <3>1. nextIndex' \in [Server -> [Server -> Nat]]
      BY Zenon, <1>1, <2>1, <2>6 DEF ProtocolTypeOK
    <3>2. SUFFICES ASSUME NEW t \in Server, state[t] = Leader, NEW d \in Server
                   PROVE  nextIndex'[t][d] \in 1..(Len(log[t]) + 1)
      BY Zenon, <2>1, <3>1 DEF LeaderIndexes
    <3>3. CASE t = s /\ d = c.dst
      BY Zenon, <1>1, <2>1, <2>5, <3>2, <3>3 DEF ProtocolTypeOK
    <3>4. CASE ~(t = s /\ d = c.dst)
      <4>1. nextIndex'[t][d] = nextIndex[t][d]
        BY Zenon, <1>1, <2>1, <3>4 DEF ProtocolTypeOK
      <4>2. QED
        BY Zenon, <3>2, <4>1 DEF LeaderIndexes, IndexInRange
    <3>5. QED
      BY Zenon, <3>3, <3>4
  <2>8. ASSUME NEW d \in retry
        PROVE  d \in AppendCall /\ d.stage # "act" /\ CallInRange(d)'
    <3>1. /\ c.cid \in 1..Len(casts') /\ casts'[c.cid] = cast
          /\ log'[s] = log[s] /\ cast.term <= currentTerm'[s]
      BY <2>1, <2>2, <2>4 DEF cast
    <3>2. CASE "send" \in Preempt
      BY Zenon, <1>1, <2>1, <2>2, <2>4, <2>8, <3>1, <3>2, ReadyCallInRange
    <3>3. CASE "send" \notin Preempt
      <4>1. state[s] = Leader /\ d = AppendRequest(s, c.dst, c.cid, cast, log[s], next)
        BY Zenon, <2>8, <3>3
      <4>2. next \in 1..(Len(log[s]) + 1) /\ cast.index <= Len(log[s])
        BY Zenon, <2>2, <2>5, <4>1 DEF Leader, Follower
      <4>3. QED
        BY ZenonT(60), <1>1, <2>4, <3>1, <4>1, <4>2, AppendRequestInRange
    <3>4. QED
      BY Zenon, <3>2, <3>3
  <2> HIDE DEF retry
  <2>9. QED
    BY ZenonT(60), <2>1, <2>7, <2>8, CallReplaced
<1>4. QED
  BY <1>2, <1>3

(* Counting a successful AppendEntries and committing keeps the invariant. *)
LEMMA ActOnSuccessStep ==
  ASSUME IndexInv, NEW c \in appendCalls, c.stage = "reply",
         currentTerm[c.src] = c.term, ActOnSuccess(c),
         UNCHANGED <<applied, voteCalls, starting, bounds>>
  PROVE  StepOK
<1> DEFINE s     == c.src
           k     == casts[c.cid]
           agree == ~k.isAgree /\ state[s] = Leader /\ k.nReplica + 1 >= Majority
           n     == k.nReplica + 1
           done  == k.isAgree \/ agree
           k2    == [k EXCEPT !.nReplica = n, !.isAgree = done]
<1> USE DEF IndexInv
<1>1. /\ s \in Server /\ c.dst \in Server /\ CallInRange(c) /\ casts \in Seq(Cast)
      /\ log[s] \in Seq(Entry) /\ Len(log[s]) \in Nat
  BY ZenonT(60), LenNat DEF ProtocolTypeOK, AppendCall, IndexInRange
<1>2. /\ c.cid \in 1..Len(casts) /\ k.term = currentTerm[s]
      /\ state[s] # Follower => k.index <= Len(log[s])
  BY Zenon, <1>1 DEF CallInRange
<1>3. k \in Cast /\ k.index \in Nat
  <2>1. k \in Cast
    BY <1>1, <1>2
  <2>2. QED
    BY Zenon, <2>1 DEF Cast
<1>4. agree \in BOOLEAN
  BY Zenon
<1>5. /\ nextIndex' = [nextIndex EXCEPT ![s][c.dst] =
           IF @ < k.index + 1 THEN k.index + 1 ELSE @]
      /\ commitIndex' = [commitIndex EXCEPT ![s] =
           IF agree /\ MayCommit(s, k.index) THEN k.index ELSE @]
      /\ appendCalls' \subseteq appendCalls
      /\ casts' = [casts EXCEPT ![c.cid].nReplica = @ + 1,
                                ![c.cid].isAgree = @ \/ agree]
      /\ UNCHANGED <<currentTerm, voteFor, log, state, persisted>>
  BY Zenon DEF ActOnSuccess
<1> HIDE DEF agree
<1>6. k2 \in Cast /\ k2.term = k.term /\ k2.index = k.index
  <2> HIDE DEF k
  <2>1. n \in Nat
    BY <1>3 DEF Cast
  <2>2. done \in BOOLEAN
    OBVIOUS
  <2> HIDE DEF n, done
  <2>3. QED
    BY ZenonT(60), <1>3, <2>1, <2>2 DEF Cast
<1>7. casts' = [casts EXCEPT ![c.cid] = k2]
  BY ZenonT(60), <1>1, <1>2, <1>5
<1>8. /\ casts' \in Seq(Cast) /\ Len(casts') = Len(casts) /\ Len(casts) \in Nat
      /\ \A j \in 1..Len(casts) : casts'[j].term = casts[j].term
                                  /\ casts'[j].index = casts[j].index
  <2> HIDE DEF k2
  <2>1. /\ casts' \in Seq(Cast) /\ Len(casts') = Len(casts) /\ Len(casts) \in Nat
        /\ \A j \in 1..Len(casts) : casts'[j] = IF j = c.cid THEN k2 ELSE casts[j]
    BY <1>1, <1>2, <1>6, <1>7, CastSet
  <2>2. QED
    BY Zenon, <1>6, <2>1
<1> HIDE DEF k2, k
<1>9. /\ nextIndex' \in [Server -> [Server -> Nat]]
      /\ commitIndex' \in [Server -> Nat]
  <2>1. k.index + 1 \in Nat
    BY <1>3
  <2>2. nextIndex' \in [Server -> [Server -> Nat]]
    BY ZenonT(60), <1>1, <1>5, <2>1 DEF ProtocolTypeOK
  <2>3. commitIndex' \in [Server -> Nat]
    BY Zenon, <1>1, <1>3, <1>5 DEF ProtocolTypeOK
  <2>4. QED
    BY Zenon, <2>2, <2>3
<1>10. ProtocolTypeOK' /\ PersistedIsCurrent'
  BY ZenonT(60), <1>5, <1>8, <1>9 DEF ProtocolTypeOK, PersistedIsCurrent, bounds
<1>11. \A t \in Server : Advances(t)
  <2>1. \A t \in Server : Len(log[t]) \in Nat
    BY DEF ProtocolTypeOK
  <2>2. QED
    BY <1>5, <2>1 DEF Advances
<1>12. ASSUME NEW d \in appendCalls' PROVE CallInRange(d)' /\ d.stage # "act"
  <2>1. d \in appendCalls /\ CallInRange(d) /\ d.src \in Server /\ d.stage # "act"
    BY Zenon, <1>5, <1>12 DEF ProtocolTypeOK, AppendCall, IndexInRange
  <2>2. /\ currentTerm'[d.src] \in Nat /\ log'[d.src] \in Seq(Entry)
        /\ Len(casts') >= Len(casts)
    <3>1. currentTerm'[d.src] \in Nat /\ log'[d.src] \in Seq(Entry)
      BY Zenon, <1>5, <2>1 DEF ProtocolTypeOK, Term
    <3>2. QED
      BY <1>8, <3>1
  <2>3. QED
    BY Zenon, <1>8, <1>11, <2>1, <2>2, CallStays
<1>13. LeaderIndexes'
  <2>1. SUFFICES ASSUME NEW t \in Server, state[t] = Leader, NEW d \in Server
                 PROVE  nextIndex'[t][d] \in 1..(Len(log[t]) + 1)
    BY Zenon, <1>5 DEF LeaderIndexes
  <2>2. nextIndex[t][d] \in 1..(Len(log[t]) + 1)
    BY Zenon, <2>1 DEF LeaderIndexes, IndexInRange
  <2>3. CASE t = s /\ d = c.dst
    <3>1. nextIndex'[t][d] \in {nextIndex[t][d], k.index + 1}
      <4>1. nextIndex'[s][c.dst] = IF nextIndex[s][c.dst] < k.index + 1
                                   THEN k.index + 1 ELSE nextIndex[s][c.dst]
        BY ZenonT(60), <1>1, <1>5 DEF ProtocolTypeOK
      <4>2. QED
        BY Zenon, <2>3, <4>1
    <3>2. k.index <= Len(log[s])
      BY Zenon, <1>2, <2>1, <2>3 DEF Leader, Follower
    <3>3. k.index + 1 \in 1..(Len(log[s]) + 1)
      BY <1>1, <1>3, <3>2
    <3>4. QED
      BY Zenon, <2>2, <2>3, <3>1, <3>3
  <2>4. CASE ~(t = s /\ d = c.dst)
    <3>1. nextIndex'[t][d] = nextIndex[t][d]
      BY ZenonT(60), <1>1, <1>5, <2>4 DEF ProtocolTypeOK
    <3>2. QED
      BY Zenon, <2>2, <3>1
  <2>5. QED
    BY Zenon, <2>3, <2>4
<1>14. QED
  BY <1>10, <1>11, <1>12, <1>13 DEF StepOK, IndexInRange

(* The goroutine that wakes with an AppendEntries reply keeps the          *)
(* invariant.                                                              *)
LEMMA ReceiveAppendReplyStep ==
  ASSUME BacktrackDefined, "appendReply" \notin Preempt, IndexInv,
         NEW c \in appendCalls, ReceiveAppendReply(c)
  PROVE  StepOK
<1>1. c.stage = "reply"
  BY DEF ReceiveAppendReply
<1>2. CASE currentTerm[c.src] = c.term
  BY Zenon, <1>1, <1>2, ActOnRejectionStep, ActOnSuccessStep DEF ReceiveAppendReply,
         ActOnAppendReply
<1>3. CASE currentTerm[c.src] # c.term
  BY Zenon, <1>3, QuietStep DEF ReceiveAppendReply, IndexInv, ProtocolTypeOK,
         applyVars, bounds
<1>4. QED
  BY <1>2, <1>3

(* The invariant holds when every peer has run Make for the first time.    *)
LEMMA IndexInvInit == Init => IndexInv
<1> SUFFICES ASSUME Init PROVE IndexInv
  OBVIOUS
<1>1. ProtocolTypeOK
  <2>1. <<>> \in Seq(Entry) /\ <<>> \in Seq(Cast)
    OBVIOUS
  <2>2. QED
    BY Zenon, <2>1 DEF Init, ProtocolTypeOK, Term, Vote
<1>2. PersistedIsCurrent
  BY Zenon DEF Init, PersistedIsCurrent
<1>3. IndexInRange
  BY Zenon DEF Init, IndexInRange, LeaderIndexes, Leader, Follower
<1>4. QED
  BY <1>1, <1>2, <1>3 DEF IndexInv, Init

(* Every action keeps the invariant and advances every peer.               *)
LEMMA StepPreserves ==
  ASSUME BacktrackDefined, "appendReply" \notin Preempt, IndexInv, [Next]_vars
  PROVE  StepOK
<1>1. ASSUME NEW s \in Server, StartTest(s) PROVE StepOK
  BY Zenon, <1>1, QuietStep DEF StartTest, IndexInv, ProtocolTypeOK, applyVars,
         bounds
<1>2. ASSUME NEW s \in Server, NEW cmd \in Command, Start(s, cmd) \/ StartResume(s, cmd)
      PROVE  StepOK
  <2>1. AppendCommand(s, cmd) /\ starting' \subseteq Server
    BY Zenon, <1>2 DEF Start, StartResume, IndexInv, ProtocolTypeOK
  <2>2. QED
    BY <2>1, AppendCommandStep
<1>3. ASSUME NEW s \in Server, ApplyEntry(s) PROVE StepOK
  BY Zenon, <1>3, QuietStep DEF ApplyEntry, IndexInv, ProtocolTypeOK, appendVars,
         bounds
<1>4. ASSUME NEW c \in appendCalls, LoseAppend(c) PROVE StepOK
  <2>1. voteCalls' \subseteq VoteCall /\ starting' \subseteq Server
    BY Zenon, <1>4 DEF LoseAppend, IndexInv, ProtocolTypeOK
  <2>2. crashes' \in Nat /\ losses' \in Nat /\ elections' \in Nat
    BY <1>4 DEF LoseAppend, IndexInv, ProtocolTypeOK
  <2>3. QED
    BY Zenon, <1>4, <2>1, <2>2, QuietStep DEF LoseAppend, applyVars
<1>5. ASSUME NEW c \in appendCalls PROVE ~ResumeAppendReply(c)
  BY DEF ResumeAppendReply, IndexInv
<1>6. ASSUME NEW c \in voteCalls, ResumeVoteReply(c) PROVE StepOK
  BY <1>6, ActOnVoteReplyStep DEF ResumeVoteReply
<1>7. CASE UNCHANGED vars
  BY Zenon, <1>7, QuietStep DEF vars, IndexInv, ProtocolTypeOK
<1>8. CASE Next
  <2>1. ASSUME NEW s \in Server,
               \/ StartElection(s) \/ BroadcastHeartbeat(s) \/ StartTest(s)
               \/ \E cmd \in Command : Start(s, cmd) \/ StartResume(s, cmd)
               \/ ApplyEntry(s) \/ Crash(s)
        PROVE  StepOK
    BY Zenon, <1>1, <1>2, <1>3, <2>1, StartElectionStep, BroadcastHeartbeatStep,
       CrashStep
  <2>2. ASSUME NEW c \in voteCalls,
               \/ IssueVote(c) \/ HandleRequestVote(c) \/ ReceiveVoteReply(c)
               \/ ResumeVoteReply(c) \/ LoseVote(c)
        PROVE  StepOK
    BY Zenon, <1>6, <2>2, IssueVoteStep, HandleRequestVoteStep, ReceiveVoteReplyStep,
       LoseVoteStep
  <2>3. ASSUME NEW c \in appendCalls,
               \/ SendAppend(c) \/ HandleAppendEntries(c) \/ ReceiveAppendReply(c)
               \/ ResumeAppendReply(c) \/ LoseAppend(c)
        PROVE  StepOK
    BY Zenon, <1>4, <1>5, <2>3, SendAppendStep, HandleAppendEntriesStep,
       ReceiveAppendReplyStep
  <2>4. QED
    BY Zenon, <1>8, <2>1, <2>2, <2>3 DEF Next
<1>9. QED
  BY <1>7, <1>8
-----------------------------------------------------------------------------
(* Peer v is behind p in an election of term t: it is p, or it has voted.  *)
Backs(v, p, t) ==
  \E b \in voteCalls : /\ b.src = p /\ b.term = t
                       /\ v = p \/ (b.dst = v /\ Granted(b))

(* Nobody is behind two candidates of a term.                              *)
LEMMA BacksOne ==
  ASSUME ElectionInv, NEW v, NEW p, NEW q, NEW t, Backs(v, p, t), Backs(v, q, t)
  PROVE  p = q
<1>1. PICK b \in voteCalls : b.src = p /\ b.term = t /\ (v = p \/ (b.dst = v /\ Granted(b)))
  BY DEF Backs
<1>2. PICK c \in voteCalls : c.src = q /\ c.term = t /\ (v = q \/ (c.dst = v /\ Granted(c)))
  BY DEF Backs
<1>3. CASE v = p
  BY <1>1, <1>2, <1>3 DEF ElectionInv, NoRival
<1>4. CASE v # p
  BY <1>1, <1>2, <1>4 DEF ElectionInv, NoRival, VotesUnique
<1>5. QED
  BY <1>3, <1>4

(* Who is counted in a victory is behind the winner.                       *)
LEMMA WonBacked ==
  ASSUME ElectionInv, NEW p \in Server, NEW t, Won(p, t), NEW v \in {p} \cup Ballots(p, t)
  PROVE  Backs(v, p, t)
<1>1. ASSUME NEW d \in Ballots(p, t)
      PROVE  \E b \in voteCalls : b.src = p /\ b.term = t /\ b.dst = d /\ Granted(b)
  BY <1>1 DEF Ballots, ElectionInv, VoteCallOK, Granted
<1>2. PICK d : d \in Ballots(p, t)
  BY DEF Won
<1>3. QED
  BY <1>1, <1>2 DEF Backs

(* A call that a step does not touch keeps its facts.                      *)
LEMMA VoteCallStays ==
  ASSUME ProtocolTypeOK, ProtocolTypeOK', NEW c \in VoteCall, VoteCallOK(c),
         Advances(c.src), Advances(c.dst)
  PROVE  VoteCallOK(c)'
<1>1. /\ c.src \in Server /\ c.dst \in Server /\ c.term \in Nat
      /\ c.src # None
  BY NoneAssumption DEF VoteCall, Term
<1>2. ASSUME NEW s \in Server, Advances(s), VotedIn(s, c, c.src)
      PROVE  VotedIn(s, c, c.src)'
  <2>1. currentTerm[s] \in Nat /\ currentTerm'[s] \in Nat
    BY Zenon DEF ProtocolTypeOK, Term
  <2>2. QED
    BY <1>1, <1>2, <2>1 DEF Advances, VotedIn
<1>3. QED
  BY <1>1, <1>2 DEF VoteCallOK, Granted

(* A step in which no peer becomes a leader and a candidate is one of a    *)
(* new term or remains one.                                                *)
Calm ==
  \A t \in Server :
    \/ state'[t] = Follower
    \/ /\ currentTerm'[t] = currentTerm[t] /\ voteFor'[t] = voteFor[t]
       /\ state'[t] = state[t]
    \/ /\ state'[t] = Candidate /\ voteFor'[t] = t
       /\ \A c \in voteCalls : c.src = t => c.elec # currentTerm'[t]

(* The step counts no vote.                                                *)
CountsNone == \A c : c.stage = "counted" => (c \in voteCalls <=> c \in voteCalls')

(* Without new counted votes nobody's victory changes.                     *)
LEMMA CalmStep ==
  ASSUME ElectionInv, Calm, CountsNone
  PROVE  /\ Winners'
         /\ \A p \in Server : \A t : Won(p, t) => Won(p, t)'
         /\ \A p \in Server : state'[p] = Leader =>
              state[p] = Leader /\ currentTerm'[p] = currentTerm[p]
<1> DEFINE Counted(p, t) ==
             {v \in voteCalls : v.src = p /\ v.elec = t /\ v.stage = "counted"}
<1>1. \A p, t : {v \in voteCalls' : v.src = p /\ v.elec = t /\ v.stage = "counted"}
               = Counted(p, t)
  BY DEF CountsNone
<1> HIDE DEF Counted
<1>2. \A p, t : Won(p, t) <=> /\ {c.dst : c \in Counted(p, t)} # {}
                             /\ {p} \cup {c.dst : c \in Counted(p, t)} \in Quorums
  BY DEF Won, Ballots, Counted
<1>3. \A p \in Server : state'[p] = Leader =>
        state[p] = Leader /\ currentTerm'[p] = currentTerm[p]
  BY DEF Calm, Leader, Follower, Candidate
<1>4. ASSUME NEW s \in Server
      PROVE  /\ state'[s] # Follower => voteFor'[s] = s
             /\ state'[s] = Leader => Won(s, currentTerm[s])'
             /\ state'[s] = Candidate => ~Won(s, currentTerm[s])'
  <2>1. Won(s, currentTerm[s])' <=> Won(s, currentTerm'[s])
    BY <1>1, <1>2 DEF Won, Ballots
  <2>2. CASE state'[s] = Follower
    BY <2>2 DEF Follower, Leader, Candidate
  <2>3. CASE /\ currentTerm'[s] = currentTerm[s] /\ voteFor'[s] = voteFor[s]
             /\ state'[s] = state[s]
    BY Zenon, <2>1, <2>3 DEF ElectionInv, Winners
  <2>4. CASE /\ state'[s] = Candidate /\ voteFor'[s] = s
             /\ \A c \in voteCalls : c.src = s => c.elec # currentTerm'[s]
    <3>1. Ballots(s, currentTerm'[s]) = {}
      BY <2>4 DEF Ballots
    <3>2. QED
      BY <2>1, <2>4, <3>1 DEF Won, Leader, Candidate
  <2>5. QED
    BY Zenon, <2>2, <2>3, <2>4 DEF Calm
<1>5. ASSUME NEW p \in Server, NEW t, Won(p, t) PROVE Won(p, t)'
  <2>1. Ballots(p, t)' = Ballots(p, t)
    BY <1>1 DEF Ballots, Counted
  <2>2. QED
    BY Zenon, <1>5, <2>1 DEF Won, Quorums, Majority
<1>6. Winners'
  BY <1>4, Zenon DEF Winners
<1>7. QED
  BY <1>3, <1>5, <1>6

(* A step that only drops calls, counted votes excepted.                   *)
LEMMA DropStep ==
  ASSUME IndexInv, StepOK, ElectionInv, Calm, voteCalls' \subseteq voteCalls,
         \A c \in voteCalls : c.stage = "counted" => c \in voteCalls'
  PROVE  ElectionStepOK
<1>1. ASSUME NEW c \in voteCalls' PROVE VoteCallOK(c)'
  <2>1. c \in VoteCall /\ c.src \in Server /\ c.dst \in Server /\ VoteCallOK(c)
    BY Zenon, <1>1 DEF IndexInv, ProtocolTypeOK, VoteCall, ElectionInv
  <2>2. QED
    BY <2>1, VoteCallStays DEF StepOK, IndexInv
<1>2. VotesUnique' /\ NoRival'
  BY DEF VotesUnique, NoRival, ElectionInv
<1>3. CountsNone
  BY DEF CountsNone
<1>4. QED
  BY <1>1, <1>2, <1>3, CalmStep DEF ElectionInv, ElectionStepOK

(* A step that replaces call c by x, the same request at a later stage.    *)
LEMMA ReplaceStep ==
  ASSUME IndexInv, StepOK, ElectionInv, NEW c \in voteCalls, NEW x \in VoteCall,
         x.src = c.src, x.dst = c.dst, x.term = c.term, x.elec = c.elec,
         x.stage \in {"reply", "counted"}, x.stage = "counted" => x.granted,
         voteCalls' = (voteCalls \ {c}) \cup {x},
         Granted(x) => /\ VotedIn(x.dst, x, x.src)'
                       /\ \A b \in voteCalls : b.term = c.term =>
                            /\ b.src # c.dst
                            /\ Granted(b) /\ b.dst = c.dst => b.src = c.src
  PROVE  (\A d \in voteCalls' : VoteCallOK(d)') /\ VotesUnique' /\ NoRival'
<1>1. ASSUME NEW d \in voteCalls PROVE VoteCallOK(d)'
  <2>1. d \in VoteCall /\ d.src \in Server /\ d.dst \in Server /\ VoteCallOK(d)
    BY ZenonT(60) DEF IndexInv, ProtocolTypeOK, VoteCall, ElectionInv
  <2>2. QED
    BY <2>1, VoteCallStays DEF StepOK, IndexInv
<1>2. VoteCallOK(x)'
  <2>1. VoteCallOK(c)'
    BY Zenon, <1>1
  <2>2. VotedIn(x.src, x, x.src)'
    BY Zenon, <2>1 DEF VoteCallOK, VotedIn
  <2>3. QED
    BY Zenon, <2>1, <2>2 DEF VoteCallOK
<1>3. ASSUME NEW d \in voteCalls', d # x
      PROVE  d \in voteCalls /\ d # c
  BY Zenon, <1>3
<1>4. VotesUnique'
  <2>1. ASSUME NEW d \in voteCalls', d # x, d.dst = x.dst, d.term = x.term
        PROVE  d.src # x.src /\ ~(Granted(d) /\ Granted(x))
    <3>1. d \in voteCalls /\ d # c /\ d.src # c.src
      BY Zenon, <1>3, <2>1 DEF ElectionInv, VotesUnique
    <3>2. QED
      BY Zenon, <2>1, <3>1
  <2>2. ASSUME NEW b \in voteCalls', NEW d \in voteCalls', b # x, d # x,
               b.dst = d.dst, b.term = d.term
        PROVE  /\ b.src = d.src => b = d
               /\ Granted(b) /\ Granted(d) => b.src = d.src
    BY Zenon, <1>3, <2>2 DEF ElectionInv, VotesUnique
  <2>3. QED
    BY <2>1, <2>2 DEF VotesUnique, Granted
<1>5. NoRival'
  <2>1. SUFFICES ASSUME NEW b \in voteCalls', NEW d \in voteCalls',
                        b.src = d.dst, b.term = d.term
                 PROVE  ~Granted(d)
    BY Zenon DEF NoRival, Granted
  <2>2. PICK e \in voteCalls : e.src = b.src /\ e.term = b.term
    BY Zenon, <1>3
  <2>3. CASE d = x
    BY Zenon, <2>1, <2>2, <2>3
  <2>4. CASE d # x
    BY Zenon, <1>3, <2>1, <2>2, <2>4 DEF ElectionInv, NoRival
  <2>5. QED
    BY Zenon, <2>3, <2>4
<1>6. QED
  BY <1>1, <1>2, <1>4, <1>5

(* startElection keeps the election invariant.                             *)
LEMMA StartElectionElects ==
  ASSUME ElectionGapsClosed, IndexInv, StepOK, ElectionInv,
         NEW s \in Server, StartElection(s)
  PROVE  ElectionStepOK
<1> DEFINE term == currentTerm[s] + 1
           new == {VoteRequest(s, d, term, term) : d \in Peers(s)}
<1> USE DEF IndexInv
<1>1. /\ currentTerm[s] \in Nat
      /\ currentTerm'[s] = term /\ voteFor'[s] = s /\ state'[s] = Candidate
      /\ voteCalls' = voteCalls \cup new
      /\ \A t \in Server \ {s} : state'[t] = state[t] /\ voteFor'[t] = voteFor[t]
                                 /\ currentTerm'[t] = currentTerm[t]
  BY Zenon DEF StartElection, ProtocolTypeOK, Term, ElectionGapsClosed
<1>2. ASSUME NEW c \in new
      PROVE  /\ c.src = s /\ c.dst \in Peers(s) /\ c.term = term /\ c.elec = term
             /\ c.stage = "request" /\ c = VoteRequest(s, c.dst, term, term)
  BY DEF VoteRequest
<1>3. ASSUME NEW c \in voteCalls
      PROVE  VoteCallOK(c)' /\ (c.src = s => c.term # term)
  <2>1. c \in VoteCall /\ c.src \in Server /\ c.dst \in Server /\ VoteCallOK(c)
        /\ c.term \in Nat
    BY ZenonT(60) DEF ProtocolTypeOK, VoteCall, ElectionInv, Term
  <2>2. VoteCallOK(c)'
    BY Zenon, <2>1, VoteCallStays DEF StepOK
  <2>3. c.src = s => c.term <= currentTerm[s]
    BY <1>1, <2>1 DEF VoteCallOK, VotedIn
  <2>4. currentTerm[s] \in Nat /\ c.term \in Nat
    BY Zenon, <1>1, <2>1
  <2>5. c.src = s => c.term # term
    BY <2>3, <2>4
  <2>6. QED
    BY Zenon, <2>2, <2>5
<1>4. ASSUME NEW c \in new PROVE VoteCallOK(c)'
  <2>1. VotedIn(s, c, s)'
    BY Zenon, <1>1, <1>2 DEF VotedIn
  <2>2. c.src = s /\ c.dst # s /\ c.term = term /\ c.elec = term /\ c.stage = "request"
    BY Zenon, <1>2 DEF Peers
  <2>3. QED
    BY Zenon, <2>1, <2>2 DEF VoteCallOK, Granted
<1>5. VotesUnique'
  <2>1. SUFFICES ASSUME NEW b \in voteCalls', NEW c \in voteCalls',
                        b.dst = c.dst, b.term = c.term
                 PROVE  /\ b.src = c.src => b = c
                        /\ Granted(b) /\ Granted(c) => b.src = c.src
    BY DEF VotesUnique
  <2>2. CASE b \in voteCalls /\ c \in voteCalls
    BY <2>1, <2>2 DEF ElectionInv, VotesUnique
  <2>3. CASE b \in new /\ c \in new
    BY Zenon, <1>2, <2>1, <2>3 DEF Granted
  <2>4. CASE b \in new /\ c \in voteCalls
    <3>1. b.src = s /\ b.term = term /\ b.stage = "request"
      BY Zenon, <1>2, <2>4
    <3>2. c.src # s
      BY ZenonT(60), <1>3, <2>1, <2>4, <3>1
    <3>3. QED
      BY <3>1, <3>2 DEF Granted
  <2>5. CASE b \in voteCalls /\ c \in new
    <3>1. c.src = s /\ c.term = term /\ c.stage = "request"
      BY Zenon, <1>2, <2>5
    <3>2. b.src # s
      BY Zenon, <1>3, <2>1, <2>5, <3>1
    <3>3. QED
      BY Zenon, <3>1, <3>2 DEF Granted
  <2>6. QED
    BY Zenon, <1>1, <2>1, <2>2, <2>3, <2>4, <2>5
<1>6. NoRival'
  <2>1. SUFFICES ASSUME NEW b \in voteCalls', NEW c \in voteCalls,
                        b.src = c.dst, b.term = c.term
                 PROVE  ~Granted(c)
    BY Zenon, <1>1, <1>2 DEF NoRival, Granted
  <2>2. CASE b \in voteCalls
    BY Zenon, <2>1, <2>2 DEF ElectionInv, NoRival
  <2>3. CASE b \in new
    <3>1. c.dst = s /\ c.term = currentTerm[s] + 1 /\ VoteCallOK(c)
      BY Zenon, <1>2, <2>1, <2>3 DEF ElectionInv
    <3>2. QED
      BY <1>1, <3>1 DEF VoteCallOK, VotedIn
  <2>4. QED
    BY Zenon, <1>1, <2>1, <2>2, <2>3
<1>7. \A c \in voteCalls' : VoteCallOK(c)'
  <2> HIDE DEF new
  <2>1. QED
    BY Zenon, <1>1, <1>3, <1>4
<1>8. Calm /\ CountsNone
  <2>1. ASSUME NEW c \in voteCalls, c.src = s PROVE c.elec # term
    BY Zenon, <1>3, <2>1 DEF ElectionInv, VoteCallOK
  <2>2. Calm
    BY Zenon, <1>1, <2>1 DEF Calm
  <2>3. CountsNone
    BY Zenon, <1>1, <1>2 DEF CountsNone
  <2>4. QED
    BY Zenon, <2>2, <2>3
<1>9. QED
  BY <1>5, <1>6, <1>7, <1>8, CalmStep DEF ElectionInv, ElectionStepOK

(* The RequestVote handler keeps the election invariant.                   *)
LEMMA HandleRequestVoteElects ==
  ASSUME IndexInv, StepOK, ElectionInv, NEW c \in voteCalls, HandleRequestVote(c)
  PROVE  ElectionStepOK
<1> DEFINE s     == c.dst
           newer == currentTerm[s] < c.term
           vote  == IF newer THEN None ELSE voteFor[s]
           grant == GrantsVote(s, vote, c)
           x     == VoteAnswer(c, currentTerm'[s], grant)
<1> USE DEF IndexInv
<1>1. /\ c \in VoteCall /\ s \in Server /\ c.src \in Server /\ c.term \in Nat
      /\ currentTerm[s] \in Nat /\ c.src # None /\ VoteCallOK(c)
      /\ c.stage \in {"request", "orphan"}
  BY ZenonT(60), NoneAssumption
     DEF ProtocolTypeOK, VoteCall, Term, ElectionInv, HandleRequestVote
<1>2. /\ grant \in BOOLEAN
      /\ grant => vote \in {None, c.src} /\ currentTerm[s] <= c.term
  BY Zenon DEF GrantsVote
<1> HIDE DEF grant
<1>3. /\ currentTerm' = IF newer THEN [currentTerm EXCEPT ![s] = c.term]
                                 ELSE currentTerm
      /\ voteFor' = [voteFor EXCEPT ![s] = IF grant THEN c.src ELSE vote]
      /\ state' = [state EXCEPT ![s] = IF newer \/ grant THEN Follower ELSE @]
      /\ voteCalls' = (voteCalls \ {c}) \cup
           IF c.stage = "orphan" THEN {} ELSE {x}
  BY Zenon DEF HandleRequestVote, grant
<1>4. Calm
  BY Zenon, <1>1, <1>3 DEF Calm, ProtocolTypeOK
<1>5. \A d \in voteCalls : d.stage = "counted" => d \in voteCalls'
  BY Zenon, <1>1, <1>3
<1>6. CASE c.stage = "orphan"
  BY Zenon, <1>3, <1>4, <1>5, <1>6, DropStep
<1>7. CASE c.stage = "request"
  <2>1. /\ x \in VoteCall /\ x.src = c.src /\ x.dst = s /\ x.term = c.term
        /\ x.elec = c.elec /\ x.stage = "reply" /\ x.granted = grant
    <3>1. currentTerm'[s] \in Nat
      BY Zenon, <1>1, <1>3 DEF ProtocolTypeOK
    <3>2. QED
      BY ZenonT(60), <1>1, <1>2, <3>1 DEF VoteAnswer, VoteCall, VoteStages, Term
  <2> HIDE DEF x
  <2>2. PICK y : y = x
    OBVIOUS
  <2>3. ASSUME Granted(y)
        PROVE  /\ VotedIn(y.dst, y, y.src)'
               /\ \A b \in voteCalls : b.term = c.term =>
                    /\ b.src # s
                    /\ Granted(b) /\ b.dst = s => b.src = c.src
    <3>1. grant
      BY Zenon, <2>1, <2>2, <2>3 DEF Granted
    <3>2. currentTerm'[s] = c.term /\ voteFor'[s] = c.src
      <4>1. /\ currentTerm'[s] = IF newer THEN c.term ELSE currentTerm[s]
            /\ voteFor'[s] = c.src
        BY Zenon, <1>1, <1>3, <3>1 DEF ProtocolTypeOK
      <4>2. currentTerm[s] \in Nat /\ c.term \in Nat /\ currentTerm[s] <= c.term
        BY Zenon, <1>1, <1>2, <3>1
      <4>3. QED
        BY <4>1, <4>2
    <3>3. ASSUME NEW b \in voteCalls, Granted(b), b.dst = s, b.term = c.term
          PROVE  b.src = c.src
      <4>1. VotedIn(s, b, b.src) /\ b.src # None
        BY Zenon, <3>3, NoneAssumption DEF ElectionInv, VoteCallOK, ProtocolTypeOK,
               VoteCall
      <4>2. QED
        BY <1>1, <1>2, <3>1, <3>3, <4>1 DEF VotedIn
    <3>4. VotedIn(y.dst, y, y.src)'
      BY Zenon, <2>1, <2>2, <3>2 DEF VotedIn
    <3>5. ASSUME NEW b \in voteCalls, b.src = s, b.term = c.term PROVE FALSE
      <4>1. VotedIn(s, b, s) /\ s # None /\ s # c.src
        BY Zenon, <1>1, <3>5, NoneAssumption DEF ElectionInv, VoteCallOK
      <4>2. QED
        BY <1>1, <1>2, <3>1, <3>5, <4>1 DEF VotedIn
    <3>6. QED
      BY Zenon, <3>3, <3>4, <3>5
  <2>4. voteCalls' = (voteCalls \ {c}) \cup {y}
    BY Zenon, <1>3, <1>7, <2>2
  <2>5. (\A d \in voteCalls' : VoteCallOK(d)') /\ VotesUnique' /\ NoRival'
    BY Zenon, <2>1, <2>2, <2>3, <2>4, ReplaceStep
  <2>6. CountsNone
    BY Zenon, <1>7, <2>1, <2>2, <2>4 DEF CountsNone
  <2>7. QED
    BY Zenon, <1>4, <2>5, <2>6, CalmStep DEF ElectionInv, ElectionStepOK
<1>8. QED
  BY <1>1, <1>6, <1>7

(* A crash keeps what was granted and counted: requests become orphans.    *)
LEMMA RestartElects ==
  ASSUME IndexInv, StepOK, ElectionInv, NEW s \in Server, NEW image, NEW lost,
         \A c \in lost : c.stage \in {"request", "orphan"},
         Restart(s, image, lost)
  PROVE  ElectionStepOK
<1> USE DEF IndexInv
<1> DEFINE Kept(v) == v \in voteCalls /\ (v.src # s \/ v.stage \in {"orphan", "counted"})
           Cut(v) == v \in voteCalls /\ v.src = s /\ v.stage = "request"
<1>1. Calm
  BY Zenon DEF Restart, Calm, ProtocolTypeOK
<1>2. \A c \in voteCalls : c.stage = "counted" => c \in voteCalls'
  BY Zenon DEF Restart
<1>3. ASSUME NEW c \in voteCalls'
      PROVE  Kept(c) \/ \E v : Cut(v) /\ c = [v EXCEPT !.stage = "orphan"]
  BY Zenon, <1>3 DEF Restart
<1>4. ASSUME NEW v \in voteCalls
      PROVE  v \in VoteCall /\ VoteCallOK(v)'
  <2>1. v \in VoteCall /\ v.src \in Server /\ v.dst \in Server /\ VoteCallOK(v)
    BY ZenonT(60) DEF ProtocolTypeOK, VoteCall, ElectionInv
  <2>2. QED
    BY Zenon, <2>1, VoteCallStays DEF StepOK
<1>5. ASSUME NEW v, Cut(v), NEW c, c = [v EXCEPT !.stage = "orphan"]
      PROVE  /\ c.src = v.src /\ c.dst = v.dst /\ c.term = v.term /\ c.elec = v.elec
             /\ c.stage = "orphan"
  BY Zenon, <1>4, <1>5 DEF VoteCall
<1>6. ASSUME NEW c \in voteCalls' PROVE VoteCallOK(c)'
  <2>1. CASE Kept(c)
    BY Zenon, <1>4, <2>1
  <2>2. ASSUME NEW v, Cut(v), c = [v EXCEPT !.stage = "orphan"] PROVE VoteCallOK(c)'
    <3>1. VoteCallOK(v)'
      BY Zenon, <1>4, <2>2
    <3>2. /\ c.src = v.src /\ c.dst = v.dst /\ c.term = v.term /\ c.elec = v.elec
          /\ c.stage = "orphan"
      BY Zenon, <1>5, <2>2
    <3>3. QED
      BY Zenon, <3>1, <3>2 DEF VoteCallOK, VotedIn, Granted
  <2>3. QED
    BY Zenon, <1>3, <2>1, <2>2
<1>7. VotesUnique'
  <2>1. SUFFICES ASSUME NEW b \in voteCalls', NEW c \in voteCalls',
                        b.dst = c.dst, b.term = c.term
                 PROVE  /\ b.src = c.src => b = c
                        /\ Granted(b) /\ Granted(c) => b.src = c.src
    BY Zenon DEF VotesUnique
  <2>2. CASE Kept(b) /\ Kept(c)
    BY Zenon, <2>1, <2>2 DEF ElectionInv, VotesUnique
  <2>3. ASSUME NEW v, Cut(v), b = [v EXCEPT !.stage = "orphan"], Kept(c)
        PROVE  b.src # c.src /\ ~Granted(b)
    <3>1. b.src = v.src /\ b.dst = v.dst /\ b.term = v.term /\ b.stage = "orphan"
      BY Zenon, <1>5, <2>3
    <3>2. v # c
      BY Zenon, <2>3
    <3>3. QED
      BY Zenon, <2>1, <2>3, <3>1, <3>2 DEF ElectionInv, VotesUnique, Granted
  <2>4. ASSUME NEW v, Cut(v), c = [v EXCEPT !.stage = "orphan"], Kept(b)
        PROVE  b.src # c.src /\ ~Granted(c)
    <3>1. c.src = v.src /\ c.dst = v.dst /\ c.term = v.term /\ c.stage = "orphan"
      BY Zenon, <1>5, <2>4
    <3>2. v # b
      BY Zenon, <2>4
    <3>3. QED
      BY Zenon, <2>1, <2>4, <3>1, <3>2 DEF ElectionInv, VotesUnique, Granted
  <2>5. ASSUME NEW v, Cut(v), b = [v EXCEPT !.stage = "orphan"],
               NEW w, Cut(w), c = [w EXCEPT !.stage = "orphan"]
        PROVE  b = c
    <3>1. /\ b.src = v.src /\ b.dst = v.dst /\ b.term = v.term
          /\ c.src = w.src /\ c.dst = w.dst /\ c.term = w.term
      BY Zenon, <1>5, <2>5
    <3>2. v = w
      BY Zenon, <2>1, <2>5, <3>1 DEF ElectionInv, VotesUnique
    <3>3. QED
      BY Zenon, <2>5, <3>2
  <2>6. QED
    BY Zenon, <1>3, <2>1, <2>2, <2>3, <2>4, <2>5
<1>8. NoRival'
  <2>1. ASSUME NEW b \in voteCalls'
        PROVE  \E v \in voteCalls : /\ v.src = b.src /\ v.term = b.term /\ v.dst = b.dst
                                    /\ Granted(b) => Granted(v)
    BY <1>3, <1>5 DEF Granted
  <2>2. SUFFICES ASSUME NEW b \in voteCalls', NEW c \in voteCalls',
                        b.src = c.dst, b.term = c.term, Granted(c)
                 PROVE  FALSE
    BY Zenon DEF NoRival, Granted
  <2>3. PICK v \in voteCalls : v.src = b.src /\ v.term = b.term
    BY Zenon, <2>1
  <2>4. PICK w \in voteCalls : w.dst = c.dst /\ w.term = c.term /\ Granted(w)
    BY Zenon, <2>1, <2>2
  <2>5. QED
    BY Zenon, <2>2, <2>3, <2>4 DEF ElectionInv, NoRival
<1>9. CountsNone
  BY Zenon, <1>2, <1>3, <1>5 DEF CountsNone
<1>10. QED
  BY <1>1, <1>6, <1>7, <1>8, <1>9, CalmStep DEF ElectionInv, ElectionStepOK

(* The other steps leave the votes alone or drop a reply.                  *)
LEMMA AppendElects ==
  ASSUME IndexInv, StepOK, ElectionInv, NEW c \in appendCalls,
         \/ SendAppend(c) \/ HandleAppendEntries(c) \/ ReceiveAppendReply(c)
         \/ LoseAppend(c)
  PROVE  ElectionStepOK
<1> USE DEF IndexInv
<1>1. voteCalls' = voteCalls
  BY Zenon DEF SendAppend, HandleAppendEntries, ReceiveAppendReply, ActOnAppendReply,
         LoseAppend
<1>2. CASE SendAppend(c) \/ LoseAppend(c)
  BY Zenon, <1>1, <1>2, DropStep DEF SendAppend, LoseAppend, Calm
<1>3. CASE HandleAppendEntries(c)
  <2>1. PICK newer \in BOOLEAN, accept \in BOOLEAN :
          /\ currentTerm' = IF newer THEN [currentTerm EXCEPT ![c.dst] = c.term]
                                     ELSE currentTerm
          /\ voteFor' = IF newer THEN [voteFor EXCEPT ![c.dst] = None] ELSE voteFor
          /\ state' = [state EXCEPT ![c.dst] = IF newer \/ accept THEN Follower ELSE @]
    BY Zenon, <1>3 DEF HandleAppendEntries
  <2>2. c.dst \in Server
    BY Zenon DEF ProtocolTypeOK, AppendCall
  <2>3. Calm
    BY Zenon, <2>1, <2>2 DEF Calm, ProtocolTypeOK
  <2>4. QED
    BY Zenon, <1>1, <2>3, DropStep
<1>4. CASE ReceiveAppendReply(c)
  <2>1. \/ UNCHANGED <<currentTerm, voteFor, state>>
        \/ StepDown(c.src, c.rterm)
    BY Zenon, <1>4 DEF ReceiveAppendReply, ActOnAppendReply, ActOnRejection,
           ActOnSuccess
  <2>2. Calm
    BY ZenonT(60), <2>1 DEF Calm, StepDown, ProtocolTypeOK
  <2>3. QED
    BY <1>1, <2>2, DropStep
<1>5. QED
  BY <1>2, <1>3, <1>4
-----------------------------------------------------------------------------
(* Majorities and the count of votes rest on the sizes of finite sets.     *)
INSTANCE FiniteSetTheorems

(* Two majorities share a peer.                                            *)
LEMMA QuorumsMeet ==
  ASSUME NEW P \in Quorums, NEW Q \in Quorums
  PROVE  \E v \in Server : v \in P /\ v \in Q
<1>1. P \subseteq Server /\ Q \subseteq Server
      /\ Cardinality(P) >= Majority /\ Cardinality(Q) >= Majority
  BY Zenon DEF Quorums
<1>2. Cardinality(P) \in Nat /\ Cardinality(Q) \in Nat /\ Cardinality(Server) \in Nat
  BY Zenon, <1>1, ServerAssumption, FS_Subset, FS_CardinalityType
<1>3. Cardinality(P) + Cardinality(Q) > Cardinality(Server)
  BY <1>1, <1>2 DEF Majority
<1>4. QED
  BY <1>1, <1>3, ServerAssumption, FS_MajoritiesIntersect

(* More peers than a majority are a majority.                              *)
LEMMA QuorumGrows ==
  ASSUME NEW P \in Quorums, NEW Q, P \subseteq Q, Q \subseteq Server
  PROVE  Q \in Quorums
<1>1. IsFiniteSet(Q) /\ IsFiniteSet(P)
  BY Zenon, ServerAssumption, FS_Subset
<1>2. Cardinality(P) <= Cardinality(Q) /\ Cardinality(P) \in Nat /\ Cardinality(Q) \in Nat
  BY Zenon, <1>1, FS_Subset, FS_CardinalityType
<1>3. Majority \in Nat /\ Cardinality(P) >= Majority
  BY ServerAssumption, FS_CardinalityType DEF Majority, Quorums
<1>4. QED
  BY <1>2, <1>3 DEF Quorums

(* The sizes of sets of peers are as the other proofs use them.            *)
LEMMA PeerSetsHold == PeerSets
<1>1. \A P, Q \in Quorums : P \cap Q # {}
  BY Zenon, QuorumsMeet
<1>2. \A Q \in Quorums : \A R \in SUBSET Server : Q \subseteq R => R \in Quorums
  BY Zenon, QuorumGrows
<1>3. \A R \in SUBSET Server : \A s \in Server \ R :
        Cardinality(R \cup {s}) = Cardinality(R) + 1
  BY Zenon, ServerAssumption, FS_Subset, FS_AddElement
<1>4. \A s \in Server : Cardinality({s}) = 1
  BY Zenon, FS_Singleton
<1>5. QED
  BY <1>1, <1>2, <1>3, <1>4 DEF PeerSets

(* Nobody else wins a term in which a majority is behind p.                *)
LEMMA WinnerUnique ==
  ASSUME ElectionInv, NEW q \in Server, NEW t, Won(q, t), NEW p,
         NEW Q \in Quorums, \A v \in Q : Backs(v, p, t)
  PROVE  p = q
<1>1. {q} \cup Ballots(q, t) \in Quorums
  BY Zenon DEF Won
<1>2. PICK v : v \in {q} \cup Ballots(q, t) /\ v \in Q
  BY Zenon, <1>1, QuorumsMeet
<1>3. QED
  BY <1>2, WonBacked, BacksOne

(* Two leaders of one term would both have won it.                         *)
LEMMA LeadersUnique ==
  ASSUME ElectionInv
  PROVE  ElectionSafety
<1>1. SUFFICES ASSUME NEW s \in Server, NEW t \in Server,
                      state[s] = Leader, state[t] = Leader,
                      currentTerm[s] = currentTerm[t]
               PROVE  s = t
  BY Zenon DEF ElectionSafety
<1>2. Won(s, currentTerm[s]) /\ Won(t, currentTerm[s])
  BY Zenon, <1>1 DEF ElectionInv, Winners
<1>3. \A v \in {s} \cup Ballots(s, currentTerm[s]) : Backs(v, s, currentTerm[s])
  BY Zenon, <1>2, WonBacked
<1>4. QED
  BY Zenon, <1>2, <1>3, WinnerUnique DEF Won

(* The counter *nVotes is the number of peers that voted, the candidate    *)
(* and the sender of c included.                                           *)
LEMMA VotesCounted ==
  ASSUME IndexInv, ElectionInv, NEW c \in voteCalls, c.stage = "reply",
         currentTerm[c.src] = c.term,
         NEW W, W = Ballots(c.src, c.term) \cup {c.src} \cup {c.dst}
  PROVE  Cardinality(W) = NVotes(c)
<1> DEFINE s == c.src
           V == {v \in voteCalls : v.src = s /\ v.elec = c.elec /\ v.stage = "counted"}
           D == Ballots(s, c.term)
           f == [v \in V |-> v.dst]
<1>1. /\ c \in VoteCall /\ VoteCallOK(c) /\ s # c.dst /\ c.elec = currentTerm[s]
      /\ c.elec = c.term
  BY Zenon DEF IndexInv, ProtocolTypeOK, ElectionInv, VoteCallOK
<1>2. D = {v.dst : v \in V} /\ D \subseteq Server
  <2>1. D = {v.dst : v \in V}
    BY Zenon, <1>1 DEF Ballots
  <2>2. \A v \in V : v.dst \in Server
    BY Zenon DEF IndexInv, ProtocolTypeOK, VoteCall
  <2>3. QED
    BY Zenon, <2>1, <2>2
<1>3. IsFiniteSet(D)
  BY Zenon, <1>2, ServerAssumption, FS_Subset
<1>4. f \in Injection(V, D) /\ f \in Surjection(V, D)
  <2>1. f \in [V -> D]
    BY Zenon, <1>2
  <2>2. ASSUME NEW v \in V, NEW w \in V, f[v] = f[w] PROVE v = w
    <3>1. /\ v \in voteCalls /\ w \in voteCalls /\ v.dst = w.dst /\ v.src = w.src
          /\ v.term = w.term
      BY Zenon, <2>2 DEF ElectionInv, VoteCallOK
    <3>2. QED
      BY Zenon, <3>1 DEF ElectionInv, VotesUnique
  <2>3. \A d \in D : \E v \in V : f[v] = d
    BY Zenon, <1>2
  <2> HIDE DEF f
  <2>4. f \in Injection(V, D)
    BY SMTT(60), <2>1, <2>2 DEF Injection, IsInjective
  <2>5. f \in Surjection(V, D)
    BY ZenonT(60), <2>1, <2>3 DEF Surjection
  <2>6. QED
    BY Zenon, <2>4, <2>5
<1>5. Cardinality(V) = Cardinality(D) /\ Cardinality(D) \in Nat
  <2> HIDE DEF V, D, f
  <2>1. QED
    BY Zenon, <1>3, <1>4, FS_Injection, FS_CardinalityType
<1>6. s \notin D /\ c.dst \notin D
  <2>1. ASSUME NEW v \in V PROVE v.dst # s /\ v.dst # c.dst
    <3>1. /\ v \in voteCalls /\ v.src = s /\ v.term = c.term /\ v # c /\ v.dst # s
      BY Zenon, <1>1, <2>1 DEF ElectionInv, VoteCallOK
    <3>2. QED
      BY Zenon, <3>1 DEF ElectionInv, VotesUnique
  <2>2. QED
    BY Zenon, <1>2, <2>1
<1>7. Cardinality(W) = Cardinality(D) + 2
  <2> HIDE DEF D
  <2>1. /\ IsFiniteSet(D \cup {s}) /\ Cardinality(D \cup {s}) = Cardinality(D) + 1
    BY Zenon, <1>3, <1>6, FS_AddElement
  <2>2. Cardinality((D \cup {s}) \cup {c.dst}) = Cardinality(D \cup {s}) + 1
    BY ZenonT(60), <1>1, <1>6, <2>1, FS_AddElement
  <2>3. W = (D \cup {s}) \cup {c.dst}
    BY Zenon DEF D
  <2>4. Cardinality(W) = Cardinality(D) + 1 + 1
    BY <2>1, <2>2, <2>3, Zenon
  <2>5. Cardinality(D) \in Nat
    BY Zenon, <1>5
  <2>6. QED
    BY <2>4, <2>5
<1>8. NVotes(c) = 2 + Cardinality(V)
  BY Zenon DEF NVotes
<1>9. QED
  BY <1>5, <1>7, <1>8

(* Counting a vote, and winning with it, keeps the election invariant.     *)
LEMMA CountVoteElects ==
  ASSUME IndexInv, StepOK, ElectionInv, NEW c \in voteCalls, c.stage = "reply",
         c.granted, currentTerm[c.src] = c.term, CountVote(c)
  PROVE  ElectionStepOK
<1> DEFINE s   == c.src
           win == state[s] = Candidate /\ NVotes(c) >= Majority
<1> USE DEF IndexInv
<1>1. /\ c \in VoteCall /\ s \in Server /\ c.dst \in Server /\ VoteCallOK(c)
  BY Zenon DEF ProtocolTypeOK, VoteCall, ElectionInv
<1>2. PICK x : x = [c EXCEPT !.stage = "counted"]
  BY Zenon
<1>3. /\ x \in VoteCall /\ x.src = s /\ x.dst = c.dst /\ x.term = c.term
      /\ x.elec = c.elec /\ x.stage = "counted" /\ x.granted
  BY Zenon, <1>1, <1>2 DEF VoteCall, VoteStages
<1>4. /\ voteCalls' = (voteCalls \ {c}) \cup {x}
      /\ state' = [state EXCEPT ![s] = IF win THEN Leader ELSE @]
      /\ UNCHANGED <<currentTerm, voteFor, log>>
  BY Zenon, <1>2 DEF CountVote
<1>5. /\ VotedIn(x.dst, x, x.src)'
      /\ \A b \in voteCalls : b.term = c.term =>
           /\ b.src # c.dst
           /\ Granted(b) /\ b.dst = c.dst => b.src = c.src
  <2>1. Granted(c) /\ VotedIn(c.dst, c, s)
    BY Zenon, <1>1 DEF Granted, VoteCallOK
  <2>2. VotedIn(x.dst, x, x.src)'
    BY Zenon, <1>3, <1>4, <2>1 DEF VotedIn
  <2>3. QED
    BY Zenon, <2>1, <2>2 DEF ElectionInv, VotesUnique, NoRival
<1>6. (\A d \in voteCalls' : VoteCallOK(d)') /\ VotesUnique' /\ NoRival'
  BY Zenon, <1>3, <1>4, <1>5, ReplaceStep
<1>7. ASSUME NEW p, NEW t, p # s \/ t # c.term PROVE Ballots(p, t)' = Ballots(p, t)
  <2>1. {v \in voteCalls' : v.src = p /\ v.elec = t /\ v.stage = "counted"}
        = {v \in voteCalls : v.src = p /\ v.elec = t /\ v.stage = "counted"}
    BY Zenon, <1>1, <1>3, <1>4, <1>7 DEF VoteCallOK
  <2>2. QED
    BY Zenon, <2>1 DEF Ballots
<1>8. Ballots(s, c.term)' = Ballots(s, c.term) \cup {c.dst}
  <2>1. {v \in voteCalls' : v.src = s /\ v.elec = c.term /\ v.stage = "counted"}
        = {v \in voteCalls : v.src = s /\ v.elec = c.term /\ v.stage = "counted"} \cup {x}
    BY Zenon, <1>1, <1>3, <1>4 DEF VoteCallOK
  <2>2. QED
    BY <1>3, <2>1 DEF Ballots
<1> DEFINE V == Ballots(s, c.term) \cup {s} \cup {c.dst}
<1>9. V \subseteq Server /\ (V \in Quorums <=> NVotes(c) >= Majority)
  <2>1. V \subseteq Server
    <3>1. Ballots(s, c.term) \subseteq Server
      <4>1. \A v \in voteCalls : v.dst \in Server
        BY Zenon DEF ProtocolTypeOK, VoteCall
      <4>2. QED
        BY Zenon, <4>1 DEF Ballots
    <3>2. QED
      BY Zenon, <1>1, <3>1
  <2>2. Cardinality(V) = NVotes(c)
    BY Zenon, VotesCounted
  <2>3. QED
    BY Zenon, <2>1, <2>2 DEF Quorums
<1>10. Won(s, c.term)' <=> NVotes(c) >= Majority
  <2>1. Won(s, c.term)' <=> V \in Quorums
    <3>1. {s} \cup Ballots(s, c.term)' = V /\ Ballots(s, c.term)' # {}
      BY Zenon, <1>8
    <3>2. QED
      BY Zenon, <3>1 DEF Won, Quorums, Majority
  <2>2. QED
    BY Zenon, <1>9, <2>1
<1>11. ASSUME NEW p \in Server, NEW t, p # s \/ t # c.term PROVE Won(p, t)' <=> Won(p, t)
  BY Zenon, <1>7, <1>11 DEF Won, Quorums, Majority
<1>12. Won(s, c.term) => Won(s, c.term)'
  <2>1. ASSUME Won(s, c.term) PROVE V \in Quorums
    BY Zenon, <1>9, <2>1, QuorumGrows DEF Won
  <2>2. QED
    BY Zenon, <1>9, <1>10, <2>1
<1>13. ASSUME NEW p \in Server
       PROVE  /\ state'[p] # Follower => voteFor'[p] = p
              /\ state'[p] = Leader => Won(p, currentTerm[p])'
              /\ state'[p] = Candidate => ~Won(p, currentTerm[p])'
  <2>1. /\ state[p] # Follower => voteFor[p] = p
        /\ state[p] = Leader => Won(p, currentTerm[p])
        /\ state[p] = Candidate => ~Won(p, currentTerm[p])
    BY Zenon DEF ElectionInv, Winners
  <2>2. CASE p # s
    <3>1. Ballots(p, currentTerm[p])' = Ballots(p, currentTerm[p])
      <4>1. PICK t : t = currentTerm[p]
        BY Zenon
      <4>2. Ballots(p, t)' = Ballots(p, t) /\ currentTerm'[p] = t
        BY Zenon, <1>4, <1>7, <2>2, <4>1
      <4>3. QED
        BY Zenon, <4>1, <4>2 DEF Ballots
    <3>2. Won(p, currentTerm[p])' <=> Won(p, currentTerm[p])
      BY Zenon, <1>4, <3>1 DEF Won, Quorums, Majority
    <3>3. state'[p] = state[p] /\ voteFor'[p] = voteFor[p]
      BY Zenon, <1>4, <2>2 DEF ProtocolTypeOK
    <3>4. QED
      BY Zenon, <2>1, <3>2, <3>3
  <2>3. CASE p = s
    <3>1. Won(p, currentTerm[p])' <=> Won(s, c.term)'
      BY Zenon, <1>4, <2>3 DEF Won, Ballots
    <3>2. state'[s] = (IF win THEN Leader ELSE state[s]) /\ voteFor'[s] = voteFor[s]
      BY Zenon, <1>1, <1>4 DEF ProtocolTypeOK
    <3>3. QED
      BY Zenon, <1>10, <1>12, <2>1, <2>3, <3>1, <3>2 DEF Leader, Candidate, Follower
  <2>4. QED
    BY Zenon, <2>2, <2>3
<1>14. ASSUME NEW p \in Server, state'[p] = Leader
       PROVE  \/ state[p] = Leader /\ currentTerm'[p] = currentTerm[p]
              \/ \A q \in Server : ~Won(q, currentTerm'[p])
  <2>1. CASE ~(p = s /\ win)
    BY Zenon, <1>4, <1>14, <2>1 DEF ProtocolTypeOK
  <2>2. CASE p = s /\ win
    <3>1. \A v \in V : Backs(v, s, c.term)
      <4>1. ASSUME NEW v \in Ballots(s, c.term)
            PROVE  \E b \in voteCalls : b.src = s /\ b.term = c.term /\ b.dst = v /\ Granted(b)
        BY Zenon, <4>1 DEF Ballots, ElectionInv, VoteCallOK, Granted
      <4>2. QED
        BY Zenon, <4>1 DEF Backs, Granted
    <3>2. V \in Quorums /\ ~Won(s, c.term)
      BY Zenon, <1>1, <1>9, <2>2 DEF ElectionInv, Winners
    <3> HIDE DEF V
    <3>3. ASSUME NEW q \in Server, Won(q, c.term) PROVE FALSE
      BY Zenon, <3>1, <3>2, <3>3, WinnerUnique
    <3>4. QED
      BY Zenon, <1>4, <2>2, <3>3
  <2>3. QED
    BY Zenon, <2>1, <2>2
<1>15. Winners'
  BY <1>13, Zenon DEF Winners
<1>16. \A p \in Server : \A t : Won(p, t) => Won(p, t)'
  BY Zenon, <1>11, <1>12
<1>17. QED
  BY <1>6, <1>14, <1>15, <1>16 DEF ElectionInv, ElectionStepOK

(* Handling a RequestVote reply keeps the election invariant.              *)
LEMMA ReceiveVoteReplyElects ==
  ASSUME ElectionGapsClosed, IndexInv, StepOK, ElectionInv,
         NEW c \in voteCalls, ReceiveVoteReply(c)
  PROVE  ElectionStepOK
<1> USE DEF IndexInv
<1>1. c.stage = "reply"
  BY Zenon DEF ReceiveVoteReply
<1>2. CASE currentTerm[c.src] = c.term /\ c.granted
  BY Zenon, <1>1, <1>2, CountVoteElects DEF ReceiveVoteReply, ActOnVoteReply,
         ElectionGapsClosed
<1>3. CASE currentTerm[c.src] = c.term /\ ~c.granted
  <2>1. /\ voteCalls' = voteCalls \ {c}
        /\ \/ UNCHANGED <<currentTerm, voteFor, state>>
           \/ StepDown(c.src, c.rterm)
    BY Zenon, <1>3 DEF ReceiveVoteReply, ActOnVoteReply, ElectionGapsClosed
  <2>2. Calm
    BY ZenonT(60), <2>1 DEF Calm, StepDown, ProtocolTypeOK
  <2>3. QED
    BY Zenon, <1>1, <2>1, <2>2, DropStep
<1>4. CASE currentTerm[c.src] # c.term
  <2>1. voteCalls' = voteCalls \ {c} /\ UNCHANGED <<currentTerm, voteFor, state>>
    BY Zenon, <1>4 DEF ReceiveVoteReply
  <2>2. QED
    BY Zenon, <1>1, <2>1, DropStep DEF Calm
<1>5. QED
  BY <1>2, <1>3, <1>4

(* Every step of every peer keeps the election invariant.                  *)
LEMMA ElectionStep ==
  ASSUME ElectionGapsClosed, IndexInv, StepOK, ElectionInv, [Next]_vars
  PROVE  ElectionStepOK
<1>1. CASE UNCHANGED vars
  BY Zenon, <1>1, DropStep DEF vars, Calm
<1>2. ASSUME NEW s \in Server,
             \/ StartElection(s) \/ BroadcastHeartbeat(s) \/ StartTest(s)
             \/ \E cmd \in Command : Start(s, cmd) \/ StartResume(s, cmd)
             \/ ApplyEntry(s) \/ Crash(s)
      PROVE  ElectionStepOK
  <2>1. CASE StartElection(s)
    BY Zenon, <2>1, StartElectionElects
  <2>2. CASE BroadcastHeartbeat(s) \/ StartTest(s) \/ ApplyEntry(s)
    BY Zenon, <2>2, DropStep DEF BroadcastHeartbeat, StartTest, ApplyEntry, Calm
  <2>3. ASSUME NEW cmd \in Command, Start(s, cmd) \/ StartResume(s, cmd)
        PROVE  ElectionStepOK
    BY Zenon, <2>3, DropStep DEF Start, StartResume, AppendCommand, Calm
  <2>4. CASE Crash(s)
    <3>1. PICK image, lost : /\ \A c \in lost : c.stage \in {"request", "orphan"}
                             /\ Restart(s, image, lost)
      BY ZenonT(60), <2>4 DEF Crash
    <3>2. QED
      BY Zenon, <3>1, RestartElects
  <2>5. QED
    BY Zenon, <1>2, <2>1, <2>2, <2>3, <2>4
<1>3. ASSUME NEW c \in voteCalls,
             \/ IssueVote(c) \/ HandleRequestVote(c) \/ ReceiveVoteReply(c)
             \/ ResumeVoteReply(c) \/ LoseVote(c)
      PROVE  ElectionStepOK
  <2>1. c.stage \notin {"issue", "act"}
    BY Zenon DEF ElectionInv, VoteCallOK
  <2>2. CASE LoseVote(c)
    BY Zenon, <2>2, DropStep DEF LoseVote, Calm
  <2>3. QED
    BY Zenon, <1>3, <2>1, <2>2, HandleRequestVoteElects, ReceiveVoteReplyElects
       DEF IssueVote, ResumeVoteReply
<1>4. ASSUME NEW c \in appendCalls,
             \/ SendAppend(c) \/ HandleAppendEntries(c) \/ ReceiveAppendReply(c)
             \/ ResumeAppendReply(c) \/ LoseAppend(c)
      PROVE  ElectionStepOK
  <2>1. ~ResumeAppendReply(c)
    BY Zenon DEF ResumeAppendReply, IndexInv
  <2>2. QED
    BY Zenon, <1>4, <2>1, AppendElects
<1>5. QED
  BY <1>1, <1>2, <1>3, <1>4 DEF Next

(* No election has taken place when the peers are made.                    *)
LEMMA ElectionInvInit == Init => ElectionInv
BY DEF Init, ElectionInv, VotesUnique, NoRival, Winners, Leader, Candidate, Follower
=============================================================================
