---------------------------- MODULE RaftTheorems ----------------------------
(***************************************************************************)
(* The theorems about Raft: what the step lemmas of the other proof        *)
(* modules give for whole behaviours.                                      *)
(***************************************************************************)
EXTENDS RaftPeerProofs, RaftLogProofs, RaftCommitProofs, WellFoundedInduction

(* A nonempty set of naturals has a least member.                          *)
LEMMA LeastExists ==
  ASSUME NEW T \in SUBSET Nat, T # {}
  PROVE  \E m \in T : \A n \in T : m <= n
<1>1. PICK m \in T : \A n \in T : <<n, m>> \notin OpToRel(<, Nat)
  BY Zenon, NatLessThanWellFounded, WFMin
<1>2. \A n \in T : ~ (n < m)
  BY ZenonT(60), <1>1 DEF OpToRel
<1>3. QED
  BY <1>2

(* A nonempty set of naturals with an upper bound has a greatest member.   *)
LEMMA GreatestExists ==
  ASSUME NEW b \in Nat, NEW T \in SUBSET (0..b), T # {}
  PROVE  \E m \in T : \A n \in T : n <= m
<1> DEFINE U == {b - n : n \in T}
<1>1. U \in SUBSET Nat /\ U # {}
  <2>1. \A n \in T : b - n \in Nat
    OBVIOUS
  <2>2. QED
    BY <2>1, Zenon
<1>2. PICK u \in U : \A v \in U : u <= v
  BY ZenonT(60), <1>1, LeastExists
<1>3. PICK m \in T : u = b - m
  BY <1>2
<1>4. ASSUME NEW n \in T PROVE n <= m
  <2>1. b - n \in U
    OBVIOUS
  <2>2. b - m <= b - n
    BY <1>2, <1>3, <2>1
  <2>3. QED
    BY <2>2
<1>5. QED
  BY <1>4

(* RunStart is defined: a run of equal terms that ends at p begins in 1..p. *)
LEMMA RunStartType ==
  ASSUME NEW l, NEW p \in Nat, p >= 1
  PROVE  RunStart(l, p) \in 1..p
<1> DEFINE run == {i \in 1..p : \A j \in i..p : l[j].term = l[p].term}
<1>1. run \in SUBSET Nat /\ p \in run
  OBVIOUS
<1>2. PICK m \in run : \A i \in run : m <= i
  <2> HIDE DEF run
  <2>1. QED
    BY <1>1, LeastExists
<1>3. ASSUME m # 1, l[m-1].term = l[p].term PROVE FALSE
  <2>1. m - 1 \in 1..p
    BY <1>3
  <2>2. \A j \in (m-1)..p : l[j].term = l[p].term
    BY <1>3
  <2>3. m - 1 \in run
    BY <2>1, <2>2
  <2>4. QED
    BY <1>2, <2>1, <2>3
<1>4. QED
  BY <1>3 DEF RunStart

(* getNextIndex returns an index at or before the one it was called with,  *)
(* whatever log it searches.                                               *)
LEMMA GetNextIndexType ==
  ASSUME NEW l, NEW cterm, NEW next \in Nat, NEW cfirst \in Nat,
         1 <= cfirst, cfirst < next
  PROVE  GetNextIndex(l, cterm, cfirst, next) \in 1..next
<1> DEFINE same == {i \in 1..cfirst : l[i].term = cterm}
           k    == CHOOSE i \in same : \A j \in same : j <= i
           end  == {i \in k..next-1 : \A j \in k..i : l[j].term = cterm}
           e    == CHOOSE i \in end : \A j \in end : j <= i
<1>1. SUFFICES ASSUME same # {} PROVE 1 + e \in 1..next
  BY DEF GetNextIndex
<1>2. k \in same
  <2>1. same \in SUBSET (0..cfirst)
    OBVIOUS
  <2> HIDE DEF same
  <2>2. QED
    BY ZenonT(60), <1>1, <2>1, GreatestExists
<1>3. k \in 1..cfirst /\ l[k].term = cterm
  BY <1>2
<1> HIDE DEF k
<1>4. k \in end
  BY <1>3
<1>5. e \in end
  <2>1. end \in SUBSET (0..next)
    BY <1>3
  <2> HIDE DEF end
  <2>2. QED
    BY ZenonT(60), <1>4, <2>1, GreatestExists
<1>6. QED
  BY <1>3, <1>5

(* The searches of AppendEntries and getNextIndex find what they look for. *)
LEMMA Backtracking == BacktrackDefined
BY RunStartType, GetNextIndexType DEF BacktrackDefined
-----------------------------------------------------------------------------
(* Whatever gaps are open but the one after a reply's term test, raft.go   *)
(* keeps its state well formed, indexes its log in range and never leaves  *)
(* the Persister behind the state it acts on.                              *)
THEOREM Invariance ==
  ASSUME "appendReply" \notin Preempt
  PROVE  Spec => []IndexInv
<1>1. Init => IndexInv
  BY IndexInvInit
<1>2. IndexInv /\ [Next]_vars => IndexInv'
  BY Backtracking, StepPreserves DEF StepOK
<1>3. QED
  BY <1>1, <1>2, PTL DEF Spec

(* The type invariant of everything but what applyEntries has sent.        *)
THEOREM TypeCorrect ==
  ASSUME "appendReply" \notin Preempt
  PROVE  Spec => []ProtocolTypeOK
<1>1. IndexInv => ProtocolTypeOK
  BY DEF IndexInv
<1>2. QED
  BY <1>1, Invariance, PTL

(* No goroutine of a leader indexes rf.Log out of range.                   *)
THEOREM IndexesInRange ==
  ASSUME "appendReply" \notin Preempt
  PROVE  Spec => []IndexInRange
<1>1. IndexInv => IndexInRange
  BY DEF IndexInv
<1>2. QED
  BY <1>1, Invariance, PTL

(* persist() is called in every section that changes a durable field.      *)
THEOREM Durable ==
  ASSUME "appendReply" \notin Preempt
  PROVE  Spec => []PersistedIsCurrent
<1>1. IndexInv => PersistedIsCurrent
  BY DEF IndexInv
<1>2. QED
  BY <1>1, Invariance, PTL

(* No step, a crash in a handler included, takes a peer to an older term.  *)
THEOREM TermsGrow ==
  ASSUME "appendReply" \notin Preempt
  PROVE  Spec => TermMonotonic
<1>1. IndexInv /\ [Next]_vars => [\A s \in Server : currentTerm'[s] >= currentTerm[s]]_vars
  <2>1. SUFFICES ASSUME IndexInv, [Next]_vars, NEW s \in Server
                 PROVE  currentTerm'[s] >= currentTerm[s]
    OBVIOUS
  <2>2. Advances(s) /\ currentTerm[s] \in Nat
    BY <2>1, Backtracking, StepPreserves DEF StepOK, IndexInv, ProtocolTypeOK, Term
  <2>3. currentTerm'[s] \in Nat
    BY <2>1, Backtracking, StepPreserves DEF StepOK, IndexInv, ProtocolTypeOK, Term
  <2>4. QED
    BY <2>2, <2>3 DEF Advances
<1>2. QED
  BY <1>1, Invariance, PTL DEF Spec, TermMonotonic

(* A vote given in a term is neither changed nor forgotten in that term.   *)
THEOREM VotesStay ==
  ASSUME "appendReply" \notin Preempt
  PROVE  Spec => VoteOnce
<1> DEFINE Kept == \A s \in Server :
             currentTerm'[s] = currentTerm[s] /\ voteFor[s] # None
               => voteFor'[s] = voteFor[s]
<1>1. IndexInv /\ [Next]_vars => [Kept]_vars
  <2>1. SUFFICES ASSUME IndexInv, [Next]_vars, NEW s \in Server,
                        currentTerm'[s] = currentTerm[s], voteFor[s] # None
                 PROVE  voteFor'[s] = voteFor[s]
    OBVIOUS
  <2>2. Advances(s) /\ currentTerm[s] \in Nat
    BY <2>1, Backtracking, StepPreserves DEF StepOK, IndexInv, ProtocolTypeOK, Term
  <2>3. QED
    BY <2>1, <2>2 DEF Advances
<1>2. QED
  BY <1>1, Invariance, PTL DEF Spec, VoteOnce
-----------------------------------------------------------------------------
(* What one step does to the invariants, when no gap but that before a     *)
(* send is open.                                                           *)
LEMMA OneStep ==
  ASSUME LogGapsClosed, IndexInv, ElectionInv, AppliedOK, NEW won, NEW led, NEW held,
         LogInv(won, led, held), CommitInv(won, led, held), [Next]_vars
  PROVE  /\ IndexInv' /\ ElectionInv' /\ AppliedOK'
         /\ \E won2, led2, held2 :
              /\ HistoryStep(won, led, held, won2, led2, held2)
              /\ CommitInv(won2, led2, held2)'
<1>1. "appendReply" \notin Preempt /\ ElectionGapsClosed
  BY DEF LogGapsClosed, ElectionGapsClosed
<1>2. StepOK
  BY <1>1, Backtracking, StepPreserves
<1>3. ElectionStepOK /\ ElectionSafety
  BY <1>1, <1>2, ElectionStep, LeadersUnique
<1>4. LogStepOK(won, led, held)
  BY <1>2, <1>3, LogStep
<1>5. PICK won2, led2, held2 : HistoryStep(won, led, held, won2, led2, held2)
  BY <1>4 DEF LogStepOK, HistoryStep
<1>6. CommitInv(won2, led2, held2)'
  BY <1>2, <1>5, PeerSetsHold, CommitStep
<1>7. AppliedOK'
  BY <1>2, AppliedStep
<1>8. QED
  BY <1>2, <1>3, <1>5, <1>6, <1>7 DEF StepOK, ElectionStepOK

(* At most one peer leads in a term: with the gaps closed in which a       *)
(* reply or a request outlives its election, and the others open.          *)
THEOREM AtMostOneLeader ==
  ASSUME ElectionGapsClosed
  PROVE  Spec => []ElectionSafety
<1>1. "appendReply" \notin Preempt
  BY DEF ElectionGapsClosed
<1>2. Init => ElectionInv
  BY ElectionInvInit
<1>3. IndexInv /\ ElectionInv /\ [Next]_vars => ElectionInv'
  BY <1>1, Backtracking, StepPreserves, ElectionStep DEF ElectionStepOK
<1>4. ElectionInv => ElectionSafety
  BY LeadersUnique
<1>5. Spec => []IndexInv
  BY <1>1, Invariance
<1>6. QED
  BY <1>2, <1>3, <1>4, <1>5, PTL DEF Spec

(* The invariant of the peers.                                             *)
THEOREM RaftInvariance ==
  ASSUME LogGapsClosed
  PROVE  Spec => []RaftInv
<1>1. ASSUME Init PROVE RaftInv
  <2>1. LogInv({}, [t \in Nat |-> <<>>], {}) /\ CommitInv({}, [t \in Nat |-> <<>>], {})
    BY <1>1, LogInvInit, CommitInvInit
  <2>2. AppliedOK
    <3>1. <<>> \in Seq(Command) /\ Len(<<>>) = 0
      OBVIOUS
    <3>2. QED
      BY <1>1, <3>1 DEF Init, AppliedOK
  <2>3. QED
    BY <1>1, <2>1, <2>2, IndexInvInit, ElectionInvInit DEF RaftInv
<1>2. ASSUME RaftInv, [Next]_vars PROVE RaftInv'
  <2>1. IndexInv /\ ElectionInv /\ AppliedOK
    BY <1>2 DEF RaftInv
  <2>2. PICK won, led, held : LogInv(won, led, held) /\ CommitInv(won, led, held)
    BY <1>2 DEF RaftInv
  <2>3. /\ IndexInv' /\ ElectionInv' /\ AppliedOK'
        /\ \E won2, led2, held2 : /\ HistoryStep(won, led, held, won2, led2, held2)
                                  /\ CommitInv(won2, led2, held2)'
    BY <1>2, <2>1, <2>2, OneStep
  <2>4. QED
    BY <2>3 DEF RaftInv, HistoryStep
<1>3. QED
  BY <1>1, <1>2, PTL DEF Spec

(* Logs that have the same term at the same index are the same up to it.   *)
THEOREM LogsAreMatched ==
  ASSUME LogGapsClosed
  PROVE  Spec => []LogMatching
<1>1. RaftInv => LogMatching
  BY LogsMatch DEF RaftInv
<1>2. QED
  BY <1>1, RaftInvariance, PTL

(* Every leader has what a peer of its term or of an earlier one holds as  *)
(* committed.                                                              *)
THEOREM LeadersAreComplete ==
  ASSUME LogGapsClosed
  PROVE  Spec => []LeaderCompleteness
<1>1. RaftInv => LeaderCompleteness
  BY PeerSetsHold, LeadersHaveCommitted DEF RaftInv
<1>2. QED
  BY <1>1, RaftInvariance, PTL

(* What a peer holds as committed is in the Persisters of a majority.      *)
THEOREM CommitsAreDurable ==
  ASSUME LogGapsClosed
  PROVE  Spec => []CommittedOnQuorum
<1>1. RaftInv => CommittedOnQuorum
  BY PeerSetsHold, MajorityHasCommitted DEF RaftInv
<1>2. QED
  BY <1>1, RaftInvariance, PTL

(* What applyEntries sends is always a command of the log.                 *)
THEOREM OnlyCommandsApplied ==
  ASSUME LogGapsClosed
  PROVE  Spec => []TypeOK
<1>1. RaftInv => TypeOK
  BY DEF RaftInv, IndexInv, AppliedOK, TypeOK
<1>2. QED
  BY <1>1, RaftInvariance, PTL

(* commitIndex never goes back while a peer lives, nor past its log.       *)
THEOREM CommitsGrow ==
  ASSUME LogGapsClosed
  PROVE  Spec => CommitMonotonic
<1> DEFINE Grow == \A s \in Server : crashes' = crashes =>
                     /\ commitIndex'[s] >= commitIndex[s]
                     /\ commitIndex'[s] <= Len(log'[s])
<1>1. ASSUME RaftInv, [Next]_vars, crashes' = crashes, NEW s \in Server
      PROVE  commitIndex'[s] >= commitIndex[s] /\ commitIndex'[s] <= Len(log'[s])
  <2>1. IndexInv /\ ElectionInv /\ AppliedOK
    BY <1>1 DEF RaftInv
  <2>2. PICK won, led, held : LogInv(won, led, held) /\ CommitInv(won, led, held)
    BY <1>1 DEF RaftInv
  <2>3. StepOK
    BY <1>1, <2>1, Backtracking, StepPreserves DEF LogGapsClosed, ElectionGapsClosed
  <2>4. commitIndex'[s] >= commitIndex[s]
    BY <1>1, <2>1, <2>2, <2>3, CommitGrows
  <2>5. PICK won2, led2, held2 : CommitInv(won2, led2, held2)'
    BY <1>1, <2>1, <2>2, OneStep
  <2>6. commitIndex'[s] <= Len(log'[s])
    BY <2>5 DEF CommitInv, PeerCommit
  <2>7. QED
    BY <2>4, <2>6
<1>2. RaftInv /\ [Next]_vars => [Grow]_vars
  BY <1>1
<1>3. QED
  BY <1>2, RaftInvariance, PTL DEF Spec, CommitMonotonic

(* The peers, with their readers, implement one replicated log.            *)
THEOREM RaftImplements ==
  ASSUME LogGapsClosed
  PROVE  HarnessSpec => ImplementsReplicatedLog
<1>1. ASSUME HarnessInit PROVE HarnessInv
  <2>1. LogInv({}, [t \in Nat |-> <<>>], {}) /\ CommitInv({}, [t \in Nat |-> <<>>], {})
    BY <1>1, LogInvInit, CommitInvInit DEF HarnessInit
  <2>2. <<>> \in Seq(Command) /\ Len(<<>>) = 0
    OBVIOUS
  <2>3. AppliedOK
    BY <1>1, <2>2 DEF HarnessInit, Init, AppliedOK
  <2>4. Delivered([t \in Nat |-> <<>>], {})
    <3>1. \A s \in Server : logs[s] = <<>> /\ applied[s] = <<>>
      BY <1>1 DEF HarnessInit, Init
    <3>2. logs \in [Server -> Seq(Command)]
      BY <1>1, <2>2 DEF HarnessInit
    <3>3. MaxOf(logs) # {}
      BY <2>2, <3>1, ServerAssumption DEF MaxOf
    <3>4. QED
      BY <2>2, <3>1, <3>2, <3>3 DEF Delivered, Agreed
  <2>5. IndexInv /\ ElectionInv
    BY <1>1, IndexInvInit, ElectionInvInit DEF HarnessInit
  <2>6. QED
    BY <2>1, <2>3, <2>4, <2>5 DEF HarnessInv
<1>2. ASSUME HarnessInv, [HarnessNext]_harnessVars
      PROVE  HarnessInv' /\ [Service!Next]_(Service!vars)
  <2>1. IndexInv /\ ElectionInv /\ AppliedOK
    BY <1>2 DEF HarnessInv
  <2>2. PICK won, led, held : /\ LogInv(won, led, held) /\ CommitInv(won, led, held)
                              /\ Delivered(led, held)
    BY <1>2 DEF HarnessInv
  <2>3. /\ [Next]_vars
        /\ (Next /\ Record) \/ UNCHANGED harnessVars
    BY <1>2 DEF HarnessNext, harnessVars
  <2>4. PICK won2, led2, held2 : /\ HistoryStep(won, led, held, won2, led2, held2)
                                 /\ CommitInv(won2, led2, held2)'
    BY <2>1, <2>2, <2>3, OneStep
  <2>5. IndexInv' /\ ElectionInv' /\ AppliedOK'
    BY <2>1, <2>2, <2>3, OneStep
  <2>6. \/ logs' = logs /\ \A t \in Server : Len(applied'[t]) <= Len(logs[t])
        \/ \E s \in Server : \E cmd \in Command : DeliversNext(s, cmd, led, held)
    BY <2>1, <2>2, <2>3, PeerSetsHold, RecordStep
  <2>7. Delivered(led2, held2)'
    BY <2>2, <2>4, <2>6, PeerSetsHold, DeliveredStep
  <2>8. HarnessInv'
    BY <2>4, <2>5, <2>7 DEF HarnessInv, HistoryStep
  <2>9. Service!Next \/ UNCHANGED Service!vars
    BY <2>2, <2>6, PeerSetsHold, ServiceStep
  <2>10. QED
    BY <2>8, <2>9
<1>3. ASSUME HarnessInit PROVE Service!Init
  <2>1. logs = [s \in Server |-> <<>>]
    BY <1>3 DEF HarnessInit
  <2>2. PICK x : x = CHOOSE s \in Server : \A t \in Server : Len(logs[t]) <= Len(logs[s])
    OBVIOUS
  <2>3. x \in Server
    <3>1. Len(<<>>) = 0
      OBVIOUS
    <3>2. \E s \in Server : \A t \in Server : Len(logs[t]) <= Len(logs[s])
      BY <2>1, <3>1, ServerAssumption
    <3>3. QED
      BY <2>2, <3>2
  <2>4. Longest = <<>>
    BY <2>1, <2>2, <2>3 DEF Longest
  <2>5. QED
    BY <2>1, <2>4 DEF Service!Init
<1>4. QED
  BY <1>1, <1>2, <1>3, PTL DEF HarnessSpec, ImplementsReplicatedLog, Service!Spec
=============================================================================
