-------------------------- MODULE RaftCommitProofs --------------------------
(***************************************************************************)
(* Commitment in Raft.  What a peer holds as committed was counted on a    *)
(* majority by a leader, so it is not lost and every later leader has it.  *)
(***************************************************************************)
EXTENDS RaftLogLemmas

(* What is held by a majority stays so.                                    *)
LEMMA ChosenStays ==
  ASSUME NEW u, NEW m, NEW held, NEW held2, held \subseteq held2, Chosen(u, m, held)
  PROVE  Chosen(u, m, held2)
BY DEF Chosen

(* What was committed in a term stays committed, in later terms too.       *)
LEMMA BackedStays ==
  ASSUME NEW n, NEW t \in Nat, NEW t2 \in Nat, t <= t2, NEW held, NEW held2,
         held \subseteq held2, Backed(n, t, held)
  PROVE  Backed(n, t2, held2)
BY ChosenStays DEF Backed

(* What a majority holds is an entry of a leader.                          *)
LEMMA ChosenWon ==
  ASSUME PeerSets, NEW won, NEW led, NEW held, LogInv(won, led, held),
         NEW u \in Nat, NEW m \in Nat, Chosen(u, m, held)
  PROVE  u \in won /\ Has(led[u], u, m)
<1>1. PICK Q \in Quorums : \A q \in Q : <<q, u, m>> \in held
  BY DEF Chosen
<1>2. PICK q \in Q : TRUE
  BY DEF PeerSets
<1>3. q \in Server /\ <<q, u, m>> \in held
  BY <1>1 DEF Quorums
<1>4. QED
  BY <1>3 DEF LogInv, HeldKept

(* What a majority holds is not lost.                                      *)
LEMMA ChosenNotLost ==
  ASSUME PeerSets, NEW held, NEW u, NEW m, Chosen(u, m, held)
  PROVE  ~Lost(u, m, held)
BY Zenon DEF Chosen, Lost, PeerSets

(* A log agrees with itself up to any of its indexes.                      *)
LEMMA AgreeSelf ==
  ASSUME NEW l, NEW n, n <= Len(l)
  PROVE  AgreeTo(l, l, n)
BY DEF AgreeTo

(* Every leader has what was committed in its term or before.              *)
LEMMA LeaderHasChosen ==
  ASSUME PeerSets, NEW won, NEW led, NEW held, LogInv(won, led, held),
         NEW U \in won, NEW u \in Nat, NEW m \in Nat, u <= U, Chosen(u, m, held)
  PROVE  AgreeTo(led[U], led[u], m)
<1>1. u \in won /\ Has(led[u], u, m)
  BY ChosenWon
<1>2. CASE u = U
  BY <1>1, <1>2, AgreeSelf DEF Has
<1>3. CASE u # U
  BY <1>1, ChosenNotLost, SameTermAgrees DEF LogInv, LeadersComplete, LeaderLogs
<1>4. QED
  BY <1>2, <1>3

(* What agrees with a leader's log agrees with that log grown longer.      *)
LEMMA AgreeGrown ==
  ASSUME NEW won, NEW led, NEW held, NEW won2, NEW led2, NEW held2,
         HistoryType(won, led, held), HistoryType(won2, led2, held2),
         Grows(won, led, held, won2, led2, held2),
         NEW l, NEW u \in won, NEW n \in Nat, AgreeTo(l, led[u], n)
  PROVE  AgreeTo(l, led2[u], n)
<1>1. led[u] \in Seq(Entry) /\ led2[u] \in Seq(Entry)
  BY DEF HistoryType
<1>2. Len(led[u]) \in Nat /\ n <= Len(led[u])
  BY AgreeLen
<1>3. AgreeTo(led[u], led2[u], Len(led[u]))
  BY DEF Grows
<1>4. AgreeTo(led[u], led2[u], n)
  BY Zenon, <1>1, <1>2, <1>3, AgreeDown
<1>5. QED
  BY <1>4, AgreeTrans

(* An entry that a leader has within its log of before the step it had     *)
(* before the step.                                                        *)
LEMMA HadBefore ==
  ASSUME NEW won, NEW led, NEW held, NEW won2, NEW led2, NEW held2,
         HistoryType(won, led, held), HistoryType(won2, led2, held2),
         Grows(won, led, held, won2, led2, held2),
         NEW u \in won, NEW n \in Nat, n <= Len(led[u]), Has(led2[u], u, n)
  PROVE  Has(led[u], u, n)
<1>1. led[u] \in Seq(Entry) /\ led2[u] \in Seq(Entry) /\ u \in Nat
  BY DEF HistoryType
<1>2. AgreeTo(led[u], led2[u], n)
  BY Zenon, AgreeSelf, AgreeGrown
<1>3. AgreeTo(led2[u], led[u], n) /\ n <= n
  BY <1>2, AgreeSym
<1>4. QED
  BY <1>1, <1>3, AgreeHas
-----------------------------------------------------------------------------
(* What a peer that keeps commitIndex, and its log up to it, holds as      *)
(* committed stays backed by a leader.                                     *)
LEMMA PeerCommitStays ==
  ASSUME PeerSets, IndexInv, StepOK,
         NEW won, NEW led, NEW held, NEW won2, NEW led2, NEW held2,
         HistoryStep(won, led, held, won2, led2, held2),
         NEW s \in Server, PeerCommit(s, led, held), commitIndex'[s] = commitIndex[s],
         AgreeTo(log[s], log'[s], commitIndex[s])
  PROVE  PeerCommit(s, led2, held2)'
<1>1. PICK n, l : n = commitIndex[s] /\ l = log'[s]
  OBVIOUS
<1>2. n \in Nat /\ n <= Len(l)
  BY Zenon, <1>1, AgreeLen DEF IndexInv, ProtocolTypeOK
<1>3. CASE n = 0
  BY <1>1, <1>3 DEF PeerCommit
<1>4. CASE n # 0
  <2>1. PICK u \in Nat, m \in Nat : /\ u <= currentTerm[s] /\ n <= m
                                    /\ Chosen(u, m, held)
                                    /\ AgreeTo(log[s], led[u], n)
    BY Zenon, <1>1, <1>4 DEF PeerCommit
  <2>2. Chosen(u, m, held2)
    BY Zenon, <2>1, ChosenStays DEF HistoryStep, Grows
  <2>3. LogInv(won, led, held)
    BY Zenon DEF HistoryStep
  <2>4. u \in won
    BY Zenon, <2>1, <2>3, ChosenWon
  <2>5. AgreeTo(log[s], led2[u], n)
    BY Zenon, <1>2, <2>1, <2>4, AgreeGrown DEF HistoryStep, LogInv, HistoryType
  <2>6. AgreeTo(l, led2[u], n)
    BY Zenon, <1>1, <2>5, AgreeSym, AgreeTrans
  <2>7. u <= currentTerm'[s]
    BY <2>1, TermsMove
  <2>8. QED
    BY Zenon, <1>1, <1>2, <2>1, <2>2, <2>6, <2>7 DEF PeerCommit, Chosen, Quorums,
           Majority
<1>5. QED
  BY <1>3, <1>4

(* A broadcast whose variables do not change, and that gets no goroutine   *)
(* for a peer for which it had none.                                       *)
LEMMA CastStays ==
  ASSUME IndexInv, NEW won, NEW led, NEW held, NEW won2, NEW led2, NEW held2,
         HistoryStep(won, led, held, won2, led2, held2),
         NEW k \in 1..Len(casts), CastOK(k, won, led, held), casts'[k] = casts[k],
         \A x \in appendCalls' : x.cid = k /\ x.stage # "orphan" =>
           \E y \in appendCalls : y.cid = k /\ y.stage # "orphan" /\ y.dst = x.dst
  PROVE  CastOK(k, won2, led2, held2)'
<1>1. PICK b : b = casts[k]
  OBVIOUS
<1>2. b \in Cast
  BY <1>1 DEF IndexInv, ProtocolTypeOK
<1>3. b.term \in Nat /\ b.index \in Nat /\ b.commit \in Nat
  BY Zenon, <1>2 DEF Cast, Term
<1>4. /\ HistoryType(won, led, held) /\ HistoryType(won2, led2, held2)
      /\ Grows(won, led, held, won2, led2, held2)
  BY Zenon DEF HistoryStep, LogInv, HistoryType
<1>5. b.term \in won /\ b.index <= Len(led[b.term]) /\ b.commit <= b.index
  BY Zenon, <1>1 DEF CastOK
<1>6. b.term \in won2 /\ held \subseteq held2
  BY Zenon, <1>4, <1>5 DEF Grows
<1>7. b.index <= Len(led2[b.term])
  <2>1. AgreeTo(led[b.term], led[b.term], b.index)
    BY Zenon, <1>5, AgreeSelf
  <2>2. AgreeTo(led[b.term], led2[b.term], b.index)
    BY Zenon, <1>3, <1>4, <1>5, <2>1, AgreeGrown
  <2>3. QED
    BY <2>2, AgreeLen
<1>8. Backed(b.commit, b.term, held2)
  <2>1. Backed(b.commit, b.term, held) /\ b.term <= b.term
    BY <1>1, <1>3 DEF CastOK
  <2>2. QED
    BY Zenon, <1>3, <1>6, <2>1, BackedStays
<1>9. PICK R \in SUBSET Server :
        /\ Cardinality(R) = b.nReplica
        /\ \A r \in R : Has(led[b.term], b.term, b.index) => <<r, b.term, b.index>> \in held
        /\ \A c \in appendCalls : c.cid = k /\ c.stage # "orphan" => c.dst \notin R
  BY Zenon, <1>1 DEF CastOK
<1>10. \A r \in R : Has(led2[b.term], b.term, b.index) => <<r, b.term, b.index>> \in held2
  <2>1. Has(led2[b.term], b.term, b.index) => Has(led[b.term], b.term, b.index)
    BY Zenon, <1>3, <1>4, <1>5, HadBefore
  <2>2. QED
    BY Zenon, <1>6, <1>9, <2>1
<1>11. \A x \in appendCalls' : x.cid = k /\ x.stage # "orphan" => x.dst \notin R
  BY Zenon, <1>9
<1>12. \E S \in SUBSET Server :
         /\ Cardinality(S) = b.nReplica
         /\ \A r \in S : Has(led2[b.term], b.term, b.index) => <<r, b.term, b.index>> \in held2
         /\ \A x \in appendCalls' : x.cid = k /\ x.stage # "orphan" => x.dst \notin S
  BY Zenon, <1>9, <1>10, <1>11
<1>13. QED
  BY <1>1, <1>5, <1>6, <1>7, <1>8, <1>12 DEF CastOK, Backed, Chosen, Quorums, Majority, Has

(* What a goroutine waits for stays right.                                 *)
LEMMA ReplyStays ==
  ASSUME IndexInv, NEW won, NEW led, NEW held, NEW won2, NEW led2, NEW held2,
         HistoryStep(won, led, held, won2, led2, held2), CommitInv(won, led, held),
         NEW c \in appendCalls,
         c.stage # "orphan" => casts'[c.cid].index = casts[c.cid].index
  PROVE  ReplyOK(c, led2, held2)'
<1>1. c \in AppendCall /\ CallInRange(c) /\ ReplyOK(c, led, held)
  BY Zenon DEF IndexInv, ProtocolTypeOK, IndexInRange, CommitInv
<1>2. c.term \in Nat /\ c.leaderCommit \in Nat
  BY Zenon, <1>1 DEF AppendCall, Term
<1>3. /\ HistoryType(won, led, held) /\ HistoryType(won2, led2, held2)
      /\ Grows(won, led, held, won2, led2, held2)
  BY Zenon DEF HistoryStep, LogInv, HistoryType
<1>4. held \subseteq held2
  BY Zenon, <1>3 DEF Grows
<1>5. Sending(c) => /\ c.leaderCommit <= c.prevLogIndex + Len(c.entries)
                    /\ Backed(c.leaderCommit, c.term, held2)
  BY <1>1, <1>2, <1>4, BackedStays DEF ReplyOK
<1>6. c.stage = "request" => casts'[c.cid].index <= c.prevLogIndex + Len(c.entries)
  BY Zenon, <1>1 DEF ReplyOK
<1>7. ASSUME c.stage = "reply", c.success, Has(led2[c.term], c.term, casts'[c.cid].index)
      PROVE  <<c.dst, c.term, casts'[c.cid].index>> \in held2
  <2>1. PICK i : i = casts[c.cid].index
    BY Zenon
  <2>2. casts'[c.cid].index = i
    BY Zenon, <1>7, <2>1
  <2>3. c.cid \in 1..Len(casts) /\ c.term = casts[c.cid].term
    BY Zenon, <1>1, <1>7 DEF CallInRange
  <2>4. i \in Nat
    <3>1. casts[c.cid] \in Cast
      BY <2>3 DEF IndexInv, ProtocolTypeOK
    <3>2. QED
      BY Zenon, <2>1, <3>1 DEF Cast
  <2>5. c.term \in won /\ i <= Len(led[c.term])
    BY Zenon, <2>1, <2>3 DEF CommitInv, CastOK
  <2>6. Has(led[c.term], c.term, i)
    BY Zenon, <1>3, <1>7, <2>2, <2>4, <2>5, HadBefore
  <2>7. <<c.dst, c.term, i>> \in held
    BY Zenon, <1>1, <1>7, <2>1, <2>6 DEF ReplyOK
  <2>8. QED
    BY <1>4, <2>2, <2>7
<1>8. QED
  BY <1>5, <1>6, <1>7 DEF ReplyOK, Backed, Chosen, Quorums, Majority, Has, Sending

(* A step that changes no broadcast's variables, and starts goroutines     *)
(* only in the place of others, keeps the invariant if it does for the     *)
(* peers, the new calls and their being unique.                            *)
LEMMA CallsChange ==
  ASSUME IndexInv, NEW won, NEW led, NEW held, NEW won2, NEW led2, NEW held2,
         HistoryStep(won, led, held, won2, led2, held2), CommitInv(won, led, held),
         casts' = casts, \A s \in Server : PeerCommit(s, led2, held2)', CallsUnique',
         \A x \in appendCalls' : x \in appendCalls \/ ReplyOK(x, led2, held2)',
         \A x \in appendCalls' : x.stage # "orphan" =>
           \E y \in appendCalls : y.cid = x.cid /\ y.stage # "orphan" /\ y.dst = x.dst
  PROVE  CommitInv(won2, led2, held2)'
BY CastStays, ReplyStays DEF CommitInv

(* A step that leaves logs and broadcasts alone and starts no goroutine;   *)
(* commitIndex is kept or, in a crash, forgotten.                          *)
LEMMA QuietCommit ==
  ASSUME PeerSets, IndexInv, StepOK,
         NEW won, NEW led, NEW held, NEW won2, NEW led2, NEW held2,
         HistoryStep(won, led, held, won2, led2, held2), CommitInv(won, led, held),
         casts' = casts, log' = log,
         \A s \in Server : commitIndex'[s] \in {0, commitIndex[s]},
         \A x \in appendCalls' : \/ x \in appendCalls
                                 \/ x.stage = "orphan" /\ ReplyOK(x, led2, held2)'
  PROVE  CommitInv(won2, led2, held2)'
<1>1. ASSUME NEW s \in Server PROVE PeerCommit(s, led2, held2)'
  <2>1. CASE commitIndex'[s] = 0
    BY <2>1 DEF IndexInv, ProtocolTypeOK, PeerCommit
  <2>2. CASE commitIndex'[s] = commitIndex[s]
    BY AgreeSelf, PeerCommitStays DEF CommitInv, PeerCommit
  <2>3. QED
    BY <2>1, <2>2
<1>2. CallsUnique'
  BY Zenon DEF CallsUnique, CommitInv
<1>3. QED
  BY <1>1, <1>2, CallsChange

(* A step that replaces the call c by n, where the peers keep what they    *)
(* hold as committed.                                                      *)
LEMMA ReplaceCall ==
  ASSUME IndexInv, NEW won, NEW led, NEW held, NEW won2, NEW led2, NEW held2,
         HistoryStep(won, led, held, won2, led2, held2), CommitInv(won, led, held),
         casts' = casts, \A s \in Server : PeerCommit(s, led2, held2)',
         NEW c \in appendCalls, NEW n, c.stage # "orphan", n.stage # c.stage,
         n.cid = c.cid, n.dst = c.dst, n.stage # "orphan",
         appendCalls' \subseteq (appendCalls \ {c}) \cup {n},
         n \in appendCalls' => ReplyOK(n, led2, held2)'
  PROVE  CommitInv(won2, led2, held2)'
BY CallsChange DEF CallsUnique, CommitInv
-----------------------------------------------------------------------------
(* A crash forgets commitIndex, and requests become orphans.               *)
LEMMA RestartCommit ==
  ASSUME PeerSets, IndexInv, StepOK,
         NEW won, NEW led, NEW held, NEW won2, NEW led2, NEW held2,
         HistoryStep(won, led, held, won2, led2, held2), CommitInv(won, led, held),
         NEW s \in Server, NEW image, NEW lost, image.log = persisted[s].log,
         Restart(s, image, lost)
  PROVE  CommitInv(won2, led2, held2)'
<1>1. log' = log /\ casts' = casts
  BY DEF Restart, IndexInv, ProtocolTypeOK, PersistedIsCurrent
<1>2. \A t \in Server : commitIndex'[t] \in {0, commitIndex[t]}
  BY Zenon DEF Restart, IndexInv, ProtocolTypeOK
<1>3. ASSUME NEW x \in appendCalls', x \notin appendCalls
      PROVE  x.stage = "orphan" /\ ReplyOK(x, led2, held2)'
  <2>1. PICK a \in appendCalls : a.stage = "request" /\ x = [a EXCEPT !.stage = "orphan"]
    BY Zenon, <1>3 DEF Restart
  <2>2. /\ x.stage = "orphan" /\ x.leaderCommit = a.leaderCommit /\ x.term = a.term
        /\ x.prevLogIndex = a.prevLogIndex /\ x.entries = a.entries
    BY Zenon, <2>1 DEF IndexInv, ProtocolTypeOK, AppendCall
  <2>3. ReplyOK(a, led2, held2)'
    BY Zenon, <1>1, ReplyStays
  <2>4. Sending(a)
    BY Zenon, <2>1 DEF Sending
  <2>5. QED
    BY Zenon, <2>2, <2>3, <2>4 DEF ReplyOK, Sending
<1>4. QED
  BY <1>1, <1>2, <1>3, QuietCommit

(* What a peer holds as committed was committed in its term or before.     *)
LEMMA CommitBacked ==
  ASSUME NEW s \in Server, NEW led, NEW held, PeerCommit(s, led, held)
  PROVE  Backed(commitIndex[s], currentTerm[s], held)
BY DEF PeerCommit, Backed

(* What the leader itself holds is in the history after a step.            *)
LEMMA LeaderHolds ==
  ASSUME NEW won2, NEW led2, NEW held2, LogInv(won2, led2, held2)', NEW s \in Server,
         NEW T \in Nat, T = currentTerm'[s], state'[s] = Leader
  PROVE  /\ T \in won2 /\ log'[s] = led2[T]
         /\ \A i \in Nat : Has(led2[T], T, i) => <<s, T, i>> \in held2
BY DEF LogInv, PeerLogs, HeldKept, Has

(* The calls of a new broadcast of a leader.                               *)
LEMMA BroadcastSends ==
  ASSUME IndexInv, NEW s \in Server, state[s] = Leader, NEW l \in Seq(Entry),
         NEW index \in Nat, index <= Len(l), Len(log[s]) <= Len(l),
         Broadcast(s, l, index), NEW x \in appendCalls', x \notin appendCalls
  PROVE  /\ x.cid = Len(casts) + 1 /\ x.dst \in Peers(s)
         /\ \/ x = ReadyCall(s, x.dst, x.cid)
            \/ /\ x.stage = "request" /\ x.term = currentTerm[s]
               /\ x.leaderCommit = commitIndex[s]
               /\ index <= x.prevLogIndex + Len(x.entries)
         /\ \A y \in appendCalls' : y \notin appendCalls /\ y.dst = x.dst => y = x
<1> DEFINE k    == Len(casts) + 1
           cast == [index |-> index, term |-> currentTerm[s],
                    commit |-> commitIndex[s], nReplica |-> 1, isAgree |-> FALSE]
           req(d) == AppendRequest(s, d, k, cast, l, nextIndex[s][d])
<1>1. cast \in Cast
  BY Zenon DEF Cast, IndexInv, ProtocolTypeOK
<1>2. cast.index = index /\ cast.term = currentTerm[s] /\ cast.commit = commitIndex[s]
  BY Zenon
<1>3. appendCalls' = appendCalls \cup
        IF "send" \in Preempt THEN {ReadyCall(s, d, k) : d \in Peers(s)}
        ELSE {req(d) : d \in Peers(s)}
  BY Zenon DEF Broadcast
<1>4. ASSUME NEW d \in Peers(s) PROVE nextIndex[s][d] \in 1..(Len(l) + 1)
  <2>1. d \in Server /\ nextIndex[s][d] \in 1..(Len(log[s]) + 1)
    BY Zenon DEF Peers, IndexInv, IndexInRange, LeaderIndexes
  <2>2. QED
    BY <2>1
<1>5. ASSUME NEW d \in Peers(s)
      PROVE  /\ ReadyCall(s, d, k).cid = k /\ ReadyCall(s, d, k).dst = d
             /\ req(d).cid = k /\ req(d).dst = d
  BY DEF ReadyCall, AppendRequest
<1> HIDE DEF k, cast
<1>6. ASSUME NEW d \in Peers(s)
      PROVE  /\ req(d).stage = "request" /\ req(d).term = currentTerm[s]
             /\ req(d).leaderCommit = commitIndex[s]
             /\ index <= req(d).prevLogIndex + Len(req(d).entries)
  BY <1>1, <1>2, <1>4, SentSlice
<1> HIDE DEF req
<1>7. CASE "send" \in Preempt
  BY <1>3, <1>5, <1>7 DEF k
<1>8. CASE "send" \notin Preempt
  BY <1>3, <1>5, <1>6 DEF k
<1>9. QED
  BY <1>7, <1>8

(* A new broadcast of a leader has counted the leader.                     *)
LEMMA BroadcastCommit ==
  ASSUME PeerSets, IndexInv, StepOK,
         NEW won, NEW led, NEW held, NEW won2, NEW led2, NEW held2,
         HistoryStep(won, led, held, won2, led2, held2), CommitInv(won, led, held),
         NEW s \in Server, state[s] = Leader, UNCHANGED <<currentTerm, state>>,
         NEW l \in Seq(Entry), l = log'[s], NEW index \in Nat, index <= Len(l),
         Len(log[s]) <= index, Broadcast(s, l, index),
         \A p \in Server : PeerCommit(p, led2, held2)'
  PROVE  CommitInv(won2, led2, held2)'
<1>1. PICK k, T, n, b : /\ k = Len(casts) + 1 /\ T = currentTerm[s] /\ n = commitIndex[s]
                        /\ b = [index |-> index, term |-> T, commit |-> n,
                                nReplica |-> 1, isAgree |-> FALSE]
  BY Zenon
<1>2. /\ T \in Nat /\ n \in Nat /\ b \in Cast /\ casts \in Seq(Cast)
      /\ b.index = index /\ b.term = T /\ b.commit = n /\ b.nReplica = 1
  BY Zenon, <1>1 DEF IndexInv, ProtocolTypeOK, Cast, Term
<1>3. casts' = Append(casts, b)
  BY Zenon, <1>1 DEF Broadcast
<1>4. /\ Len(casts) \in Nat /\ Len(casts') = k /\ casts'[k] = b
      /\ \A j \in 1..Len(casts) : casts'[j] = casts[j]
  BY <1>1, <1>3
<1>5. \A x \in appendCalls : x.stage # "orphan" => x.cid \in 1..Len(casts) /\ x.cid # k
  BY <1>1, <1>4 DEF IndexInv, IndexInRange, CallInRange
<1>6. Len(log[s]) \in Nat /\ Len(l) \in Nat /\ Len(log[s]) <= Len(l)
  BY DEF IndexInv, ProtocolTypeOK
<1>7. ASSUME NEW x \in appendCalls', x \notin appendCalls
      PROVE  /\ x.cid = k /\ x.dst # s
             /\ \/ x = ReadyCall(s, x.dst, x.cid)
                \/ /\ x.stage = "request" /\ x.term = T /\ x.leaderCommit = n
                   /\ index <= x.prevLogIndex + Len(x.entries)
             /\ \A y \in appendCalls' : y \notin appendCalls /\ y.dst = x.dst => y = x
  BY <1>1, <1>6, <1>7, BroadcastSends DEF Peers
<1>8. /\ T \in won2 /\ l = led2[T]
      /\ \A i \in Nat : Has(led2[T], T, i) => <<s, T, i>> \in held2
  BY <1>1, <1>2, LeaderHolds DEF HistoryStep
<1>9. n <= index /\ Backed(n, T, held2)
  <2>1. PeerCommit(s, led, held)
    BY Zenon DEF CommitInv
  <2>2. n <= index
    BY <1>1, <1>2, <1>6, <2>1 DEF PeerCommit
  <2>3. Backed(n, T, held) /\ T <= T
    BY <1>1, <1>2, <2>1, CommitBacked
  <2>4. held \subseteq held2
    BY Zenon DEF HistoryStep, Grows
  <2>5. QED
    BY Zenon, <1>2, <2>2, <2>3, <2>4, BackedStays
<1>10. CastOK(k, won2, led2, held2)'
  <2>1. {s} \in SUBSET Server /\ Cardinality({s}) = 1
    BY Zenon DEF PeerSets
  <2>2. \A r \in {s} : Has(led2[T], T, index) => <<r, T, index>> \in held2
    BY Zenon, <1>8
  <2>3. \A x \in appendCalls' : x.cid = k /\ x.stage # "orphan" => x.dst \notin {s}
    BY Zenon, <1>5, <1>7
  <2>4. \E R \in SUBSET Server :
          /\ Cardinality(R) = 1
          /\ \A r \in R : Has(led2[T], T, index) => <<r, T, index>> \in held2
          /\ \A x \in appendCalls' : x.cid = k /\ x.stage # "orphan" => x.dst \notin R
    BY Zenon, <2>1, <2>2, <2>3
  <2>5. index <= Len(led2[T])
    BY Zenon, <1>8
  <2>6. QED
    BY Zenon, <1>2, <1>4, <1>8, <1>9, <2>4, <2>5
       DEF CastOK, Backed, Chosen, Quorums, Majority, Has
<1>11. ASSUME NEW j \in 1..Len(casts) PROVE CastOK(j, won2, led2, held2)'
  <2>1. CastOK(j, won, led, held) /\ casts'[j] = casts[j]
    BY Zenon, <1>4 DEF CommitInv
  <2>2. j # k
    BY <1>1, <1>4
  <2>3. \A x \in appendCalls' : x.cid = j => x \in appendCalls
    BY Zenon, <1>7, <2>2
  <2>4. QED
    BY Zenon, <2>1, <2>3, CastStays
<1>12. ASSUME NEW x \in appendCalls' PROVE ReplyOK(x, led2, held2)'
  <2>1. CASE x \in appendCalls
    BY Zenon, <1>4, <1>5, <2>1, ReplyStays
  <2>2. CASE x = ReadyCall(s, x.dst, x.cid)
    BY <2>2 DEF ReadyCall, ReplyOK, Sending
  <2>3. CASE /\ x.cid = k /\ x.stage = "request" /\ x.term = T /\ x.leaderCommit = n
             /\ index <= x.prevLogIndex + Len(x.entries)
             /\ x \notin appendCalls
    <3>1. PICK last : last = x.prevLogIndex + Len(x.entries)
      BY Zenon
    <3>2. last \in Nat
      <4>1. x \in AppendCall
        BY Zenon DEF StepOK, IndexInv, ProtocolTypeOK
      <4>2. x.prevLogIndex \in Nat /\ Len(x.entries) \in Nat
        BY <4>1 DEF AppendCall
      <4>3. QED
        BY <3>1, <4>2
    <3>3. n <= last /\ index <= last
      BY <1>2, <1>9, <2>3, <3>1, <3>2
    <3>4. casts'[x.cid].index = index
      BY Zenon, <1>2, <1>4, <2>3
    <3>5. QED
      BY Zenon, <1>9, <2>3, <3>1, <3>3, <3>4 DEF ReplyOK, Sending, Backed, Chosen,
             Quorums, Majority
  <2>4. QED
    BY Zenon, <1>7, <2>1, <2>2, <2>3
<1>13. CallsUnique'
  BY Zenon, <1>5, <1>7 DEF CallsUnique, CommitInv
<1>14. QED
  BY <1>1, <1>4, <1>10, <1>11, <1>12, <1>13 DEF CommitInv

(* Peers that keep commitIndex, and whose logs are kept or grow.           *)
LEMMA PeersKeep ==
  ASSUME PeerSets, IndexInv, StepOK,
         NEW won, NEW led, NEW held, NEW won2, NEW led2, NEW held2,
         HistoryStep(won, led, held, won2, led2, held2), CommitInv(won, led, held),
         commitIndex' = commitIndex,
         \A p \in Server : AgreeTo(log[p], log'[p], Len(log[p]))
  PROVE  \A p \in Server : PeerCommit(p, led2, held2)'
<1>1. SUFFICES ASSUME NEW p \in Server PROVE PeerCommit(p, led2, held2)'
  BY Zenon
<1>2. PeerCommit(p, led, held) /\ commitIndex[p] <= Len(log[p])
  BY Zenon DEF CommitInv, PeerCommit
<1>3. PICK l : l = log'[p]
  BY Zenon
<1>4. /\ log[p] \in Seq(Entry) /\ l \in Seq(Entry) /\ commitIndex[p] \in Nat
  BY Zenon, <1>3 DEF StepOK, IndexInv, ProtocolTypeOK
<1>5. AgreeTo(log[p], l, commitIndex[p])
  BY <1>2, <1>3, <1>4, AgreeDown
<1>6. QED
  BY <1>2, <1>3, <1>5, PeerCommitStays

(* Start.                                                                  *)
LEMMA AppendCommandCommit ==
  ASSUME PeerSets, IndexInv, StepOK,
         NEW won, NEW led, NEW held, NEW won2, NEW led2, NEW held2,
         HistoryStep(won, led, held, won2, led2, held2), CommitInv(won, led, held),
         NEW s \in Server, NEW cmd \in Command, state[s] = Leader, AppendCommand(s, cmd)
  PROVE  CommitInv(won2, led2, held2)'
<1>1. PICK e, index, l : /\ e = [term |-> currentTerm[s], cmd |-> cmd]
                         /\ index = Len(log[s]) + 1 /\ l = log'[s]
  BY Zenon
<1>2. e \in Entry /\ log \in [Server -> Seq(Entry)] /\ log[s] \in Seq(Entry)
  BY Zenon, <1>1 DEF Entry, IndexInv, ProtocolTypeOK
<1>3. /\ log' = [log EXCEPT ![s] = Append(log[s], e)] /\ Broadcast(s, l, index)
      /\ UNCHANGED <<currentTerm, state, commitIndex>>
  BY Zenon, <1>1 DEF AppendCommand, applyVars
<1>4. l = Append(log[s], e)
  BY Zenon, <1>1, <1>2, <1>3
<1>5. Len(log[s]) \in Nat /\ \A p \in Server : Len(log[p]) \in Nat
  OBVIOUS
<1>6. /\ l \in Seq(Entry) /\ Len(l) = index /\ index \in Nat /\ Len(log[s]) <= index
      /\ \A i \in 1..Len(log[s]) : l[i] = log[s][i]
  BY <1>1, <1>2, <1>4, <1>5
<1>7. ASSUME NEW p \in Server PROVE AgreeTo(log[p], log'[p], Len(log[p]))
  BY <1>1, <1>3, <1>5, <1>6, AgreeSelf DEF AgreeTo
<1>8. \A p \in Server : PeerCommit(p, led2, held2)'
  BY Zenon, <1>3, <1>7, PeersKeep
<1>9. index <= Len(l) /\ UNCHANGED <<currentTerm, state>>
  BY <1>3, <1>6
<1>10. QED
  BY Zenon, <1>1, <1>3, <1>6, <1>8, <1>9, BroadcastCommit

(* A heartbeat.                                                            *)
LEMMA BroadcastHeartbeatCommit ==
  ASSUME PeerSets, IndexInv, StepOK,
         NEW won, NEW led, NEW held, NEW won2, NEW led2, NEW held2,
         HistoryStep(won, led, held, won2, led2, held2), CommitInv(won, led, held),
         NEW s \in Server, BroadcastHeartbeat(s)
  PROVE  CommitInv(won2, led2, held2)'
<1>1. PICK index, l : index = Len(log[s]) /\ l = log[s]
  BY Zenon
<1>2. /\ state[s] = Leader /\ Broadcast(s, l, index)
      /\ UNCHANGED <<currentTerm, state, commitIndex, log>>
  BY Zenon, <1>1 DEF BroadcastHeartbeat, applyVars
<1>3. l \in Seq(Entry) /\ l = log'[s] /\ \A p \in Server : log[p] \in Seq(Entry)
  BY Zenon, <1>1, <1>2 DEF IndexInv, ProtocolTypeOK
<1>4. index \in Nat /\ index <= Len(l) /\ Len(log[s]) <= index
  BY <1>1
<1>5. \A p \in Server : AgreeTo(log[p], log'[p], Len(log[p]))
  BY <1>2, AgreeSelf
<1>6. \A p \in Server : PeerCommit(p, led2, held2)'
  BY Zenon, <1>2, <1>5, PeersKeep
<1>7. QED
  BY <1>2, <1>3, <1>4, <1>6, BroadcastCommit

(* What a goroutine sends from the retry label.                            *)
LEMMA SentOK ==
  ASSUME IndexInv, StepOK, NEW won, NEW led, NEW held, NEW won2, NEW led2, NEW held2,
         HistoryStep(won, led, held, won2, led2, held2), CommitInv(won, led, held),
         NEW c \in appendCalls, c.stage # "orphan", NEW s \in Server, s = c.src,
         state[s] = Leader, currentTerm[s] = casts[c.cid].term,
         NEW next \in 1..(Len(log[s]) + 1), casts' = casts,
         NEW x, x = AppendRequest(s, c.dst, c.cid, casts[c.cid], log[s], next),
         x \in AppendCall
  PROVE  x.cid = c.cid /\ x.dst = c.dst /\ x.stage = "request" /\ ReplyOK(x, led2, held2)'
<1>1. PICK b : b = casts[c.cid]
  BY Zenon
<1>2. CallInRange(c) /\ c.cid \in 1..Len(casts) /\ b.index <= Len(log[s])
  BY Zenon, <1>1 DEF IndexInv, IndexInRange, CallInRange, Leader, Follower
<1>3. b \in Cast /\ log[s] \in Seq(Entry)
  BY <1>1, <1>2 DEF IndexInv, ProtocolTypeOK
<1>4. /\ x.cid = c.cid /\ x.dst = c.dst /\ x.stage = "request"
      /\ x.term = b.term /\ x.leaderCommit = b.commit
      /\ b.index <= x.prevLogIndex + Len(x.entries)
  BY <1>1, <1>2, <1>3, SentSlice
<1>5. b.commit <= b.index /\ Backed(b.commit, b.term, held)
  BY Zenon, <1>1, <1>2 DEF CommitInv, CastOK
<1>6. b.commit \in Nat /\ b.index \in Nat /\ b.term \in Nat /\ b.term <= b.term
  BY <1>3 DEF Cast, Term
<1>7. held \subseteq held2
  BY Zenon DEF HistoryStep, Grows
<1>8. Backed(b.commit, b.term, held2)
  BY Zenon, <1>5, <1>6, <1>7, BackedStays
<1>9. PICK last : last = x.prevLogIndex + Len(x.entries)
  BY Zenon
<1>10. last \in Nat
  <2>1. x.prevLogIndex \in Nat /\ Len(x.entries) \in Nat
    BY DEF AppendCall
  <2>2. QED
    BY <1>9, <2>1
<1>11. b.commit <= last /\ b.index <= last
  BY <1>4, <1>5, <1>6, <1>9, <1>10
<1>12. QED
  BY Zenon, <1>1, <1>4, <1>8, <1>9, <1>11
     DEF ReplyOK, Sending, Backed, Chosen, Quorums, Majority

(* Sending from the retry label.                                           *)
LEMMA SendAppendCommit ==
  ASSUME PeerSets, IndexInv, StepOK,
         NEW won, NEW led, NEW held, NEW won2, NEW led2, NEW held2,
         HistoryStep(won, led, held, won2, led2, held2), CommitInv(won, led, held),
         NEW c \in appendCalls, SendAppend(c)
  PROVE  CommitInv(won2, led2, held2)'
<1>1. PICK s, x : /\ s = c.src
                  /\ x = AppendRequest(s, c.dst, c.cid, casts[c.cid], log[s], nextIndex[s][c.dst])
  BY Zenon
<1>2. /\ c.stage = "ready" /\ UNCHANGED <<log, casts, commitIndex>>
      /\ appendCalls' = (appendCalls \ {c}) \cup
           IF state[s] = Leader /\ currentTerm[s] = casts[c.cid].term THEN {x} ELSE {}
  BY Zenon, <1>1 DEF SendAppend, applyVars
<1>3. s \in Server /\ c.dst \in Server /\ log \in [Server -> Seq(Entry)]
  BY Zenon, <1>1 DEF IndexInv, ProtocolTypeOK, AppendCall
<1>4. CASE state[s] = Leader /\ currentTerm[s] = casts[c.cid].term
  <2>1. nextIndex[s][c.dst] \in 1..(Len(log[s]) + 1)
    BY Zenon, <1>3, <1>4 DEF IndexInv, IndexInRange, LeaderIndexes
  <2>2. x \in AppendCall
    BY Zenon, <1>2, <1>4 DEF StepOK, IndexInv, ProtocolTypeOK
  <2>3. x.cid = c.cid /\ x.dst = c.dst /\ x.stage = "request" /\ ReplyOK(x, led2, held2)'
    <3>1. PICK next \in 1..(Len(log[s]) + 1) : next = nextIndex[s][c.dst]
      BY Zenon, <2>1
    <3>2. x = AppendRequest(s, c.dst, c.cid, casts[c.cid], log[s], next)
      BY Zenon, <1>1, <3>1
    <3>3. s = c.src /\ c.stage # "orphan" /\ casts' = casts
      BY Zenon, <1>1, <1>2
    <3>4. QED
      BY <1>3, <1>4, <2>2, <3>2, <3>3, SentOK
  <2>4. \A p \in Server : AgreeTo(log[p], log'[p], Len(log[p]))
    BY <1>2, AgreeSelf
  <2>5. \A p \in Server : PeerCommit(p, led2, held2)'
    BY Zenon, <1>2, <2>4, PeersKeep
  <2>6. x.stage # c.stage /\ c.stage # "orphan" /\ x.stage # "orphan"
    BY Zenon, <1>2, <2>3
  <2>7. appendCalls' \subseteq (appendCalls \ {c}) \cup {x} /\ casts' = casts
    BY Zenon, <1>2
  <2>8. QED
    BY Zenon, <2>3, <2>5, <2>6, <2>7, ReplaceCall
<1>5. CASE ~(state[s] = Leader /\ currentTerm[s] = casts[c.cid].term)
  BY Zenon, <1>2, <1>5, QuietCommit
<1>6. QED
  BY <1>4, <1>5

(* What a peer holds as committed every leader of its term, or of a later  *)
(* one, has.                                                               *)
LEMMA CommittedOnLeader ==
  ASSUME PeerSets, IndexInv, NEW won, NEW led, NEW held, LogInv(won, led, held),
         NEW s \in Server, PeerCommit(s, led, held), NEW T \in won, currentTerm[s] <= T
  PROVE  AgreeTo(log[s], led[T], commitIndex[s])
<1>1. PICK n : n = commitIndex[s]
  BY Zenon
<1>2. won \subseteq Nat /\ led \in [Nat -> Seq(Entry)]
  BY Zenon DEF LogInv, HistoryType
<1>3. n \in Nat /\ T \in Nat /\ currentTerm[s] \in Nat /\ log[s] \in Seq(Entry)
  BY Zenon, <1>1, <1>2 DEF IndexInv, ProtocolTypeOK, Term
<1>4. CASE n = 0
  BY <1>1, <1>4 DEF AgreeTo
<1>5. CASE n # 0
  <2>1. PICK u \in Nat, m \in Nat : /\ u <= currentTerm[s] /\ n <= m
                                    /\ Chosen(u, m, held)
                                    /\ AgreeTo(log[s], led[u], n)
    BY Zenon, <1>1, <1>5 DEF PeerCommit
  <2>2. u <= T
    BY <1>3, <2>1
  <2>3. AgreeTo(led[T], led[u], m)
    BY Zenon, <2>1, <2>2, LeaderHasChosen
  <2>4. led[T] \in Seq(Entry) /\ led[u] \in Seq(Entry)
    BY Zenon, <1>2
  <2>5. AgreeTo(led[T], led[u], n)
    BY Zenon, <1>3, <2>1, <2>3, <2>4, AgreeDown
  <2>6. QED
    BY Zenon, <1>1, <2>1, <2>5, AgreeSym, AgreeTrans
<1>6. QED
  BY <1>4, <1>5

(* A follower that accepts entries keeps what it holds as committed, and   *)
(* commits what the leader has committed and it has now.                   *)
LEMMA AcceptCommit ==
  ASSUME PeerSets, IndexInv, StepOK,
         NEW won, NEW led, NEW held, NEW won2, NEW led2, NEW held2,
         HistoryStep(won, led, held, won2, led2, held2), CommitInv(won, led, held),
         NEW d \in Server, NEW T \in won, currentTerm[d] <= T, T = currentTerm'[d],
         NEW r \in Seq(Entry), r = log'[d], NEW last \in Nat, AgreeTo(r, led[T], last),
         \A i \in Nat : AgreeTo(log[d], led[T], i) => AgreeTo(r, led[T], i),
         NEW lc \in Nat, lc <= last, Backed(lc, T, held),
         commitIndex'[d] = NewCommitIndex(commitIndex[d], lc, last)
  PROVE  PeerCommit(d, led2, held2)'
<1>1. PICK n : n = commitIndex[d]
  BY Zenon
<1>2. /\ LogInv(won, led, held) /\ Grows(won, led, held, won2, led2, held2)
      /\ HistoryType(won, led, held) /\ HistoryType(won2, led2, held2)
      /\ PeerCommit(d, led, held)
  BY Zenon DEF HistoryStep, LogInv, HistoryType, CommitInv
<1>3. won \subseteq Nat /\ led \in [Nat -> Seq(Entry)] /\ n \in Nat /\ T \in Nat
  BY Zenon, <1>1, <1>2 DEF HistoryType, IndexInv, ProtocolTypeOK
<1>4. CASE lc <= n
  <2>1. commitIndex'[d] = n
    BY Zenon, <1>1, <1>4 DEF NewCommitIndex
  <2>2. AgreeTo(log[d], led[T], n)
    BY Zenon, <1>1, <1>2, CommittedOnLeader
  <2>3. AgreeTo(r, led[T], n)
    BY Zenon, <1>3, <2>2
  <2>4. AgreeTo(log[d], r, n)
    BY Zenon, <2>2, <2>3, AgreeSym, AgreeTrans
  <2>5. QED
    BY Zenon, <1>1, <1>2, <2>1, <2>4, PeerCommitStays
<1>5. CASE ~(lc <= n)
  <2>1. commitIndex'[d] = lc /\ lc # 0
    BY <1>1, <1>3, <1>5 DEF NewCommitIndex
  <2>2. PICK u \in Nat, m \in Nat : u <= T /\ lc <= m /\ Chosen(u, m, held)
    BY Zenon, <2>1 DEF Backed
  <2>3. u \in won /\ AgreeTo(led[T], led[u], m)
    BY Zenon, <1>2, <2>2, ChosenWon, LeaderHasChosen
  <2>4. led[T] \in Seq(Entry) /\ led[u] \in Seq(Entry)
    BY Zenon, <1>3
  <2>5. AgreeTo(led[T], led[u], lc) /\ AgreeTo(r, led[T], lc)
    BY Zenon, <2>2, <2>3, <2>4, AgreeDown
  <2>6. AgreeTo(r, led[u], lc)
    BY Zenon, <2>5, AgreeTrans
  <2>7. AgreeTo(r, led2[u], lc)
    BY Zenon, <1>2, <2>3, <2>6, AgreeGrown
  <2>8. Chosen(u, m, held2)
    BY Zenon, <1>2, <2>2, ChosenStays DEF Grows
  <2>9. lc <= Len(r)
    BY AgreeLen
  <2>10. QED
    BY Zenon, <2>1, <2>2, <2>7, <2>8, <2>9 DEF PeerCommit, Chosen, Quorums, Majority
<1>6. QED
  BY <1>4, <1>5

(* The handler's answer: a success exactly when the entries are accepted.  *)
LEMMA AppendReplyFields ==
  ASSUME NEW c \in AppendCall, NEW d \in Server, currentTerm[d] \in Nat
  PROVE  /\ AppendReply(c, d).cid = c.cid /\ AppendReply(c, d).dst = c.dst
         /\ AppendReply(c, d).term = c.term /\ AppendReply(c, d).stage = "reply"
         /\ AppendReply(c, d).success =>
              /\ currentTerm[d] <= c.term
              /\ Consistent(log[d], c.prevLogIndex, c.prevLogTerm)
BY DEF AppendCall, Term, AppendReply, AppendAnswer

(* The calls after the AppendEntries handler has run.                      *)
LEMMA HandledCalls ==
  ASSUME PeerSets, IndexInv, StepOK,
         NEW won, NEW led, NEW held, NEW won2, NEW led2, NEW held2,
         HistoryStep(won, led, held, won2, led2, held2), CommitInv(won, led, held),
         NEW c \in appendCalls, HandleAppendEntries(c),
         \A p \in Server : PeerCommit(p, led2, held2)',
         NEW x, x = AppendReply(c, c.dst),
         c.stage = "request" => ReplyOK(x, led2, held2)'
  PROVE  CommitInv(won2, led2, held2)'
<1>1. /\ c.stage \in {"request", "orphan"} /\ casts' = casts
      /\ appendCalls' = (appendCalls \ {c}) \cup IF c.stage = "orphan" THEN {} ELSE {x}
  BY Zenon DEF HandleAppendEntries
<1>2. c \in AppendCall /\ c.dst \in Server /\ currentTerm[c.dst] \in Nat
  BY Zenon DEF IndexInv, ProtocolTypeOK, AppendCall, Term
<1>3. x.cid = c.cid /\ x.dst = c.dst /\ x.stage = "reply"
  BY Zenon, <1>2, AppendReplyFields
<1>4. CASE c.stage = "orphan"
  BY Zenon, <1>1, <1>4, CallsChange DEF CallsUnique, CommitInv
<1>5. CASE c.stage = "request"
  BY Zenon, <1>1, <1>3, <1>5, ReplaceCall
<1>6. QED
  BY <1>1, <1>4, <1>5

(* The AppendEntries handler.                                              *)
LEMMA HandleAppendEntriesCommit ==
  ASSUME PeerSets, IndexInv, StepOK,
         NEW won, NEW led, NEW held, NEW won2, NEW led2, NEW held2,
         HistoryStep(won, led, held, won2, led2, held2), CommitInv(won, led, held),
         NEW c \in appendCalls, HandleAppendEntries(c)
  PROVE  CommitInv(won2, led2, held2)'
<1> DEFINE accept == /\ currentTerm[c.dst] <= c.term
                     /\ Consistent(log[c.dst], c.prevLogIndex, c.prevLogTerm)
<1>1. PICK d, T, last, x, r :
        /\ d = c.dst /\ T = c.term /\ last = c.prevLogIndex + Len(c.entries)
        /\ x = AppendReply(c, d) /\ r = log'[d]
  BY Zenon
<1>2. /\ c \in AppendCall /\ d \in Server /\ T \in Nat /\ currentTerm[d] \in Nat
      /\ currentTerm \in [Server -> Nat] /\ log \in [Server -> Seq(Entry)]
      /\ commitIndex \in [Server -> Nat] /\ c.prevLogIndex \in Nat
      /\ c.entries \in Seq(Entry) /\ c.leaderCommit \in Nat
  BY Zenon, <1>1 DEF IndexInv, ProtocolTypeOK, AppendCall, Term
<1>3. /\ Sending(c) /\ casts' = casts
      /\ currentTerm' = IF currentTerm[d] < T THEN [currentTerm EXCEPT ![d] = T]
                                              ELSE currentTerm
      /\ log' = [log EXCEPT ![d] =
           IF accept THEN Replicated(log[d], c.prevLogIndex, c.entries) ELSE log[d]]
      /\ commitIndex' = [commitIndex EXCEPT ![d] =
           IF accept THEN NewCommitIndex(commitIndex[d], c.leaderCommit, last)
                     ELSE commitIndex[d]]
  BY Zenon, <1>1 DEF HandleAppendEntries, Sending
<1>4. /\ x.cid = c.cid /\ x.dst = d /\ x.term = T /\ x.stage = "reply"
      /\ x.success => accept
  BY Zenon, <1>1, <1>2, AppendReplyFields
<1> HIDE DEF accept
<1>5. CASE ~accept
  <2>1. log' = log /\ commitIndex' = commitIndex
    BY Zenon, <1>2, <1>3, <1>5
  <2>2. \A p \in Server : AgreeTo(log[p], log'[p], Len(log[p]))
    BY <2>1, AgreeSelf
  <2>3. \A p \in Server : PeerCommit(p, led2, held2)'
    BY Zenon, <2>1, <2>2, PeersKeep
  <2>4. ReplyOK(x, led2, held2)'
    BY Zenon, <1>4, <1>5 DEF ReplyOK, Sending
  <2>5. QED
    BY Zenon, <1>1, <2>3, <2>4, HandledCalls
<1>6. CASE accept
  <2>1. /\ LogInv(won, led, held) /\ LogInv(won2, led2, held2)'
        /\ HistoryType(won, led, held) /\ HistoryType(won2, led2, held2)
        /\ Grows(won, led, held, won2, led2, held2)
    BY Zenon DEF HistoryStep, LogInv, HistoryType
  <2>2. T \in won /\ SliceOf(c.prevLogIndex, c.prevLogTerm, c.entries, led[T])
    BY Zenon, <1>1, <1>3, <2>1 DEF LogInv, RequestOK
  <2>3. /\ currentTerm[d] <= T /\ Consistent(log[d], c.prevLogIndex, c.prevLogTerm)
        /\ r = Replicated(log[d], c.prevLogIndex, c.entries)
        /\ commitIndex'[d] = NewCommitIndex(commitIndex[d], c.leaderCommit, last)
    BY Zenon, <1>1, <1>2, <1>3, <1>6 DEF accept
  <2>4. currentTerm'[d] = T
    BY <1>2, <1>3, <2>3
  <2>5. last \in Nat
    BY <1>1, <1>2
  <2>6. /\ r \in Seq(Entry) /\ AgreeTo(r, led[T], last)
        /\ \A i \in Nat : AgreeTo(log[d], led[T], i) => AgreeTo(r, led[T], i)
    <3>1. OnLine(log[d], won, led) /\ OnLine(led[T], won, led)
      BY Zenon, <1>2, <2>1, <2>2 DEF LogInv, PeerLogs, LeaderLogs
    <3>2. led[T] \in Seq(Entry) /\ log[d] \in Seq(Entry)
      BY Zenon, <1>2, <2>1 DEF HistoryType
    <3>3. /\ c.prevLogIndex \in Nat /\ c.entries \in Seq(Entry)
          /\ last = c.prevLogIndex + Len(c.entries)
          /\ r = Replicated(log[d], c.prevLogIndex, c.entries)
          /\ Consistent(log[d], c.prevLogIndex, c.prevLogTerm)
          /\ SliceOf(c.prevLogIndex, c.prevLogTerm, c.entries, led[T])
      BY Zenon, <1>1, <1>2, <2>2, <2>3
    <3>4. QED
      BY Zenon, <3>1, <3>2, <3>3, ReplicatedAgrees
  <2>7. c.leaderCommit <= last /\ Backed(c.leaderCommit, T, held)
    BY Zenon, <1>1, <1>3 DEF CommitInv, ReplyOK
  <2>8. PeerCommit(d, led2, held2)'
    BY Zenon, <1>1, <1>2, <2>2, <2>3, <2>4, <2>5, <2>6, <2>7, AcceptCommit
  <2>9. ASSUME NEW p \in Server, p # d PROVE PeerCommit(p, led2, held2)'
    <3>1. log'[p] = log[p] /\ commitIndex'[p] = commitIndex[p]
      BY <1>3, <2>9
    <3>2. PeerCommit(p, led, held)
      BY Zenon DEF CommitInv
    <3>3. AgreeTo(log[p], log'[p], commitIndex[p])
      BY Zenon, <3>1, <3>2, AgreeSelf DEF PeerCommit
    <3>4. QED
      BY Zenon, <3>1, <3>2, <3>3, PeerCommitStays
  <2>10. ASSUME c.stage = "request" PROVE ReplyOK(x, led2, held2)'
    <3>1. PICK index : index = casts[c.cid].index
      BY Zenon
    <3>2. CallInRange(c) /\ c.cid \in 1..Len(casts) /\ T = casts[c.cid].term
      BY Zenon, <1>1, <2>10 DEF IndexInv, IndexInRange, CallInRange
    <3>3. index \in Nat
      <4>1. casts[c.cid] \in Cast
        BY <3>2 DEF IndexInv, ProtocolTypeOK
      <4>2. QED
        BY Zenon, <3>1, <4>1 DEF Cast
    <3>4. index <= last /\ index <= Len(led[T])
      BY Zenon, <1>1, <2>10, <3>1, <3>2 DEF CommitInv, ReplyOK, CastOK
    <3>5. ASSUME Has(led2[T], T, index) PROVE <<d, T, index>> \in held2
      <4>1. Has(led[T], T, index)
        BY Zenon, <2>1, <2>2, <3>3, <3>4, <3>5, HadBefore
      <4>2. led[T] \in Seq(Entry) /\ AgreeTo(led[T], r, last)
        BY Zenon, <1>2, <2>1, <2>6, AgreeSym DEF HistoryType
      <4>3. Has(r, T, index)
        BY Zenon, <2>5, <2>6, <3>3, <3>4, <4>1, <4>2, AgreeHas
      <4>4. QED
        BY Zenon, <1>1, <1>2, <2>1, <2>4, <3>3, <4>3 DEF LogInv, HeldKept, Has
    <3>6. casts'[x.cid].index = index
      BY Zenon, <1>3, <1>4, <3>1
    <3>7. QED
      BY Zenon, <1>4, <3>5, <3>6 DEF ReplyOK, Sending, Has
  <2>11. QED
    BY Zenon, <1>1, <2>8, <2>9, <2>10, HandledCalls
<1>7. QED
  BY <1>5, <1>6

(* A successful reply is of a peer that its broadcast has not counted and  *)
(* that holds the entry.                                                   *)
LEMMA Counted ==
  ASSUME PeerSets, IndexInv, NEW won, NEW led, NEW held, CommitInv(won, led, held),
         NEW c \in appendCalls, c.stage = "reply", c.success,
         NEW b, b = casts[c.cid]
  PROVE  /\ c.cid \in 1..Len(casts) /\ b \in Cast /\ b.term = c.term
         /\ b.term \in won /\ b.index <= Len(led[b.term])
         /\ \E R \in SUBSET Server :
              /\ Cardinality(R) = b.nReplica + 1
              /\ \A r \in R :
                   Has(led[b.term], b.term, b.index) => <<r, b.term, b.index>> \in held
              /\ \A x \in appendCalls \ {c} :
                   x.cid = c.cid /\ x.stage # "orphan" => x.dst \notin R
<1>1. c \in AppendCall /\ CallInRange(c) /\ ReplyOK(c, led, held) /\ c.dst \in Server
  BY Zenon DEF IndexInv, ProtocolTypeOK, IndexInRange, CommitInv, AppendCall
<1>2. c.cid \in 1..Len(casts) /\ b.term = c.term
  BY Zenon, <1>1 DEF CallInRange
<1>3. b \in Cast
  BY <1>2 DEF IndexInv, ProtocolTypeOK
<1>4. CastOK(c.cid, won, led, held)
  BY Zenon, <1>2 DEF CommitInv
<1>5. b.term \in won /\ b.index <= Len(led[b.term])
  BY Zenon, <1>4 DEF CastOK
<1>6. PICK R \in SUBSET Server :
        /\ Cardinality(R) = b.nReplica
        /\ \A r \in R : Has(led[b.term], b.term, b.index) => <<r, b.term, b.index>> \in held
        /\ \A x \in appendCalls : x.cid = c.cid /\ x.stage # "orphan" => x.dst \notin R
  BY Zenon, <1>4 DEF CastOK
<1>7. Cardinality(R \cup {c.dst}) = b.nReplica + 1 /\ R \cup {c.dst} \in SUBSET Server
  BY Zenon, <1>1, <1>6 DEF PeerSets
<1>8. Has(led[b.term], b.term, b.index) => <<c.dst, b.term, b.index>> \in held
  BY Zenon, <1>1, <1>2 DEF ReplyOK
<1>9. ASSUME NEW x \in appendCalls \ {c}, x.cid = c.cid, x.stage # "orphan"
      PROVE  x.dst \notin R \cup {c.dst}
  BY Zenon, <1>6, <1>9 DEF CommitInv, CallsUnique
<1>10. QED
  BY <1>2, <1>3, <1>5, <1>6, <1>7, <1>8, <1>9

(* A leader commits an entry of its own term once a majority holds it.     *)
LEMMA MajorityCommits ==
  ASSUME PeerSets, IndexInv, StepOK,
         NEW won, NEW led, NEW held, NEW won2, NEW led2, NEW held2,
         HistoryStep(won, led, held, won2, led2, held2), CommitInv(won, led, held),
         NEW c \in appendCalls, c.stage = "reply", c.success, NEW b, b = casts[c.cid],
         NEW s \in Server, state[s] = Leader, currentTerm[s] = c.term,
         b.nReplica + 1 >= Majority, MayCommit(s, b.index),
         log' = log, commitIndex'[s] = b.index, currentTerm' = currentTerm
  PROVE  PeerCommit(s, led2, held2)'
<1>1. PICK T, n : T = b.term /\ n = b.index
  BY Zenon
<1>2. /\ b \in Cast /\ T = c.term /\ T \in won /\ n <= Len(led[T])
      /\ \E R \in SUBSET Server :
           /\ Cardinality(R) = b.nReplica + 1
           /\ \A r \in R : Has(led[T], T, n) => <<r, T, n>> \in held
  BY <1>1, Counted
<1>3. /\ LogInv(won, led, held) /\ Grows(won, led, held, won2, led2, held2)
      /\ HistoryType(won, led, held) /\ HistoryType(won2, led2, held2)
  BY Zenon DEF HistoryStep, LogInv, HistoryType
<1>4. T \in Nat /\ n \in Nat /\ commitIndex[s] \in Nat
  BY Zenon, <1>1, <1>2 DEF Cast, Term, IndexInv, ProtocolTypeOK
<1>5. log[s] = led[T] /\ led[T] \in Seq(Entry)
  BY Zenon, <1>2, <1>3 DEF LogInv, PeerLogs, HistoryType
<1>6. Has(led[T], T, n)
  <2>1. n # 0 /\ TermAt(log[s], n) = T
    BY <1>1, <1>2, <1>4 DEF MayCommit
  <2>2. n \in 1..Len(led[T])
    BY <1>2, <1>4, <2>1
  <2>3. QED
    BY Zenon, <1>5, <2>1, <2>2 DEF Has, TermAt
<1>7. Chosen(T, n, held)
  BY Zenon, <1>2, <1>6 DEF Chosen, Quorums
<1>8. Chosen(T, n, held2)
  BY Zenon, <1>3, <1>7, ChosenStays DEF Grows
<1>9. AgreeTo(log[s], led2[T], n)
  <2>1. AgreeTo(log[s], led[T], n)
    BY Zenon, <1>2, <1>5, AgreeSelf
  <2>2. QED
    BY Zenon, <1>2, <1>3, <1>4, <2>1, AgreeGrown
<1>10. n <= Len(log[s]) /\ T <= currentTerm'[s] /\ n <= n
  BY <1>2, <1>4, <1>5
<1>11. QED
  BY <1>1, <1>4, <1>8, <1>9, <1>10 DEF PeerCommit, Chosen, Quorums, Majority

(* Counting a reply changes nothing else of a broadcast.                   *)
LEMMA CastCounted ==
  ASSUME NEW f \in Seq(Cast), NEW k \in 1..Len(f), NEW agree \in BOOLEAN, NEW g,
         g = [f EXCEPT ![k].nReplica = @ + 1, ![k].isAgree = @ \/ agree]
  PROVE  /\ Len(g) = Len(f) /\ \A j \in 1..Len(f) : j # k => g[j] = f[j]
         /\ g[k].index = f[k].index /\ g[k].term = f[k].term
         /\ g[k].commit = f[k].commit /\ g[k].nReplica = f[k].nReplica + 1
<1> DEFINE n    == f[k].nReplica + 1
           done == f[k].isAgree \/ agree
           e    == [f[k] EXCEPT !.nReplica = n, !.isAgree = done]
<1> HIDE DEF n, done
<1> HIDE DEF e
<1>1. QED
  BY DEF n

(* A successful reply is counted.                                          *)
LEMMA ActOnSuccessCommit ==
  ASSUME PeerSets, IndexInv, StepOK,
         NEW won, NEW led, NEW held, NEW won2, NEW led2, NEW held2,
         HistoryStep(won, led, held, won2, led2, held2), CommitInv(won, led, held),
         NEW c \in appendCalls, c.stage = "reply", currentTerm[c.src] = c.term,
         ActOnSuccess(c)
  PROVE  CommitInv(won2, led2, held2)'
<1>1. PICK s, k, b : s = c.src /\ k = c.cid /\ b = casts[k]
  BY Zenon
<1>2. /\ s \in Server /\ casts \in Seq(Cast) /\ commitIndex \in [Server -> Nat]
      /\ log \in [Server -> Seq(Entry)]
  BY Zenon, <1>1 DEF IndexInv, ProtocolTypeOK, AppendCall
<1>3. /\ c.success /\ UNCHANGED <<currentTerm, log>>
      /\ appendCalls' = appendCalls \ {c}
      /\ \/ commitIndex' = commitIndex
         \/ /\ state[s] = Leader /\ b.nReplica + 1 >= Majority /\ MayCommit(s, b.index)
            /\ commitIndex' = [commitIndex EXCEPT ![s] = b.index]
  BY Zenon, <1>1, <1>2 DEF ActOnSuccess
<1>4. PICK R \in SUBSET Server :
        /\ k \in 1..Len(casts) /\ b \in Cast /\ b.term = c.term
        /\ Cardinality(R) = b.nReplica + 1
        /\ \A r \in R : Has(led[b.term], b.term, b.index) => <<r, b.term, b.index>> \in held
        /\ \A x \in appendCalls \ {c} : x.cid = k /\ x.stage # "orphan" => x.dst \notin R
  <2>1. b = casts[c.cid]
    BY Zenon, <1>1
  <2>2. /\ c.cid \in 1..Len(casts) /\ b \in Cast /\ b.term = c.term
        /\ \E R \in SUBSET Server :
             /\ Cardinality(R) = b.nReplica + 1
             /\ \A r \in R :
                  Has(led[b.term], b.term, b.index) => <<r, b.term, b.index>> \in held
             /\ \A x \in appendCalls \ {c} :
                  x.cid = c.cid /\ x.stage # "orphan" => x.dst \notin R
    BY <1>3, <2>1, Counted
  <2>3. QED
    BY Zenon, <1>1, <2>2
<1>5. /\ Len(casts') = Len(casts) /\ \A j \in 1..Len(casts) : j # k => casts'[j] = casts[j]
      /\ casts'[k].index = b.index /\ casts'[k].term = b.term
      /\ casts'[k].commit = b.commit /\ casts'[k].nReplica = b.nReplica + 1
  <2>1. PICK agree \in BOOLEAN :
          casts' = [casts EXCEPT ![k].nReplica = @ + 1, ![k].isAgree = @ \/ agree]
    BY Zenon, <1>1 DEF ActOnSuccess
  <2>2. PICK g : g = casts'
    BY Zenon
  <2>3. QED
    BY <1>1, <1>2, <1>4, <2>1, <2>2, CastCounted
<1>6. ASSUME NEW p \in Server PROVE PeerCommit(p, led2, held2)'
  <2>1. CASE commitIndex'[p] = commitIndex[p]
    BY <1>3, <2>1, AgreeSelf, PeerCommitStays DEF CommitInv, PeerCommit
  <2>2. CASE commitIndex'[p] # commitIndex[p]
    <3>1. /\ p = s /\ commitIndex'[s] = b.index /\ state[s] = Leader
          /\ b.nReplica + 1 >= Majority /\ MayCommit(s, b.index)
      BY Zenon, <1>2, <1>3, <2>2
    <3>2. currentTerm[s] = c.term /\ b = casts[c.cid]
      BY Zenon, <1>1
    <3>3. QED
      BY Zenon, <1>3, <3>1, <3>2, MajorityCommits
  <2>3. QED
    BY Zenon, <2>1, <2>2
<1>7. CastOK(k, won2, led2, held2)'
  <2>1. /\ HistoryType(won, led, held) /\ HistoryType(won2, led2, held2)
        /\ Grows(won, led, held, won2, led2, held2) /\ held \subseteq held2
    BY Zenon DEF HistoryStep, LogInv, HistoryType, Grows
  <2>2. CastOK(k, won, led, held)
    BY Zenon, <1>4 DEF CommitInv
  <2>3. /\ b.term \in won /\ b.index <= Len(led[b.term]) /\ b.commit <= b.index
        /\ Backed(b.commit, b.term, held)
    BY Zenon, <1>1, <2>2 DEF CastOK
  <2>4. b.term \in Nat /\ b.index \in Nat /\ b.commit \in Nat /\ b.term <= b.term
    BY <1>4 DEF Cast, Term
  <2>5. b.term \in won2 /\ b.index <= Len(led2[b.term])
    <3>1. AgreeTo(led[b.term], led[b.term], b.index)
      BY Zenon, <2>3, AgreeSelf
    <3>2. AgreeTo(led[b.term], led2[b.term], b.index)
      <4>1. b.term \in won /\ b.index \in Nat
        BY Zenon, <2>3, <2>4
      <4>2. QED
        BY <2>1, <3>1, <4>1, AgreeGrown
    <3>3. QED
      BY Zenon, <2>1, <2>3, <3>2, AgreeLen DEF Grows
  <2>6. Backed(b.commit, b.term, held2)
    BY Zenon, <2>1, <2>3, <2>4, BackedStays
  <2>7. Has(led2[b.term], b.term, b.index) => Has(led[b.term], b.term, b.index)
    BY Zenon, <2>1, <2>3, <2>4, HadBefore
  <2>8. \E S \in SUBSET Server :
          /\ Cardinality(S) = b.nReplica + 1
          /\ \A r \in S :
               Has(led2[b.term], b.term, b.index) => <<r, b.term, b.index>> \in held2
          /\ \A x \in appendCalls' : x.cid = k /\ x.stage # "orphan" => x.dst \notin S
    BY Zenon, <1>3, <1>4, <2>1, <2>7
  <2>9. QED
    BY Zenon, <1>5, <2>3, <2>5, <2>6, <2>8 DEF CastOK, Backed, Chosen, Quorums,
           Majority, Has
<1>8. ASSUME NEW j \in 1..Len(casts), j # k PROVE CastOK(j, won2, led2, held2)'
  BY Zenon, <1>3, <1>5, <1>8, CastStays DEF CommitInv
<1>9. ASSUME NEW x \in appendCalls' PROVE ReplyOK(x, led2, held2)'
  <2>1. x \in appendCalls
    BY Zenon, <1>3
  <2>2. x.stage # "orphan" => casts'[x.cid].index = casts[x.cid].index
    BY Zenon, <1>1, <1>5, <2>1 DEF IndexInv, IndexInRange, CallInRange
  <2>3. QED
    BY Zenon, <2>1, <2>2, ReplyStays
<1>10. CallsUnique'
  BY Zenon, <1>3 DEF CallsUnique, CommitInv
<1>11. QED
  BY Zenon, <1>5, <1>6, <1>7, <1>8, <1>9, <1>10 DEF CommitInv

(* A rejected goroutine retries, while its peer still leads.               *)
LEMMA RetryCommit ==
  ASSUME PeerSets, IndexInv, StepOK,
         NEW won, NEW led, NEW held, NEW won2, NEW led2, NEW held2,
         HistoryStep(won, led, held, won2, led2, held2), CommitInv(won, led, held),
         NEW c \in appendCalls, c.stage = "reply", NEW s \in Server, s = c.src,
         currentTerm[s] = c.term, NEW next, nextIndex' = [nextIndex EXCEPT ![s][c.dst] = next],
         UNCHANGED <<log, state, commitIndex, casts>>, NEW x,
         x = AppendRequest(s, c.dst, c.cid, casts[c.cid], log[s], next),
         appendCalls' = (appendCalls \ {c}) \cup
           IF "send" \in Preempt THEN {ReadyCall(s, c.dst, c.cid)}
           ELSE IF state[s] # Leader THEN {} ELSE {x}
  PROVE  CommitInv(won2, led2, held2)'
<1>1. /\ c.dst \in Server /\ log \in [Server -> Seq(Entry)] /\ CallInRange(c)
      /\ nextIndex \in [Server -> [Server -> Nat]]
  BY Zenon DEF IndexInv, ProtocolTypeOK, AppendCall, IndexInRange
<1>2. \A p \in Server : PeerCommit(p, led2, held2)'
  <2>1. \A p \in Server : AgreeTo(log[p], log'[p], Len(log[p]))
    BY AgreeSelf
  <2>2. QED
    BY Zenon, <2>1, PeersKeep
<1>3. CASE "send" \in Preempt
  <2>1. PICK n : n = ReadyCall(s, c.dst, c.cid)
    BY Zenon
  <2>2. n.cid = c.cid /\ n.dst = c.dst /\ n.stage = "ready"
    BY Zenon, <2>1 DEF ReadyCall
  <2>3. ReplyOK(n, led2, held2)'
    BY Zenon, <2>2 DEF ReplyOK, Sending
  <2>4. appendCalls' \subseteq (appendCalls \ {c}) \cup {n}
    BY Zenon, <1>3, <2>1
  <2>5. QED
    BY Zenon, <1>2, <2>2, <2>3, <2>4, ReplaceCall
<1>4. CASE "send" \notin Preempt /\ state[s] = Leader
  <2>1. appendCalls' = (appendCalls \ {c}) \cup {x}
    BY Zenon, <1>4
  <2>2. next \in 1..(Len(log[s]) + 1)
    BY Zenon, <1>1, <1>4 DEF StepOK, IndexInv, IndexInRange, LeaderIndexes
  <2>3. x \in AppendCall
    BY Zenon, <2>1 DEF StepOK, IndexInv, ProtocolTypeOK
  <2>4. currentTerm[s] = casts[c.cid].term /\ c.stage # "orphan"
    BY Zenon, <1>1 DEF CallInRange
  <2>5. x.cid = c.cid /\ x.dst = c.dst /\ x.stage = "request" /\ ReplyOK(x, led2, held2)'
    BY <1>4, <2>2, <2>3, <2>4, SentOK
  <2>6. appendCalls' \subseteq (appendCalls \ {c}) \cup {x}
    BY Zenon, <2>1
  <2>7. QED
    BY Zenon, <1>2, <2>5, <2>6, ReplaceCall
<1>5. CASE "send" \notin Preempt /\ state[s] # Leader
  BY Zenon, <1>5, QuietCommit
<1>6. QED
  BY <1>3, <1>4, <1>5

(* A reply to AppendEntries.                                               *)
LEMMA ReceiveAppendReplyCommit ==
  ASSUME PeerSets, LogGapsClosed, IndexInv, StepOK,
         NEW won, NEW led, NEW held, NEW won2, NEW led2, NEW held2,
         HistoryStep(won, led, held, won2, led2, held2), CommitInv(won, led, held),
         NEW c \in appendCalls, ReceiveAppendReply(c)
  PROVE  CommitInv(won2, led2, held2)'
<1>1. PICK s : s = c.src
  BY Zenon
<1>2. s \in Server /\ c.stage = "reply" /\ c.term \in Nat /\ c.rterm \in Nat
  BY Zenon, <1>1 DEF IndexInv, ProtocolTypeOK, AppendCall, Term, ReceiveAppendReply
<1>3. \/ currentTerm[s] = c.term /\ ActOnAppendReply(c)
      \/ currentTerm[s] # c.term /\ appendCalls' = appendCalls \ {c}
         /\ UNCHANGED <<log, commitIndex, casts>>
  BY Zenon, <1>1 DEF ReceiveAppendReply, LogGapsClosed, ElectionGapsClosed, applyVars
<1>4. CASE currentTerm[s] # c.term
  BY Zenon, <1>3, <1>4, QuietCommit
<1>5. CASE currentTerm[s] = c.term /\ ActOnSuccess(c)
  BY Zenon, <1>1, <1>2, <1>5, ActOnSuccessCommit
<1>6. CASE currentTerm[s] = c.term /\ ActOnRejection(c) /\ c.term < c.rterm
  BY <1>2, <1>6, QuietCommit DEF ActOnRejection, StepDown
<1>7. CASE currentTerm[s] = c.term /\ ActOnRejection(c) /\ ~(c.term < c.rterm)
  BY Zenon, <1>1, <1>2, <1>7, RetryCommit DEF ActOnRejection
<1>8. QED
  BY <1>3, <1>4, <1>5, <1>6, <1>7 DEF ActOnAppendReply
-----------------------------------------------------------------------------
(* Every step keeps what is committed, for the history after the step.     *)
LEMMA CommitStep ==
  ASSUME PeerSets, LogGapsClosed, IndexInv, StepOK, ElectionInv,
         NEW won, NEW led, NEW held, NEW won2, NEW led2, NEW held2,
         HistoryStep(won, led, held, won2, led2, held2), CommitInv(won, led, held),
         [Next]_vars
  PROVE  CommitInv(won2, led2, held2)'
<1>1. CASE log' = log /\ commitIndex' = commitIndex /\ casts' = casts /\ appendCalls' = appendCalls
  BY Zenon, <1>1, QuietCommit
<1>2. ASSUME NEW s \in Server,
             \/ StartElection(s) \/ BroadcastHeartbeat(s) \/ StartTest(s)
             \/ \E cmd \in Command : Start(s, cmd) \/ StartResume(s, cmd)
             \/ ApplyEntry(s) \/ Crash(s)
      PROVE  CommitInv(won2, led2, held2)'
  <2>1. CASE ApplyEntry(s)
    BY Zenon, <1>1, <2>1 DEF ApplyEntry, appendVars
  <2>2. CASE StartElection(s)
    BY Zenon, <1>1, <2>2 DEF StartElection, appendVars, applyVars
  <2>3. CASE StartTest(s)
    BY Zenon, <2>3 DEF StartTest, LogGapsClosed
  <2>4. ASSUME NEW cmd \in Command, Start(s, cmd) \/ StartResume(s, cmd)
        PROVE  CommitInv(won2, led2, held2)'
    BY Zenon, <2>4, AppendCommandCommit DEF Start, StartResume, HistoryStep, LogInv
  <2>5. CASE Crash(s)
    BY Zenon, <2>5, RestartCommit DEF Crash, HalfPersisted
  <2>6. QED
    BY Zenon, <1>2, <2>1, <2>2, <2>3, <2>4, <2>5, BroadcastHeartbeatCommit
<1>3. ASSUME NEW c \in voteCalls,
             \/ IssueVote(c) \/ HandleRequestVote(c) \/ ReceiveVoteReply(c)
             \/ ResumeVoteReply(c) \/ LoseVote(c)
      PROVE  CommitInv(won2, led2, held2)'
  BY Zenon, <1>1, <1>3 DEF IssueVote, HandleRequestVote, ReceiveVoteReply,
         ResumeVoteReply, LoseVote, ActOnVoteReply, CountVote, StepDown, appendVars,
         applyVars
<1>4. ASSUME NEW c \in appendCalls,
             \/ SendAppend(c) \/ HandleAppendEntries(c) \/ ReceiveAppendReply(c)
             \/ ResumeAppendReply(c) \/ LoseAppend(c)
      PROVE  CommitInv(won2, led2, held2)'
  BY Zenon, <1>4, QuietCommit, SendAppendCommit, HandleAppendEntriesCommit,
     ReceiveAppendReplyCommit DEF IndexInv, LoseAppend, applyVars, ResumeAppendReply
<1>5. QED
  BY <1>1, <1>2, <1>3, <1>4 DEF Next, vars

(* Nothing is committed at first.                                          *)
LEMMA CommitInvInit ==
  ASSUME Init PROVE CommitInv({}, [t \in Nat |-> <<>>], {})
BY DEF Init, CommitInv, PeerCommit, CallsUnique
-----------------------------------------------------------------------------
(* What the invariants say. *)

(* What a peer holds as committed is in the log of every leader whose term *)
(* is not before the peer's.                                               *)
LEMMA LeadersHaveCommitted ==
  ASSUME PeerSets, IndexInv, NEW won, NEW led, NEW held, LogInv(won, led, held),
         CommitInv(won, led, held)
  PROVE  LeaderCompleteness
<1>1. SUFFICES ASSUME NEW s \in Server, NEW t \in Server, state[s] = Leader,
                      currentTerm[t] <= currentTerm[s]
               PROVE  /\ commitIndex[t] <= Len(log[s])
                      /\ SubSeq(log[t], 1, commitIndex[t]) = SubSeq(log[s], 1, commitIndex[t])
  BY Zenon DEF LeaderCompleteness
<1>2. PeerCommit(t, led, held)
  BY Zenon DEF CommitInv
<1>3. currentTerm[s] \in won /\ log[s] = led[currentTerm[s]]
  BY Zenon, <1>1 DEF LogInv, PeerLogs
<1>4. AgreeTo(log[t], log[s], commitIndex[t])
  BY Zenon, <1>1, <1>2, <1>3, CommittedOnLeader
<1>5. log[t] \in Seq(Entry) /\ log[s] \in Seq(Entry) /\ commitIndex[t] \in Nat
  BY Zenon DEF IndexInv, ProtocolTypeOK
<1>6. QED
  BY Zenon, <1>4, <1>5, AgreeLen, AgreeSubSeq

(* A majority has in its logs what a majority has held.                    *)
LEMMA ChosenInLogs ==
  ASSUME PeerSets, IndexInv, NEW won, NEW led, NEW held, LogInv(won, led, held),
         NEW u \in Nat, NEW m \in Nat, Chosen(u, m, held)
  PROVE  \E Q \in Quorums : \A q \in Q : AgreeTo(log[q], led[u], m)
<1>1. PICK Q \in Quorums : \A q \in Q : <<q, u, m>> \in held
  BY Zenon DEF Chosen
<1>2. ASSUME NEW q \in Q PROVE AgreeTo(log[q], led[u], m)
  <2>1. q \in Server /\ <<q, u, m>> \in held
    BY Zenon, <1>1 DEF Quorums
  <2>2. Has(log[q], u, m)
    BY Zenon, <2>1, ChosenNotLost DEF LogInv, HeldKept
  <2>3. OnLine(log[q], won, led)
    BY Zenon, <2>1 DEF LogInv, PeerLogs
  <2>4. QED
    BY Zenon, <2>2, <2>3 DEF OnLine, Has
<1>3. QED
  BY <1>2

(* A majority has in its Persisters what a peer holds as committed.        *)
LEMMA MajorityHasCommitted ==
  ASSUME PeerSets, IndexInv, NEW won, NEW led, NEW held, LogInv(won, led, held),
         CommitInv(won, led, held)
  PROVE  CommittedOnQuorum
<1>1. SUFFICES ASSUME NEW s \in Server, NEW i \in 1..commitIndex[s]
               PROVE  Cardinality({t \in Server : /\ Len(persisted[t].log) >= i
                                                  /\ persisted[t].log[i] = log[s][i]}) >= Majority
  BY Zenon DEF CommittedOnQuorum
<1>2. commitIndex[s] \in Nat /\ commitIndex[s] # 0 /\ i \in Nat /\ i >= 1 /\ i <= commitIndex[s]
  BY DEF IndexInv, ProtocolTypeOK
<1>3. PICK u \in Nat, m \in Nat : /\ commitIndex[s] <= m /\ Chosen(u, m, held)
                                  /\ AgreeTo(log[s], led[u], commitIndex[s])
  BY DEF CommitInv, PeerCommit
<1>4. i \in 1..m /\ i <= m
  BY <1>2, <1>3
<1>5. log[s][i] = led[u][i]
  BY Zenon, <1>3 DEF AgreeTo
<1>6. PICK Q \in Quorums : \A q \in Q : AgreeTo(log[q], led[u], m)
  BY Zenon, <1>3, ChosenInLogs
<1>7. ASSUME NEW q \in Q
      PROVE  Len(persisted[q].log) >= i /\ persisted[q].log[i] = log[s][i]
  <2>1. q \in Server /\ AgreeTo(log[q], led[u], m)
    BY Zenon, <1>6 DEF Quorums
  <2>2. persisted[q].log = log[q] /\ log[q] \in Seq(Entry)
    BY <2>1 DEF IndexInv, PersistedIsCurrent, ProtocolTypeOK
  <2>3. Len(log[q]) \in Nat /\ m <= Len(log[q])
    BY <2>1, AgreeLen
  <2>4. log[q][i] = led[u][i]
    BY Zenon, <1>4, <2>1 DEF AgreeTo
  <2>5. QED
    BY <1>4, <1>5, <2>2, <2>3, <2>4
<1>8. QED
  BY <1>7 DEF Quorums, PeerSets

(* commitIndex grows unless the peer crashes.                              *)
LEMMA CommitGrows ==
  ASSUME IndexInv, StepOK, NEW won, NEW led, NEW held, CommitInv(won, led, held),
         [Next]_vars, crashes' = crashes
  PROVE  \A s \in Server : commitIndex'[s] >= commitIndex[s]
<1>1. commitIndex \in [Server -> Nat] /\ commitIndex' \in [Server -> Nat]
  BY Zenon DEF StepOK, IndexInv, ProtocolTypeOK
<1>2. CASE commitIndex' = commitIndex
  BY <1>1, <1>2
<1>3. ASSUME NEW s \in Server, Crash(s) PROVE FALSE
  BY <1>3 DEF Crash, Restart, IndexInv, ProtocolTypeOK
<1>4. ASSUME NEW c \in appendCalls, HandleAppendEntries(c)
      PROVE  \A s \in Server : commitIndex'[s] >= commitIndex[s]
  <2>1. PICK d, n, last : /\ d = c.dst /\ n = c.leaderCommit
                          /\ last = c.prevLogIndex + Len(c.entries)
    BY Zenon
  <2>2. d \in Server /\ n \in Nat
    BY Zenon, <2>1 DEF IndexInv, ProtocolTypeOK, AppendCall
  <2>3. ReplyOK(c, led, held) /\ Sending(c)
    BY Zenon, <1>4 DEF CommitInv, HandleAppendEntries, Sending
  <2>4. n <= last
    BY Zenon, <2>1, <2>3 DEF ReplyOK
  <2>5. last \in Nat
    <3>1. c.prevLogIndex \in Nat /\ Len(c.entries) \in Nat
      BY Zenon, LogLen DEF IndexInv, ProtocolTypeOK, AppendCall
    <3>2. QED
      BY <2>1, <3>1
  <2>6. NewCommitIndex(commitIndex[d], n, last) >= commitIndex[d]
    BY <1>1, <2>2, <2>4, <2>5 DEF NewCommitIndex
  <2>7. \/ commitIndex' = [commitIndex EXCEPT ![d] = commitIndex[d]]
        \/ commitIndex' = [commitIndex EXCEPT ![d] = NewCommitIndex(commitIndex[d], n, last)]
    BY Zenon, <1>4, <2>1 DEF HandleAppendEntries
  <2>8. QED
    BY <1>1, <2>6, <2>7
<1>5. ASSUME NEW c \in appendCalls, ActOnSuccess(c)
      PROVE  \A s \in Server : commitIndex'[s] >= commitIndex[s]
  <2>1. PICK d, n : d = c.src /\ n = casts[c.cid].index
    BY Zenon
  <2>2. \/ commitIndex' = [commitIndex EXCEPT ![d] = commitIndex[d]]
        \/ commitIndex[d] < n /\ commitIndex' = [commitIndex EXCEPT ![d] = n]
    BY Zenon, <1>5, <2>1 DEF ActOnSuccess, MayCommit
  <2>3. QED
    BY <1>1, <2>2
<1>6. QED
  <2>1. ASSUME NEW s \in Server,
               \/ StartElection(s) \/ BroadcastHeartbeat(s) \/ StartTest(s)
               \/ \E cmd \in Command : Start(s, cmd) \/ StartResume(s, cmd)
               \/ ApplyEntry(s)
        PROVE  commitIndex' = commitIndex
    BY Zenon, <2>1 DEF StartElection, BroadcastHeartbeat, StartTest, Start,
           StartResume, AppendCommand, ApplyEntry, applyVars
  <2>2. ASSUME NEW c \in voteCalls,
               \/ IssueVote(c) \/ HandleRequestVote(c) \/ ReceiveVoteReply(c)
               \/ ResumeVoteReply(c) \/ LoseVote(c)
        PROVE  commitIndex' = commitIndex
    BY Zenon, <2>2 DEF IssueVote, HandleRequestVote, ReceiveVoteReply,
           ResumeVoteReply, LoseVote, ActOnVoteReply, applyVars
  <2>3. ASSUME NEW c \in appendCalls, SendAppend(c) \/ LoseAppend(c) \/ ActOnRejection(c)
        PROVE  commitIndex' = commitIndex
    BY Zenon, <2>3 DEF SendAppend, LoseAppend, ActOnRejection, applyVars
  <2>4. ASSUME NEW c \in appendCalls, ReceiveAppendReply(c) \/ ResumeAppendReply(c)
        PROVE  ActOnRejection(c) \/ ActOnSuccess(c) \/ commitIndex' = commitIndex
    BY Zenon, <2>4 DEF ReceiveAppendReply, ResumeAppendReply, ActOnAppendReply,
           applyVars
  <2>5. ASSUME NEW c \in appendCalls,
               \/ SendAppend(c) \/ HandleAppendEntries(c) \/ ReceiveAppendReply(c)
               \/ ResumeAppendReply(c) \/ LoseAppend(c)
        PROVE  \A s \in Server : commitIndex'[s] >= commitIndex[s]
    BY Zenon, <1>2, <1>4, <1>5, <2>3, <2>4, <2>5
  <2>6. CASE UNCHANGED vars
    BY Zenon, <1>2, <2>6 DEF vars
  <2>7. QED
    BY <1>2, <1>3, <2>1, <2>2, <2>5, <2>6 DEF Next
-----------------------------------------------------------------------------
(* What is delivered. *)

(* What steps do to applied: applyEntries sends one command, a crash       *)
(* forgets what was sent.                                                  *)
LEMMA AppliedMoves ==
  ASSUME [Next]_vars
  PROVE  \/ applied' = applied /\ crashes' = crashes
         \/ \E s \in Server : ApplyEntry(s)
         \/ \E s \in Server : /\ applied' = [applied EXCEPT ![s] = <<>>]
                              /\ commitIndex' = [commitIndex EXCEPT ![s] = 0]
<1>1. ASSUME NEW s \in Server,
             \/ StartElection(s) \/ BroadcastHeartbeat(s) \/ StartTest(s)
             \/ \E cmd \in Command : Start(s, cmd) \/ StartResume(s, cmd)
      PROVE  applied' = applied /\ crashes' = crashes
  BY Zenon, <1>1 DEF StartElection, BroadcastHeartbeat, StartTest, Start, StartResume,
         AppendCommand, applyVars, bounds
<1>2. ASSUME NEW s \in Server, Crash(s)
      PROVE  /\ applied' = [applied EXCEPT ![s] = <<>>]
             /\ commitIndex' = [commitIndex EXCEPT ![s] = 0]
  BY Zenon, <1>2 DEF Crash, Restart
<1>3. ASSUME NEW c \in voteCalls,
             \/ IssueVote(c) \/ HandleRequestVote(c) \/ ReceiveVoteReply(c)
             \/ ResumeVoteReply(c) \/ LoseVote(c)
      PROVE  applied' = applied /\ crashes' = crashes
  BY Zenon, <1>3 DEF IssueVote, HandleRequestVote, ReceiveVoteReply, ResumeVoteReply,
         LoseVote, ActOnVoteReply, applyVars, bounds
<1>4. ASSUME NEW c \in appendCalls,
             \/ SendAppend(c) \/ HandleAppendEntries(c) \/ ReceiveAppendReply(c)
             \/ ResumeAppendReply(c) \/ LoseAppend(c)
      PROVE  applied' = applied /\ crashes' = crashes
  BY Zenon, <1>4 DEF SendAppend, HandleAppendEntries, ReceiveAppendReply,
         ResumeAppendReply, LoseAppend, ActOnAppendReply, applyVars, bounds
<1>5. CASE UNCHANGED vars
  BY Zenon, <1>5 DEF vars
<1>6. QED
  BY <1>1, <1>2, <1>3, <1>4, <1>5 DEF Next

(* What applyEntries sends is a command of the log.                        *)
LEMMA AppliedEntry ==
  ASSUME IndexInv, AppliedOK, NEW led, NEW held, NEW s \in Server,
         PeerCommit(s, led, held), ApplyEntry(s)
  PROVE  /\ log[s][Len(applied[s]) + 1].cmd \in Command
         /\ applied' = [applied EXCEPT ![s] =
              Append(applied[s], log[s][Len(applied[s]) + 1].cmd)]
         /\ Len(applied[s]) + 1 <= commitIndex[s] /\ commitIndex' = commitIndex
<1>1. PICK i : i = Len(applied[s]) + 1
  BY Zenon
<1>2. /\ applied' = [applied EXCEPT ![s] = Append(applied[s], log[s][i].cmd)]
      /\ i <= commitIndex[s] /\ commitIndex' = commitIndex
  BY Zenon, <1>1 DEF ApplyEntry
<1>3. /\ applied[s] \in Seq(Command) /\ log[s] \in Seq(Entry) /\ commitIndex[s] \in Nat
      /\ commitIndex[s] <= Len(log[s])
  BY Zenon DEF AppliedOK, IndexInv, ProtocolTypeOK, PeerCommit
<1>4. i \in 1..Len(log[s])
  BY <1>1, <1>2, <1>3
<1>5. log[s][i] \in Entry
  BY <1>3, <1>4
<1>6. QED
  BY <1>1, <1>2, <1>5 DEF Entry

(* Every step keeps lastApplied within commitIndex.                        *)
LEMMA AppliedStep ==
  ASSUME IndexInv, StepOK, NEW won, NEW led, NEW held, CommitInv(won, led, held),
         AppliedOK, [Next]_vars
  PROVE  AppliedOK'
<1>1. /\ applied \in [Server -> Seq(Command)]
      /\ \A s \in Server : Len(applied[s]) <= commitIndex[s]
      /\ commitIndex \in [Server -> Nat] /\ commitIndex' \in [Server -> Nat]
  BY Zenon DEF AppliedOK, StepOK, IndexInv, ProtocolTypeOK
<1>2. CASE applied' = applied /\ crashes' = crashes
  BY <1>1, <1>2, CommitGrows DEF AppliedOK
<1>3. ASSUME NEW s \in Server, ApplyEntry(s) PROVE AppliedOK'
  <2>1. PeerCommit(s, led, held)
    BY Zenon DEF CommitInv
  <2>2. PICK cmd \in Command :
          /\ applied' = [applied EXCEPT ![s] = Append(applied[s], cmd)]
          /\ Len(applied[s]) + 1 <= commitIndex[s] /\ commitIndex' = commitIndex
    BY Zenon, <1>3, <2>1, AppliedEntry
  <2>3. QED
    BY <2>2 DEF AppliedOK
<1>4. ASSUME NEW s \in Server, applied' = [applied EXCEPT ![s] = <<>>],
             commitIndex' = [commitIndex EXCEPT ![s] = 0]
      PROVE  AppliedOK'
  BY <1>1, <1>4 DEF AppliedOK
<1>5. QED
  BY <1>2, <1>3, <1>4, AppliedMoves

(* Two leaders agree on what both have committed.                          *)
LEMMA ChosenAgree ==
  ASSUME PeerSets, NEW won, NEW led, NEW held, LogInv(won, led, held),
         NEW u \in Nat, NEW m \in Nat, Chosen(u, m, held),
         NEW v \in Nat, NEW k \in Nat, Chosen(v, k, held),
         NEW n \in Nat, n <= m, n <= k
  PROVE  AgreeTo(led[u], led[v], n)
<1>1. u \in won /\ v \in won
  BY Zenon, ChosenWon
<1>2. led[u] \in Seq(Entry) /\ led[v] \in Seq(Entry)
  BY Zenon DEF LogInv, HistoryType
<1>3. CASE v <= u
  BY Zenon, <1>1, <1>2, <1>3, LeaderHasChosen, AgreeDown
<1>4. CASE u <= v
  BY <1>1, <1>2, LeaderHasChosen, AgreeDown, AgreeSym
<1>5. QED
  BY <1>3, <1>4

(* Sequences of committed commands agree.                                  *)
LEMMA AgreedSame ==
  ASSUME PeerSets, NEW won, NEW led, NEW held, LogInv(won, led, held),
         NEW k \in Seq(Command), Agreed(k, led, held),
         NEW l \in Seq(Command), Agreed(l, led, held),
         NEW i \in Nat, 1 <= i, i <= Len(k), i <= Len(l)
  PROVE  k[i] = l[i]
<1>1. PICK u \in Nat, m \in Nat : Len(k) <= m /\ Chosen(u, m, held) /\ k[i] = led[u][i].cmd
  BY DEF Agreed
<1>2. PICK v \in Nat, n \in Nat : Len(l) <= n /\ Chosen(v, n, held) /\ l[i] = led[v][i].cmd
  BY DEF Agreed
<1>3. AgreeTo(led[u], led[v], i)
  BY <1>1, <1>2, ChosenAgree
<1>4. led[u][i] = led[v][i]
  BY <1>3 DEF AgreeTo
<1>5. QED
  BY <1>1, <1>2, <1>4

(* Committed commands stay committed.                                      *)
LEMMA AgreedStays ==
  ASSUME PeerSets, NEW won, NEW led, NEW held, NEW won2, NEW led2, NEW held2,
         HistoryStep(won, led, held, won2, led2, held2),
         NEW l \in Seq(Command), Agreed(l, led, held)
  PROVE  Agreed(l, led2, held2)
<1>1. CASE Len(l) = 0
  BY Zenon, <1>1 DEF Agreed
<1>2. CASE Len(l) # 0
  <2>1. PICK u \in Nat, m \in Nat : /\ Len(l) <= m /\ Chosen(u, m, held)
                                    /\ \A i \in 1..Len(l) : l[i] = led[u][i].cmd
    BY Zenon, <1>2 DEF Agreed
  <2>2. /\ LogInv(won, led, held) /\ Grows(won, led, held, won2, led2, held2)
        /\ HistoryType(won, led, held) /\ HistoryType(won2, led2, held2)
    BY Zenon DEF HistoryStep, LogInv, HistoryType
  <2>3. u \in won /\ Has(led[u], u, m)
    BY Zenon, <2>1, <2>2, ChosenWon
  <2>4. AgreeTo(led[u], led2[u], m)
    <3>1. m <= Len(led[u])
      BY <2>3 DEF Has
    <3>2. AgreeTo(led[u], led[u], m)
      BY Zenon, <3>1, AgreeSelf
    <3>3. QED
      BY Zenon, <2>2, <2>3, <3>2, AgreeGrown
  <2>5. \A i \in 1..Len(l) : led[u][i] = led2[u][i]
    BY <2>1, <2>4 DEF AgreeTo
  <2>6. Chosen(u, m, held2)
    BY Zenon, <2>1, <2>2, ChosenStays DEF Grows
  <2>7. QED
    BY Zenon, <2>1, <2>5, <2>6 DEF Agreed
<1>3. QED
  BY <1>1, <1>2

(* The next command that a peer applies: a reader that has it already has  *)
(* the same, and one that has not gets one more committed command.         *)
LEMMA AgreedNext ==
  ASSUME PeerSets, IndexInv, NEW won, NEW led, NEW held, LogInv(won, led, held),
         NEW s \in Server, PeerCommit(s, led, held),
         NEW l \in Seq(Command), Agreed(l, led, held),
         NEW i \in Nat, 1 <= i, i <= commitIndex[s], i <= Len(l) + 1,
         NEW cmd \in Command, cmd = log[s][i].cmd
  PROVE  /\ i <= Len(l) => l[i] = cmd
         /\ i = Len(l) + 1 => Agreed(Append(l, cmd), led, held)
<1>1. PICK n : n = Len(l)
  BY Zenon
<1>2. n \in Nat /\ commitIndex[s] \in Nat /\ commitIndex[s] # 0
  <2>1. commitIndex[s] \in Nat
    BY Zenon DEF IndexInv, ProtocolTypeOK
  <2>2. QED
    BY <1>1, <2>1
<1>3. PICK u \in Nat, m \in Nat : /\ commitIndex[s] <= m /\ Chosen(u, m, held)
                                  /\ AgreeTo(log[s], led[u], commitIndex[s])
  BY Zenon, <1>2 DEF PeerCommit
<1>4. led[u][i].cmd = cmd /\ i <= m
  BY <1>2, <1>3 DEF AgreeTo
<1>5. \A j \in 1..n : j <= m => l[j] = led[u][j].cmd
  <2>1. SUFFICES ASSUME NEW j \in 1..n, j <= m PROVE l[j] = led[u][j].cmd
    BY Zenon
  <2>2. n # 0 /\ j \in Nat /\ j <= n /\ j \in 1..j
    BY <1>2
  <2>3. PICK v \in Nat, k \in Nat : n <= k /\ Chosen(v, k, held) /\ l[j] = led[v][j].cmd
    BY Zenon, <1>1, <2>2 DEF Agreed
  <2>4. AgreeTo(led[u], led[v], j)
    <3>1. j <= k
      BY <1>2, <2>2, <2>3
    <3>2. QED
      BY Zenon, <1>3, <2>1, <2>2, <2>3, <3>1, ChosenAgree
  <2>5. led[u][j] = led[v][j]
    BY Zenon, <2>2, <2>4 DEF AgreeTo
  <2>6. QED
    BY Zenon, <2>3, <2>5
<1>6. ASSUME i <= n PROVE l[i] = cmd
  BY <1>2, <1>4, <1>5, <1>6
<1>7. ASSUME i = n + 1 PROVE Agreed(Append(l, cmd), led, held)
  <2>1. PICK k : k = Append(l, cmd)
    BY Zenon
  <2>2. /\ Len(k) = n + 1 /\ k[n + 1] = cmd
        /\ \A j \in 1..n : k[j] = l[j]
    BY <1>1, <2>1
  <2>3. \A j \in 1..n : j <= m
    BY <1>2, <1>4, <1>7
  <2>4. \A j \in 1..(n + 1) : k[j] = led[u][j].cmd
    BY <1>2, <1>4, <1>5, <1>7, <2>2, <2>3
  <2>5. Len(k) <= m
    BY Zenon, <1>4, <1>7, <2>2
  <2>6. QED
    BY Zenon, <1>3, <2>1, <2>2, <2>4, <2>5 DEF Agreed
<1>8. QED
  BY <1>1, <1>6, <1>7

(* The reader of an applyCh sees what it has seen before the crash, or the *)
(* next committed command.                                                 *)
LEMMA RecordNext ==
  ASSUME PeerSets, IndexInv, NEW won, NEW led, NEW held, LogInv(won, led, held),
         CommitInv(won, led, held), AppliedOK, Delivered(led, held),
         NEW s \in Server, ApplyEntry(s), Record
  PROVE  \/ logs' = logs /\ \A t \in Server : Len(applied'[t]) <= Len(logs[t])
         \/ \E cmd \in Command : DeliversNext(s, cmd, led, held)
<1>1. PICK i, l, a, cmd : /\ i = Len(applied[s]) + 1 /\ l = logs[s] /\ cmd = log[s][i].cmd
                          /\ a = Append(applied[s], cmd)
  BY Zenon
<1>2. /\ applied \in [Server -> Seq(Command)] /\ logs \in [Server -> Seq(Command)]
      /\ \A t \in Server : Len(applied[t]) <= Len(logs[t])
      /\ Agreed(l, led, held) /\ PeerCommit(s, led, held)
  BY Zenon, <1>1 DEF AppliedOK, Delivered, CommitInv
<1>3. /\ cmd \in Command /\ applied' = [applied EXCEPT ![s] = a]
      /\ i <= commitIndex[s]
  BY Zenon, <1>1, <1>2, AppliedEntry
<1>4. /\ \A t \in Server : Len(applied[t]) \in Nat /\ Len(logs[t]) \in Nat
      /\ l \in Seq(Command) /\ Len(l) \in Nat
  BY <1>1, <1>2
<1>5. i \in Nat /\ 1 <= i /\ i <= Len(l) + 1
  BY <1>1, <1>2, <1>4
<1>6. Len(a) = i /\ a[i] = cmd
  BY <1>1, <1>2, <1>3
<1>7. /\ applied'[s] = a /\ Len(a) > Len(applied[s])
      /\ \A t \in Server \ {s} : applied'[t] = applied[t]
  BY <1>1, <1>2, <1>3, <1>4, <1>6
<1>8. logs' = [t \in Server |-> IF t = s THEN Recorded(l, a) ELSE logs[t]]
  <2>1. \A t \in Server \ {s} : ~(Len(applied'[t]) > Len(applied[t]))
    BY <1>4, <1>7
  <2>2. QED
    BY Zenon, <1>1, <1>7, <2>1 DEF Record
<1>9. /\ i <= Len(l) => l[i] = cmd
      /\ i = Len(l) + 1 => Agreed(Append(l, cmd), led, held)
  <2>1. l \in Seq(Command) /\ Agreed(l, led, held) /\ PeerCommit(s, led, held)
    BY Zenon, <1>2, <1>4
  <2>2. cmd \in Command /\ cmd = log[s][i].cmd
    BY Zenon, <1>1, <1>3
  <2>3. QED
    BY <1>3, <1>5, <2>1, <2>2, AgreedNext
<1>10. CASE i <= Len(l)
  <2>1. l[i] = cmd /\ Recorded(l, a) = [l EXCEPT ![i] = cmd]
    BY Zenon, <1>6, <1>9, <1>10 DEF Recorded
  <2>2. [l EXCEPT ![i] = cmd] = l
    <3>1. i \in DOMAIN l /\ l = [j \in DOMAIN l |-> l[j]]
      BY <1>4, <1>5, <1>10
    <3>2. QED
      BY Zenon, <2>1, <3>1
  <2>3. logs' = logs
    BY Zenon, <1>1, <1>2, <1>8, <2>1, <2>2
  <2>4. \A t \in Server : Len(applied'[t]) <= Len(logs[t])
    BY Zenon, <1>1, <1>2, <1>6, <1>7, <1>10
  <2>5. QED
    BY Zenon, <2>3, <2>4
<1>11. CASE ~(i <= Len(l))
  <2>1. i = Len(l) + 1
    BY <1>4, <1>5, <1>11
  <2>2. Recorded(l, a) = Append(l, cmd)
    BY Zenon, <1>6, <1>11 DEF Recorded
  <2>3. logs' = [logs EXCEPT ![s] = Append(l, cmd)]
    BY Zenon, <1>2, <1>8, <2>2
  <2>4. QED
    BY Zenon, <1>1, <1>3, <1>6, <1>7, <1>9, <2>1, <2>3 DEF DeliversNext
<1>12. QED
  BY <1>10, <1>11

(* What a step does to what was delivered.                                 *)
LEMMA RecordStep ==
  ASSUME PeerSets, IndexInv, NEW won, NEW led, NEW held, LogInv(won, led, held),
         CommitInv(won, led, held), AppliedOK, Delivered(led, held),
         (Next /\ Record) \/ UNCHANGED harnessVars
  PROVE  \/ logs' = logs /\ \A t \in Server : Len(applied'[t]) <= Len(logs[t])
         \/ \E s \in Server : \E cmd \in Command : DeliversNext(s, cmd, led, held)
<1>1. /\ applied \in [Server -> Seq(Command)] /\ logs \in [Server -> Seq(Command)]
      /\ \A t \in Server : Len(applied[t]) <= Len(logs[t])
  BY Zenon DEF AppliedOK, Delivered
<1>2. CASE UNCHANGED harnessVars
  BY Zenon, <1>1, <1>2 DEF harnessVars, vars
<1>3. ASSUME Record, \A t \in Server : Len(applied'[t]) <= Len(applied[t]),
             \A t \in Server : Len(applied'[t]) \in Nat
      PROVE  logs' = logs /\ \A t \in Server : Len(applied'[t]) <= Len(logs[t])
  BY <1>1, <1>3 DEF Record
<1>4. CASE Record /\ applied' = applied
  BY <1>3, <1>4
<1>5. ASSUME Record, NEW s \in Server, applied' = [applied EXCEPT ![s] = <<>>]
      PROVE  logs' = logs /\ \A t \in Server : Len(applied'[t]) <= Len(logs[t])
  BY <1>3, <1>5
<1>6. CASE Next /\ Record
  BY Zenon, <1>4, <1>5, <1>6, RecordNext, AppliedMoves
<1>7. QED
  BY <1>2, <1>6

(* Somebody has been delivered the most after the step, too.               *)
LEMMA MaxAfter ==
  ASSUME NEW f \in [Server -> Seq(Command)], NEW m \in MaxOf(f), NEW s \in Server,
         NEW cmd \in Command, NEW g, g = [f EXCEPT ![s] = Append(f[s], cmd)]
  PROVE  IF Len(f[s]) = Len(f[m]) THEN s \in MaxOf(g) ELSE m \in MaxOf(g) /\ m # s
BY DEF MaxOf

(* What the readers keep stays committed.                                  *)
LEMMA DeliveredStep ==
  ASSUME PeerSets, NEW won, NEW led, NEW held, NEW won2, NEW led2, NEW held2,
         HistoryStep(won, led, held, won2, led2, held2), Delivered(led, held),
         \/ logs' = logs /\ \A t \in Server : Len(applied'[t]) <= Len(logs[t])
         \/ \E s \in Server : \E cmd \in Command : DeliversNext(s, cmd, led, held)
  PROVE  Delivered(led2, held2)'
<1>1. PICK f, g : f = logs /\ g = logs'
  BY Zenon
<1>2. /\ f \in [Server -> Seq(Command)] /\ MaxOf(f) # {}
      /\ \A t \in Server : Len(applied[t]) <= Len(f[t]) /\ Agreed(f[t], led, held)
  BY Zenon, <1>1 DEF Delivered
<1>3. /\ g \in [Server -> Seq(Command)] /\ MaxOf(g) # {}
      /\ \A t \in Server : Len(applied'[t]) <= Len(g[t]) /\ Agreed(g[t], led, held)
  <2>1. CASE logs' = logs /\ \A t \in Server : Len(applied'[t]) <= Len(logs[t])
    BY Zenon, <1>1, <1>2, <2>1
  <2>2. ASSUME NEW s \in Server, NEW cmd \in Command, DeliversNext(s, cmd, led, held)
        PROVE  /\ g \in [Server -> Seq(Command)] /\ MaxOf(g) # {}
               /\ \A t \in Server : Len(applied'[t]) <= Len(g[t]) /\ Agreed(g[t], led, held)
    <3>1. /\ g = [f EXCEPT ![s] = Append(f[s], cmd)] /\ Agreed(Append(f[s], cmd), led, held)
          /\ Len(applied'[s]) = Len(f[s]) + 1
          /\ \A t \in Server \ {s} : applied'[t] = applied[t]
      BY Zenon, <1>1, <2>2 DEF DeliversNext
    <3>2. /\ Append(f[s], cmd) \in Seq(Command) /\ Len(Append(f[s], cmd)) = Len(f[s]) + 1
          /\ Len(f[s]) \in Nat
      BY <1>2
    <3>3. MaxOf(g) # {}
      <4>1. PICK m : m \in MaxOf(f)
        BY Zenon, <1>2
      <4>2. QED
        BY Zenon, <1>2, <3>1, <4>1, MaxAfter
    <3>4. g \in [Server -> Seq(Command)] /\ g[s] = Append(f[s], cmd)
          /\ \A t \in Server \ {s} : g[t] = f[t]
      BY Zenon, <1>2, <3>1, <3>2
    <3>5. ASSUME NEW t \in Server, t # s
          PROVE  Len(applied'[t]) <= Len(g[t]) /\ Agreed(g[t], led, held)
      BY Zenon, <1>2, <3>1, <3>4, <3>5
    <3>6. Len(applied'[s]) <= Len(g[s]) /\ Agreed(g[s], led, held)
      BY <3>1, <3>2, <3>4
    <3>7. QED
      BY Zenon, <3>3, <3>4, <3>5, <3>6
  <2>3. QED
    BY Zenon, <2>1, <2>2
<1>4. \A t \in Server : Agreed(g[t], led2, held2)
  BY Zenon, <1>3, AgreedStays
<1>5. QED
  BY Zenon, <1>1, <1>3, <1>4 DEF Delivered, MaxOf, Agreed, Chosen, Quorums, Majority

(* The longest of sequences of committed commands is one sequence.         *)
LEMMA LongestIs ==
  ASSUME PeerSets, NEW won, NEW led, NEW held, LogInv(won, led, held),
         NEW f \in [Server -> Seq(Command)], \A s \in Server : Agreed(f[s], led, held),
         NEW m \in MaxOf(f)
  PROVE  f[CHOOSE s \in Server : \A t \in Server : Len(f[t]) <= Len(f[s])] = f[m]
BY AgreedSame DEF MaxOf

(* A step of the peers is a step of the replicated log, or none.           *)
LEMMA ServiceStep ==
  ASSUME PeerSets, NEW won, NEW led, NEW held, LogInv(won, led, held),
         Delivered(led, held),
         \/ logs' = logs
         \/ \E s \in Server : \E cmd \in Command : DeliversNext(s, cmd, led, held)
  PROVE  Service!Next \/ UNCHANGED Service!vars
<1>1. CASE logs' = logs
  BY Zenon, <1>1 DEF Service!vars, Longest
<1>2. ASSUME NEW s \in Server, NEW cmd \in Command, DeliversNext(s, cmd, led, held)
      PROVE  Service!Next
  <2>1. PICK f, g, k : f = logs /\ g = logs' /\ k = Append(f[s], cmd)
    BY Zenon
  <2>2. /\ f \in [Server -> Seq(Command)] /\ MaxOf(f) # {}
        /\ \A t \in Server : Agreed(f[t], led, held)
    BY Zenon, <2>1 DEF Delivered
  <2>3. g = [f EXCEPT ![s] = k] /\ Agreed(k, led, held)
    BY Zenon, <1>2, <2>1 DEF DeliversNext
  <2>4. /\ k \in Seq(Command) /\ Len(k) = Len(f[s]) + 1
        /\ \A t \in Server : Len(f[t]) \in Nat
    BY <2>1, <2>2
  <2>5. /\ g \in [Server -> Seq(Command)] /\ g[s] = k
        /\ \A t \in Server : Agreed(g[t], led, held)
        /\ \A t \in Server \ {s} : g[t] = f[t]
    BY Zenon, <2>2, <2>3, <2>4
  <2>6. PICK m \in MaxOf(f) : TRUE
    BY Zenon, <2>2
  <2>7. m \in Server /\ \A t \in Server : Len(f[t]) <= Len(f[m])
    BY Zenon DEF MaxOf
  <2>8. Longest = f[m]
    BY Zenon, <2>1, <2>2, LongestIs DEF Longest
  <2>9. IF Len(f[s]) = Len(f[m]) THEN s \in MaxOf(g) ELSE m \in MaxOf(g) /\ m # s
    <3>1. g = [f EXCEPT ![s] = Append(f[s], cmd)]
      BY Zenon, <2>1, <2>3
    <3>2. QED
      BY Zenon, <2>2, <3>1, MaxAfter
  <2>10. ASSUME NEW n \in MaxOf(g) PROVE Longest' = g[n]
    <3>1. g[CHOOSE x \in Server : \A t \in Server : Len(g[t]) <= Len(g[x])] = g[n]
      BY Zenon, <2>5, LongestIs
    <3>2. QED
      BY Zenon, <2>1, <3>1 DEF Longest
  <2>11. CASE Len(f[s]) = Len(f[m])
    <3>1. f[s] = f[m]
      BY Zenon, <2>2, <2>11, LongestIs DEF MaxOf
    <3>2. Longest' = k
      BY Zenon, <2>5, <2>9, <2>10, <2>11
    <3>3. Service!Decide(s, cmd)
      BY Zenon, <2>1, <2>3, <2>8, <3>1, <3>2 DEF Service!Decide
    <3>4. QED
      BY Zenon, <3>3 DEF Service!Next
  <2>12. CASE Len(f[s]) # Len(f[m])
    <3>1. Longest' = f[m]
      BY Zenon, <2>5, <2>7, <2>9, <2>10, <2>12
    <3>2. PICK M, n : M = f[m] /\ n = Len(k)
      BY Zenon
    <3>3. /\ M \in Seq(Command) /\ Agreed(M, led, held) /\ n \in Nat /\ n <= Len(M)
          /\ n = Len(f[s]) + 1 /\ f[s] # M
      BY <2>2, <2>4, <2>7, <2>12, <3>2
    <3>4. ASSUME NEW i \in 1..n PROVE k[i] = M[i] /\ M[i] \in Command
      <4>1. i \in Nat /\ 1 <= i /\ i <= Len(k) /\ i <= Len(M) /\ i \in 1..Len(M)
        BY <3>2, <3>3
      <4>2. k[i] = M[i]
        BY <2>3, <2>4, <3>3, <4>1, AgreedSame
      <4>3. QED
        BY <3>3, <4>2
    <3>5. SubSeq(M, 1, n) = k
      BY <2>4, <3>2, <3>4
    <3>6. Service!Follow(s)
      BY Zenon, <2>1, <2>3, <2>8, <3>1, <3>2, <3>3, <3>5 DEF Service!Follow
    <3>7. QED
      BY Zenon, <3>6 DEF Service!Next
  <2>13. QED
    BY Zenon, <2>11, <2>12
<1>3. QED
  BY <1>1, <1>2
=============================================================================
