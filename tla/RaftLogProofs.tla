--------------------------- MODULE RaftLogProofs ----------------------------
(***************************************************************************)
(* Log matching and the completeness of leaders' logs.  Every step of Raft *)
(* keeps LogInv for a history that it extends.                             *)
(***************************************************************************)
EXTENDS RaftLogLemmas

(* The line survives when the leaders' logs grow.                          *)
LEMMA OnLineStays ==
  ASSUME NEW won, NEW led, NEW won2, NEW led2, NEW l \in Seq(Entry), OnLine(l, won, led),
         won \subseteq won2, won \subseteq Nat,
         led \in [Nat -> Seq(Entry)], led2 \in [Nat -> Seq(Entry)],
         \A t \in won : AgreeTo(led[t], led2[t], Len(led[t]))
  PROVE  OnLine(l, won2, led2)
<1>1. SUFFICES ASSUME NEW i \in 1..Len(l)
               PROVE  l[i].term \in won2 /\ AgreeTo(l, led2[l[i].term], i)
  BY Zenon DEF OnLine
<1>2. PICK t \in won : t = l[i].term /\ AgreeTo(l, led[t], i)
  BY Zenon DEF OnLine
<1>3. i \in Nat /\ Len(led[t]) \in Nat /\ i <= Len(led[t])
  BY Zenon, <1>2, LogLen, AgreeLen
<1>4. AgreeTo(led[t], led2[t], i)
  BY Zenon, <1>3, AgreeDown
<1>5. QED
  BY Zenon, <1>2, <1>4, AgreeTrans

(* A beginning of a log on the line is on the line.                        *)
LEMMA OnLinePrefix ==
  ASSUME NEW won, NEW led, NEW k \in Seq(Entry), NEW l \in Seq(Entry),
         won \subseteq Nat, led \in [Nat -> Seq(Entry)],
         OnLine(l, won, led), AgreeTo(k, l, Len(k))
  PROVE  OnLine(k, won, led)
<1>1. SUFFICES ASSUME NEW i \in 1..Len(k)
               PROVE  k[i].term \in won /\ AgreeTo(k, led[k[i].term], i)
  BY Zenon DEF OnLine
<1>2. k[i] = l[i] /\ i \in 1..Len(l)
  BY DEF AgreeTo
<1>3. l[i].term \in won /\ AgreeTo(l, led[l[i].term], i)
  BY Zenon, <1>2 DEF OnLine
<1>4. AgreeTo(k, l, i)
  BY AgreeDown
<1>5. QED
  BY <1>2, <1>3, <1>4, AgreeTrans

(* A prefix of a log with terms in order has its terms in order.           *)
LEMMA PrefixSorted ==
  ASSUME NEW k \in Seq(Entry), NEW l \in Seq(Entry), Sorted(l), AgreeTo(k, l, Len(k))
  PROVE  Sorted(k)
BY DEF AgreeTo, Sorted

(* A prefix of a log holds no later terms than the log.                    *)
LEMMA PrefixTerms ==
  ASSUME NEW k \in Seq(Entry), NEW l \in Seq(Entry), NEW t, TermsTo(l, t),
         AgreeTo(k, l, Len(k))
  PROVE  TermsTo(k, t)
BY DEF AgreeTo, TermsTo

(* Logs on the line are sorted by term, as the leaders' logs are.          *)
LEMMA OnLineSorted ==
  ASSUME NEW won, NEW led, NEW l \in Seq(Entry), OnLine(l, won, led),
         won \subseteq Nat, led \in [Nat -> Seq(Entry)],
         \A t \in won : Sorted(led[t])
  PROVE  Sorted(l)
<1>1. CASE Len(l) = 0
  BY <1>1 DEF Sorted
<1>2. CASE Len(l) # 0
  <2>1. Len(l) \in 1..Len(l)
    BY <1>2
  <2>2. PICK t \in won : AgreeTo(l, led[t], Len(l))
    BY Zenon, <2>1 DEF OnLine
  <2>3. QED
    BY Zenon, <2>2, PrefixSorted
<1>3. QED
  BY <1>1, <1>2
-----------------------------------------------------------------------------
(* A slice of a log is a slice of the log grown longer.                    *)
LEMMA SliceStays ==
  ASSUME NEW k \in Seq(Entry), NEW l \in Seq(Entry), NEW prev \in Nat, NEW term,
         NEW entries \in Seq(Entry), SliceOf(prev, term, entries, k),
         AgreeTo(k, l, Len(k))
  PROVE  SliceOf(prev, term, entries, l)
<1>1. /\ Len(k) <= Len(l) /\ \A i \in 1..Len(k) : k[i] = l[i]
      /\ prev + Len(entries) <= Len(k) /\ term = TermAt(k, prev)
      /\ \A i \in 1..Len(entries) : entries[i] = k[prev + i]
  BY Zenon DEF SliceOf, AgreeTo
<1>2. TermAt(k, prev) = TermAt(l, prev)
  <2>1. prev # 0 => prev \in 1..Len(k)
    BY <1>1
  <2>2. QED
    BY Zenon, <1>1, <2>1 DEF TermAt
<1>3. QED
  BY <1>1, <1>2 DEF SliceOf
-----------------------------------------------------------------------------
(* What is lost stays lost: peers past a term hold nothing more of it.     *)
LEMMA LostStays ==
  ASSUME IndexInv, StepOK, NEW t \in Nat, NEW i \in Nat, NEW held, NEW held2,
         HeldGrows(held, held2), Lost(t, i, held)
  PROVE  Lost(t, i, held2)'
BY TermsMove DEF Lost, Quorums, HeldGrows, Majority

(* Terms that were won stay won.                                           *)
LEMMA TermsWonStay ==
  ASSUME IndexInv, StepOK, ElectionStepOK, NEW won, won \in SUBSET Nat, TermsWon(won)
  PROVE  TermsWon(won)'
<1>1. SUFFICES ASSUME NEW t \in won
               PROVE  /\ \E p \in Server : Won(p, t)'
                      /\ \E Q \in Quorums : \A q \in Q : currentTerm'[q] >= t
  BY DEF TermsWon, Quorums, Majority
<1>2. \E p \in Server : Won(p, t)'
  BY DEF TermsWon, ElectionStepOK
<1>3. PICK Q \in Quorums : \A q \in Q : currentTerm[q] >= t
  BY DEF TermsWon
<1>4. ASSUME NEW q \in Q PROVE currentTerm'[q] >= t
  <2>1. q \in Server /\ currentTerm[q] >= t /\ t \in Nat
    BY <1>3 DEF Quorums
  <2>2. QED
    BY <2>1, TermsMove
<1>5. QED
  BY <1>2, <1>4

(* The requests and votes of a candidate stay good while it stands.        *)
LEMMA VoteKeptStays ==
  ASSUME IndexInv, StepOK, ElectionInv, NEW c \in voteCalls, NEW held, NEW held2,
         HeldGrows(held, held2), LogsGrow, VoteKept(c, held)
  PROVE  VoteKept(c, held2)'
<1>1. /\ c.src \in Server /\ c.dst \in Server /\ c.term \in Nat
      /\ c.lastLogIndex \in Nat
  BY Zenon DEF IndexInv, ProtocolTypeOK, VoteCall, Term
<1>2. SUFFICES ASSUME Standing(c)'
               PROVE  VoteKept(c, held2)'
  BY Zenon DEF VoteKept
<1>3. /\ currentTerm[c.src] >= c.term
      /\ Granted(c) => currentTerm[c.dst] >= c.term
  BY <1>1, TermsMove DEF ElectionInv, VoteCallOK, VotedIn
<1>4. currentTerm'[c.src] = c.term /\ state'[c.src] # Follower
  BY <1>2 DEF Standing
<1>5. currentTerm[c.src] = currentTerm'[c.src]
  BY <1>1, <1>3, <1>4, TermsMove
<1>6. Standing(c) /\ AgreeTo(log[c.src], log'[c.src], Len(log[c.src]))
  BY <1>1, <1>4, <1>5 DEF StepOK, Standing, Advances, LogsGrow
<1>7. /\ log[c.src] \in Seq(Entry) /\ log'[c.src] \in Seq(Entry)
      /\ Len(log[c.src]) \in Nat /\ Len(log'[c.src]) \in Nat
  <2>1. log[c.src] \in Seq(Entry) /\ log'[c.src] \in Seq(Entry)
    BY Zenon, <1>1 DEF IndexInv, StepOK, ProtocolTypeOK
  <2>2. QED
    BY <2>1
<1>8. ASSUME Granted(c), NEW t \in Nat, NEW i \in Nat, t < c.term, <<c.dst, t, i>> \in held2
      PROVE  Lost(t, i, held2)' \/ Has(log'[c.src], t, i)
  <2>1. currentTerm'[c.dst] # t
    BY <1>1, <1>3, <1>8, TermsMove
  <2>2. <<c.dst, t, i>> \in held
    BY <1>8, <2>1 DEF HeldGrows
  <2>3. Lost(t, i, held) \/ Has(log[c.src], t, i)
    BY Zenon, <1>6, <1>8, <2>2 DEF VoteKept
  <2>4. CASE Lost(t, i, held)
    BY Zenon, <2>4, LostStays
  <2>5. CASE Has(log[c.src], t, i)
    BY <1>6, <1>7, <2>5, AgreeHas DEF Has
  <2>6. QED
    BY Zenon, <2>3, <2>4, <2>5
<1>9. ASSUME c.stage = "request"
      PROVE  /\ c.lastLogIndex <= Len(log'[c.src])
             /\ c.lastLogTerm = TermAt(log'[c.src], c.lastLogIndex)
  BY <1>1, <1>6, <1>9 DEF VoteKept, AgreeTo, TermAt
<1>10. QED
  BY <1>8, <1>9 DEF VoteKept

(* Entries held before a step are held after it, or lost.                  *)
LEMMA HeldKeptStays ==
  ASSUME IndexInv, StepOK, NEW won, NEW led, NEW held, LogInv(won, led, held), log' = log
  PROVE  HeldKept(won, led, held)'
<1>1. HeldGrows(held, held)
  BY DEF HeldGrows, LogInv, HistoryType
<1>2. ASSUME NEW s \in Server, NEW t \in Nat, NEW i \in Nat, <<s, t, i>> \in held
      PROVE  /\ t \in won /\ Has(led[t], t, i) /\ t <= currentTerm'[s]
             /\ Lost(t, i, held)' \/ Has(log'[s], t, i)
  BY <1>1, <1>2, TermsMove, LostStays DEF LogInv, HeldKept
<1>3. ASSUME NEW s \in Server, NEW t \in Nat, NEW i \in Nat, t = currentTerm'[s],
             Has(log'[s], t, i)
      PROVE  <<s, t, i>> \in held
  BY <1>3, TermsMove DEF Has, LogInv, PeerLogs, TermsTo, HeldKept
<1>4. QED
  BY Zenon, <1>2, <1>3 DEF HeldKept

(* Leaders stay complete when peers acknowledge entries of their own term. *)
LEMMA LeadersCompleteStays ==
  ASSUME IndexInv, StepOK, NEW won, won \in SUBSET Nat, NEW led, NEW held, NEW held2,
         HeldGrows(held, held2), LeadersComplete(won, led, held)
  PROVE  LeadersComplete(won, led, held2)'
BY LostStays DEF LeadersComplete

(* A step that changes no log and makes no leader.                         *)
LEMMA QuietLogs ==
  ASSUME IndexInv, StepOK, ElectionInv, ElectionStepOK,
         NEW won, NEW led, NEW held, LogInv(won, led, held),
         log' = log, starting' \subseteq starting,
         \A s \in Server : state'[s] = Leader =>
           state[s] = Leader /\ currentTerm'[s] = currentTerm[s],
         \A c \in voteCalls' : c \in voteCalls \/ VoteKept(c, held)',
         \A c \in appendCalls' : c \in appendCalls \/ RequestOK(c, won, led)
  PROVE  LogInv(won, led, held)'
<1>1. HistoryType(won, led, held)
  BY Zenon DEF LogInv
<1>2. HeldGrows(held, held)
  BY Zenon, <1>1 DEF HeldGrows, HistoryType
<1>3. LogsGrow
  BY DEF IndexInv, ProtocolTypeOK, AgreeTo, LogsGrow
<1>4. TermsWon(won)'
  BY Zenon, TermsWonStay DEF LogInv, HistoryType
<1>5. PeerLogs(won, led)'
  <2>1. ASSUME NEW s \in Server
        PROVE  /\ OnLine(log'[s], won, led)
               /\ TermsTo(log'[s], currentTerm'[s])
               /\ state'[s] = Leader =>
                    currentTerm'[s] \in won /\ log'[s] = led[currentTerm'[s]]
    <3>1. /\ OnLine(log[s], won, led) /\ TermsTo(log[s], currentTerm[s])
          /\ state[s] = Leader => currentTerm[s] \in won /\ log[s] = led[currentTerm[s]]
      BY Zenon DEF LogInv, PeerLogs
    <3>2. TermsTo(log[s], currentTerm'[s])
      <4>1. ASSUME NEW i \in 1..Len(log[s]) PROVE log[s][i].term <= currentTerm'[s]
        <5>1. log[s][i] \in Entry
          BY DEF IndexInv, ProtocolTypeOK
        <5>2. log[s][i].term \in Nat /\ log[s][i].term <= currentTerm[s]
          BY Zenon, <3>1, <5>1 DEF Entry, Term, TermsTo
        <5>3. QED
          BY <5>2, TermsMove
      <4>2. QED
        BY Zenon, <4>1 DEF TermsTo
    <3>3. QED
      BY Zenon, <3>1, <3>2
  <2>2. QED
    BY Zenon, <2>1 DEF PeerLogs
<1>6. HeldKept(won, led, held)'
  BY Zenon, HeldKeptStays
<1>7. LeadersComplete(won, led, held)'
  BY Zenon, <1>2, LeadersCompleteStays DEF LogInv, HistoryType
<1>8. ASSUME NEW c \in voteCalls' PROVE VoteKept(c, held)'
  BY Zenon, <1>2, <1>3, VoteKeptStays DEF LogInv
<1>9. QED
  BY <1>4, <1>5, <1>6, <1>7, <1>8 DEF LogInv

(* A winner has every entry of an earlier leader but the lost ones: a      *)
(* majority is past that leader's term, and one of its members would hold  *)
(* the entry otherwise.                                                    *)
LEMMA WinnerComplete ==
  ASSUME IndexInv', ElectionInv', NEW won, NEW led, NEW held,
         HistoryType(won, led, held), HeldKept(won, led, held)',
         \A c \in voteCalls' : VoteKept(c, held)',
         NEW s \in Server, state'[s] = Leader, NEW U, U = currentTerm'[s],
         NEW t \in won, NEW i \in Nat, t < U
  PROVE  Lost(t, i, held)' \/ Has(log'[s], t, i)
<1> DEFINE V == {s} \cup Ballots(s, U)'
<1>1. V \in Quorums
  BY Zenon DEF ElectionInv, Winners, Won, Quorums, Majority
<1>2. t \in Nat /\ U \in Nat
  BY Zenon DEF HistoryType, IndexInv, ProtocolTypeOK, Term
<1>3. ASSUME NEW v \in V, v # s
      PROVE  \E b \in voteCalls' : /\ b.src = s /\ b.dst = v /\ b.term = U
                                    /\ Granted(b) /\ VoteCallOK(b)'
  BY Zenon, <1>3 DEF Ballots, ElectionInv, VoteCallOK, Granted
<1>4. ASSUME NEW v \in V, <<v, t, i>> \in held
      PROVE  Lost(t, i, held)' \/ Has(log'[s], t, i)
  BY <1>2, <1>3, <1>4 DEF HeldKept, Standing, Leader, Follower, VoteKept
<1>5. ASSUME NEW v \in V PROVE currentTerm'[v] > t
  <2>1. CASE v # s
    <3>1. PICK b \in voteCalls' : b.src = s /\ b.dst = v /\ b.term = U /\ Granted(b)
                                  /\ VoteCallOK(b)'
      BY Zenon, <1>3, <2>1
    <3>2. v \in Server
      BY Zenon, <3>1 DEF IndexInv, ProtocolTypeOK, VoteCall
    <3>3. currentTerm'[v] \in Nat
      BY Zenon, <3>2 DEF IndexInv, ProtocolTypeOK, Term
    <3>4. QED
      BY <1>2, <3>1, <3>3 DEF VoteCallOK, VotedIn
  <2>2. QED
    BY <2>1
<1>6. CASE \E v \in V : <<v, t, i>> \in held
  BY Zenon, <1>4, <1>6
<1>7. CASE \A v \in V : <<v, t, i>> \notin held
  <2> HIDE DEF V
  <2>1. QED
    BY Zenon, <1>1, <1>5, <1>7 DEF Lost, Quorums, Majority
<1>8. QED
  BY Zenon, <1>6, <1>7

(* A majority has entered the term of a leader.                            *)
LEMMA WinnerQuorum ==
  ASSUME IndexInv', ElectionInv', NEW s \in Server, state'[s] = Leader,
         NEW U, U = currentTerm'[s]
  PROVE  Won(s, U)' /\ \E Q \in Quorums : \A q \in Q : currentTerm'[q] >= U
<1> DEFINE V == {s} \cup Ballots(s, U)'
<1>1. Won(s, U)'
  BY DEF ElectionInv, Winners
<1>2. V \in Quorums
  BY Zenon, <1>1 DEF Won, Quorums, Majority
<1>3. ASSUME NEW v \in V PROVE currentTerm'[v] >= U
  <2>1. U \in Nat
    BY Zenon DEF IndexInv, ProtocolTypeOK, Term
  <2>2. CASE v = s
    BY <2>1, <2>2
  <2>3. CASE v # s
    <3>1. PICK b \in voteCalls' : b.src = s /\ b.elec = U /\ b.stage = "counted" /\ b.dst = v
      BY <2>3 DEF Ballots
    <3>2. VoteCallOK(b)' /\ v \in Server
      BY Zenon, <3>1 DEF ElectionInv, IndexInv, ProtocolTypeOK, VoteCall
    <3>3. currentTerm'[v] \in Nat
      BY Zenon, <3>2 DEF IndexInv, ProtocolTypeOK, Term
    <3>4. QED
      BY <2>1, <3>1, <3>2, <3>3 DEF VoteCallOK, VotedIn, Granted
  <2>4. QED
    BY <2>2, <2>3
<1>4. QED
  BY <1>1, <1>2, <1>3

(* The step in which a candidate wins: its log becomes its term's line.    *)
LEMMA WinLogs ==
  ASSUME IndexInv, StepOK, ElectionInv, ElectionStepOK,
         NEW won, NEW led, NEW held, LogInv(won, led, held),
         NEW s \in Server, state[s] = Candidate, state' = [state EXCEPT ![s] = Leader],
         UNCHANGED <<currentTerm, log, appendCalls, starting>>,
         \A c \in voteCalls' : c \in voteCalls \/ VoteKept(c, held)'
  PROVE  \E won2, led2 : /\ LogInv(won2, led2, held)'
                         /\ Grows(won, led, held, won2, led2, held)
<1>1. PICK U, won2, led2 :
        U = currentTerm[s] /\ won2 = won \cup {U} /\ led2 = [led EXCEPT ![U] = log[s]]
  BY Zenon
<1>2. HistoryType(won, led, held)
  BY Zenon DEF LogInv
<1>3. U \in Nat /\ U = currentTerm'[s] /\ state'[s] = Leader
  BY Zenon, <1>1 DEF IndexInv, ProtocolTypeOK, Term
<1>4. U \notin won
  BY Zenon, <1>3 DEF ElectionStepOK, Candidate, Leader, LogInv, TermsWon
<1>5. log \in [Server -> Seq(Entry)]
  BY Zenon DEF IndexInv, ProtocolTypeOK
<1>6. /\ HistoryType(won2, led2, held)
      /\ led2[U] = log[s] /\ \A t \in won : led2[t] = led[t]
  BY Zenon, <1>1, <1>2, <1>3, <1>4, <1>5 DEF HistoryType
<1>7. \A t \in won : AgreeTo(led[t], led2[t], Len(led[t]))
  <2>1. ASSUME NEW t \in won PROVE AgreeTo(led[t], led2[t], Len(led[t]))
    BY <1>6 DEF AgreeTo
  <2>2. QED
    BY Zenon, <2>1
<1>8. HeldGrows(held, held)
  BY Zenon, <1>2 DEF HeldGrows, HistoryType
<1>9. LogsGrow
  BY DEF AgreeTo, LogsGrow
<1>10. ASSUME NEW l \in Seq(Entry), OnLine(l, won, led) PROVE OnLine(l, won2, led2)
  <2>1. won \subseteq Nat /\ led \in [Nat -> Seq(Entry)] /\ led2 \in [Nat -> Seq(Entry)]
    BY Zenon, <1>2, <1>6 DEF HistoryType
  <2>2. QED
    BY Zenon, <1>1, <1>7, <1>10, <2>1, OnLineStays
<1>11. ASSUME NEW x \in Server
       PROVE  /\ OnLine(log[x], won, led) /\ TermsTo(log[x], currentTerm[x])
              /\ state[x] = Leader => currentTerm[x] \in won /\ log[x] = led[currentTerm[x]]
  BY Zenon DEF LogInv, PeerLogs
<1>12. TermsWon(won2)'
  BY Zenon, <1>1, <1>3, WinnerQuorum DEF LogInv, HistoryType, StepOK, ElectionStepOK,
         TermsWon, Quorums, Majority
<1>13. LeaderLogs(won2, led2)
  <2>1. ASSUME NEW t \in won
        PROVE  OnLine(led2[t], won2, led2) /\ Sorted(led2[t]) /\ TermsTo(led2[t], t)
    BY Zenon, <1>6, <1>10 DEF LogInv, LeaderLogs, HistoryType
  <2>2. OnLine(log[s], won2, led2) /\ TermsTo(log[s], U)
    BY Zenon, <1>1, <1>5, <1>10, <1>11
  <2>3. Sorted(log[s])
    BY Zenon, <1>5, <1>11, OnLineSorted DEF LogInv, LeaderLogs, HistoryType
  <2>4. QED
    BY Zenon, <1>1, <1>6, <2>1, <2>2, <2>3 DEF LeaderLogs
<1>14. PeerLogs(won2, led2)'
  BY Zenon, <1>1, <1>6, <1>10, <1>11 DEF IndexInv, ProtocolTypeOK, PeerLogs
<1>15. HeldKept(won, led, held)'
  BY Zenon, HeldKeptStays
<1>16. HeldKept(won2, led2, held)'
  BY Zenon, <1>1, <1>6, <1>15 DEF HeldKept
<1>17. \A c \in voteCalls' : VoteKept(c, held)'
  BY Zenon, <1>8, <1>9, VoteKeptStays DEF LogInv
<1>18. LeadersComplete(won2, led2, held)'
  <2>1. LeadersComplete(won, led, held)'
    BY Zenon, <1>8, LeadersCompleteStays DEF LogInv, HistoryType
  <2>2. ASSUME NEW t \in won, NEW i \in Nat, t < U
        PROVE  Lost(t, i, held)' \/ Has(log[s], t, i)
    BY Zenon, <1>2, <1>3, <1>15, <1>17, <2>2, WinnerComplete DEF StepOK,
           ElectionStepOK
  <2>3. ASSUME NEW i \in Nat PROVE ~Has(log[s], U, i)
    BY Zenon, <1>4, <1>11 DEF Has, OnLine
  <2>4. ASSUME NEW t \in won2, NEW u \in won2, NEW i \in Nat, t < u, Has(led2[t], t, i)
        PROVE  Lost(t, i, held)' \/ Has(led2[u], t, i)
    BY Zenon, <1>1, <1>6, <2>1, <2>2, <2>3, <2>4 DEF LeadersComplete
  <2>5. QED
    BY Zenon, <2>4 DEF LeadersComplete
<1>19. ASSUME NEW c \in appendCalls' PROVE RequestOK(c, won2, led2)
  BY Zenon, <1>1, <1>6 DEF LogInv, RequestOK
<1>20. LogInv(won2, led2, held)'
  BY Zenon, <1>6, <1>12, <1>13, <1>14, <1>16, <1>17, <1>18, <1>19 DEF LogInv
<1>21. Grows(won, led, held, won2, led2, held)
  BY Zenon, <1>1, <1>7 DEF Grows
<1>22. QED
  BY <1>20, <1>21

(* A leader's log on the line stays on it with an entry of its term added, *)
(* and stays sorted.                                                       *)
LEMMA AppendOnLine ==
  ASSUME NEW won, NEW led, NEW T \in won, won \subseteq Nat, led \in [Nat -> Seq(Entry)],
         NEW l \in Seq(Entry), OnLine(l, won, led), Sorted(l), TermsTo(l, T),
         NEW e \in Entry, e.term = T, led[T] = Append(l, e)
  PROVE  /\ OnLine(led[T], won, led) /\ Sorted(led[T]) /\ TermsTo(led[T], T)
         /\ AgreeTo(l, led[T], Len(l)) /\ Len(led[T]) = Len(l) + 1
         /\ Has(led[T], T, Len(l) + 1)
<1> DEFINE n == Len(l)
<1>1. n \in Nat /\ led[T] \in Seq(Entry)
  OBVIOUS
<1>2. /\ Len(led[T]) = n + 1 /\ led[T][n + 1] = e
      /\ \A i \in 1..n : led[T][i] = l[i]
  OBVIOUS
<1> HIDE DEF n
<1>3. AgreeTo(l, led[T], n) /\ AgreeTo(led[T], led[T], n + 1)
  BY DEF AgreeTo, n
<1>4. ASSUME NEW i \in 1..(n + 1)
      PROVE  led[T][i].term \in won /\ AgreeTo(led[T], led[led[T][i].term], i)
  <2>1. CASE i = n + 1
    BY Zenon, <1>2, <1>3, <2>1
  <2>2. CASE i # n + 1
    <3>1. i \in 1..n /\ i \in Nat /\ i <= n
      BY <1>1, <2>2
    <3>2. l[i].term \in won /\ AgreeTo(l, led[l[i].term], i)
      BY Zenon, <3>1 DEF OnLine, n
    <3>3. AgreeTo(l, led[T], i)
      BY Zenon, <1>1, <1>3, <3>1, AgreeDown
    <3>4. led[T][i] = l[i]
      BY Zenon, <1>2, <3>1
    <3>5. QED
      BY <3>2, <3>3, <3>4, AgreeSym, AgreeTrans
  <2>3. QED
    BY Zenon, <2>1, <2>2
<1>5. OnLine(led[T], won, led)
  BY Zenon, <1>2, <1>4 DEF OnLine
<1>6. \A i \in 1..n : l[i].term \in Nat /\ l[i].term <= T
  <2>1. ASSUME NEW i \in 1..n PROVE l[i].term \in Nat
    <3>1. l[i] \in Entry
      BY DEF n
    <3>2. QED
      BY Zenon, <3>1 DEF Entry, Term
  <2>2. QED
    BY Zenon, <2>1 DEF TermsTo, n
<1>7. TermsTo(led[T], T)
  <2>1. ASSUME NEW i \in 1..(n + 1) PROVE led[T][i].term <= T
    <3>1. CASE i = n + 1
      <4>1. T \in Nat /\ led[T][i].term = T
        BY Zenon, <1>2, <3>1
      <4>2. QED
        BY <4>1
    <3>2. CASE i # n + 1
      <4>1. i \in 1..n
        BY <1>1, <3>2
      <4>2. QED
        BY Zenon, <1>2, <1>6, <4>1
    <3>3. QED
      BY Zenon, <3>1, <3>2
  <2>2. QED
    BY Zenon, <1>2, <2>1 DEF TermsTo
<1>8. Sorted(led[T])
  <2>1. ASSUME NEW i \in 1..(n + 1), NEW j \in 1..(n + 1), i <= j
        PROVE  led[T][i].term <= led[T][j].term
    <3>1. CASE j = n + 1
      BY Zenon, <1>2, <1>7, <3>1 DEF TermsTo
    <3>2. CASE j # n + 1
      <4>1. i \in 1..n /\ j \in 1..n
        BY <1>1, <2>1, <3>2
      <4>2. QED
        BY <2>1, <4>1 DEF Sorted, n
    <3>3. QED
      BY Zenon, <3>1, <3>2
  <2>2. QED
    BY Zenon, <1>2, <2>1 DEF Sorted
<1>9. QED
  BY <1>2, <1>3, <1>5, <1>7, <1>8 DEF Has, n

(* An entry of a leader that a later leader does not know of is held by    *)
(* its own leader at most: it is lost.                                     *)
LEMMA FreshIsLost ==
  ASSUME IndexInv, StepOK, NEW won, NEW led, NEW held, LogInv(won, led, held),
         NEW held2, NEW s \in Server, NEW T \in won, T = currentTerm[s],
         NEW u \in won, T < u, NEW i \in Nat, ~Has(led[T], T, i),
         \A q \in Server : <<q, T, i>> \in held2 => <<q, T, i>> \in held \/ q = s
  PROVE  Lost(T, i, held2)'
<1>1. T \in Nat /\ u \in Nat
  BY Zenon DEF LogInv, HistoryType
<1>2. PICK Q \in Quorums : \A q \in Q : currentTerm[q] >= u
  BY Zenon DEF LogInv, TermsWon
<1>3. ASSUME NEW q \in Q PROVE currentTerm'[q] > T /\ <<q, T, i>> \notin held2
  BY <1>1, <1>2, TermsMove DEF Quorums, LogInv, HeldKept
<1>4. QED
  BY <1>3 DEF Lost, Quorums, Majority

(* The step in which a leader appends a command: its term's line grows.    *)
LEMMA StartLogs ==
  ASSUME IndexInv, StepOK, ElectionInv, ElectionStepOK, ElectionSafety,
         NEW won, NEW led, NEW held, LogInv(won, led, held),
         NEW s \in Server, state[s] = Leader, NEW e \in Entry, e.term = currentTerm[s],
         log' = [log EXCEPT ![s] = Append(log[s], e)],
         UNCHANGED <<currentTerm, state, voteCalls, starting>>,
         \A c \in appendCalls' :
           \/ c \in appendCalls
           \/ Sending(c) => /\ c.term = currentTerm[s]
                            /\ SliceOf(c.prevLogIndex, c.prevLogTerm, c.entries, log'[s])
  PROVE  \E led2, held2 : /\ LogInv(won, led2, held2)'
                          /\ Grows(won, led, held, won, led2, held2)
<1>1. PICK T, n, led2, held2 :
        /\ T = currentTerm[s] /\ n = Len(log[s]) + 1
        /\ led2 = [led EXCEPT ![T] = log'[s]] /\ held2 = held \cup {<<s, T, n>>}
  BY Zenon
<1>2. HistoryType(won, led, held)
  BY Zenon DEF LogInv
<1>3. /\ T \in Nat /\ T \in won /\ log[s] = led[T] /\ log[s] \in Seq(Entry)
      /\ log'[s] = Append(log[s], e) /\ log'[s] \in Seq(Entry) /\ n \in Nat
      /\ \A x \in Server : x # s => log'[x] = log[x]
      /\ log \in [Server -> Seq(Entry)] /\ log' \in [Server -> Seq(Entry)]
  <2>1. T \in Nat /\ log[s] \in Seq(Entry) /\ T \in won /\ log[s] = led[T]
    BY Zenon, <1>1 DEF IndexInv, ProtocolTypeOK, Term, LogInv, PeerLogs
  <2>2. log \in [Server -> Seq(Entry)] /\ log' \in [Server -> Seq(Entry)]
    BY Zenon DEF IndexInv, StepOK, ProtocolTypeOK
  <2>3. QED
    BY <1>1, <2>1, <2>2
<1>4. /\ led2[T] = log'[s] /\ \A t \in Nat : t # T => led2[t] = led[t]
      /\ led2 \in [Nat -> Seq(Entry)] /\ led \in [Nat -> Seq(Entry)] /\ won \subseteq Nat
  BY Zenon, <1>1, <1>2, <1>3 DEF HistoryType
<1>5. HistoryType(won, led2, held2)
  <2>1. <<s, T, n>> \in Server \X Nat \X Nat
    BY Zenon, <1>3
  <2>2. held2 \in SUBSET (Server \X Nat \X Nat)
    BY Zenon, <1>1, <1>2, <2>1 DEF HistoryType
  <2>3. QED
    BY Zenon, <1>4, <2>2 DEF HistoryType
<1>6. OnLine(log[s], won, led) /\ Sorted(log[s]) /\ TermsTo(log[s], T)
  BY Zenon, <1>3 DEF LogInv, LeaderLogs
<1>7. /\ Len(log'[s]) = n /\ log'[s][n] = e
      /\ \A i \in 1..(n-1) : log'[s][i] = log[s][i]
  BY <1>1, <1>3
<1>8. AgreeTo(log[s], log'[s], n - 1) /\ n - 1 = Len(log[s])
  BY <1>1 DEF AgreeTo
<1>9. \A t \in won : AgreeTo(led[t], led2[t], Len(led[t]))
  <2>1. ASSUME NEW t \in won, t # T PROVE AgreeTo(led[t], led2[t], Len(led[t]))
    <3>1. Len(led[t]) \in Nat /\ led[t] = led2[t]
      BY <1>4, <2>1
    <3>2. QED
      BY <3>1 DEF AgreeTo
  <2>2. AgreeTo(led[T], led2[T], Len(led[T]))
    BY Zenon, <1>3, <1>4, <1>8
  <2>3. QED
    BY Zenon, <2>1, <2>2
<1>10. ASSUME NEW l \in Seq(Entry), OnLine(l, won, led) PROVE OnLine(l, won, led2)
  BY Zenon, <1>4, <1>9, <1>10, OnLineStays
<1>11. /\ OnLine(log'[s], won, led2) /\ Sorted(log'[s]) /\ TermsTo(log'[s], T)
       /\ Has(log'[s], T, n)
  <2>1. led2[T] = Append(log[s], e) /\ OnLine(log[s], won, led2)
    BY Zenon, <1>3, <1>4, <1>6, <1>10
  <2>2. /\ OnLine(led2[T], won, led2) /\ Sorted(led2[T]) /\ TermsTo(led2[T], T)
        /\ Has(led2[T], T, Len(log[s]) + 1)
    <3>1. T \in won /\ log[s] \in Seq(Entry) /\ e.term = T
          /\ led2 \in [Nat -> Seq(Entry)] /\ won \subseteq Nat
      BY Zenon, <1>1, <1>3, <1>4
    <3>2. QED
      BY Zenon, <1>6, <2>1, <3>1, AppendOnLine
  <2>3. QED
    BY Zenon, <1>1, <1>4, <2>2
<1>12. HeldGrows(held, held2)
  BY Zenon, <1>1, <1>5 DEF HeldGrows, HistoryType
<1>13. ASSUME NEW x \in Server PROVE AgreeTo(log[x], log'[x], Len(log[x]))
  BY DEF AgreeTo
<1>14. LogsGrow
  BY Zenon, <1>13 DEF LogsGrow
<1>15. TermsWon(won)'
  BY Zenon, TermsWonStay DEF LogInv, HistoryType
<1>16. LeaderLogs(won, led2)
  BY Zenon, <1>4, <1>10, <1>11 DEF LogInv, LeaderLogs
<1>17. PeerLogs(won, led2)'
  BY Zenon, <1>1, <1>3, <1>4, <1>10, <1>11 DEF LogInv, PeerLogs, ElectionSafety
<1>18. ASSUME NEW u \in won, NEW t \in Nat, NEW i \in Nat, Has(led[u], t, i)
       PROVE  Has(led2[u], t, i)
  <2>1. led[u] \in Seq(Entry) /\ led2[u] \in Seq(Entry)
    BY Zenon, <1>4
  <2>2. Len(led[u]) \in Nat /\ i <= Len(led[u])
    BY <1>18 DEF Has
  <2>3. QED
    BY Zenon, <1>9, <1>18, <2>1, <2>2, AgreeHas
<1>19. ASSUME NEW x \in Server, NEW t \in Nat, NEW i \in Nat, Has(log[x], t, i)
       PROVE  Has(log'[x], t, i)
  BY <1>19 DEF Has
<1>20. ASSUME NEW t \in Nat, NEW i \in Nat, Has(log'[s], t, i)
       PROVE  (t = T /\ i = n) \/ Has(log[s], t, i)
  BY <1>1, <1>7, <1>8, <1>20 DEF Has
<1>21. HeldKept(won, led2, held2)'
  <2>1. ASSUME NEW q \in Server, NEW t \in Nat, NEW i \in Nat, <<q, t, i>> \in held2
        PROVE  /\ t \in won /\ Has(led2[t], t, i) /\ t <= currentTerm'[q]
               /\ Lost(t, i, held2)' \/ Has(log'[q], t, i)
    <3>1. CASE <<q, t, i>> \in held
      BY Zenon, <1>12, <1>18, <1>19, <3>1, LostStays DEF LogInv, HeldKept
    <3>2. CASE <<q, t, i>> \notin held
      <4>1. q = s /\ t = T /\ i = n
        BY Zenon, <1>1, <2>1, <3>2
      <4>2. T <= currentTerm'[s]
        BY <1>1, <1>3
      <4>3. QED
        BY Zenon, <1>3, <1>4, <1>11, <4>1, <4>2
    <3>3. QED
      BY Zenon, <3>1, <3>2
  <2>2. ASSUME NEW q \in Server, NEW t \in Nat, NEW i \in Nat, t = currentTerm'[q],
               Has(log'[q], t, i)
        PROVE  <<q, t, i>> \in held2
    BY <1>1, <1>20, <2>2 DEF LogInv, HeldKept
  <2>3. QED
    BY Zenon, <2>1, <2>2 DEF HeldKept
<1>22. LeadersComplete(won, led2, held2)'
  <2>1. ASSUME NEW t \in won, NEW u \in won, NEW i \in Nat, t < u, Has(led2[t], t, i)
        PROVE  Lost(t, i, held2)' \/ Has(led2[u], t, i)
    <3>1. t \in Nat
      BY Zenon, <1>4
    <3>2. CASE Has(led[t], t, i)
      BY Zenon, <1>12, <1>18, <2>1, <3>1, <3>2, LostStays DEF LogInv, LeadersComplete
    <3>3. CASE ~Has(led[t], t, i)
      <4>1. t = T
        BY Zenon, <1>4, <2>1, <3>3
      <4>2. \A q \in Server : <<q, T, i>> \in held2 => <<q, T, i>> \in held \/ q = s
        BY Zenon, <1>1
      <4>3. T \in won /\ T = currentTerm[s] /\ T < u /\ ~Has(led[T], T, i)
        BY Zenon, <1>1, <2>1, <3>3, <4>1
      <4>4. Lost(T, i, held2)'
        BY Zenon, <4>2, <4>3, FreshIsLost
      <4>5. QED
        BY Zenon, <4>1, <4>4
    <3>4. QED
      BY Zenon, <3>2, <3>3
  <2>2. QED
    BY Zenon, <2>1 DEF LeadersComplete
<1>23. ASSUME NEW c \in voteCalls' PROVE VoteKept(c, held2)'
  BY Zenon, <1>12, <1>14, VoteKeptStays DEF LogInv
<1>24. ASSUME NEW c \in appendCalls' PROVE RequestOK(c, won, led2)
  <2>1. CASE c \in appendCalls
    BY Zenon, <1>4, <1>9, <2>1, SliceStays DEF RequestOK, LogInv, IndexInv,
           ProtocolTypeOK, AppendCall
  <2>2. CASE c \notin appendCalls
    BY Zenon, <1>1, <1>3, <1>4, <2>2 DEF RequestOK
  <2>3. QED
    BY Zenon, <2>1, <2>2
<1>25. LogInv(won, led2, held2)'
  BY Zenon, <1>5, <1>15, <1>16, <1>17, <1>21, <1>22, <1>23, <1>24 DEF LogInv
<1>26. Grows(won, led, held, won, led2, held2)
  BY Zenon, <1>1, <1>9 DEF Grows
<1>27. QED
  BY <1>25, <1>26

(* The step in which a follower accepts entries: it holds those of the     *)
(* leader's term, and loses only what is lost.                             *)
LEMMA AcceptLogs ==
  ASSUME IndexInv, StepOK, ElectionInv, ElectionStepOK,
         NEW won, NEW led, NEW held, LogInv(won, led, held),
         NEW d \in Server, NEW c \in appendCalls, Sending(c), currentTerm[d] <= c.term,
         Consistent(log[d], c.prevLogIndex, c.prevLogTerm),
         log' = [log EXCEPT ![d] = Replicated(log[d], c.prevLogIndex, c.entries)],
         currentTerm' = [currentTerm EXCEPT ![d] = c.term],
         state' = [state EXCEPT ![d] = Follower],
         UNCHANGED <<voteCalls, starting>>,
         \A x \in appendCalls' : x \in appendCalls \/ ~Sending(x)
  PROVE  \E held2 : /\ LogInv(won, led, held2)'
                    /\ Grows(won, led, held, won, led, held2)
<1>1. PICK U, L, l, k, held2 :
        /\ U = c.term /\ L = led[U] /\ l = log[d] /\ k = log'[d]
        /\ held2 = held \cup {<<d, U, i>> : i \in {j \in Nat : Has(k, U, j)}}
  BY Zenon
<1>2. /\ HistoryType(won, led, held) /\ won \subseteq Nat /\ led \in [Nat -> Seq(Entry)]
      /\ held \subseteq Server \X Nat \X Nat
  BY Zenon DEF LogInv, HistoryType
<1>3. /\ log \in [Server -> Seq(Entry)] /\ log' \in [Server -> Seq(Entry)]
      /\ currentTerm \in [Server -> Nat] /\ state \in [Server -> {Follower, Candidate, Leader}]
      /\ c.entries \in Seq(Entry) /\ c.prevLogIndex \in Nat
  BY Zenon DEF IndexInv, StepOK, ProtocolTypeOK, Term, AppendCall
<1>4. /\ U \in won /\ U \in Nat /\ currentTerm[d] <= U /\ currentTerm'[d] = U
      /\ L \in Seq(Entry) /\ l \in Seq(Entry) /\ k \in Seq(Entry)
      /\ SliceOf(c.prevLogIndex, c.prevLogTerm, c.entries, L)
      /\ k = Replicated(l, c.prevLogIndex, c.entries)
  BY Zenon, <1>1, <1>2, <1>3 DEF LogInv, RequestOK
<1>5. OnLine(l, won, led) /\ TermsTo(l, currentTerm[d])
  BY Zenon, <1>1 DEF LogInv, PeerLogs
<1>6. OnLine(L, won, led) /\ TermsTo(L, U)
  BY Zenon, <1>1, <1>4 DEF LogInv, LeaderLogs
<1>7. /\ k = l \/ AgreeTo(k, L, Len(k))
      /\ \A i \in Nat : AgreeTo(l, L, i) => AgreeTo(k, L, i)
  BY <1>1, <1>3, <1>4, <1>5, <1>6, ReplicatedAgrees
<1>8. OnLine(k, won, led)
  BY Zenon, <1>2, <1>4, <1>5, <1>6, <1>7, OnLinePrefix
<1>9. TermsTo(k, U)
  <2>1. CASE k = l
    <3>1. ASSUME NEW i \in 1..Len(l) PROVE l[i].term <= U
      <4>1. l[i] \in Entry /\ l[i].term <= currentTerm[d]
        BY <1>4, <1>5 DEF TermsTo
      <4>2. QED
        BY <1>3, <1>4, <4>1 DEF Entry, Term
    <3>2. QED
      BY Zenon, <2>1, <3>1 DEF TermsTo
  <2>2. CASE AgreeTo(k, L, Len(k))
    BY Zenon, <1>4, <1>6, <2>2, PrefixTerms
  <2>3. QED
    BY Zenon, <1>7, <2>1, <2>2
<1>10. state'[d] # Leader /\ state'[d] = Follower
  BY Zenon, <1>3 DEF Leader, Follower
<1>11. ASSUME NEW q \in Server, NEW t \in Nat, NEW i \in Nat
       PROVE  <<q, t, i>> \in held2 <=>
                <<q, t, i>> \in held \/ (q = d /\ t = U /\ Has(k, U, i))
  BY Zenon, <1>1
<1>12. HistoryType(won, led, held2)
  <2>1. \A i \in Nat : <<d, U, i>> \in Server \X Nat \X Nat
    BY Zenon, <1>4
  <2>2. held2 \in SUBSET (Server \X Nat \X Nat)
    BY <1>1, <1>2, <2>1
  <2>3. QED
    BY Zenon, <1>2, <2>2 DEF HistoryType
<1>13. HeldGrows(held, held2)
  BY Zenon, <1>1, <1>4, <1>12 DEF HistoryType, HeldGrows
<1>14. LogsGrow
  BY <1>3 DEF AgreeTo, LogsGrow
<1>15. TermsWon(won)'
  BY Zenon, <1>2, TermsWonStay DEF LogInv
<1>16. PeerLogs(won, led)'
  BY <1>1, <1>4, <1>8, <1>9, <1>10 DEF LogInv, PeerLogs
<1>17. ASSUME NEW t \in won, NEW i \in Nat, Has(l, t, i), Has(L, t, i)
       PROVE  Has(k, t, i)
  <2>1. AgreeTo(l, L, i)
    BY Zenon, <1>5, <1>6, <1>17, SameTermAgrees
  <2>2. AgreeTo(L, k, i)
    BY Zenon, <1>7, <2>1, AgreeSym
  <2>3. QED
    BY <1>4, <1>17, <2>2, AgreeHas
<1>18. ASSUME NEW t \in Nat, NEW i \in Nat, <<d, t, i>> \in held
       PROVE  Lost(t, i, held2)' \/ Has(k, t, i)
  <2>1. /\ t \in won /\ Has(led[t], t, i) /\ t <= currentTerm[d]
        /\ Lost(t, i, held) \/ Has(l, t, i)
    BY Zenon, <1>1, <1>18 DEF LogInv, HeldKept
  <2>2. t = U \/ t < U
    BY <1>3, <1>4, <2>1
  <2>3. Lost(t, i, held) \/ Has(L, t, i)
    BY Zenon, <1>1, <1>4, <2>1, <2>2 DEF LogInv, LeadersComplete
  <2>4. CASE Lost(t, i, held)
    BY Zenon, <1>13, <2>4, LostStays
  <2>5. CASE ~Lost(t, i, held)
    BY Zenon, <1>17, <2>1, <2>3, <2>5
  <2>6. QED
    BY Zenon, <2>4, <2>5
<1>19. HeldKept(won, led, held2)'
  <2>1. ASSUME NEW q \in Server, NEW t \in Nat, NEW i \in Nat, <<q, t, i>> \in held2
        PROVE  /\ t \in won /\ Has(led[t], t, i) /\ t <= currentTerm'[q]
               /\ Lost(t, i, held2)' \/ Has(log'[q], t, i)
    <3>1. CASE <<q, t, i>> \in held
      <4>1. /\ t \in won /\ Has(led[t], t, i) /\ t <= currentTerm[q]
            /\ Lost(t, i, held) \/ Has(log[q], t, i)
        BY Zenon, <3>1 DEF LogInv, HeldKept
      <4>2. t <= currentTerm'[q]
        BY <4>1, TermsMove
      <4>3. Lost(t, i, held2)' \/ Has(log'[q], t, i)
        <5>1. CASE q = d
          BY Zenon, <1>1, <1>18, <3>1, <5>1
        <5>2. CASE q # d
          BY <1>13, <4>1, <5>2, LostStays
        <5>3. QED
          BY Zenon, <5>1, <5>2
      <4>4. QED
        BY Zenon, <4>1, <4>2, <4>3
    <3>2. CASE <<q, t, i>> \notin held
      <4>1. q = d /\ t = U /\ Has(k, U, i)
        BY Zenon, <1>11, <2>1, <3>2
      <4>2. AgreeTo(k, L, i)
        BY Zenon, <1>1, <1>8, <4>1 DEF OnLine, Has
      <4>3. Has(L, U, i)
        BY <1>4, <4>1, <4>2, AgreeHas
      <4>4. QED
        BY <1>1, <1>4, <4>1, <4>3
    <3>3. QED
      BY Zenon, <3>1, <3>2
  <2>2. ASSUME NEW q \in Server, NEW t \in Nat, NEW i \in Nat, t = currentTerm'[q],
               Has(log'[q], t, i)
        PROVE  <<q, t, i>> \in held2
    BY <1>1, <1>4, <2>2 DEF LogInv, HeldKept
  <2>3. QED
    BY Zenon, <2>1, <2>2 DEF HeldKept
<1>20. LeadersComplete(won, led, held2)'
  BY Zenon, <1>2, <1>13, LeadersCompleteStays DEF LogInv
<1>21. ASSUME NEW b \in voteCalls' PROVE VoteKept(b, held2)'
  BY Zenon, <1>13, <1>14, VoteKeptStays DEF LogInv
<1>22. ASSUME NEW x \in appendCalls' PROVE RequestOK(x, won, led)
  BY Zenon DEF LogInv, RequestOK
<1>23. LogInv(won, led, held2)'
  BY Zenon, <1>12, <1>15, <1>16, <1>19, <1>20, <1>21, <1>22 DEF LogInv
<1>24. Grows(won, led, held, won, led, held2)
  BY <1>1 DEF AgreeTo, Grows
<1>25. QED
  BY <1>23, <1>24
-----------------------------------------------------------------------------
(* A history that does not change grows.                                   *)
LEMMA GrowsNone ==
  ASSUME NEW won, NEW led, NEW held, LogInv(won, led, held)
  PROVE  Grows(won, led, held, won, led, held)
BY DEF LogInv, HistoryType, AgreeTo, Grows

(* A step that changes no log, makes no leader and sends slices of leaders' *)
(* logs keeps the invariant with the same history.                         *)
LEMMA QuietLogsStep ==
  ASSUME IndexInv, StepOK, ElectionInv, ElectionStepOK,
         NEW won, NEW led, NEW held, LogInv(won, led, held),
         log' = log, starting' \subseteq starting,
         \A s \in Server : state'[s] = Leader =>
           state[s] = Leader /\ currentTerm'[s] = currentTerm[s],
         \A c \in voteCalls' : c \in voteCalls \/ VoteKept(c, held)',
         \A c \in appendCalls' : c \in appendCalls \/ RequestOK(c, won, led)
  PROVE  LogStepOK(won, led, held)
BY QuietLogs, GrowsNone DEF LogStepOK

(* startElection sends the end of the candidate's log.                     *)
LEMMA StartElectionLogs ==
  ASSUME LogGapsClosed, IndexInv, StepOK, ElectionInv, ElectionStepOK,
         NEW won, NEW led, NEW held, LogInv(won, led, held),
         NEW s \in Server, StartElection(s)
  PROVE  LogStepOK(won, led, held)
<1>1. /\ log' = log /\ starting' = starting /\ appendCalls' = appendCalls
      /\ state' = [state EXCEPT ![s] = Candidate]
      /\ currentTerm' = [currentTerm EXCEPT ![s] = currentTerm[s] + 1]
      /\ voteCalls' = voteCalls \cup
           {VoteRequest(s, d, currentTerm[s] + 1, currentTerm[s] + 1) : d \in Peers(s)}
  BY Zenon DEF StartElection, LogGapsClosed, ElectionGapsClosed, appendVars
<1>2. \A x \in Server : state'[x] = Leader =>
        state[x] = Leader /\ currentTerm'[x] = currentTerm[x]
  BY Zenon, <1>1 DEF IndexInv, ProtocolTypeOK, Candidate, Leader
<1>3. ASSUME NEW c \in voteCalls' PROVE c \in voteCalls \/ VoteKept(c, held)'
  BY <1>1 DEF VoteRequest, LastTerm, IndexInv, ProtocolTypeOK, VoteKept, Granted
<1>4. QED
  BY <1>1, <1>2, <1>3, QuietLogsStep

(* A log that is at least as up to date has what the voter's log has: the  *)
(* comparison of RequestVote finds the last term and then the length.      *)
LEMMA UpToDateHas ==
  ASSUME NEW won, NEW led, NEW held, LogInv(won, led, held),
         NEW l \in Seq(Entry), NEW k \in Seq(Entry),
         OnLine(l, won, led), OnLine(k, won, led),
         NEW m \in Nat, m <= Len(k), AtLeastUpToDate(TermAt(k, m), m, l),
         NEW t \in won, NEW i \in Nat, Has(led[t], t, i), Has(l, t, i)
  PROVE  Lost(t, i, held) \/ Has(k, t, i)
<1>1. won \subseteq Nat /\ led \in [Nat -> Seq(Entry)]
  BY Zenon DEF LogInv, HistoryType
<1>2. i \in 1..Len(l) /\ l[i].term = t /\ Len(l) \in 1..Len(l) /\ i <= Len(l)
  BY DEF Has
<1>3. PICK w \in won : w = l[Len(l)].term /\ AgreeTo(l, led[w], Len(l))
  BY Zenon, <1>2 DEF OnLine
<1>4. t \in Nat /\ w \in Nat /\ led[w] \in Seq(Entry)
  BY Zenon, <1>1
<1>5. t <= w
  BY Zenon, <1>1, <1>2, <1>3, OnLineSorted DEF LogInv, LeaderLogs, Sorted
<1>6. w = LastTerm(l)
  BY <1>2, <1>3 DEF LastTerm, TermAt
<1>7. m \in 1..Len(k)
  BY <1>2, <1>4, <1>6 DEF TermAt, AtLeastUpToDate
<1>8. PICK v \in won : v = k[m].term /\ AgreeTo(k, led[v], m)
  BY Zenon, <1>7 DEF OnLine
<1>9. v = TermAt(k, m)
  BY <1>7, <1>8 DEF TermAt
<1>10. v \in Nat /\ led[v] \in Seq(Entry)
  BY Zenon, <1>1
<1>11. CASE w = v /\ Len(l) <= m
  <2>1. AgreeTo(k, led[w], m) /\ i <= m
    BY <1>2, <1>8, <1>11
  <2>2. AgreeTo(k, led[w], i)
    BY Zenon, <1>4, <2>1, AgreeDown
  <2>3. AgreeTo(l, led[w], i)
    BY <1>2, <1>3, <1>4, AgreeDown
  <2>4. AgreeTo(l, k, i)
    BY Zenon, <2>2, <2>3, AgreeSym, AgreeTrans
  <2>5. QED
    BY <2>4, AgreeHas
<1>12. CASE w < v
  <2>1. t < v
    BY <1>4, <1>5, <1>12
  <2>2. Lost(t, i, held) \/ Has(led[v], t, i)
    BY Zenon, <2>1 DEF LogInv, LeadersComplete
  <2>3. ASSUME Has(led[v], t, i) PROVE Has(k, t, i)
    <3>1. i <= m
      <4>1. SUFFICES ASSUME m < i PROVE FALSE
        OBVIOUS
      <4>2. led[v][m] = k[m] /\ m <= Len(led[v])
        BY <1>7, <1>8 DEF AgreeTo
      <4>3. i \in 1..Len(led[v]) /\ m \in 1..Len(led[v]) /\ led[v][i].term = t
        BY <1>7, <2>3, <4>2 DEF Has
      <4>4. Sorted(led[v]) /\ m <= i
        BY <4>1 DEF LogInv, LeaderLogs
      <4>5. led[v][m].term <= led[v][i].term
        BY Zenon, <4>3, <4>4 DEF Sorted
      <4>6. v <= t
        BY Zenon, <1>8, <4>2, <4>3, <4>5
      <4>7. QED
        BY <1>4, <2>1, <4>6
    <3>2. AgreeTo(led[v], k, m)
      BY Zenon, <1>8, AgreeSym
    <3>3. QED
      BY Zenon, <1>10, <2>3, <3>1, <3>2, AgreeHas
  <2>4. QED
    BY Zenon, <2>2, <2>3
<1>13. QED
  BY <1>6, <1>9, <1>11, <1>12 DEF AtLeastUpToDate

(* The RequestVote handler grants only to a log that has what it holds.    *)
LEMMA HandleRequestVoteLogs ==
  ASSUME IndexInv, StepOK, ElectionInv, ElectionStepOK,
         NEW won, NEW led, NEW held, LogInv(won, led, held),
         NEW c \in voteCalls, HandleRequestVote(c)
  PROVE  LogStepOK(won, led, held)
<1>1. PICK newer, grant, r :
        /\ newer \in BOOLEAN /\ grant \in BOOLEAN
        /\ newer <=> currentTerm[c.dst] < c.term
        /\ grant => AtLeastUpToDate(c.lastLogTerm, c.lastLogIndex, log[c.dst])
        /\ grant => currentTerm[c.dst] <= c.term
        /\ r = VoteAnswer(c, currentTerm'[c.dst], grant)
        /\ currentTerm' = IF newer THEN [currentTerm EXCEPT ![c.dst] = c.term]
                                   ELSE currentTerm
        /\ state' = [state EXCEPT ![c.dst] = IF newer \/ grant THEN Follower ELSE @]
        /\ voteCalls' \subseteq voteCalls \cup {r}
        /\ c.stage = "orphan" => voteCalls' \subseteq voteCalls
        /\ c.stage \in {"request", "orphan"}
  <2> DEFINE newer == currentTerm[c.dst] < c.term
             vote  == IF newer THEN None ELSE voteFor[c.dst]
             grant == GrantsVote(c.dst, vote, c)
             r     == VoteAnswer(c, currentTerm'[c.dst], grant)
  <2>1. /\ grant => AtLeastUpToDate(c.lastLogTerm, c.lastLogIndex, log[c.dst])
        /\ grant => currentTerm[c.dst] <= c.term
        /\ newer \in BOOLEAN /\ grant \in BOOLEAN
    BY DEF GrantsVote
  <2>2. /\ currentTerm' = IF newer THEN [currentTerm EXCEPT ![c.dst] = c.term]
                                   ELSE currentTerm
        /\ state' = [state EXCEPT ![c.dst] = IF newer \/ grant THEN Follower ELSE @]
        /\ voteCalls' = (voteCalls \ {c}) \cup IF c.stage = "orphan" THEN {} ELSE {r}
        /\ c.stage \in {"request", "orphan"}
    BY Zenon DEF HandleRequestVote
  <2> HIDE DEF grant, r
  <2>3. /\ voteCalls' \subseteq voteCalls \cup {r}
        /\ c.stage = "orphan" => voteCalls' \subseteq voteCalls
    BY Zenon, <2>2
  <2>4. QED
    BY Zenon, <2>1, <2>2, <2>3 DEF r
<1>2. log' = log /\ starting' = starting /\ appendCalls' = appendCalls
  BY Zenon DEF HandleRequestVote, appendVars
<1>3. /\ c \in VoteCall /\ c.src \in Server /\ c.dst \in Server /\ c.term \in Nat
      /\ c.lastLogIndex \in Nat /\ currentTerm[c.dst] \in Nat /\ c.src # c.dst
  BY Zenon DEF IndexInv, ProtocolTypeOK, VoteCall, Term, ElectionInv, VoteCallOK
<1>4. \A x \in Server : state'[x] = Leader =>
        state[x] = Leader /\ currentTerm'[x] = currentTerm[x]
  BY Zenon, <1>1, <1>3 DEF IndexInv, ProtocolTypeOK, Follower, Leader
<1>5. /\ r.src = c.src /\ r.dst = c.dst /\ r.term = c.term /\ r.stage = "reply"
      /\ r.granted = grant
  BY Zenon, <1>1, <1>3 DEF VoteAnswer, VoteCall
<1>6. ASSUME c.stage = "request" PROVE VoteKept(r, held)'
  <2>1. SUFFICES ASSUME grant, Standing(r)', NEW t \in Nat, NEW i \in Nat, t < c.term,
                        <<c.dst, t, i>> \in held
                 PROVE  Lost(t, i, held)' \/ Has(log'[c.src], t, i)
    BY Zenon, <1>5 DEF VoteKept, Granted
  <2>2. Standing(c)
    BY Zenon, <1>1, <1>3, <1>5, <2>1 DEF Standing, IndexInv, ProtocolTypeOK
  <2>3. /\ c.lastLogIndex <= Len(log[c.src])
        /\ c.lastLogTerm = TermAt(log[c.src], c.lastLogIndex)
    BY Zenon, <1>6, <2>2 DEF LogInv, VoteKept
  <2>4. /\ t \in won /\ Has(led[t], t, i)
        /\ Lost(t, i, held) \/ Has(log[c.dst], t, i)
    BY Zenon, <1>3, <2>1 DEF LogInv, HeldKept
  <2>5. /\ OnLine(log[c.src], won, led) /\ OnLine(log[c.dst], won, led)
        /\ log[c.src] \in Seq(Entry) /\ log[c.dst] \in Seq(Entry)
    BY Zenon, <1>3 DEF LogInv, PeerLogs, IndexInv, ProtocolTypeOK
  <2>6. AtLeastUpToDate(TermAt(log[c.src], c.lastLogIndex), c.lastLogIndex, log[c.dst])
    BY Zenon, <1>1, <2>1, <2>3
  <2>7. Lost(t, i, held) \/ Has(log[c.src], t, i)
    BY <1>3, <2>3, <2>4, <2>5, <2>6, UpToDateHas
  <2>8. HeldGrows(held, held)
    BY Zenon DEF HeldGrows, LogInv, HistoryType
  <2>9. QED
    BY Zenon, <1>2, <2>7, <2>8, LostStays
<1>7. ASSUME NEW b \in voteCalls' PROVE b \in voteCalls \/ VoteKept(b, held)'
  BY Zenon, <1>1, <1>6, <1>7
<1>8. QED
  BY Zenon, <1>2, <1>4, <1>7, QuietLogsStep

(* Counting a vote, the one that wins included.                            *)
LEMMA CountVoteLogs ==
  ASSUME IndexInv, StepOK, ElectionInv, ElectionStepOK,
         NEW won, NEW led, NEW held, LogInv(won, led, held),
         NEW c \in voteCalls, c.stage = "reply", c.granted, CountVote(c),
         UNCHANGED <<appendCalls, starting>>
  PROVE  LogStepOK(won, led, held)
<1>1. PICK x : /\ x = [c EXCEPT !.stage = "counted"]
               /\ voteCalls' \subseteq voteCalls \cup {x}
               /\ UNCHANGED <<currentTerm, log>>
  BY Zenon DEF CountVote
<1> DEFINE win == state[c.src] = Candidate /\ NVotes(c) >= Majority
<1>2. c \in VoteCall /\ c.src \in Server
  BY Zenon DEF IndexInv, ProtocolTypeOK, VoteCall
<1>3. /\ x.src = c.src /\ x.dst = c.dst /\ x.term = c.term /\ x.stage = "counted"
      /\ x.granted = c.granted
  BY Zenon, <1>1, <1>2 DEF VoteCall
<1>4. VoteKept(x, held)'
  <2>1. LogsGrow
    BY <1>1 DEF IndexInv, ProtocolTypeOK, AgreeTo, LogsGrow
  <2>2. HeldGrows(held, held)
    BY Zenon DEF HeldGrows, LogInv, HistoryType
  <2>3. VoteKept(c, held)'
    BY Zenon, <2>1, <2>2, VoteKeptStays DEF LogInv
  <2>4. QED
    BY Zenon, <1>3, <2>3 DEF VoteKept, Granted, Standing
<1>5. \A b \in voteCalls' : b \in voteCalls \/ VoteKept(b, held)'
  BY Zenon, <1>1, <1>4
<1>6. CASE win
  BY Zenon, <1>2, <1>5, <1>6, WinLogs DEF CountVote, LogStepOK
<1>7. CASE ~win
  BY Zenon, <1>5, <1>7, QuietLogsStep DEF CountVote, IndexInv, ProtocolTypeOK
<1>8. QED
  BY <1>6, <1>7

(* Handling a RequestVote reply.                                           *)
LEMMA ReceiveVoteReplyLogs ==
  ASSUME LogGapsClosed, IndexInv, StepOK, ElectionInv, ElectionStepOK,
         NEW won, NEW led, NEW held, LogInv(won, led, held),
         NEW c \in voteCalls, ReceiveVoteReply(c)
  PROVE  LogStepOK(won, led, held)
<1>1. c.stage = "reply" /\ UNCHANGED <<appendCalls, starting>>
  BY Zenon DEF ReceiveVoteReply, ActOnVoteReply, appendVars
<1>2. CASE c.granted /\ CountVote(c)
  BY Zenon, <1>1, <1>2, CountVoteLogs
<1>3. CASE ~(c.granted /\ CountVote(c))
  BY Zenon, <1>1, <1>3, QuietLogsStep DEF ReceiveVoteReply, ActOnVoteReply,
         LogGapsClosed, ElectionGapsClosed, StepDown, IndexInv, ProtocolTypeOK,
         Follower, Leader
<1>4. QED
  BY <1>2, <1>3

(* A crash leaves the logs as they are: the Persister has them.            *)
LEMMA RestartLogs ==
  ASSUME IndexInv, StepOK, ElectionInv, ElectionStepOK,
         NEW won, NEW led, NEW held, LogInv(won, led, held),
         NEW s \in Server, NEW image, NEW lost, image.log = persisted[s].log,
         Restart(s, image, lost)
  PROVE  LogStepOK(won, led, held)
<1>1. log' = log
  BY DEF Restart, IndexInv, ProtocolTypeOK, PersistedIsCurrent
<1>2. starting' \subseteq starting
  BY Zenon DEF Restart
<1>3. \A x \in Server : state'[x] = Leader =>
        state[x] = Leader /\ currentTerm'[x] = currentTerm[x]
  BY Zenon DEF Restart, IndexInv, ProtocolTypeOK, Follower, Leader
<1>4. ASSUME NEW c \in voteCalls' PROVE c \in voteCalls \/ VoteKept(c, held)'
  <2>1. SUFFICES ASSUME NEW v \in voteCalls, c = [v EXCEPT !.stage = "orphan"]
                 PROVE  VoteKept(c, held)'
    BY Zenon DEF Restart
  <2>2. c.stage = "orphan"
    BY Zenon, <2>1 DEF IndexInv, ProtocolTypeOK, VoteCall
  <2>3. QED
    BY Zenon, <2>2 DEF VoteKept, Granted
<1>5. ASSUME NEW c \in appendCalls' PROVE c \in appendCalls \/ RequestOK(c, won, led)
  <2>1. SUFFICES ASSUME NEW a \in appendCalls, a.stage = "request",
                        c = [a EXCEPT !.stage = "orphan"]
                 PROVE  RequestOK(c, won, led)
    BY Zenon DEF Restart
  <2>2. /\ c.term = a.term /\ c.prevLogIndex = a.prevLogIndex
        /\ c.prevLogTerm = a.prevLogTerm /\ c.entries = a.entries
    BY Zenon, <2>1 DEF IndexInv, ProtocolTypeOK, AppendCall
  <2>3. RequestOK(a, won, led) /\ Sending(a)
    BY Zenon, <2>1 DEF LogInv, Sending
  <2>4. QED
    BY Zenon, <2>2, <2>3 DEF RequestOK
<1>6. QED
  BY <1>1, <1>2, <1>3, <1>4, <1>5, QuietLogsStep
-----------------------------------------------------------------------------
(* A broadcast sends slices of the leader's log.                           *)
LEMMA BroadcastSlices ==
  ASSUME IndexInv, NEW s \in Server, state[s] = Leader, NEW l \in Seq(Entry),
         NEW index \in Nat, index <= Len(l), Len(log[s]) <= Len(l),
         Broadcast(s, l, index), NEW c \in appendCalls', c \notin appendCalls, Sending(c)
  PROVE  /\ c.term = currentTerm[s]
         /\ SliceOf(c.prevLogIndex, c.prevLogTerm, c.entries, l)
<1> DEFINE k    == Len(casts) + 1
           cast == [index |-> index, term |-> currentTerm[s],
                    commit |-> commitIndex[s], nReplica |-> 1, isAgree |-> FALSE]
<1>1. cast \in Cast
  BY Zenon DEF Cast, IndexInv, ProtocolTypeOK
<1>2. cast.index = index /\ cast.term = currentTerm[s]
  BY Zenon
<1>3. appendCalls' = appendCalls \cup
        IF "send" \in Preempt THEN {ReadyCall(s, d, k) : d \in Peers(s)}
        ELSE {AppendRequest(s, d, k, cast, l, nextIndex[s][d]) : d \in Peers(s)}
  BY Zenon DEF Broadcast
<1> HIDE DEF k, cast
<1>4. ASSUME NEW d \in Peers(s) PROVE c # ReadyCall(s, d, k)
  BY DEF ReadyCall, Sending
<1>5. PICK d \in Peers(s) : c = AppendRequest(s, d, k, cast, l, nextIndex[s][d])
  BY Zenon, <1>3, <1>4
<1>6. nextIndex[s][d] \in 1..(Len(l) + 1)
  <2>1. d \in Server /\ nextIndex[s][d] \in 1..(Len(log[s]) + 1)
    BY Zenon DEF Peers, IndexInv, IndexInRange, LeaderIndexes
  <2>2. QED
    BY <2>1
<1>7. QED
  BY <1>1, <1>2, <1>5, <1>6, SentSlice

(* Start appends to the leader's log and sends it.                         *)
LEMMA AppendCommandLogs ==
  ASSUME IndexInv, StepOK, ElectionInv, ElectionStepOK, ElectionSafety,
         NEW won, NEW led, NEW held, LogInv(won, led, held),
         NEW s \in Server, NEW cmd \in Command, state[s] = Leader,
         AppendCommand(s, cmd), UNCHANGED starting
  PROVE  LogStepOK(won, led, held)
<1>1. PICK e, n : e = [term |-> currentTerm[s], cmd |-> cmd] /\ n = Len(log[s]) + 1
  BY Zenon
<1>2. e \in Entry /\ e.term = currentTerm[s] /\ log[s] \in Seq(Entry)
  BY Zenon, <1>1 DEF Entry, IndexInv, ProtocolTypeOK
<1>3. /\ log' = [log EXCEPT ![s] = Append(log[s], e)]
      /\ Broadcast(s, log'[s], n)
      /\ UNCHANGED <<currentTerm, state, voteCalls>>
  BY Zenon, <1>1 DEF AppendCommand
<1>4. log'[s] = Append(log[s], e)
  BY Zenon, <1>3 DEF IndexInv, ProtocolTypeOK
<1>5. log'[s] \in Seq(Entry) /\ n <= Len(log'[s]) /\ Len(log[s]) <= Len(log'[s]) /\ n \in Nat
  BY <1>1, <1>2, <1>4
<1>6. ASSUME NEW c \in appendCalls', c \notin appendCalls, Sending(c)
      PROVE  /\ c.term = currentTerm[s]
             /\ SliceOf(c.prevLogIndex, c.prevLogTerm, c.entries, log'[s])
  BY Zenon, <1>3, <1>5, <1>6, BroadcastSlices
<1>7. PICK led2, held2 : /\ LogInv(won, led2, held2)'
                         /\ Grows(won, led, held, won, led2, held2)
  BY Zenon, <1>2, <1>3, <1>6, StartLogs
<1>8. QED
  BY <1>7 DEF LogStepOK

(* A heartbeat sends slices of the leader's log.                           *)
LEMMA BroadcastHeartbeatLogs ==
  ASSUME IndexInv, StepOK, ElectionInv, ElectionStepOK,
         NEW won, NEW led, NEW held, LogInv(won, led, held),
         NEW s \in Server, BroadcastHeartbeat(s)
  PROVE  LogStepOK(won, led, held)
<1>1. /\ state[s] = Leader /\ Broadcast(s, log[s], Len(log[s]))
      /\ UNCHANGED <<currentTerm, log, state, voteCalls, starting>>
  BY Zenon DEF BroadcastHeartbeat
<1>2. log[s] \in Seq(Entry)
  BY Zenon DEF IndexInv, ProtocolTypeOK
<1>3. currentTerm[s] \in won /\ log[s] = led[currentTerm[s]]
  BY Zenon, <1>1 DEF LogInv, PeerLogs
<1>4. ASSUME NEW c \in appendCalls', c \notin appendCalls PROVE RequestOK(c, won, led)
  BY <1>1, <1>2, <1>3, <1>4, BroadcastSlices DEF RequestOK
<1>5. QED
  BY <1>1, <1>4, QuietLogsStep

(* From the retry label a leader sends a slice of its log.                 *)
LEMMA SendAppendLogs ==
  ASSUME IndexInv, StepOK, ElectionInv, ElectionStepOK,
         NEW won, NEW led, NEW held, LogInv(won, led, held),
         NEW c \in appendCalls, SendAppend(c)
  PROVE  LogStepOK(won, led, held)
<1> DEFINE s    == c.src
           cast == casts[c.cid]
<1>1. /\ UNCHANGED <<currentTerm, log, state, voteCalls, starting>> /\ c.stage = "ready"
      /\ \A x \in appendCalls' : x \in appendCalls \/
           /\ state[s] = Leader /\ currentTerm[s] = cast.term
           /\ x = AppendRequest(s, c.dst, c.cid, cast, log[s], nextIndex[s][c.dst])
  BY Zenon DEF SendAppend
<1>2. /\ s \in Server /\ c.dst \in Server /\ CallInRange(c) /\ casts \in Seq(Cast)
      /\ log[s] \in Seq(Entry)
  BY Zenon DEF IndexInv, ProtocolTypeOK, AppendCall, IndexInRange
<1>3. c.cid \in 1..Len(casts)
  BY Zenon, <1>1, <1>2 DEF CallInRange
<1>4. cast \in Cast
  BY <1>2, <1>3
<1>5. ASSUME NEW x \in appendCalls', x \notin appendCalls PROVE RequestOK(x, won, led)
  <2>1. /\ state[s] = Leader /\ currentTerm[s] = cast.term
        /\ x = AppendRequest(s, c.dst, c.cid, cast, log[s], nextIndex[s][c.dst])
    BY Zenon, <1>1, <1>5
  <2>2. cast.index <= Len(log[s])
    BY Zenon, <1>1, <1>2, <2>1 DEF CallInRange, Leader, Follower
  <2>3. nextIndex[s][c.dst] \in 1..(Len(log[s]) + 1)
    BY Zenon, <1>2, <2>1 DEF IndexInv, IndexInRange, LeaderIndexes
  <2> HIDE DEF s, cast
  <2>4. x.term = cast.term /\ SliceOf(x.prevLogIndex, x.prevLogTerm, x.entries, log[s])
    BY <1>2, <1>4, <2>1, <2>2, <2>3, SentSlice
  <2>5. currentTerm[s] \in won /\ log[s] = led[currentTerm[s]]
    BY Zenon, <1>2, <2>1 DEF LogInv, PeerLogs
  <2>6. QED
    BY Zenon, <2>1, <2>4, <2>5 DEF RequestOK
<1>6. QED
  BY <1>1, <1>5, QuietLogsStep

(* A rejected leader that leads still retries with a slice of its log.     *)
LEMMA ReceiveAppendReplyLogs ==
  ASSUME LogGapsClosed, IndexInv, StepOK, ElectionInv, ElectionStepOK,
         NEW won, NEW led, NEW held, LogInv(won, led, held),
         NEW c \in appendCalls, ReceiveAppendReply(c)
  PROVE  LogStepOK(won, led, held)
<1> DEFINE s     == c.src
           cast  == casts[c.cid]
           next  == GetNextIndex(log[s], c.conflictTerm, c.conflictFirst, c.prevLogIndex + 1)
           retry == AppendRequest(s, c.dst, c.cid, cast, log[s], next)
<1>1. /\ s \in Server /\ c.dst \in Server /\ CallInRange(c) /\ casts \in Seq(Cast)
      /\ log[s] \in Seq(Entry) /\ c.stage = "reply"
      /\ nextIndex \in [Server -> [Server -> Nat]]
  BY Zenon DEF IndexInv, ProtocolTypeOK, AppendCall, IndexInRange, ReceiveAppendReply
<1>2. voteCalls' = voteCalls /\ starting' = starting
  BY Zenon DEF ReceiveAppendReply, ActOnAppendReply
<1>3. CASE /\ currentTerm[s] = c.term
           /\ UNCHANGED <<currentTerm, log, state>>
           /\ nextIndex' = [nextIndex EXCEPT ![s][c.dst] = next]
           /\ appendCalls' = (appendCalls \ {c}) \cup
                IF "send" \in Preempt THEN {ReadyCall(s, c.dst, c.cid)}
                ELSE IF state[s] # Leader THEN {} ELSE {retry}
  <2>1. ASSUME NEW x \in appendCalls', x \notin appendCalls PROVE RequestOK(x, won, led)
    <3>1. x # ReadyCall(s, c.dst, c.cid) \/ ~Sending(x)
      BY DEF ReadyCall, Sending
    <3>2. SUFFICES ASSUME state[s] = Leader, x = retry PROVE RequestOK(x, won, led)
      BY Zenon, <1>3, <2>1, <3>1 DEF RequestOK
    <3>3. c.cid \in 1..Len(casts) /\ currentTerm[s] = cast.term /\ cast.index <= Len(log[s])
      BY Zenon, <1>1, <1>3, <3>2 DEF CallInRange, Leader, Follower
    <3>4. cast \in Cast
      BY <1>1, <3>3
    <3>5. next \in 1..(Len(log[s]) + 1)
      <4>1. nextIndex'[s][c.dst] \in 1..(Len(log'[s]) + 1)
        BY Zenon, <1>1, <1>3, <3>2 DEF StepOK, IndexInv, IndexInRange, LeaderIndexes
      <4> HIDE DEF next
      <4>2. nextIndex'[s][c.dst] = next
        BY Zenon, <1>1, <1>3
      <4>3. QED
        BY Zenon, <1>3, <4>1, <4>2
    <3> HIDE DEF next, cast, s
    <3>6. x.term = cast.term /\ SliceOf(x.prevLogIndex, x.prevLogTerm, x.entries, log[s])
      BY <1>1, <3>2, <3>3, <3>4, <3>5, SentSlice
    <3>7. currentTerm[s] \in won /\ log[s] = led[currentTerm[s]]
      BY Zenon, <1>1, <3>2 DEF LogInv, PeerLogs
    <3>8. QED
      BY Zenon, <3>3, <3>6, <3>7 DEF RequestOK
  <2>2. QED
    BY Zenon, <1>2, <1>3, <2>1, QuietLogsStep
<1>4. CASE /\ appendCalls' \subseteq appendCalls
           /\ StepDown(s, c.rterm) \/ UNCHANGED <<currentTerm, log, state>>
  BY Zenon, <1>2, <1>4, QuietLogsStep DEF StepDown, IndexInv, ProtocolTypeOK,
         Follower, Leader
<1>5. QED
  <2>1. CASE currentTerm[s] = c.term /\ ActOnRejection(c) /\ c.term >= c.rterm
    <3>1. c.term \in Nat /\ c.rterm \in Nat
      BY Zenon DEF IndexInv, ProtocolTypeOK, AppendCall, Term
    <3>2. ~(c.term < c.rterm)
      BY <2>1, <3>1
    <3>3. QED
      BY Zenon, <1>3, <2>1, <3>2 DEF ActOnRejection
  <2>2. CASE ActOnRejection(c) /\ ~(c.term >= c.rterm)
    BY Zenon, <1>4, <2>2 DEF ActOnRejection
  <2>3. CASE ActOnSuccess(c)
    BY Zenon, <1>4, <2>3 DEF ActOnSuccess
  <2>4. CASE currentTerm[s] # c.term
    BY Zenon, <1>4, <2>4 DEF ReceiveAppendReply
  <2>5. QED
    BY <2>1, <2>2, <2>3, <2>4 DEF ReceiveAppendReply, ActOnAppendReply, LogGapsClosed,
       ElectionGapsClosed

(* The AppendEntries handler.                                              *)
LEMMA HandleAppendEntriesLogs ==
  ASSUME IndexInv, StepOK, ElectionInv, ElectionStepOK,
         NEW won, NEW led, NEW held, LogInv(won, led, held),
         NEW c \in appendCalls, HandleAppendEntries(c)
  PROVE  LogStepOK(won, led, held)
<1> DEFINE d      == c.dst
           newer  == currentTerm[d] < c.term
           accept == /\ currentTerm[d] <= c.term
                     /\ Consistent(log[d], c.prevLogIndex, c.prevLogTerm)
<1>1. /\ c \in AppendCall /\ d \in Server /\ c.term \in Nat /\ currentTerm[d] \in Nat
      /\ currentTerm \in [Server -> Nat] /\ log \in [Server -> Seq(Entry)]
      /\ state \in [Server -> {Follower, Candidate, Leader}]
  BY Zenon DEF IndexInv, ProtocolTypeOK, AppendCall, Term
<1>2. AppendReply(c, d).stage = "reply"
  BY DEF AppendReply, AppendAnswer, AppendCall
<1>3. /\ Sending(c) /\ UNCHANGED <<voteCalls, starting>>
      /\ currentTerm' = IF newer THEN [currentTerm EXCEPT ![d] = c.term] ELSE currentTerm
      /\ state' = [state EXCEPT ![d] = IF newer \/ accept THEN Follower ELSE @]
      /\ log' = [log EXCEPT ![d] =
           IF accept THEN Replicated(log[d], c.prevLogIndex, c.entries) ELSE log[d]]
      /\ appendCalls' \subseteq appendCalls \cup {AppendReply(c, d)}
  BY Zenon DEF HandleAppendEntries, Sending
<1>4. \A x \in appendCalls' : x \in appendCalls \/ ~Sending(x)
  BY Zenon, <1>2, <1>3 DEF Sending
<1> HIDE DEF accept
<1>5. CASE accept
  <2>1. /\ currentTerm[d] <= c.term /\ Consistent(log[d], c.prevLogIndex, c.prevLogTerm)
        /\ state' = [state EXCEPT ![d] = Follower]
        /\ log' = [log EXCEPT ![d] = Replicated(log[d], c.prevLogIndex, c.entries)]
    BY Zenon, <1>3, <1>5 DEF accept
  <2>2. currentTerm' = [currentTerm EXCEPT ![d] = c.term]
    <3>1. newer \/ currentTerm[d] = c.term
      BY <1>1, <2>1
    <3> HIDE DEF newer
    <3>2. QED
      BY Zenon, <1>1, <1>3, <3>1
  <2>3. PICK held2 : /\ LogInv(won, led, held2)'
                     /\ Grows(won, led, held, won, led, held2)
    BY Zenon, <1>1, <1>3, <1>4, <2>1, <2>2, AcceptLogs
  <2>4. QED
    BY Zenon, <2>3 DEF LogStepOK
<1>6. CASE ~accept
  BY Zenon, <1>1, <1>3, <1>4, <1>6, QuietLogsStep DEF Follower, Leader, RequestOK
<1>7. QED
  BY <1>5, <1>6
-----------------------------------------------------------------------------
(* Every step keeps the invariant for a history that it extends.           *)
LEMMA LogStep ==
  ASSUME LogGapsClosed, IndexInv, StepOK, ElectionInv, ElectionStepOK, ElectionSafety,
         NEW won, NEW led, NEW held, LogInv(won, led, held), [Next]_vars
  PROVE  LogStepOK(won, led, held)
<1>1. CASE UNCHANGED vars
  BY Zenon, <1>1, QuietLogsStep DEF vars
<1>2. ASSUME NEW s \in Server,
             \/ StartElection(s) \/ BroadcastHeartbeat(s) \/ StartTest(s)
             \/ \E cmd \in Command : Start(s, cmd) \/ StartResume(s, cmd)
             \/ ApplyEntry(s) \/ Crash(s)
      PROVE  LogStepOK(won, led, held)
  BY Zenon, <1>2, QuietLogsStep, AppendCommandLogs, RestartLogs, StartElectionLogs,
     BroadcastHeartbeatLogs DEF ApplyEntry, appendVars, StartTest, LogGapsClosed,
         Start, StartResume, LogInv, Crash, HalfPersisted
<1>3. ASSUME NEW c \in voteCalls,
             \/ IssueVote(c) \/ HandleRequestVote(c) \/ ReceiveVoteReply(c)
             \/ ResumeVoteReply(c) \/ LoseVote(c)
      PROVE  LogStepOK(won, led, held)
  BY Zenon, <1>3, QuietLogsStep, HandleRequestVoteLogs, ReceiveVoteReplyLogs
     DEF ElectionInv, VoteCallOK, LoseVote, appendVars, IssueVote, ResumeVoteReply
<1>4. ASSUME NEW c \in appendCalls,
             \/ SendAppend(c) \/ HandleAppendEntries(c) \/ ReceiveAppendReply(c)
             \/ ResumeAppendReply(c) \/ LoseAppend(c)
      PROVE  LogStepOK(won, led, held)
  BY Zenon, <1>4, QuietLogsStep, SendAppendLogs, HandleAppendEntriesLogs,
     ReceiveAppendReplyLogs DEF ResumeAppendReply, IndexInv, LoseAppend
<1>5. QED
  BY <1>1, <1>2, <1>3, <1>4 DEF Next

(* At the start nothing has happened.                                      *)
LEMMA LogInvInit ==
  ASSUME Init
  PROVE  LogInv({}, [t \in Nat |-> <<>>], {})
<1> DEFINE led == [t \in Nat |-> <<>>]
<1>1. HistoryType({}, led, {})
  BY DEF HistoryType
<1>2. \A s \in Server : log[s] = <<>> /\ state[s] # Leader
  BY Zenon DEF Init, Follower, Leader
<1> HIDE DEF led
<1>3. PeerLogs({}, led)
  BY <1>2 DEF PeerLogs, OnLine, TermsTo
<1>4. HeldKept({}, led, {})
  BY <1>2 DEF HeldKept, Has
<1>5. QED
  BY <1>1, <1>3, <1>4 DEF LogInv, TermsWon, LeaderLogs, LeadersComplete, Init, led

(* Logs on the line match.                                                 *)
LEMMA LogsMatch ==
  ASSUME IndexInv, NEW won, NEW led, NEW held, LogInv(won, led, held)
  PROVE  LogMatching
<1>1. SUFFICES ASSUME NEW s \in Server, NEW t \in Server, NEW i \in 1..Len(log[s]),
                      i <= Len(log[t]), log[s][i].term = log[t][i].term
               PROVE  SubSeq(log[s], 1, i) = SubSeq(log[t], 1, i)
  BY Zenon DEF LogMatching
<1>2. log[s] \in Seq(Entry) /\ log[t] \in Seq(Entry)
  BY Zenon DEF IndexInv, ProtocolTypeOK
<1>3. Has(log[s], log[s][i].term, i) /\ Has(log[t], log[s][i].term, i)
  BY <1>1 DEF Has
<1>4. AgreeTo(log[s], log[t], i)
  BY Zenon, <1>3, SameTermAgrees DEF LogInv, PeerLogs
<1>5. QED
  BY <1>2, <1>4, AgreeSubSeq
=============================================================================
