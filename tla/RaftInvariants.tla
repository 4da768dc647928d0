--------------------------- MODULE RaftInvariants ---------------------------
(***************************************************************************)
(* The inductive invariants with which the theorems about Raft are proved. *)
(***************************************************************************)
EXTENDS RaftHarness

(* Types, durable state and index ranges.  With the gap after a reply's    *)
(* term test closed no append goroutine is ever found between the test and *)
(* its use.                                                                *)
IndexInv ==
  /\ ProtocolTypeOK
  /\ PersistedIsCurrent
  /\ IndexInRange
  /\ \A c \in appendCalls : c.stage # "act"

(* What backtracking needs of the searches of AppendEntries and            *)
(* getNextIndex: they find an index, and it is in range.                   *)
BacktrackDefined ==
  /\ \A l \in Seq(Entry), p \in Nat : p >= 1 => RunStart(l, p) \in 1..p
  /\ \A l \in Seq(Entry), cterm, cfirst, next \in Nat :
       1 <= cfirst /\ cfirst < next => GetNextIndex(l, cterm, cfirst, next) \in 1..next

(* What one step may do to a peer: its term grows, or it stays and then    *)
(* the vote is kept, and who is not a follower was none and kept its log.  *)
Advances(s) ==
  \/ currentTerm'[s] > currentTerm[s]
  \/ /\ currentTerm'[s] = currentTerm[s]
     /\ voteFor[s] # None => voteFor'[s] = voteFor[s]
     /\ state'[s] # Follower =>
          state[s] # Follower /\ Len(log'[s]) >= Len(log[s])

StepOK == IndexInv' /\ \A s \in Server : Advances(s)

(* The step changes the Raft state of peer s only.                         *)
OnlyPeer(s) ==
  \A t \in Server \ {s} : /\ currentTerm'[t] = currentTerm[t]
                          /\ voteFor'[t] = voteFor[t]
                          /\ state'[t] = state[t]
                          /\ log'[t] = log[t]
-----------------------------------------------------------------------------
(* Elections *)

(* The gaps closed: startElection acts on a reply, and sends its requests, *)
(* in the term it has just tested.                                         *)
ElectionGapsClosed == {"issue", "voteReply", "appendReply"} \cap Preempt = {}

Granted(c) == c.stage \in {"reply", "counted"} /\ c.granted

(* Peer s is past the term of call c, or in it with its vote given to d.   *)
VotedIn(s, c, d) ==
  \/ currentTerm[s] > c.term
  \/ currentTerm[s] = c.term /\ voteFor[s] = d

VoteCallOK(c) ==
  /\ c.src # c.dst
  /\ c.stage \notin {"issue", "act"}
  /\ c.elec = c.term
  /\ c.stage = "counted" => c.granted
  /\ VotedIn(c.src, c, c.src)
  /\ Granted(c) => VotedIn(c.dst, c, c.src)

(* One request per peer and election, one granted vote per peer and term.  *)
VotesUnique ==
  \A b, c \in voteCalls :
    b.dst = c.dst /\ b.term = c.term =>
      /\ b.src = c.src => b = c
      /\ Granted(b) /\ Granted(c) => b.src = c.src

(* A peer that stands in a term votes for nobody else in it.               *)
NoRival ==
  \A b, c \in voteCalls : b.src = c.dst /\ b.term = c.term => ~Granted(c)

Quorums == {Q \in SUBSET Server : Cardinality(Q) >= Majority}

(* What the proofs use of the sizes of sets of peers.                      *)
PeerSets ==
  /\ \A P, Q \in Quorums : P \cap Q # {}
  /\ \A Q \in Quorums : \A R \in SUBSET Server : Q \subseteq R => R \in Quorums
  /\ \A R \in SUBSET Server : \A s \in Server \ R :
       Cardinality(R \cup {s}) = Cardinality(R) + 1
  /\ \A s \in Server : Cardinality({s}) = 1

Ballots(s, t) ==
  {c.dst : c \in {v \in voteCalls : /\ v.src = s /\ v.elec = t
                                    /\ v.stage = "counted"}}

(* A counted vote stays, so a victory is never forgotten.                  *)
Won(s, t) == Ballots(s, t) # {} /\ {s} \cup Ballots(s, t) \in Quorums

Winners ==
  \A s \in Server :
    /\ state[s] # Follower => voteFor[s] = s
    /\ state[s] = Leader => Won(s, currentTerm[s])
    /\ state[s] = Candidate => ~Won(s, currentTerm[s])

ElectionInv ==
  /\ \A c \in voteCalls : VoteCallOK(c)
  /\ VotesUnique
  /\ NoRival
  /\ Winners

(* What a step does to elections: victories are kept, and who leads went   *)
(* on leading in its term or leads in a term that nobody had won.          *)
ElectionStepOK ==
  /\ ElectionInv'
  /\ \A p \in Server : \A t : Won(p, t) => Won(p, t)'
  /\ \A p \in Server : state'[p] = Leader =>
       \/ state[p] = Leader /\ currentTerm'[p] = currentTerm[p]
       \/ \A q \in Server : ~Won(q, currentTerm'[p])
-----------------------------------------------------------------------------
(* Logs.  The invariant speaks of what has happened:                       *)
(*   won   the terms in which somebody has led;                            *)
(*   led   the log of the leader of each of these terms, as it was when    *)
(*         the peer was last the leader;                                   *)
(*   held  <<s, t, i>> when peer s, being in term t, has had an entry of   *)
(*         term t at index i.                                              *)

LogGapsClosed == ElectionGapsClosed /\ "start" \notin Preempt

(* Entry i of log l is of term t.                                          *)
Has(l, t, i) == i \in 1..Len(l) /\ l[i].term = t

AgreeTo(k, l, n) ==
  n <= Len(k) /\ n <= Len(l) /\ \A i \in 1..n : k[i] = l[i]

(* Every entry of l, and all before it, are those of its term's leader.    *)
OnLine(l, won, led) ==
  \A i \in 1..Len(l) : l[i].term \in won /\ AgreeTo(l, led[l[i].term], i)

Sorted(l) == \A i, j \in 1..Len(l) : i <= j => l[i].term <= l[j].term

TermsTo(l, t) == \A i \in 1..Len(l) : l[i].term <= t

(* The entry of term t at index i is on a majority, or will never be.      *)
Chosen(t, i, held) == \E Q \in Quorums : \A q \in Q : <<q, t, i>> \in held

Lost(t, i, held) ==
  \E Q \in Quorums : \A q \in Q : currentTerm[q] > t /\ <<q, t, i>> \notin held

HistoryType(won, led, held) ==
  /\ won \in SUBSET Nat
  /\ led \in [Nat -> Seq(Entry)]
  /\ held \in SUBSET (Server \X Nat \X Nat)

(* A term that was led was won: a majority has entered it.                 *)
TermsWon(won) ==
  \A t \in won : /\ \E p \in Server : Won(p, t)
                 /\ \E Q \in Quorums : \A q \in Q : currentTerm[q] >= t

LeaderLogs(won, led) ==
  \A t \in won : OnLine(led[t], won, led) /\ Sorted(led[t]) /\ TermsTo(led[t], t)

PeerLogs(won, led) ==
  \A s \in Server :
    /\ OnLine(log[s], won, led)
    /\ TermsTo(log[s], currentTerm[s])
    /\ state[s] = Leader => currentTerm[s] \in won /\ log[s] = led[currentTerm[s]]

(* What was held was the leader's, and is still there unless it is lost.   *)
HeldKept(won, led, held) ==
  \A s \in Server : \A t, i \in Nat :
    /\ <<s, t, i>> \in held =>
         /\ t \in won /\ Has(led[t], t, i) /\ t <= currentTerm[s]
         /\ Lost(t, i, held) \/ Has(log[s], t, i)
    /\ t = currentTerm[s] /\ Has(log[s], t, i) => <<s, t, i>> \in held

(* Leaders have the entries of earlier leaders but the lost ones.          *)
LeadersComplete(won, led, held) ==
  \A t, u \in won : \A i \in Nat :
    t < u /\ Has(led[t], t, i) => Lost(t, i, held) \/ Has(led[u], t, i)

Standing(c) == currentTerm[c.src] = c.term /\ state[c.src] # Follower

(* What a voter of a candidate held, the candidate has or it is lost.      *)
VoteKept(c, held) ==
  /\ Granted(c) /\ Standing(c) =>
       \A t, i \in Nat : t < c.term /\ <<c.dst, t, i>> \in held =>
         Lost(t, i, held) \/ Has(log[c.src], t, i)
  /\ c.stage = "request" /\ Standing(c) =>
       /\ c.lastLogIndex <= Len(log[c.src])
       /\ c.lastLogTerm = TermAt(log[c.src], c.lastLogIndex)

Sending(c) == c.stage \in {"request", "orphan"}

(* prev, its term and entries are a slice of log l.                        *)
SliceOf(prev, term, entries, l) ==
  /\ prev + Len(entries) <= Len(l)
  /\ term = TermAt(l, prev)
  /\ \A i \in 1..Len(entries) : entries[i] = l[prev + i]

(* A request on its way is a slice of the log of its term's leader.        *)
RequestOK(c, won, led) ==
  Sending(c) => /\ c.term \in won
                /\ SliceOf(c.prevLogIndex, c.prevLogTerm, c.entries, led[c.term])

LogInv(won, led, held) ==
  /\ HistoryType(won, led, held)
  /\ TermsWon(won)
  /\ LeaderLogs(won, led)
  /\ PeerLogs(won, led)
  /\ HeldKept(won, led, held)
  /\ LeadersComplete(won, led, held)
  /\ \A c \in voteCalls : VoteKept(c, held)
  /\ \A c \in appendCalls : RequestOK(c, won, led)
  /\ starting = {}

(* What a step may add to held, and do to the log of who is no follower.   *)
HeldGrows(held, held2) ==
  /\ held \subseteq held2 /\ held2 \in SUBSET (Server \X Nat \X Nat)
  /\ \A q \in Server : \A u, j \in Nat :
       <<q, u, j>> \in held2 => <<q, u, j>> \in held \/ u = currentTerm'[q]

LogsGrow ==
  \A s \in Server : currentTerm'[s] = currentTerm[s] /\ state'[s] # Follower =>
    AgreeTo(log[s], log'[s], Len(log[s]))

(* The history only grows.                                                 *)
Grows(won, led, held, won2, led2, held2) ==
  /\ won \subseteq won2 /\ held \subseteq held2
  /\ \A t \in won : AgreeTo(led[t], led2[t], Len(led[t]))

HistoryStep(won, led, held, won2, led2, held2) ==
  /\ LogInv(won, led, held) /\ LogInv(won2, led2, held2)'
  /\ Grows(won, led, held, won2, led2, held2)

LogStepOK(won, led, held) ==
  \E won2, led2, held2 : /\ LogInv(won2, led2, held2)'
                         /\ Grows(won, led, held, won2, led2, held2)
-----------------------------------------------------------------------------
(* Commitment *)

(* Index n is committed by a leader of a term not after t.                 *)
Backed(n, t, held) ==
  n = 0 \/ \E u, m \in Nat : u <= t /\ n <= m /\ Chosen(u, m, held)

(* What peer s holds as committed is what a leader has committed.          *)
PeerCommit(s, led, held) ==
  LET n == commitIndex[s] IN
  /\ n <= Len(log[s])
  /\ n = 0 \/ \E u, m \in Nat : /\ u <= currentTerm[s] /\ n <= m
                                /\ Chosen(u, m, held)
                                /\ AgreeTo(log[s], led[u], n)

(* The peers counted by a broadcast hold its entry, if it is of the        *)
(* leader's term, and have no goroutine left that could be counted again.  *)
CastOK(k, won, led, held) ==
  LET b == casts[k] IN
  /\ b.term \in won
  /\ b.index <= Len(led[b.term])
  /\ b.commit <= b.index
  /\ Backed(b.commit, b.term, held)
  /\ \E R \in SUBSET Server :
       /\ Cardinality(R) = b.nReplica
       /\ \A r \in R : Has(led[b.term], b.term, b.index) => <<r, b.term, b.index>> \in held
       /\ \A c \in appendCalls : c.cid = k /\ c.stage # "orphan" => c.dst \notin R

ReplyOK(c, led, held) ==
  LET last == c.prevLogIndex + Len(c.entries)
      index == casts[c.cid].index
  IN
  /\ Sending(c) => c.leaderCommit <= last /\ Backed(c.leaderCommit, c.term, held)
  /\ c.stage = "request" => index <= last
  /\ c.stage = "reply" /\ c.success =>
       (Has(led[c.term], c.term, index) => <<c.dst, c.term, index>> \in held)

CallsUnique ==
  \A b, c \in appendCalls :
    /\ b.stage # "orphan" /\ c.stage # "orphan"
    /\ b.cid = c.cid /\ b.dst = c.dst
    => b = c

CommitInv(won, led, held) ==
  /\ \A s \in Server : PeerCommit(s, led, held)
  /\ \A k \in 1..Len(casts) : CastOK(k, won, led, held)
  /\ \A c \in appendCalls : ReplyOK(c, led, held)
  /\ CallsUnique

(* A peer applies what it holds as committed.                              *)
AppliedOK ==
  /\ applied \in [Server -> Seq(Command)]
  /\ \A s \in Server : Len(applied[s]) <= commitIndex[s]

(* The commands of l are those of the entries that a leader has committed. *)
Agreed(l, led, held) ==
  Len(l) = 0 \/ \E u, m \in Nat : /\ Len(l) <= m /\ Chosen(u, m, held)
                                  /\ \A i \in 1..Len(l) : l[i] = led[u][i].cmd

(* What the readers of applyCh keep is all that was delivered to them and  *)
(* is committed; somebody has been delivered the most.                     *)
MaxOf(f) == {s \in Server : \A t \in Server : Len(f[t]) <= Len(f[s])}

Delivered(led, held) ==
  /\ logs \in [Server -> Seq(Command)]
  /\ \A s \in Server : Len(applied[s]) <= Len(logs[s]) /\ Agreed(logs[s], led, held)
  /\ MaxOf(logs) # {}

(* Peer s delivers cmd, and its reader keeps one command more.             *)
DeliversNext(s, cmd, led, held) ==
  /\ logs' = [logs EXCEPT ![s] = Append(logs[s], cmd)]
  /\ Agreed(Append(logs[s], cmd), led, held)
  /\ Len(applied'[s]) = Len(logs[s]) + 1
  /\ \A t \in Server \ {s} : applied'[t] = applied[t]
-----------------------------------------------------------------------------
(* The invariant of the peers, and of the peers with their readers.        *)
RaftInv ==
  /\ IndexInv /\ ElectionInv /\ AppliedOK
  /\ \E won, led, held : LogInv(won, led, held) /\ CommitInv(won, led, held)

HarnessInv ==
  /\ IndexInv /\ ElectionInv /\ AppliedOK
  /\ \E won, led, held : /\ LogInv(won, led, held) /\ CommitInv(won, led, held)
                         /\ Delivered(led, held)
=============================================================================
