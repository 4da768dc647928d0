--------------------------- MODULE RaftLogLemmas ----------------------------
(***************************************************************************)
(* Lemmas about logs: what it means that two logs agree up to an index,    *)
(* what a message carries of its sender's log, and what a log becomes when *)
(* it takes in the entries of a message.                                   *)
(***************************************************************************)
EXTENDS RaftInvariants, TLAPS

(* The indices of a sequence are numbers.                                  *)
LEMMA LogLen ==
  ASSUME NEW S, NEW l \in Seq(S)
  PROVE  Len(l) \in Nat /\ \A i \in 1..Len(l) : i \in Nat /\ i <= Len(l)
OBVIOUS

(* What a concatenation holds.                                             *)
LEMMA LogConcat ==
  ASSUME NEW k \in Seq(Entry), NEW l \in Seq(Entry)
  PROVE  /\ k \o l \in Seq(Entry) /\ Len(k \o l) = Len(k) + Len(l)
         /\ \A i \in 1..(Len(k) + Len(l)) :
              (k \o l)[i] = IF i <= Len(k) THEN k[i] ELSE l[i - Len(k)]
OBVIOUS

(* Agreement up to an index is symmetric.                                  *)
LEMMA AgreeSym ==
  ASSUME NEW k, NEW l, NEW n, AgreeTo(k, l, n)
  PROVE  AgreeTo(l, k, n)
BY DEF AgreeTo

(* Logs that agree up to an index reach it.                                *)
LEMMA AgreeLen ==
  ASSUME NEW k, NEW l, NEW n, AgreeTo(k, l, n)
  PROVE  n <= Len(k) /\ n <= Len(l)
BY DEF AgreeTo

(* Agreement up to an index is transitive.                                 *)
LEMMA AgreeTrans ==
  ASSUME NEW k, NEW l, NEW m, NEW n, AgreeTo(k, l, n), AgreeTo(l, m, n)
  PROVE  AgreeTo(k, m, n)
BY DEF AgreeTo

(* Logs that agree up to an index agree up to every smaller one.           *)
LEMMA AgreeDown ==
  ASSUME NEW k \in Seq(Entry), NEW l \in Seq(Entry), NEW n \in Nat, NEW j \in Nat,
         j <= n, AgreeTo(k, l, n)
  PROVE  AgreeTo(k, l, j)
BY DEF AgreeTo

(* What agrees at an index has the same term there.                        *)
LEMMA AgreeHas ==
  ASSUME NEW k \in Seq(Entry), NEW l \in Seq(Entry), NEW n \in Nat, NEW i \in Nat,
         NEW t, i <= n, AgreeTo(k, l, n), Has(k, t, i)
  PROVE  Has(l, t, i)
BY DEF AgreeTo, Has

(* Two logs on the line of leaders that have the same term at an index     *)
(* agree up to it.                                                         *)
LEMMA SameTermAgrees ==
  ASSUME NEW won, NEW led, NEW k, NEW l, OnLine(k, won, led), OnLine(l, won, led),
         NEW t, NEW i, Has(k, t, i), Has(l, t, i)
  PROVE  AgreeTo(k, l, i)
BY AgreeSym, AgreeTrans DEF OnLine, Has

(* What a goroutine sends from the retry label is a slice of the log.      *)
LEMMA SentIsSlice ==
  ASSUME NEW l \in Seq(Entry), NEW next \in 1..(Len(l) + 1), NEW index \in Nat,
         index <= Len(l), NEW entries, entries = SubSeq(l, next, index)
  PROVE  /\ SliceOf(next - 1, TermAt(l, next - 1), entries, l)
         /\ index <= next - 1 + Len(entries)
BY DEF SliceOf

(* The consistency check: log l agrees with the leader's log L up to prev. *)
LEMMA ConsistentAgrees ==
  ASSUME NEW won, NEW led, NEW l \in Seq(Entry), NEW L \in Seq(Entry),
         OnLine(l, won, led), OnLine(L, won, led), NEW prev \in Nat, NEW term,
         prev <= Len(L), term = TermAt(L, prev), Consistent(l, prev, term)
  PROVE  AgreeTo(l, L, prev)
BY SameTermAgrees DEF AgreeTo, Consistent, TermAt, Has

(* AppendEntries leaves a log that agrees with the leader's up to the end  *)
(* of the request, and wherever it agreed before.                          *)
LEMMA ReplicatedAgrees ==
  ASSUME NEW won, NEW led, NEW l \in Seq(Entry), NEW L \in Seq(Entry),
         OnLine(l, won, led), OnLine(L, won, led), NEW prev \in Nat, NEW term,
         NEW entries \in Seq(Entry), SliceOf(prev, term, entries, L),
         Consistent(l, prev, term)
  PROVE  /\ Replicated(l, prev, entries) \in Seq(Entry)
         /\ AgreeTo(Replicated(l, prev, entries), L, prev + Len(entries))
         /\ \/ Replicated(l, prev, entries) = l
            \/ AgreeTo(Replicated(l, prev, entries), L, Len(Replicated(l, prev, entries)))
         /\ \A i \in Nat : AgreeTo(l, L, i) => AgreeTo(Replicated(l, prev, entries), L, i)
<1>1. Len(l) \in Nat /\ Len(L) \in Nat /\ Len(entries) \in Nat
  OBVIOUS
<1>2. /\ prev + Len(entries) <= Len(L) /\ term = TermAt(L, prev)
      /\ \A i \in 1..Len(entries) : entries[i] = L[prev + i]
      /\ prev <= Len(l) /\ prev <= Len(L)
  BY DEF SliceOf, Consistent
<1>3. AgreeTo(l, L, prev)
  BY Zenon, <1>2, ConsistentAgrees
<1>4. CASE HasEntries(l, prev, entries)
  <2>1. Replicated(l, prev, entries) = l
    BY <1>4 DEF Replicated
  <2>2. CASE Len(entries) = 0
    BY <1>3, <2>1, <2>2
  <2>3. CASE Len(entries) # 0
    <3> DEFINE m == prev + Len(entries)
    <3>1. m <= Len(l) /\ l[m].term = L[m].term
      BY <1>1, <1>2, <1>4, <2>3 DEF HasEntries
    <3>2. Has(l, L[m].term, m) /\ Has(L, L[m].term, m)
      BY <1>2, <2>3, <3>1 DEF Has
    <3>3. AgreeTo(l, L, m)
      BY Zenon, <3>2, SameTermAgrees
    <3>4. QED
      BY <2>1, <3>3
  <2>4. QED
    BY Zenon, <2>2, <2>3
<1>5. CASE ~HasEntries(l, prev, entries)
  <2> DEFINE k == SubSeq(l, 1, prev) \o entries
             m == prev + Len(entries)
  <2>1. Replicated(l, prev, entries) = k
    BY Zenon, <1>5 DEF Replicated
  <2>2. /\ SubSeq(l, 1, prev) \in Seq(Entry) /\ Len(SubSeq(l, 1, prev)) = prev
        /\ \A i \in 1..prev : SubSeq(l, 1, prev)[i] = l[i]
    BY <1>2
  <2>3. /\ k \in Seq(Entry) /\ Len(k) = m
        /\ \A i \in 1..m : k[i] = IF i <= prev THEN l[i] ELSE entries[i - prev]
    <3> DEFINE h == SubSeq(l, 1, prev)
    <3> HIDE DEF h
    <3>1. h \in Seq(Entry) /\ Len(h) = prev /\ \A i \in 1..prev : h[i] = l[i]
      BY Zenon, <2>2 DEF h
    <3>2. /\ h \o entries \in Seq(Entry) /\ Len(h \o entries) = m
          /\ \A i \in 1..m : (h \o entries)[i] = IF i <= prev THEN h[i] ELSE entries[i - prev]
      BY Zenon, <3>1, LogConcat
    <3>3. QED
      BY <3>1 DEF h
  <2>4. AgreeTo(k, L, m)
    <3> HIDE DEF k
    <3>1. \A i \in 1..prev : l[i] = L[i]
      BY <1>3 DEF AgreeTo
    <3>2. ASSUME NEW i \in 1..m PROVE k[i] = L[i]
      <4>1. CASE i <= prev
        BY <2>3, <3>1, <4>1
      <4>2. CASE ~(i <= prev)
        <5>1. i - prev \in 1..Len(entries) /\ prev + (i - prev) = i
          BY <4>2
        <5>2. entries[i - prev] = L[i]
          BY Zenon, <1>2, <5>1
        <5>3. QED
          BY Zenon, <2>3, <4>2, <5>2
      <4>3. QED
        BY Zenon, <4>1, <4>2
    <3>3. QED
      BY <1>2, <2>3, <3>2 DEF AgreeTo
  <2>5. ASSUME NEW i \in Nat, AgreeTo(l, L, i) PROVE i <= m
    BY <1>1, <1>2, <1>5, <2>5 DEF AgreeTo, HasEntries
  <2>6. ASSUME NEW i \in Nat, AgreeTo(l, L, i) PROVE AgreeTo(k, L, i)
    <3>1. i <= m /\ m \in Nat
      BY <2>5, <2>6
    <3> HIDE DEF k, m
    <3>2. QED
      BY Zenon, <2>3, <2>4, <3>1, AgreeDown
  <2>7. QED
    <3> HIDE DEF k
    <3>1. QED
      BY Zenon, <2>1, <2>3, <2>4, <2>6
<1>6. QED
  BY <1>4, <1>5

(* No step takes a peer to an older term.                                  *)
LEMMA TermsMove ==
  ASSUME IndexInv, StepOK, NEW s \in Server
  PROVE  /\ currentTerm[s] \in Nat /\ currentTerm'[s] \in Nat
         /\ currentTerm[s] <= currentTerm'[s]
<1>1. currentTerm[s] \in Nat /\ currentTerm'[s] \in Nat
  BY Zenon DEF IndexInv, StepOK, ProtocolTypeOK, Term
<1>2. Advances(s)
  BY DEF StepOK
<1>3. QED
  BY <1>1, <1>2 DEF Advances

(* What a goroutine of a broadcast sends is a slice of the sender's log    *)
(* that reaches the broadcast's index.                                     *)
LEMMA SentSlice ==
  ASSUME NEW s, NEW d, NEW k, NEW cast \in Cast, NEW l \in Seq(Entry),
         NEW next \in 1..(Len(l) + 1), cast.index <= Len(l),
         NEW c, c = AppendRequest(s, d, k, cast, l, next)
  PROVE  /\ c.src = s /\ c.dst = d /\ c.cid = k /\ c.stage = "request"
         /\ c.term = cast.term /\ c.leaderCommit = cast.commit
         /\ SliceOf(c.prevLogIndex, c.prevLogTerm, c.entries, l)
         /\ cast.index <= c.prevLogIndex + Len(c.entries)
BY Zenon, SentIsSlice DEF AppendRequest, ReadyCall, Cast

(* Logs that agree have equal beginnings.                                  *)
LEMMA AgreeSubSeq ==
  ASSUME NEW k \in Seq(Entry), NEW l \in Seq(Entry), NEW n \in Nat, AgreeTo(k, l, n)
  PROVE  SubSeq(k, 1, n) = SubSeq(l, 1, n)
BY DEF AgreeTo
=============================================================================
