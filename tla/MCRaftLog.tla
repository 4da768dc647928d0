------------------------------ MODULE MCRaftLog ------------------------------
(***************************************************************************)
(* The instance of RaftHarness that is about logs, in two kinds of         *)
(* behaviours.                                                             *)
(*                                                                         *)
(*  - cut = <<>>: all peers reach each other; two elections, two           *)
(*    broadcasts, and either two entries per log or a crash and restart.   *)
(*  - cut = <<p, q>>: the link between p and q is down and nobody crashes. *)
(*    Five elections, of the candidates Turns names and each after the     *)
(*    votes of the one before, make p and q leaders in turn with the third *)
(*    peer's vote: an entry of an old term may reach a majority, and a     *)
(*    leader without it may follow.                                        *)
(***************************************************************************)
EXTENDS RaftHarness, MCRaft

VARIABLE cut

LogVars == <<harnessVars, cut>>

LogInit ==
  /\ HarnessInit
  /\ cut \in {<<>>} \cup {<<p, q>> : p, q \in Server}
  /\ cut # <<>> => cut[1] # cut[2]

Turns == <<1, 2, 2, 1, 2>>

OverCut(c) == cut # <<>> /\ {c.src, c.dst} = {cut[1], cut[2]}

InTurn ==
  LET s == cut[Turns[elections']] IN
  /\ currentTerm'[s] # currentTerm[s]
  /\ \A c \in voteCalls : OverCut(c) \/ c.stage = "counted"

(* A crash that changes nothing is a step not worth taking.                *)
Loses ==
  <<state, commitIndex, persisted, voteCalls, appendCalls>> #
  <<state, commitIndex, persisted, voteCalls, appendCalls>>'

Within ==
  IF cut = <<>>
  THEN /\ elections' <= 2 /\ Len(casts') <= 2
       /\ crashes' = 0 \/ \A s \in Server : Len(log'[s]) <= 1
       /\ crashes' # crashes => Loses
  ELSE /\ crashes' = 0 /\ \A s \in Server : Len(log'[s]) <= 1
       /\ \A c \in voteCalls' \cup appendCalls' :
            OverCut(c) => c.stage = "request"
       /\ elections' # elections => InTurn

LogNext == HarnessNext /\ UNCHANGED cut /\ Within

LogSpec == LogInit /\ [][LogNext]_LogVars

(* Calls over the cut never arrive.                                        *)
LogView ==
  LET appends == {c \in LiveAppends : ~OverCut(c)} IN
  <<currentTerm, voteFor, log, state, applyVars, persisted, bounds, logs, cut,
    {c \in LiveVotes : ~OverCut(c)}, appends,
    [s \in Server |-> IF state[s] = Leader THEN nextIndex[s] ELSE <<>>],
    [k \in 1..Len(casts) |->
       IF \E c \in appends : c.cid = k THEN casts[k] ELSE <<>>]>>
=============================================================================
