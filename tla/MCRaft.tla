------------------------------- MODULE MCRaft -------------------------------
(***************************************************************************)
(* Instances of Raft for TLC.                                              *)
(*                                                                         *)
(* View identifies states that differ only in goroutines with nothing left *)
(* to do: as long as terms never go back, a reply whose term the caller    *)
(* has left will be dropped, a request that both ends have left changes    *)
(* nothing, and a vote counter or broadcast without running goroutines is  *)
(* never read again.  nextIndex is read on a leader only.                  *)
(***************************************************************************)
EXTENDS Raft, TLC

Symmetry == Permutations(Server) \cup Permutations(Command)

Ends(c) == IF c.stage = "request" THEN {c.src, c.dst}
           ELSE IF c.stage = "orphan" THEN {c.dst} ELSE {c.src}

Pending(c) == \E s \in Ends(c) : currentTerm[s] <= c.term

LiveVotes ==
  LET running == {c \in voteCalls : c.stage # "counted"}
      live == {c \in running : c.stage \in {"issue", "act"} \/ Pending(c)}
  IN  live \cup {v \in voteCalls : \E c \in live : c.src = v.src /\ c.elec = v.elec}

LiveAppends ==
  {c \in appendCalls :
     IF c.stage = "ready" THEN currentTerm[c.src] <= casts[c.cid].term
                          ELSE c.stage = "act" \/ Pending(c)}

View ==
  <<currentTerm, voteFor, log, state, applyVars, persisted, starting, bounds,
    LiveVotes, LiveAppends,
    [s \in Server |-> IF state[s] = Leader THEN nextIndex[s] ELSE <<>>],
    [k \in 1..Len(casts) |->
       IF \E c \in LiveAppends : c.cid = k THEN casts[k] ELSE <<>>]>>
=============================================================================
