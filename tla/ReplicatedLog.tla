---------------------------- MODULE ReplicatedLog ----------------------------
(***************************************************************************)
(* What a service on top of Raft is promised, as src/raft/config.go tests  *)
(* it: one sequence of commands, decided entry by entry and never changed, *)
(* of which each peer has delivered a prefix.                              *)
(***************************************************************************)
EXTENDS Naturals, Sequences

CONSTANTS Server, Command

VARIABLES
  decided,  \* the commands decided so far
  logs      \* what each peer has delivered

vars == <<decided, logs>>

Init == decided = <<>> /\ logs = [s \in Server |-> <<>>]

(* The first peer to deliver an index decides it.                          *)
Decide(s, cmd) ==
  /\ logs[s] = decided
  /\ decided' = Append(decided, cmd)
  /\ logs' = [logs EXCEPT ![s] = decided']

(* Another peer delivers the next decided command.                         *)
Follow(s) ==
  /\ logs[s] # decided
  /\ logs' = [logs EXCEPT ![s] = SubSeq(decided, 1, Len(@) + 1)]
  /\ UNCHANGED decided

Next == \E s \in Server : Follow(s) \/ \E cmd \in Command : Decide(s, cmd)

Spec == Init /\ [][Next]_vars
=============================================================================
