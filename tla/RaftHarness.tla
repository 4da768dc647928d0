----------------------------- MODULE RaftHarness -----------------------------
(***************************************************************************)
(* The peers of Raft under src/raft/config.go, whose applyCh readers keep  *)
(* cfg.logs, a copy of what every peer has delivered.  A restarted peer    *)
(* delivers its log again from the first entry; cfg.logs is kept.          *)
(* Kill is empty, so the applyEntries goroutine of a crashed instance and  *)
(* its reader go on delivering what the instance holds as committed; here  *)
(* they end when the peer restarts.                                        *)
(***************************************************************************)
EXTENDS Raft

VARIABLE logs  \* cfg.logs; the indices of a peer are always 1 .. n

harnessVars == <<vars, logs>>

HarnessInit == Init /\ logs = [s \in Server |-> <<>>]

(* cfg.logs[i][m.CommandIndex] = v, for the last command of a.             *)
Recorded(l, a) ==
  IF Len(a) <= Len(l) THEN [l EXCEPT ![Len(a)] = a[Len(a)]]
                      ELSE Append(l, a[Len(a)])

(* The reader of s receives what applyEntries sends.                       *)
Record ==
  logs' = [s \in Server |->
             IF Len(applied'[s]) > Len(applied[s])
             THEN Recorded(logs[s], applied'[s]) ELSE logs[s]]

HarnessNext == Next /\ Record

HarnessSpec == HarnessInit /\ [][HarnessNext]_harnessVars

(* What some peer has delivered and no peer more.                          *)
Longest ==
  logs[CHOOSE s \in Server : \A t \in Server : Len(logs[t]) <= Len(logs[s])]

Service == INSTANCE ReplicatedLog WITH decided <- Longest

(* The peers implement one log: all deliver the same commands, in the      *)
(* order of the indices, and a peer that has crashed delivers what it had  *)
(* delivered before.  The reader's errors "commit index=%v server=%v ..."  *)
(* and "apply out of order" (config.go:175-191) never occur.               *)
ImplementsReplicatedLog == Service!Spec
=============================================================================
