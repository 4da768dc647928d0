----------------------------- MODULE RemoteCall -----------------------------
(***************************************************************************)
(* What the simulated network promises its callers: a call is executed at  *)
(* most once, at any time after it was made, even after its caller was     *)
(* told that it failed; a caller that is told it succeeded can rely on the *)
(* effect being in the callee's persistent state from then on.             *)
(***************************************************************************)
CONSTANT CallId

VARIABLES
  status,  \* what the caller knows of the call
  effect   \* what became of the call at the callee

Init == /\ status = [c \in CallId |-> "none"]
        /\ effect = [c \in CallId |-> "none"]

Make(c) ==
  /\ status[c] = "none"
  /\ status' = [status EXCEPT ![c] = "pending"]
  /\ UNCHANGED effect

(* The handler runs: on an instance whose state outlives a crash, or on    *)
(* one that the harness has already put aside.                             *)
Execute(c) ==
  /\ status[c] # "none" /\ effect[c] = "none"
  /\ \E e \in {"durable", "lost"} : effect' = [effect EXCEPT ![c] = e]
  /\ UNCHANGED status

Succeed(c) ==
  /\ status[c] = "pending" /\ effect[c] = "durable"
  /\ status' = [status EXCEPT ![c] = "succeeded"]
  /\ UNCHANGED effect

Fail(c) ==
  /\ status[c] = "pending"
  /\ status' = [status EXCEPT ![c] = "failed"]
  /\ UNCHANGED effect

Next == \E c \in CallId : Make(c) \/ Execute(c) \/ Succeed(c) \/ Fail(c)

Spec == Init /\ [][Next]_<<status, effect>>
=============================================================================
