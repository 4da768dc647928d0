------------------------------- MODULE LabRPC -------------------------------
(***************************************************************************)
(* The simulated network of src/labrpc/labrpc.go, and the part of the test *)
(* harness src/raft/config.go that crashes, restarts, connects and         *)
(* disconnects the peers on it.  A crashed instance of a peer cannot be    *)
(* stopped: it keeps calling, and handlers already running on it go on.    *)
(* What isolates it is the order in which crash1 and start1 disable its    *)
(* ends, delete its server and supersede its Persister.                    *)
(*                                                                         *)
(* Arguments and replies are left out: a call stands for an update that    *)
(* its handler makes and saves with persist().                             *)
(***************************************************************************)
EXTENDS Naturals, FiniteSets

CONSTANTS
  Peer,      \* servernames and indices into the slices of config
  MaxCall,   \* bound: calls in a behaviour
  MaxStart   \* bound: instances of a peer in a behaviour

ASSUME NetBounds == Peer # {} /\ MaxCall \in Nat /\ MaxStart \in Nat \ {0}

CallId == 1..MaxCall
Instance == 1..MaxStart

VARIABLES
  \* config.go
  inst,       \* the instance start1 made last; names its endnames
  connected,  \* cfg.connected
  disk,       \* the updates in cfg.saved[i]
  attached,   \* cfg.saved[i] is the Persister instance inst[i] writes to
  tester,     \* the function of config the test has called, and its step
  pending,    \* the ends connect or disconnect has yet to call Enable for
  \* labrpc.go
  net,        \* the Network: "up", "closed" by Cleanup, its goroutine "gone"
  reliable,   \* rn.reliable
  reordering, \* rn.longReordering
  enabled,    \* the ends <<i, k, j>>, of instance k of i towards j, enabled
  servers,    \* rn.servers: the instance that serves, 0 for nil
  calls       \* the calls: ProcessReq and the handler goroutine of each

config  == <<inst, connected, disk, attached, tester, pending>>
network == <<net, reliable, reordering, enabled, servers>>
vars    == <<config, network, calls>>

(* A call of instance k of src to dst.  proc is where Call and ProcessReq  *)
(* are, handler where the goroutine that runs the handler is; srv, lossy   *)
(* and slow are what ReadEndnameInfo returned; ok is the result.           *)
CallRecord ==
  [src : Peer, k : Instance, dst : Peer,
   proc : {"none", "calling", "sent", "open", "refused", "waiting",
           "received", "delayed", "returned"},
   handler : {"none", "running", "hung", "done", "over"},
   srv : 0..MaxStart, lossy : BOOLEAN, slow : BOOLEAN, ok : BOOLEAN]

Idle == [op |-> "idle", i |-> CHOOSE i \in Peer : TRUE, call |-> "none"]

TypeOK ==
  /\ inst \in [Peer -> Instance]
  /\ connected \in [Peer -> BOOLEAN]
  /\ disk \in [Peer -> SUBSET CallId]
  /\ attached \in [Peer -> BOOLEAN]
  /\ tester \in [op : {"idle", "enable", "delete", "copy", "make", "add"},
                 i : Peer,
                 call : {"none", "connect", "disconnect", "crash1", "start1"}]
  /\ pending \subseteq Peer \X Instance \X Peer
  /\ net \in {"up", "closed", "gone"}
  /\ reliable \in BOOLEAN /\ reordering \in BOOLEAN
  /\ enabled \subseteq Peer \X Instance \X Peer
  /\ servers \in [Peer -> 0..MaxStart]
  /\ calls \in [CallId -> CallRecord]

Unmade == [src |-> Idle.i, k |-> 1, dst |-> Idle.i, proc |-> "none",
           handler |-> "none", srv |-> 0, lossy |-> FALSE, slow |-> FALSE,
           ok |-> FALSE]

(* What make_config leaves: every peer started once and connected.         *)
Init ==
  /\ inst = [i \in Peer |-> 1]
  /\ connected = [i \in Peer |-> TRUE]
  /\ disk = [i \in Peer |-> {}]
  /\ attached = [i \in Peer |-> TRUE]
  /\ tester = Idle /\ pending = {}
  /\ net = "up"
  /\ reliable \in BOOLEAN /\ reordering = FALSE
  /\ enabled = {<<i, 1, j>> : i \in Peer, j \in Peer}
  /\ servers = [i \in Peer |-> 1]
  /\ calls = [c \in CallId |-> Unmade]
-----------------------------------------------------------------------------
(* config.go.  The test is one goroutine: it does one thing at a time.     *)

(* The ends connect(i) enables and disconnect(i) disables.                 *)
EndsOf(i) == {<<i, inst[i], j>> : j \in Peer} \cup {<<j, inst[j], i>> : j \in Peer}

(* connect sets connected[i] and then calls Enable end by end.  The tests  *)
(* connect a peer only after they have started it.                         *)
Connect(i) ==
  /\ tester.op = "idle" /\ servers[i] # 0
  /\ connected' = [connected EXCEPT ![i] = TRUE]
  /\ tester' = [op |-> "enable", i |-> i, call |-> "connect"]
  /\ pending' = {e \in EndsOf(i) : connected'[e[1]] /\ connected'[e[3]]}
  /\ UNCHANGED <<inst, disk, attached, network, calls>>

(* A mistake in disconnect: the incoming ends are left out.                *)
DetachOutgoing(i, call) ==
  /\ tester.op = "idle"
  /\ connected' = [connected EXCEPT ![i] = FALSE]
  /\ tester' = [op |-> "enable", i |-> i, call |-> call]
  /\ pending' = {<<i, inst[i], j>> : j \in Peer}
  /\ UNCHANGED <<inst, disk, attached, network, calls>>

(* disconnect likewise, called by the test or by crash1.                   *)
Detach(i, call) ==
  /\ tester.op = "idle"
  /\ connected' = [connected EXCEPT ![i] = FALSE]
  /\ tester' = [op |-> "enable", i |-> i, call |-> call]
  /\ pending' = EndsOf(i)
  /\ UNCHANGED <<inst, disk, attached, network, calls>>

Disconnect(i) == Detach(i, "disconnect")

(* crash1, called by the test or by start1: disconnect ...                 *)
Crash(i, call) == (call = "start1" => inst[i] < MaxStart) /\ Detach(i, call)

(* The step after connect or disconnect.                                   *)
Done(t) == IF t.call \in {"crash1", "start1"} THEN [t EXCEPT !.op = "delete"]
                                              ELSE Idle

(* One call of Enable: the outgoing ends come first.                       *)
Enable(e) ==
  /\ tester.op = "enable" /\ e \in pending
  /\ e[1] = tester.i \/ \A d \in pending : d[1] # tester.i
  /\ enabled' = IF tester.call = "connect" THEN enabled \cup {e}
                                           ELSE enabled \ {e}
  /\ pending' = pending \ {e}
  /\ tester' = IF pending = {e} THEN Done(tester) ELSE tester
  /\ UNCHANGED <<inst, connected, disk, attached, net, reliable, reordering,
                 servers, calls>>

(* ... DeleteServer ...                                                    *)
DeleteServer ==
  /\ tester.op = "delete"
  /\ servers' = [servers EXCEPT ![tester.i] = 0]
  /\ tester' = [tester EXCEPT !.op = "copy"]
  /\ UNCHANGED <<inst, connected, disk, attached, pending, net, reliable,
                 reordering, enabled, calls>>

(* ... Copy.  The copy is nobody's Persister, so that the later copies of  *)
(* crash1 and start1 have what it has.                                     *)
CopyPersister ==
  /\ tester.op = "copy"
  /\ attached' = [attached EXCEPT ![tester.i] = FALSE]
  /\ tester' = IF tester.call = "start1" THEN [tester EXCEPT !.op = "make"] ELSE Idle
  /\ UNCHANGED <<inst, connected, disk, pending, network, calls>>

(* A mistake in start1: the new instance gets MakePersister().             *)
MakeInstanceBlank ==
  /\ tester.op = "make"
  /\ inst' = [inst EXCEPT ![tester.i] = @ + 1]
  /\ attached' = [attached EXCEPT ![tester.i] = TRUE]
  /\ disk' = [disk EXCEPT ![tester.i] = {}]
  /\ tester' = [tester EXCEPT !.op = "add"]
  /\ UNCHANGED <<connected, pending, network, calls>>

(* start1: new ends, all disabled, and Make with a Persister that has the  *)
(* content of the old one.                                                 *)
MakeInstance ==
  /\ tester.op = "make"
  /\ inst' = [inst EXCEPT ![tester.i] = @ + 1]
  /\ attached' = [attached EXCEPT ![tester.i] = TRUE]
  /\ tester' = [tester EXCEPT !.op = "add"]
  /\ UNCHANGED <<connected, disk, pending, network, calls>>

AddServer ==
  /\ tester.op = "add"
  /\ servers' = [servers EXCEPT ![tester.i] = inst[tester.i]]
  /\ tester' = Idle
  /\ UNCHANGED <<inst, connected, disk, attached, pending, net, reliable,
                 reordering, enabled, calls>>

SetReliable ==
  /\ tester.op = "idle"
  /\ reliable' = ~reliable
  /\ UNCHANGED <<config, net, reordering, enabled, servers, calls>>

SetLongReordering ==
  /\ tester.op = "idle"
  /\ reordering' = ~reordering
  /\ UNCHANGED <<config, net, reliable, enabled, servers, calls>>

(* Cleanup at the end of a test; the goroutine of MakeNetwork then stops.  *)
Cleanup ==
  /\ \/ tester.op = "idle" /\ net = "up" /\ net' = "closed"
     \/ net = "closed" /\ net' = "gone"
  /\ UNCHANGED <<config, reliable, reordering, enabled, servers, calls>>

Test ==
  \/ /\ net = "up"
     /\ \/ \E i \in Peer : Connect(i) \/ Disconnect(i)
        \/ \E i \in Peer, call \in {"crash1", "start1"} : Crash(i, call)
        \/ \E e \in pending : Enable(e)
        \/ DeleteServer \/ CopyPersister \/ MakeInstance \/ AddServer
        \/ SetReliable \/ SetLongReordering
  \/ Cleanup
-----------------------------------------------------------------------------
(* labrpc.go.                                                              *)
Keep == UNCHANGED <<config, network>>
At(c, p) == calls[c].proc = p
Move(c, p) == calls' = [calls EXCEPT ![c].proc = p]
Return(c, ok) == calls' = [calls EXCEPT ![c].proc = "returned", ![c].ok = ok,
                                        ![c].lossy = FALSE, ![c].slow = FALSE]

(* An instance, old ones included, calls another peer.                     *)
Call(c, src, k, dst) ==
  /\ At(c, "none") /\ \A b \in 1..(c - 1) : ~At(b, "none")
  /\ src # dst /\ k <= inst[src]
  /\ calls' = [calls EXCEPT ![c] = [Unmade EXCEPT !.src = src, !.k = k,
                                      !.dst = dst, !.proc = "calling"]]
  /\ Keep

(* Call's select: the network's goroutine takes the request, or done is    *)
(* closed.                                                                 *)
Accept(c) == At(c, "calling") /\ net # "gone" /\ Move(c, "sent") /\ Keep
Refuse(c) == At(c, "calling") /\ net # "up" /\ Return(c, FALSE) /\ Keep

End(c) == <<calls[c].src, calls[c].k, calls[c].dst>>

(* A mistake in IsServerDead: it only asks whether some server is there.   *)
IsServerDeadNil(c) == End(c) \notin enabled \/ servers[calls[c].dst] = 0

IsServerDead(c) == End(c) \notin enabled \/ servers[calls[c].dst] # calls[c].srv

ReadEndnameInfo(c) ==
  /\ At(c, "sent")
  /\ IF End(c) \in enabled /\ servers[calls[c].dst] # 0
     THEN calls' = [calls EXCEPT ![c].proc = "open",
                                 ![c].srv = servers[calls[c].dst],
                                 ![c].lossy = ~reliable,
                                 ![c].slow = reordering]
     ELSE Move(c, "refused")
  /\ Keep

(* Nobody there: false, after a delay.                                     *)
TimeOut(c) == At(c, "refused") /\ Return(c, FALSE) /\ Keep

DropRequest(c) == At(c, "open") /\ calls[c].lossy /\ Return(c, FALSE) /\ Keep

Dispatch(c) ==
  /\ At(c, "open")
  /\ calls' = [calls EXCEPT ![c].proc = "waiting", ![c].handler = "running"]
  /\ Keep

(* The handler makes its update and saves it, in the Persister of the      *)
(* instance it runs on; it returns and offers its reply on ech.            *)
Handle(c) ==
  LET d == calls[c].dst IN
  /\ calls[c].handler = "running"
  /\ calls' = [calls EXCEPT ![c].handler = "done"]
  /\ disk' = IF attached[d] /\ calls[c].srv = inst[d]
             THEN [disk EXCEPT ![d] = @ \cup {c}] ELSE disk
  /\ UNCHANGED <<inst, connected, attached, tester, pending, network>>

(* A handler that does not return: its peer is stuck on rf.mu.             *)
Hang(c) ==
  /\ calls[c].handler = "running"
  /\ calls' = [calls EXCEPT ![c].handler = "hung"]
  /\ Keep

Receive(c) ==
  /\ At(c, "waiting") /\ calls[c].handler = "done"
  /\ calls' = [calls EXCEPT ![c].proc = "received", ![c].handler = "over"]
  /\ Keep

(* Mistakes in ProcessReq: it waits only for the handler; the goroutine    *)
(* that would drain ech is not started.                                    *)
PollNever(c) == FALSE /\ UNCHANGED vars
DrainNever(c) == FALSE /\ UNCHANGED vars

(* Every 100ms: the server is gone, so report failure and leave a          *)
(* goroutine behind that drains ech.                                       *)
Poll(c) == At(c, "waiting") /\ IsServerDead(c) /\ Return(c, FALSE) /\ Keep
Drain(c) ==
  /\ At(c, "returned") /\ calls[c].handler = "done"
  /\ calls' = [calls EXCEPT ![c].handler = "over"]
  /\ Keep

(* A mistake in ProcessReq: a reply in hand is delivered unchecked.        *)
ReplyUnchecked(c) == At(c, "received") /\ Return(c, TRUE) /\ Keep

(* The reply is there.  It is dropped when the server was deleted          *)
(* meanwhile or the network loses it, and may be delivered late.           *)
Reply(c) ==
  /\ At(c, "received")
  /\ \/ (IsServerDead(c) \/ calls[c].lossy) /\ Return(c, FALSE)
     \/ ~IsServerDead(c) /\ calls[c].slow /\ Move(c, "delayed")
     \/ ~IsServerDead(c) /\ Return(c, TRUE)
  /\ Keep

DeliverLate(c) == At(c, "delayed") /\ Return(c, TRUE) /\ Keep

ProcessReq(c) ==
  \/ Accept(c) \/ Refuse(c) \/ ReadEndnameInfo(c) \/ TimeOut(c)
  \/ DropRequest(c) \/ Dispatch(c) \/ Receive(c) \/ Poll(c) \/ Reply(c)
  \/ DeliverLate(c)

Next ==
  \/ Test
  \/ \E c \in CallId :
       \/ \E src, dst \in Peer, k \in Instance : Call(c, src, k, dst)
       \/ ProcessReq(c) \/ Handle(c) \/ Hang(c) \/ Drain(c)

(* The goroutines of a call keep running; a handler returns or hangs.      *)
Fairness == \A c \in CallId : /\ WF_vars(ProcessReq(c))
                              /\ WF_vars(Handle(c) \/ Hang(c))
                              /\ WF_vars(Drain(c))

Spec == Init /\ [][Next]_vars /\ Fairness
-----------------------------------------------------------------------------
(* What RemoteCall sees of a call.                                         *)
Status(c) ==
  CASE At(c, "none") -> "none"
    [] At(c, "returned") -> IF calls[c].ok THEN "succeeded" ELSE "failed"
    [] OTHER -> "pending"

Effect(c) ==
  IF calls[c].handler \notin {"done", "over"} THEN "none"
  ELSE IF c \in disk[calls[c].dst] THEN "durable" ELSE "lost"

RPC == INSTANCE RemoteCall WITH status <- [c \in CallId |-> Status(c)],
                                effect <- [c \in CallId |-> Effect(c)]

(* The network and the harness implement RemoteCall.  In particular a      *)
(* positive reply means that the update is in the Persister that survives: *)
(* ProcessReq asks IsServerDead once more after the handler has returned,  *)
(* and crash1 calls DeleteServer before it copies the Persister.           *)
ImplementsRemoteCall == RPC!Spec

(* The ends between the newest instances of connected peers.              *)
Wired == {e \in Peer \X Instance \X Peer :
            connected[e[1]] /\ connected[e[3]] /\ e[2] = inst[e[1]]}

(* A crashed instance cannot be stopped, and neither it nor one that       *)
(* start1 has replaced ever reaches anybody: an end is enabled only while  *)
(* its instance serves, towards a peer that serves, also between two calls *)
(* of Enable and between the steps of crash1 and start1.  When connect or  *)
(* disconnect has come to its end the enabled ends are those of Wired.     *)
OldInstancesIsolated ==
  /\ \A e \in enabled : servers[e[1]] = e[2] /\ servers[e[3]] # 0
  /\ pending = {} => enabled = Wired

(* Call returns, unless its handler hangs on a server that is still there. *)
CallReturns ==
  \A c \in CallId :
    ~At(c, "none") ~> \/ At(c, "returned")
                      \/ calls[c].handler = "hung" /\ ~IsServerDead(c)

(* The goroutine that runs a handler ends once the handler has returned:   *)
(* somebody always takes its reply from ech.                               *)
HandlerEnds ==
  \A c \in CallId : calls[c].handler = "done" ~> calls[c].handler = "over"
=============================================================================
