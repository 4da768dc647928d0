---------------------------- MODULE LabRPCProofs ----------------------------
(***************************************************************************)
(* The network and the harness keep their promises for any set of peers,   *)
(* any number of calls and any number of restarts.                         *)
(***************************************************************************)
EXTENDS LabRPC, TLAPS

(* The instance that serves is the newest one, and cfg.saved[i] is the     *)
(* Persister it writes to.                                                 *)
Serving ==
  \A i \in Peer : servers[i] # 0 => servers[i] = inst[i] /\ attached[i]

(* A connected peer serves.                                                *)
ServersUp == \A i \in Peer : connected[i] => servers[i] # 0

(* How far the function the test has called has come with peer tester.i.   *)
TesterOK ==
  LET i == tester.i IN
  /\ tester.op # "idle" =>
       IF tester.call = "connect" THEN tester.op = "enable" /\ connected[i]
                                  ELSE ~connected[i]
  /\ tester.op \in {"copy", "make", "add"} => servers[i] = 0
  /\ tester.op \in {"enable", "delete", "copy", "make"} /\ tester.call = "start1"
       => inst[i] < MaxStart
  /\ tester.op = "make" => tester.call = "start1"
  /\ tester.op = "add" => attached[i]

(* Every end has been switched but those that Enable is still to be called *)
(* for, which are ends of tester.i.                                        *)
EndsOK ==
  /\ tester.op = "enable" <=> pending # {}
  /\ pending \subseteq EndsOf(tester.i)
  /\ tester.call = "connect" => pending \subseteq Wired
  /\ enabled \ pending = Wired \ pending

(* An enabled end is of an instance that serves, towards a peer that does. *)
EndsServed == \A e \in enabled : servers[e[1]] = e[2] /\ servers[e[3]] # 0

(* A call: no handler before it was dispatched; the server it was          *)
(* dispatched to exists, and is not the one start1 is about to add; an     *)
(* update made on the serving instance, and one reported as done, is in    *)
(* the Persister that survives.                                            *)
CallOK(c) ==
  LET r == calls[c] IN
  /\ r.proc \in {"none", "calling", "sent", "open", "refused"} =>
       r.handler = "none"
  /\ r.proc \in {"open", "waiting", "received"} => r.srv # 0
  /\ r.proc \in {"received", "delayed"} => r.handler = "over"
  /\ r.handler # "none" => r.srv # 0
  /\ r.srv <= inst[r.dst]
  /\ tester.op = "add" /\ r.dst = tester.i => r.srv # inst[r.dst]
  /\ r.handler \in {"done", "over"} /\ r.srv = servers[r.dst] =>
       c \in disk[r.dst]
  /\ r.proc = "delayed" \/ (r.proc = "returned" /\ r.ok) =>
       r.handler = "over" /\ c \in disk[r.dst]

CallsOK == \A c \in CallId : CallOK(c)

(* What the invariant says of the harness and its ends.                    *)
ConfigOK == Serving /\ ServersUp /\ TesterOK /\ EndsOK /\ EndsServed

NetInv == TypeOK /\ ConfigOK /\ CallsOK
-----------------------------------------------------------------------------
Tester == [op : {"idle", "enable", "delete", "copy", "make", "add"}, i : Peer,
           call : {"none", "connect", "disconnect", "crash1", "start1"}]

LEMMA IdleType == Idle.i \in Peer /\ Idle \in Tester /\ Idle.op = "idle"
                  /\ Idle.call = "none"
<1>1. (CHOOSE i \in Peer : TRUE) \in Peer
  BY NetBounds
<1> QED
  BY <1>1 DEF Idle, Tester

LEMMA UnmadeType == Unmade \in CallRecord
  BY IdleType, NetBounds DEF Unmade, CallRecord, Instance

LEMMA InitInv == Init => NetInv
<1> SUFFICES ASSUME Init PROVE NetInv
  OBVIOUS
<1>1. TypeOK
  <2>1. /\ connected \in [Peer -> BOOLEAN] /\ attached \in [Peer -> BOOLEAN]
        /\ reliable \in BOOLEAN /\ reordering \in BOOLEAN
    BY DEF Init
  <2>2. /\ inst \in [Peer -> Instance] /\ servers \in [Peer -> 0..MaxStart]
        /\ enabled \subseteq Peer \X Instance \X Peer
    BY NetBounds DEF Init, Instance
  <2>3. tester \in Tester /\ calls \in [CallId -> CallRecord]
    BY IdleType, UnmadeType DEF Init
  <2> QED
    BY <2>1, <2>2, <2>3 DEF Init, TypeOK, Tester
<1>2. Serving /\ ServersUp
  BY DEF Init, Serving, ServersUp
<1>3. TesterOK
  BY IdleType DEF Init, TesterOK
<1>4. CallsOK
  BY IdleType, NetBounds DEF Init, CallsOK, CallOK, Unmade
<1>5. EndsOK
  BY NetBounds, IdleType DEF Init, EndsOK, Wired, Instance
<1>6. EndsServed
  BY DEF Init, EndsServed
<1> QED
  BY <1>1, <1>2, <1>3, <1>4, <1>5, <1>6 DEF NetInv, ConfigOK
-----------------------------------------------------------------------------
(* The steps of the test.  None of them changes calls or disk.             *)

LEMMA CallsKept ==
  ASSUME CallsOK, UNCHANGED <<inst, servers, disk, calls>>,
         tester'.op # "add" \/ tester' = tester
  PROVE  CallsOK'
  BY DEF CallsOK, CallOK

LEMMA EndsType ==
  ASSUME TypeOK, NEW i \in Peer
  PROVE  EndsOf(i) \subseteq Peer \X Instance \X Peer
  BY DEF TypeOK, EndsOf

(* Of an end of i, instance and peers.                                     *)
LEMMA EndsOfPeer ==
  ASSUME TypeOK, NEW i \in Peer, NEW e \in Peer \X Instance \X Peer
  PROVE  e \in EndsOf(i) <=> e[2] = inst[e[1]] /\ (e[1] = i \/ e[3] = i)
  BY DEF TypeOK, EndsOf

LEMMA ConnectInv ==
  ASSUME NetInv, NEW i \in Peer, Connect(i)
  PROVE  NetInv'
<1>1. /\ connected' = [connected EXCEPT ![i] = TRUE]
      /\ connected' \in [Peer -> BOOLEAN]
      /\ tester' = [op |-> "enable", i |-> i, call |-> "connect"]
      /\ pending = {} /\ enabled = Wired
  BY DEF NetInv, ConfigOK, EndsOK, TypeOK, Connect
<1>2. /\ pending' = {e \in EndsOf(i) : connected'[e[1]] /\ connected'[e[3]]}
      /\ UNCHANGED <<inst, disk, attached, net, reliable, reordering, enabled,
                     servers, calls>>
  BY DEF Connect, network
<1>3. pending' \subseteq Peer \X Instance \X Peer
  BY <1>2, EndsType DEF NetInv
<1>4. TypeOK'
  BY <1>1, <1>2, <1>3 DEF NetInv, TypeOK
<1>5. Serving' /\ ServersUp' /\ TesterOK' /\ EndsServed'
  BY <1>1, <1>2 DEF NetInv, ConfigOK, TypeOK, Serving, ServersUp, TesterOK, EndsServed,
     Connect
<1>6. <<i, inst[i], i>> \in pending'
  BY <1>1, <1>2 DEF NetInv, TypeOK, EndsOf
<1>7. \A e \in Peer \X Instance \X Peer :
        e \in pending' <=> e \in Wired' /\ (e[1] = i \/ e[3] = i)
  BY <1>1, <1>2, EndsOfPeer DEF NetInv, Wired
<1>8. enabled' \ pending' = Wired' \ pending'
  BY <1>1, <1>2, <1>7 DEF NetInv, TypeOK, Wired
<1>9. EndsOK'
  BY <1>1, <1>2, <1>3, <1>6, <1>7, <1>8 DEF EndsOK, EndsOf
<1>10. CallsOK'
  BY <1>1, <1>2, CallsKept DEF NetInv
<1> QED
  BY <1>4, <1>5, <1>9, <1>10 DEF NetInv, ConfigOK

LEMMA DetachInv ==
  ASSUME NetInv, NEW i \in Peer, NEW call \in {"disconnect", "crash1", "start1"},
         Detach(i, call), call = "start1" => inst[i] < MaxStart
  PROVE  NetInv'
<1>1. /\ connected' = [connected EXCEPT ![i] = FALSE]
      /\ connected' \in [Peer -> BOOLEAN]
      /\ tester' = [op |-> "enable", i |-> i, call |-> call]
      /\ pending = {} /\ enabled = Wired
  BY DEF NetInv, ConfigOK, EndsOK, TypeOK, Detach
<1>2. /\ pending' = EndsOf(i)
      /\ UNCHANGED <<inst, disk, attached, net, reliable, reordering, enabled,
                     servers, calls>>
  BY DEF Detach, network
<1>3. pending' \subseteq Peer \X Instance \X Peer
  BY <1>2, EndsType DEF NetInv
<1>4. TypeOK'
  BY <1>1, <1>2, <1>3 DEF NetInv, TypeOK
<1>5. Serving' /\ ServersUp' /\ TesterOK' /\ EndsServed'
  BY <1>1, <1>2 DEF NetInv, ConfigOK, TypeOK, Serving, ServersUp, TesterOK, EndsServed
<1>6. <<i, inst[i], i>> \in pending'
  BY <1>2 DEF EndsOf
<1>7. enabled' \ pending' = Wired' \ pending'
  BY <1>1, <1>2, EndsOfPeer DEF NetInv, TypeOK, Wired
<1>8. EndsOK'
  BY <1>1, <1>2, <1>6, <1>7 DEF EndsOK, EndsOf
<1>9. CallsOK'
  BY <1>1, <1>2, CallsKept DEF NetInv
<1> QED
  BY <1>4, <1>5, <1>8, <1>9 DEF NetInv, ConfigOK

LEMMA EnableInv ==
  ASSUME NetInv, NEW e \in pending, Enable(e)
  PROVE  NetInv'
<1>1. /\ e \in Peer \X Instance \X Peer /\ tester \in Tester
      /\ tester.op = "enable" /\ e \in EndsOf(tester.i)
      /\ tester.call = "connect" => e \in Wired
      /\ tester.call # "connect" => e \notin Wired
  <2>1. e \in Peer \X Instance \X Peer /\ tester \in Tester /\ tester.i \in Peer
    BY DEF NetInv, TypeOK, Tester
  <2>2. /\ tester.op = "enable" /\ e \in EndsOf(tester.i)
        /\ tester.call = "connect" => e \in Wired
        /\ tester.call # "connect" => ~connected[tester.i]
    BY DEF Enable, NetInv, ConfigOK, TesterOK, EndsOK
  <2>3. e[1] = tester.i \/ e[3] = tester.i
    BY <2>1, <2>2, EndsOfPeer DEF NetInv
  <2> QED
    BY <2>1, <2>2, <2>3 DEF Wired
<1>2. /\ UNCHANGED <<inst, connected, disk, attached, net, reliable, reordering,
                     servers, calls>>
      /\ pending' = pending \ {e}
  BY DEF Enable
<1>3. /\ enabled' \subseteq Peer \X Instance \X Peer
      /\ pending' \subseteq Peer \X Instance \X Peer
  BY <1>1 DEF Enable, NetInv, TypeOK
<1>4. /\ tester' \in Tester
      /\ \/ /\ pending' # {} /\ tester' = tester
         \/ /\ pending' = {} /\ tester'.op = "idle" /\ tester'.call = "none"
         \/ /\ pending' = {} /\ tester'.op = "delete" /\ tester'.i = tester.i
            /\ tester'.call = tester.call
            /\ tester.call \in {"crash1", "start1"}
  <2>1. CASE pending = {e}
    <3>1. tester' = Done(tester) /\ pending' = {}
      BY <2>1 DEF Enable
    <3>2. CASE tester.call \in {"crash1", "start1"}
      BY <1>1, <3>1, <3>2 DEF Done, Tester
    <3>3. CASE tester.call \notin {"crash1", "start1"}
      BY <3>1, <3>3, IdleType DEF Done
    <3> QED
      BY <3>2, <3>3
  <2>2. CASE pending # {e}
    BY <1>1, <2>2 DEF Enable
  <2> QED
    BY <2>1, <2>2
<1>5. TypeOK'
  BY <1>2, <1>3, <1>4 DEF NetInv, TypeOK, Tester
<1>6. Serving' /\ ServersUp'
  BY <1>2 DEF NetInv, ConfigOK, Serving, ServersUp
<1>7. TesterOK'
  BY <1>1, <1>2, <1>4 DEF NetInv, ConfigOK, TesterOK
<1>8. Wired' = Wired /\ \A i : EndsOf(i)' = EndsOf(i)
  BY <1>2 DEF Wired, EndsOf
<1>9. enabled' \ pending' = Wired' \ pending'
  BY <1>1, <1>2, <1>8 DEF Enable, NetInv, ConfigOK, EndsOK
<1>10. EndsOK'
  BY <1>1, <1>2, <1>4, <1>8, <1>9 DEF NetInv, ConfigOK, EndsOK
<1>11. EndsServed'
  <2>1. CASE tester.call = "connect"
    <3>1. enabled' = enabled \cup {e}
      BY <2>1 DEF Enable
    <3>2. servers[e[1]] = e[2] /\ servers[e[3]] # 0
      BY <1>1, <2>1 DEF NetInv, ConfigOK, Wired, Serving, ServersUp
    <3> QED
      BY <1>2, <3>1, <3>2 DEF NetInv, ConfigOK, EndsServed
  <2>2. CASE tester.call # "connect"
    BY <1>2, <2>2 DEF Enable, NetInv, ConfigOK, EndsServed
  <2> QED
    BY <2>1, <2>2
<1>12. CallsOK'
  BY <1>2, <1>4, CallsKept DEF NetInv
<1> QED
  BY <1>5, <1>6, <1>7, <1>10, <1>11, <1>12 DEF NetInv, ConfigOK

LEMMA DeleteServerInv ==
  ASSUME NetInv, DeleteServer
  PROVE  NetInv'
<1>1. /\ tester.i \in Peer /\ tester'.i = tester.i /\ tester'.op = "copy"
      /\ tester'.call = tester.call /\ tester' \in Tester
  BY DEF NetInv, TypeOK, DeleteServer, Tester
<1>2. servers' = [servers EXCEPT ![tester.i] = 0]
  BY DEF DeleteServer
<1>3. servers' \in [Peer -> 0..MaxStart]
  BY <1>1, <1>2, NetBounds DEF NetInv, TypeOK
<1>4. TypeOK'
  BY <1>1, <1>3 DEF NetInv, TypeOK, DeleteServer, Tester
<1>5. /\ tester.call # "connect" /\ ~connected[tester.i]
      /\ pending = {} /\ enabled = Wired
  BY DEF NetInv, ConfigOK, TesterOK, EndsOK, DeleteServer
<1>6. Serving' /\ ServersUp' /\ TesterOK'
  BY <1>1, <1>2, <1>5 DEF NetInv, ConfigOK, TypeOK, Serving, ServersUp, TesterOK,
     DeleteServer
<1>7. EndsOK'
  BY <1>1, <1>5 DEF EndsOK, Wired, DeleteServer
<1>8. EndsServed'
  BY <1>1, <1>2, <1>5 DEF NetInv, ConfigOK, TypeOK, EndsServed, Wired, DeleteServer
<1>9. ASSUME NEW c \in CallId PROVE CallOK(c)'
  <2>1. /\ CallOK(c) /\ calls[c].dst \in Peer
        /\ calls[c].handler # "none" => calls[c].srv # 0
    BY DEF NetInv, TypeOK, CallsOK, CallOK, CallRecord
  <2>2. calls[c].handler \in {"done", "over"} /\ calls[c].srv = servers'[calls[c].dst]
          => calls[c].srv = servers[calls[c].dst]
    BY <1>1, <1>2, <2>1 DEF NetInv, TypeOK
  <2> QED
    BY <1>1, <2>1, <2>2 DEF CallOK, DeleteServer
<1> QED
  BY <1>4, <1>6, <1>7, <1>8, <1>9 DEF NetInv, ConfigOK, CallsOK

LEMMA CopyPersisterInv ==
  ASSUME NetInv, CopyPersister
  PROVE  NetInv'
<1>1. /\ tester.i \in Peer
      /\ attached' = [attached EXCEPT ![tester.i] = FALSE]
      /\ attached' \in [Peer -> BOOLEAN]
  BY DEF NetInv, TypeOK, CopyPersister
<1>2. /\ tester' \in Tester
      /\ \/ tester'.op = "idle" /\ tester'.call = "none"
         \/ /\ tester'.op = "make" /\ tester'.i = tester.i
            /\ tester'.call = "start1" /\ tester.call = "start1"
  BY IdleType DEF NetInv, TypeOK, CopyPersister, Tester
<1>3. TypeOK'
  BY <1>1, <1>2 DEF NetInv, TypeOK, CopyPersister, network, Tester
<1>4. Serving' /\ ServersUp' /\ TesterOK'
  BY <1>1, <1>2 DEF NetInv, ConfigOK, TypeOK, Serving, ServersUp, TesterOK,
     CopyPersister, network
<1>5. EndsOK' /\ EndsServed'
  BY <1>2 DEF NetInv, ConfigOK, EndsOK, EndsServed, Wired, CopyPersister, network
<1>6. CallsOK'
  BY <1>2, CallsKept DEF NetInv, CopyPersister, network
<1> QED
  BY <1>3, <1>4, <1>5, <1>6 DEF NetInv, ConfigOK

LEMMA MakeInstanceInv ==
  ASSUME NetInv, MakeInstance
  PROVE  NetInv'
<1>1. /\ tester.i \in Peer /\ tester'.i = tester.i /\ tester'.op = "add"
      /\ tester'.call = tester.call /\ tester' \in Tester
  BY DEF NetInv, TypeOK, MakeInstance, Tester
<1>2. /\ inst' = [inst EXCEPT ![tester.i] = inst[tester.i] + 1]
      /\ inst[tester.i] < MaxStart /\ servers[tester.i] = 0
      /\ ~connected[tester.i] /\ tester.call = "start1"
      /\ pending = {} /\ enabled = Wired
  BY DEF NetInv, ConfigOK, TesterOK, EndsOK, MakeInstance
<1>3. inst' \in [Peer -> Instance] /\ \A i \in Peer : inst[i] <= inst'[i]
  BY <1>1, <1>2, NetBounds DEF NetInv, TypeOK, Instance
<1>4. /\ attached' = [attached EXCEPT ![tester.i] = TRUE]
      /\ attached' \in [Peer -> BOOLEAN]
  BY DEF NetInv, TypeOK, MakeInstance
<1>5. TypeOK'
  BY <1>1, <1>3, <1>4 DEF NetInv, TypeOK, MakeInstance, network, Tester
<1>6. Serving' /\ ServersUp' /\ TesterOK' /\ EndsServed'
  BY <1>1, <1>2, <1>4 DEF NetInv, ConfigOK, TypeOK, Serving, ServersUp, TesterOK,
     EndsServed, MakeInstance, network
<1>7. EndsOK'
  <2>1. Wired' = Wired
    BY <1>1, <1>2 DEF NetInv, TypeOK, Wired, MakeInstance, network
  <2> QED
    BY <1>1, <1>2, <2>1 DEF EndsOK, MakeInstance, network
<1>8. ASSUME NEW c \in CallId PROVE CallOK(c)'
  <2>1. /\ CallOK(c) /\ calls[c].dst \in Peer /\ calls[c].srv \in 0..MaxStart
        /\ calls[c].srv <= inst[calls[c].dst]
    BY DEF NetInv, TypeOK, CallsOK, CallOK, CallRecord
  <2>2. /\ calls[c].srv <= inst'[calls[c].dst]
        /\ calls[c].dst = tester.i => calls[c].srv # inst'[calls[c].dst]
    BY <1>1, <1>2, <1>3, <2>1, NetBounds DEF NetInv, TypeOK, Instance
  <2> QED
    BY <1>1, <2>1, <2>2 DEF CallOK, MakeInstance, network
<1> QED
  BY <1>5, <1>6, <1>7, <1>8 DEF NetInv, ConfigOK, CallsOK

LEMMA AddServerInv ==
  ASSUME NetInv, AddServer
  PROVE  NetInv'
<1>1. /\ tester.i \in Peer /\ tester.op = "add" /\ attached[tester.i]
      /\ tester' = Idle
      /\ servers' = [servers EXCEPT ![tester.i] = inst[tester.i]]
  BY DEF NetInv, ConfigOK, TypeOK, TesterOK, AddServer
<1>2. servers' \in [Peer -> 0..MaxStart]
  BY <1>1, NetBounds DEF NetInv, TypeOK, Instance
<1>3. TypeOK'
  BY <1>1, <1>2, IdleType DEF NetInv, TypeOK, AddServer, Tester
<1>4. Serving' /\ TesterOK'
  BY <1>1, IdleType DEF NetInv, ConfigOK, TypeOK, Serving, TesterOK, AddServer
<1>5. ServersUp' /\ EndsServed'
  <2>1. servers[tester.i] = 0 /\ inst[tester.i] # 0
    BY <1>1, NetBounds DEF NetInv, ConfigOK, TypeOK, TesterOK, Instance
  <2>2. ServersUp'
    BY <1>1, <2>1 DEF NetInv, ConfigOK, TypeOK, ServersUp, AddServer
  <2>3. ASSUME NEW e \in enabled PROVE servers'[e[1]] = e[2] /\ servers'[e[3]] # 0
    <3>1. /\ e[1] \in Peer /\ e[2] # 0 /\ e[3] \in Peer
          /\ servers[e[1]] = e[2] /\ servers[e[3]] # 0
      BY NetBounds DEF NetInv, ConfigOK, TypeOK, EndsServed, Instance
    <3> QED
      BY <1>1, <2>1, <3>1 DEF NetInv, TypeOK
  <2> QED
    BY <2>2, <2>3 DEF EndsServed, AddServer
<1>6. EndsOK'
  BY <1>1, IdleType DEF NetInv, ConfigOK, EndsOK, Wired, AddServer
<1>7. ASSUME NEW c \in CallId PROVE CallOK(c)'
  <2>1. /\ CallOK(c) /\ calls[c].dst \in Peer
        /\ calls[c].dst = tester.i => calls[c].srv # inst[calls[c].dst]
    BY <1>1 DEF NetInv, TypeOK, CallsOK, CallOK, CallRecord
  <2>2. calls[c].srv = servers'[calls[c].dst] => calls[c].srv = servers[calls[c].dst]
    BY <1>1, <2>1 DEF NetInv, TypeOK
  <2> QED
    BY <1>1, <2>1, <2>2, IdleType DEF CallOK, AddServer
<1> QED
  BY <1>3, <1>4, <1>5, <1>6, <1>7 DEF NetInv, ConfigOK, CallsOK

LEMMA ConfigKept ==
  ASSUME ConfigOK,
         UNCHANGED <<inst, connected, attached, tester, pending, enabled, servers>>
  PROVE  ConfigOK'
  BY DEF ConfigOK, Serving, ServersUp, TesterOK, EndsOK, EndsServed, EndsOf, Wired

LEMMA SettingInv ==
  ASSUME NetInv, SetReliable \/ SetLongReordering \/ Cleanup
  PROVE  NetInv'
<1>1. /\ UNCHANGED <<config, enabled, servers, calls>>
      /\ reliable' \in BOOLEAN /\ reordering' \in BOOLEAN
      /\ net' \in {"up", "closed", "gone"}
  BY DEF NetInv, TypeOK, SetReliable, SetLongReordering, Cleanup
<1>2. TypeOK'
  BY <1>1 DEF NetInv, TypeOK, config
<1>3. ConfigOK'
  BY <1>1, ConfigKept DEF NetInv, config
<1>4. CallsOK'
  BY <1>1 DEF NetInv, CallsOK, CallOK, config
<1> QED
  BY <1>2, <1>3, <1>4 DEF NetInv

LEMMA TestInv ==
  ASSUME NetInv, Test
  PROVE  NetInv'
<1>1. CASE \E i \in Peer : Connect(i)
  BY <1>1, ConnectInv
<1>2. CASE \E i \in Peer : Disconnect(i)
  BY <1>2, DetachInv DEF Disconnect
<1>3. CASE \E i \in Peer, call \in {"crash1", "start1"} : Crash(i, call)
  BY <1>3, DetachInv DEF Crash
<1>4. CASE \E e \in pending : Enable(e)
  BY <1>4, EnableInv
<1>5. CASE DeleteServer \/ CopyPersister \/ MakeInstance \/ AddServer
  BY <1>5, DeleteServerInv, CopyPersisterInv, MakeInstanceInv, AddServerInv
<1>6. CASE SetReliable \/ SetLongReordering \/ Cleanup
  BY <1>6, SettingInv
<1> QED
  BY <1>1, <1>2, <1>3, <1>4, <1>5, <1>6 DEF Test
-----------------------------------------------------------------------------
(* The steps of a call.                                                    *)

(* Only the record of call c changes, and it stays one.                    *)
OnlyCall(c) ==
  /\ calls' \in [CallId -> CallRecord]
  /\ \A b \in CallId : b # c => calls'[b] = calls[b]

LEMMA CallInv ==
  ASSUME NetInv, NEW c \in CallId, Keep, OnlyCall(c), CallOK(c)'
  PROVE  NetInv'
<1>1. TypeOK' /\ ConfigOK'
  BY ConfigKept DEF NetInv, TypeOK, Keep, OnlyCall, config, network
<1>2. ASSUME NEW b \in CallId, b # c PROVE CallOK(b)'
  BY <1>2 DEF NetInv, CallsOK, CallOK, Keep, OnlyCall, config, network
<1> QED
  BY <1>1, <1>2 DEF NetInv, CallsOK

LEMMA Moved ==
  ASSUME TypeOK, NEW c \in CallId,
         NEW p \in {"none", "calling", "sent", "open", "refused", "waiting",
                    "received", "delayed", "returned"},
         Move(c, p)
  PROVE  OnlyCall(c) /\ calls'[c] = [calls[c] EXCEPT !.proc = p]
<1>1. calls' = [calls EXCEPT ![c] = [calls[c] EXCEPT !.proc = p]]
  BY DEF Move
<1>2. [calls[c] EXCEPT !.proc = p] \in CallRecord
  <2>1. calls[c] \in CallRecord
    BY DEF TypeOK
  <2> QED
    BY ZenonT(60), <2>1 DEF CallRecord
<1> QED
  BY <1>1, <1>2 DEF TypeOK, OnlyCall

LEMMA Returned ==
  ASSUME TypeOK, NEW c \in CallId, NEW ok \in BOOLEAN, Return(c, ok)
  PROVE  OnlyCall(c) /\ calls'[c] = [calls[c] EXCEPT !.proc = "returned",
                                       !.ok = ok, !.lossy = FALSE,
                                       !.slow = FALSE]
<1> DEFINE r == [calls[c] EXCEPT !.proc = "returned", !.ok = ok,
                                 !.lossy = FALSE, !.slow = FALSE]
<1>1. calls' = [calls EXCEPT ![c] = r]
  BY DEF Return, TypeOK, CallRecord
<1>2. r \in CallRecord
  <2>1. calls[c] \in CallRecord
    BY DEF TypeOK
  <2>2. [calls[c] EXCEPT !.proc = "returned"] \in CallRecord
    BY <2>1 DEF CallRecord
  <2>3. \A q \in CallRecord : [q EXCEPT !.ok = ok] \in CallRecord
    BY DEF CallRecord
  <2>4. \A q \in CallRecord : [q EXCEPT !.lossy = FALSE] \in CallRecord
    BY DEF CallRecord
  <2>5. \A q \in CallRecord : [q EXCEPT !.slow = FALSE] \in CallRecord
    BY DEF CallRecord
  <2> QED
    BY <2>2, <2>3, <2>4, <2>5
<1> QED
  BY <1>1, <1>2 DEF TypeOK, OnlyCall

LEMMA CallMade ==
  ASSUME NetInv, NEW c \in CallId, NEW src \in Peer, NEW dst \in Peer,
         NEW k \in Instance, Call(c, src, k, dst)
  PROVE  /\ Keep /\ OnlyCall(c) /\ CallOK(c)'
         /\ At(c, "none") /\ calls'[c].proc = "calling"
         /\ calls'[c].handler = "none"
<1> DEFINE r == [Unmade EXCEPT !.src = src, !.k = k, !.dst = dst,
                               !.proc = "calling"]
<1>1. calls' = [calls EXCEPT ![c] = r]
  BY DEF Call
<1>2. r \in CallRecord
  BY UnmadeType DEF CallRecord
<1>3. OnlyCall(c) /\ calls'[c] = r
  BY <1>1, <1>2 DEF NetInv, TypeOK, OnlyCall
<1>4. r.proc = "calling" /\ r.handler = "none" /\ r.srv = 0 /\ r.dst = dst
  BY DEF Unmade
<1>5. 0 <= inst[dst] /\ 0 # inst[dst]
  BY NetBounds DEF NetInv, TypeOK, Instance
<1>6. CallOK(c)'
  <2> HIDE DEF r
  <2>1. inst' = inst
    BY DEF Call, Keep, config
  <2> QED
    BY <1>3, <1>4, <1>5, <2>1 DEF CallOK
<1> QED
  BY <1>3, <1>4, <1>6 DEF Call

(* A step of Call or ProcessReq that goes on.                              *)
LEMMA CallMoves ==
  ASSUME NetInv, NEW c \in CallId,
         \/ Accept(c) \/ Dispatch(c) \/ ReadEndnameInfo(c) \/ Receive(c)
         \/ Hang(c) \/ Drain(c)
  PROVE  /\ Keep /\ OnlyCall(c) /\ CallOK(c)'
         /\ calls'[c].dst = calls[c].dst /\ calls'[c].ok = calls[c].ok
         /\ calls[c].proc # "none" /\ calls'[c].proc # "none"
         /\ calls'[c].proc = "returned" <=> calls[c].proc = "returned"
         /\ calls'[c].handler \in {"done", "over"}
              <=> calls[c].handler \in {"done", "over"}
<1>1. /\ calls[c] \in CallRecord /\ CallOK(c)
      /\ calls \in [CallId -> CallRecord]
  BY DEF NetInv, TypeOK, CallsOK
<1>2. CASE Accept(c)
  <2>1. OnlyCall(c) /\ calls'[c] = [calls[c] EXCEPT !.proc = "sent"]
    BY <1>2, Moved DEF NetInv, Accept
  <2> QED
    BY <1>1, <1>2, <2>1 DEF CallRecord, Accept, At, CallOK, Keep, config, network
<1>3. CASE Dispatch(c)
  <2> DEFINE r == [calls[c] EXCEPT !.proc = "waiting", !.handler = "running"]
  <2>1. calls' = [calls EXCEPT ![c] = r] /\ r \in CallRecord
    BY <1>1, <1>3 DEF Dispatch, CallRecord
  <2>2. OnlyCall(c) /\ calls'[c] = r
    BY <1>1, <2>1 DEF OnlyCall
  <2> QED
    BY <1>1, <1>3, <2>2 DEF CallRecord, Dispatch, At, CallOK, Keep, config, network
<1>4. CASE Receive(c)
  <2> DEFINE r == [calls[c] EXCEPT !.proc = "received", !.handler = "over"]
  <2>1. calls' = [calls EXCEPT ![c] = r] /\ r \in CallRecord
    BY <1>1, <1>4 DEF Receive, CallRecord
  <2>2. OnlyCall(c) /\ calls'[c] = r
    BY <1>1, <2>1 DEF OnlyCall
  <2> QED
    BY <1>1, <1>4, <2>2 DEF CallRecord, Receive, At, CallOK, Keep, config, network
<1>5. CASE Hang(c)
  <2> DEFINE r == [calls[c] EXCEPT !.handler = "hung"]
  <2>1. calls' = [calls EXCEPT ![c] = r] /\ r \in CallRecord
    BY <1>1, <1>5 DEF Hang, CallRecord
  <2>2. OnlyCall(c) /\ calls'[c] = r
    BY <1>1, <2>1 DEF OnlyCall
  <2> QED
    BY <1>1, <1>5, <2>2 DEF CallRecord, Hang, CallOK, Keep, config, network
<1>6. CASE Drain(c)
  <2> DEFINE r == [calls[c] EXCEPT !.handler = "over"]
  <2>1. calls' = [calls EXCEPT ![c] = r] /\ r \in CallRecord
    BY <1>1, <1>6 DEF Drain, CallRecord
  <2>2. OnlyCall(c) /\ calls'[c] = r
    BY <1>1, <2>1 DEF OnlyCall
  <2> QED
    BY <1>1, <1>6, <2>2 DEF CallRecord, Drain, At, CallOK, Keep, config, network
<1>7. CASE ReadEndnameInfo(c) /\ ~(End(c) \in enabled /\ servers[calls[c].dst] # 0)
  <2>1. OnlyCall(c) /\ calls'[c] = [calls[c] EXCEPT !.proc = "refused"]
    BY <1>7, Moved DEF NetInv, ReadEndnameInfo
  <2> QED
    BY <1>1, <1>7, <2>1 DEF CallRecord, ReadEndnameInfo, At, CallOK, Keep, config,
       network
<1>8. CASE ReadEndnameInfo(c) /\ End(c) \in enabled /\ servers[calls[c].dst] # 0
  <2> DEFINE s == servers[calls[c].dst]
             r == [calls[c] EXCEPT !.proc = "open", !.srv = s,
                                   !.lossy = ~reliable, !.slow = reordering]
  <2>1. calls' = [calls EXCEPT ![c] = r]
    BY <1>1, <1>8 DEF ReadEndnameInfo, CallRecord
  <2>2. s \in 0..MaxStart /\ reordering \in BOOLEAN /\ (~reliable) \in BOOLEAN
    <3>1. calls[c].dst \in Peer
      BY <1>1 DEF CallRecord
    <3>2. servers \in [Peer -> 0..MaxStart] /\ reordering \in BOOLEAN
      BY DEF NetInv, TypeOK
    <3> QED
      BY <3>1, <3>2
  <2>3. r \in CallRecord
    <3>1. [calls[c] EXCEPT !.proc = "open"] \in CallRecord
      BY <1>1 DEF CallRecord
    <3>2. \A q \in CallRecord : [q EXCEPT !.srv = s] \in CallRecord
      BY <2>2 DEF CallRecord
    <3>3. \A q \in CallRecord : [q EXCEPT !.lossy = ~reliable] \in CallRecord
      BY <2>2 DEF CallRecord
    <3>4. \A q \in CallRecord : [q EXCEPT !.slow = reordering] \in CallRecord
      BY <2>2 DEF CallRecord
    <3> QED
      BY <3>1, <3>2, <3>3, <3>4
  <2>4. OnlyCall(c) /\ calls'[c] = r
    BY <1>1, <2>1, <2>3 DEF OnlyCall
  <2>5. /\ r.proc = "open" /\ r.srv = s /\ r.handler = calls[c].handler
        /\ r.dst = calls[c].dst /\ r.ok = calls[c].ok
    BY <1>1 DEF CallRecord
  <2>6. /\ s # 0 /\ s = inst[calls[c].dst] /\ s <= inst[calls[c].dst]
        /\ tester.op = "add" => calls[c].dst # tester.i
        /\ calls[c].proc = "sent" /\ calls[c].handler = "none"
    BY <1>1, <1>8, NetBounds DEF NetInv, ConfigOK, TypeOK, Serving, TesterOK, CallOK,
       ReadEndnameInfo, At, CallRecord, Instance
  <2> QED
    BY <1>8, <2>4, <2>5, <2>6 DEF CallOK, ReadEndnameInfo, At, Keep, config,
       network
<1> QED
  BY <1>2, <1>3, <1>4, <1>5, <1>6, <1>7, <1>8

(* The caller is told that the call failed.                                *)
LEMMA CallFails ==
  ASSUME NetInv, NEW c \in CallId, Keep, Return(c, FALSE),
         calls[c].proc \notin {"none", "returned"}
  PROVE  /\ OnlyCall(c) /\ CallOK(c)'
         /\ calls'[c].dst = calls[c].dst /\ calls'[c].handler = calls[c].handler
         /\ calls'[c].proc = "returned" /\ calls'[c].ok = FALSE
<1>1. calls[c] \in CallRecord /\ CallOK(c)
  BY DEF NetInv, TypeOK, CallsOK
<1>2. OnlyCall(c) /\ calls'[c] = [calls[c] EXCEPT !.proc = "returned",
                                   !.ok = FALSE, !.lossy = FALSE, !.slow = FALSE]
  BY Returned DEF NetInv
<1>3. /\ calls'[c].dst = calls[c].dst /\ calls'[c].handler = calls[c].handler
      /\ calls'[c].srv = calls[c].srv
      /\ calls'[c].proc = "returned" /\ calls'[c].ok = FALSE
  BY <1>1, <1>2 DEF CallRecord
<1>4. CallOK(c)'
  BY <1>1, <1>3 DEF CallOK, Keep, config, network
<1> QED
  BY <1>2, <1>3, <1>4

(* A reply in hand, and a server that is still the one the call went to:   *)
(* the update is in the Persister that survives.                           *)
LEMMA ReplyIsDurable ==
  ASSUME NetInv, NEW c \in CallId, At(c, "received"), ~IsServerDead(c)
  PROVE  calls[c].handler = "over" /\ c \in disk[calls[c].dst]
  BY DEF NetInv, CallsOK, CallOK, At, IsServerDead

LEMMA ReplyWaits ==
  ASSUME NetInv, NEW c \in CallId, At(c, "received"), ~IsServerDead(c),
         Keep, Move(c, "delayed")
  PROVE  /\ OnlyCall(c) /\ CallOK(c)'
         /\ calls'[c].dst = calls[c].dst /\ calls'[c].handler = calls[c].handler
         /\ calls'[c].proc = "delayed"
<1>1. calls[c] \in CallRecord /\ CallOK(c)
  BY DEF NetInv, TypeOK, CallsOK
<1>2. OnlyCall(c) /\ calls'[c] = [calls[c] EXCEPT !.proc = "delayed"]
  BY Moved DEF NetInv
<1>3. /\ calls'[c].dst = calls[c].dst /\ calls'[c].handler = calls[c].handler
      /\ calls'[c].srv = calls[c].srv /\ calls'[c].proc = "delayed"
  BY <1>1, <1>2 DEF CallRecord
<1>4. CallOK(c)'
  BY <1>1, <1>3, ReplyIsDurable DEF CallOK, Keep, config, network
<1> QED
  BY <1>2, <1>3, <1>4

(* The caller is told that the call succeeded.                             *)
LEMMA CallSucceeds ==
  ASSUME NetInv, NEW c \in CallId, Keep, Return(c, TRUE),
         calls[c].handler = "over", c \in disk[calls[c].dst]
  PROVE  /\ OnlyCall(c) /\ CallOK(c)'
         /\ calls'[c].dst = calls[c].dst /\ calls'[c].handler = calls[c].handler
         /\ calls'[c].proc = "returned" /\ calls'[c].ok = TRUE
<1>1. calls[c] \in CallRecord /\ CallOK(c)
  BY DEF NetInv, TypeOK, CallsOK
<1>2. OnlyCall(c) /\ calls'[c] = [calls[c] EXCEPT !.proc = "returned",
                                   !.ok = TRUE, !.lossy = FALSE, !.slow = FALSE]
  BY Returned DEF NetInv
<1>3. /\ calls'[c].dst = calls[c].dst /\ calls'[c].handler = calls[c].handler
      /\ calls'[c].srv = calls[c].srv
      /\ calls'[c].proc = "returned" /\ calls'[c].ok = TRUE
  BY <1>1, <1>2 DEF CallRecord
<1>4. CallOK(c)'
  BY <1>1, <1>3 DEF CallOK, Keep, config, network
<1> QED
  BY <1>2, <1>3, <1>4

(* The handler of c makes its update: only disk[dst] may gain c.           *)
LEMMA Handled ==
  ASSUME NetInv, NEW c \in CallId, Handle(c)
  PROVE  /\ NetInv' /\ OnlyCall(c)
         /\ calls[c].proc # "none" /\ calls'[c].proc = calls[c].proc
         /\ calls'[c].ok = calls[c].ok
         /\ calls[c].handler = "running" /\ calls'[c].handler = "done"
         /\ \A b \in CallId, d \in Peer :
              b # c => (b \in disk'[d] <=> b \in disk[d])
<1> DEFINE r == [calls[c] EXCEPT !.handler = "done"]
           d == calls[c].dst
<1>1. /\ calls[c] \in CallRecord /\ CallOK(c) /\ d \in Peer
      /\ calls \in [CallId -> CallRecord]
  BY DEF NetInv, TypeOK, CallsOK, CallRecord
<1>2. calls' = [calls EXCEPT ![c] = r] /\ r \in CallRecord
  BY <1>1 DEF Handle, CallRecord
<1>3. OnlyCall(c) /\ calls'[c] = r
  BY <1>1, <1>2 DEF OnlyCall
<1>4. /\ calls'[c].handler = "done" /\ calls'[c].proc = calls[c].proc
      /\ calls'[c].ok = calls[c].ok /\ calls'[c].dst = d
      /\ calls'[c].srv = calls[c].srv
  BY <1>1, <1>3 DEF CallRecord
<1>5. /\ disk' = IF attached[d] /\ calls[c].srv = inst[d]
                 THEN [disk EXCEPT ![d] = disk[d] \cup {c}] ELSE disk
      /\ UNCHANGED <<inst, connected, attached, tester, pending, network>>
      /\ calls[c].handler = "running"
  BY DEF Handle
<1>6. /\ disk' \in [Peer -> SUBSET CallId]
      /\ \A b \in CallId, e \in Peer : b # c => (b \in disk'[e] <=> b \in disk[e])
      /\ \A b \in CallId, e \in Peer : b \in disk[e] => b \in disk'[e]
      /\ attached[d] /\ calls[c].srv = inst[d] => c \in disk'[d]
  BY <1>1, <1>5 DEF NetInv, TypeOK
<1>7. TypeOK' /\ ConfigOK'
  BY <1>3, <1>5, <1>6, ConfigKept DEF NetInv, TypeOK, OnlyCall, network
<1>8. CallOK(c)'
  <2>1. calls[c].srv # 0 /\ calls[c].proc \notin {"received", "delayed"}
    BY <1>1, <1>5 DEF CallOK
  <2>2. ~(calls[c].proc = "returned" /\ calls[c].ok)
    BY <1>1, <1>5 DEF CallOK
  <2>3. calls[c].srv = servers[d] => c \in disk'[d]
    BY <1>1, <1>6, <2>1 DEF NetInv, ConfigOK, Serving
  <2> QED
    BY <1>1, <1>4, <1>5, <2>1, <2>2, <2>3 DEF CallOK, network
<1>9. ASSUME NEW b \in CallId, b # c PROVE CallOK(b)'
  <2>1. calls'[b] = calls[b] /\ CallOK(b) /\ calls[b].dst \in Peer
    BY <1>3, <1>9 DEF OnlyCall, NetInv, CallsOK, TypeOK, CallRecord
  <2> QED
    BY <1>5, <1>6, <2>1 DEF CallOK, network
<1>10. calls[c].proc # "none"
  BY <1>1, <1>5 DEF CallOK
<1> QED
  BY <1>3, <1>4, <1>5, <1>6, <1>7, <1>8, <1>9, <1>10 DEF NetInv, CallsOK
-----------------------------------------------------------------------------
(* Every step is a step of RemoteCall, or none.                            *)

Known == [c \in CallId |-> Status(c)]
Effects == [c \in CallId |-> Effect(c)]
Same(b) == Status(b)' = Status(b) /\ Effect(b)' = Effect(b)

LEMMA OthersSame ==
  ASSUME TypeOK, NEW c \in CallId, OnlyCall(c),
         \A b \in CallId, d \in Peer : b # c => (b \in disk'[d] <=> b \in disk[d])
  PROVE  \A b \in CallId : b # c => Same(b)
<1> SUFFICES ASSUME NEW b \in CallId, b # c PROVE Same(b)
  OBVIOUS
<1>1. calls'[b] = calls[b] /\ calls[b].dst \in Peer
  BY DEF TypeOK, OnlyCall, CallRecord
<1>2. Status(b)' = Status(b)
  BY <1>1 DEF Status, At
<1>3. Effect(b)' = Effect(b)
  BY <1>1 DEF Effect
<1> QED
  BY <1>2, <1>3 DEF Same

LEMMA Stutters ==
  ASSUME \A b \in CallId : Same(b)
  PROVE  Known' = Known /\ Effects' = Effects
  BY DEF Known, Effects, Same

(* What the steps of RemoteCall are on Known and Effects.                  *)
LEMMA AbstractStep ==
  ASSUME NEW c \in CallId, \A b \in CallId : b # c => Same(b),
         \/ /\ Status(c) = "none" /\ Status(c)' = "pending"
            /\ Effect(c)' = Effect(c)
         \/ /\ Status(c) = "pending" /\ Status(c)' = "failed"
            /\ Effect(c)' = Effect(c)
         \/ /\ Status(c) = "pending" /\ Status(c)' = "succeeded"
            /\ Effect(c) = "durable" /\ Effect(c)' = Effect(c)
         \/ /\ Status(c) # "none" /\ Effect(c) = "none"
            /\ Effect(c)' \in {"durable", "lost"} /\ Status(c)' = Status(c)
  PROVE  RPC!Next
<1>1. /\ Known' = [Known EXCEPT ![c] = Status(c)']
      /\ Effects' = [Effects EXCEPT ![c] = Effect(c)']
      /\ Known[c] = Status(c) /\ Effects[c] = Effect(c)
  BY DEF Known, Effects, Same
<1>2. Status(c)' = Status(c) => Known' = Known
  BY <1>1 DEF Known
<1>3. Effect(c)' = Effect(c) => Effects' = Effects
  BY <1>1 DEF Effects
<1>4. RPC!Make(c) \/ RPC!Fail(c) \/ RPC!Succeed(c) \/ RPC!Execute(c)
  BY <1>1, <1>2, <1>3
     DEF Known, Effects, RPC!Make, RPC!Fail, RPC!Succeed, RPC!Execute
<1> QED
  BY <1>4 DEF RPC!Next

Implements == RPC!Next \/ (Known' = Known /\ Effects' = Effects)

LEMMA DiskKept ==
  ASSUME Keep
  PROVE  \A b \in CallId, d \in Peer : b \in disk'[d] <=> b \in disk[d]
  BY DEF Keep, config

LEMMA MakeStep ==
  ASSUME NetInv, NEW c \in CallId, NEW src \in Peer, NEW dst \in Peer,
         NEW k \in Instance, Call(c, src, k, dst)
  PROVE  NetInv' /\ Implements
<1>1. /\ Keep /\ OnlyCall(c) /\ CallOK(c)' /\ At(c, "none")
      /\ calls'[c].proc = "calling" /\ calls'[c].handler = "none"
  BY CallMade
<1>2. \A b \in CallId : b # c => Same(b)
  BY <1>1, OthersSame, DiskKept DEF NetInv
<1>3. calls[c].handler = "none"
  BY <1>1 DEF NetInv, CallsOK, CallOK, At
<1>4. Status(c) = "none" /\ Status(c)' = "pending" /\ Effect(c)' = Effect(c)
  BY <1>1, <1>3 DEF Status, Effect, At
<1> QED
  BY <1>1, <1>2, <1>4, CallInv, AbstractStep DEF Implements

LEMMA MoveStep ==
  ASSUME NetInv, NEW c \in CallId,
         \/ Accept(c) \/ Dispatch(c) \/ ReadEndnameInfo(c) \/ Receive(c)
         \/ Hang(c) \/ Drain(c)
  PROVE  NetInv' /\ Implements
<1>1. /\ Keep /\ OnlyCall(c) /\ CallOK(c)'
      /\ calls'[c].dst = calls[c].dst /\ calls'[c].ok = calls[c].ok
      /\ calls[c].proc # "none" /\ calls'[c].proc # "none"
      /\ calls'[c].proc = "returned" <=> calls[c].proc = "returned"
      /\ calls'[c].handler \in {"done", "over"}
           <=> calls[c].handler \in {"done", "over"}
  BY CallMoves
<1>2. \A b \in CallId : b # c => Same(b)
  BY <1>1, OthersSame, DiskKept DEF NetInv
<1>3. Status(c)' = Status(c)
  BY <1>1 DEF Status, At
<1>4. Effect(c)' = Effect(c)
  BY <1>1 DEF Effect, Keep, config
<1>5. \A b \in CallId : Same(b)
  BY <1>2, <1>3, <1>4 DEF Same
<1> QED
  BY <1>1, <1>5, CallInv, Stutters DEF Implements

LEMMA FailStep ==
  ASSUME NetInv, NEW c \in CallId, Keep, Return(c, FALSE),
         calls[c].proc \notin {"none", "returned"}
  PROVE  NetInv' /\ Implements
<1>1. /\ OnlyCall(c) /\ CallOK(c)'
      /\ calls'[c].dst = calls[c].dst /\ calls'[c].handler = calls[c].handler
      /\ calls'[c].proc = "returned" /\ calls'[c].ok = FALSE
  BY CallFails
<1>2. \A b \in CallId : b # c => Same(b)
  BY <1>1, OthersSame, DiskKept DEF NetInv
<1>3. Status(c) = "pending" /\ Status(c)' = "failed"
  BY <1>1 DEF Status, At
<1>4. Effect(c)' = Effect(c)
  BY <1>1 DEF Effect, Keep, config
<1> QED
  BY <1>1, <1>2, <1>3, <1>4, CallInv, AbstractStep DEF Implements

LEMMA SucceedStep ==
  ASSUME NetInv, NEW c \in CallId, Keep, Return(c, TRUE),
         calls[c].proc \notin {"none", "returned"},
         calls[c].handler = "over", c \in disk[calls[c].dst]
  PROVE  NetInv' /\ Implements
<1>1. /\ OnlyCall(c) /\ CallOK(c)'
      /\ calls'[c].dst = calls[c].dst /\ calls'[c].handler = calls[c].handler
      /\ calls'[c].proc = "returned" /\ calls'[c].ok = TRUE
  BY CallSucceeds
<1>2. \A b \in CallId : b # c => Same(b)
  BY <1>1, OthersSame, DiskKept DEF NetInv
<1>3. Status(c) = "pending" /\ Status(c)' = "succeeded"
  BY <1>1 DEF Status, At
<1>4. Effect(c) = "durable" /\ Effect(c)' = Effect(c)
  BY <1>1 DEF Effect, Keep, config
<1> QED
  BY <1>1, <1>2, <1>3, <1>4, CallInv, AbstractStep DEF Implements

LEMMA ReplyStep ==
  ASSUME NetInv, NEW c \in CallId, Reply(c)
  PROVE  NetInv' /\ Implements
<1>1. /\ At(c, "received") /\ Keep
      /\ calls[c].proc \notin {"none", "returned"}
  BY DEF Reply, At
<1>2. CASE Return(c, FALSE)
  BY <1>1, <1>2, FailStep
<1>3. CASE ~IsServerDead(c) /\ Return(c, TRUE)
  BY <1>1, <1>3, ReplyIsDurable, SucceedStep
<1>4. CASE ~IsServerDead(c) /\ Move(c, "delayed")
  <2>1. /\ OnlyCall(c) /\ CallOK(c)'
        /\ calls'[c].dst = calls[c].dst /\ calls'[c].handler = calls[c].handler
        /\ calls'[c].proc = "delayed"
    BY <1>1, <1>4, ReplyWaits
  <2>2. \A b \in CallId : b # c => Same(b)
    BY <1>1, <2>1, OthersSame, DiskKept DEF NetInv
  <2>3. Status(c)' = Status(c)
    BY <1>1, <2>1 DEF Status, At
  <2>4. Effect(c)' = Effect(c)
    BY <1>1, <2>1 DEF Effect, Keep, config
  <2>5. \A b \in CallId : Same(b)
    BY <2>2, <2>3, <2>4 DEF Same
  <2> QED
    BY <1>1, <2>1, <2>5, CallInv, Stutters DEF Implements
<1> QED
  BY <1>2, <1>3, <1>4 DEF Reply

LEMMA HandleStep ==
  ASSUME NetInv, NEW c \in CallId, Handle(c)
  PROVE  NetInv' /\ Implements
<1>1. /\ NetInv' /\ OnlyCall(c)
      /\ calls[c].proc # "none" /\ calls'[c].proc = calls[c].proc
      /\ calls'[c].ok = calls[c].ok
      /\ calls[c].handler = "running" /\ calls'[c].handler = "done"
      /\ \A b \in CallId, d \in Peer :
           b # c => (b \in disk'[d] <=> b \in disk[d])
  BY Handled
<1>2. \A b \in CallId : b # c => Same(b)
  BY <1>1, OthersSame DEF NetInv
<1>3. Status(c) # "none" /\ Status(c)' = Status(c)
  BY <1>1 DEF Status, At
<1>4. Effect(c) = "none" /\ Effect(c)' \in {"durable", "lost"}
  BY <1>1 DEF Effect
<1> QED
  BY <1>1, <1>2, <1>3, <1>4, AbstractStep DEF Implements

LEMMA TestStep ==
  ASSUME NetInv, Test
  PROVE  NetInv' /\ Implements
<1>1. calls' = calls /\ disk' = disk
  BY DEF Test, Connect, Detach, Disconnect, Crash, Enable, DeleteServer,
     CopyPersister, MakeInstance, AddServer, SetReliable, SetLongReordering, Cleanup,
     config
<1>2. \A b \in CallId : Same(b)
  BY <1>1 DEF Same, Status, Effect, At
<1> QED
  BY <1>2, TestInv, Stutters DEF Implements

LEMMA NextStep ==
  ASSUME NetInv, [Next]_vars
  PROVE  NetInv' /\ Implements
<1>1. CASE Test
  BY <1>1, TestStep
<1>2. CASE \E c \in CallId, src, dst \in Peer, k \in Instance :
             Call(c, src, k, dst)
  BY <1>2, MakeStep
<1>3. ASSUME NEW c \in CallId, ProcessReq(c)
      PROVE  NetInv' /\ Implements
  <2>1. CASE Accept(c) \/ ReadEndnameInfo(c) \/ Dispatch(c) \/ Receive(c)
    BY <2>1, MoveStep
  <2>2. CASE Refuse(c) \/ TimeOut(c) \/ DropRequest(c) \/ Poll(c)
    BY <2>2, FailStep DEF Refuse, TimeOut, DropRequest, Poll, At
  <2>3. CASE Reply(c)
    BY <2>3, ReplyStep
  <2>4. CASE DeliverLate(c)
    <3>1. /\ Keep /\ Return(c, TRUE) /\ calls[c].proc = "delayed"
      BY <2>4 DEF DeliverLate, At
    <3>2. calls[c].handler = "over" /\ c \in disk[calls[c].dst]
      BY <3>1 DEF NetInv, CallsOK, CallOK
    <3> QED
      BY <3>1, <3>2, SucceedStep
  <2> QED
    BY <1>3, <2>1, <2>2, <2>3, <2>4 DEF ProcessReq
<1>4. CASE \E c \in CallId : Handle(c)
  BY <1>4, HandleStep
<1>5. CASE \E c \in CallId : Hang(c) \/ Drain(c)
  BY <1>5, MoveStep
<1>6. CASE UNCHANGED vars
  <2>1. NetInv'
    <3>1. TypeOK' /\ CallsOK'
      BY Zenon, <1>6 DEF vars, config, network, NetInv, TypeOK, CallsOK, CallOK
    <3>2. ConfigOK'
      BY <1>6, ConfigKept DEF vars, config, network, NetInv
    <3> QED
      BY <3>1, <3>2 DEF NetInv
  <2>2. \A b \in CallId : Same(b)
    BY <1>6 DEF vars, config, Same, Status, Effect, At
  <2> QED
    BY <2>1, <2>2, Stutters DEF Implements
<1> QED
  BY <1>1, <1>2, <1>3, <1>4, <1>5, <1>6 DEF Next
-----------------------------------------------------------------------------
LEMMA NetInvariant == Spec => []NetInv
<1>1. NetInv /\ [Next]_vars => NetInv'
  BY NextStep
<1> QED
  BY <1>1, InitInv, PTL DEF Spec

(* An end is enabled only while its instance serves, towards a peer that   *)
(* serves, in every state of connect, disconnect, crash1 and start1: an    *)
(* instance that was crashed never reaches a peer again.  crash1 disables  *)
(* its ends before it deletes the server, and start1 makes new ones before *)
(* it adds the next.                                                       *)
THEOREM Isolation == Spec => []OldInstancesIsolated
<1>1. NetInv => OldInstancesIsolated
  BY DEF NetInv, ConfigOK, EndsOK, EndsServed, OldInstancesIsolated
<1> QED
  BY <1>1, NetInvariant, PTL

(* The network with the harness implements RemoteCall: a call is executed  *)
(* at most once, and what a caller was told had succeeded is in the        *)
(* Persister the next instance starts from.                                *)
THEOREM NetworkImplements == Spec => ImplementsRemoteCall
<1>1. Init => RPC!Init
  BY DEF Init, RPC!Init, Status, Effect, At, Unmade
<1>2. NetInv /\ [Next]_vars =>
        [RPC!Next]_<<[c \in CallId |-> Status(c)], [c \in CallId |-> Effect(c)]>>
  BY NextStep DEF Implements, Known, Effects
<1> QED
  BY <1>1, <1>2, NetInvariant, PTL DEF Spec, ImplementsRemoteCall, RPC!Spec
=============================================================================
