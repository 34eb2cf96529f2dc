---------------------------- MODULE MtNodes_proofs ----------------------------
(***************************************************************************)
(* Theorems about the two programs of multithreading/, for every number    *)
(* of threads and regions, every size, and either order of starting.       *)
(***************************************************************************)
EXTENDS MtNodes, MsgQp_proofs, FiniteSetTheorems

-----------------------------------------------------------------------------
(* The inductive invariant.                                                *)

(* Phases of the local node before its threads and after them.             *)
Registering == {"off", "listening", "reg_mr", "reg_sent", "reg_recv", "reg_wait"}
Leaving == {"exit_sent", "ended"}

(* The threads live between the last key and the EXIT.                     *)
LocalOK ==
  /\ lpc \in Registering \cup {"threads"} \cup Leaving
  /\ lpc \in Registering => \A t \in Threads : tpc[t] = "new"
  /\ lpc = "threads" => \A t \in Threads : tpc[t] # "new"
  /\ lpc \in Leaving => \A t \in Threads : tpc[t] = "end"
  /\ \A t \in Threads : tpc[t] \notin {"new", "start"} => local_mr \in Threads

(* One send is under way while a code is, none when the threads start, and *)
(* from then on a completion comes for every thread that waits for one.    *)
Polling == {t \in Threads : tpc[t] \in {"write_poll", "read_poll"}}
SendsOK ==
  /\ lpc \in Registering =>
       SendsOf(Local) = (IF lpc = "reg_sent" THEN 1 ELSE 0) /\ qp_error = {}
  /\ lpc = "threads" =>
       wire[Local] = <<>> /\ Len(ops) + send_cq[Local] = Cardinality(Polling)
  /\ lpc # "threads" => ops = <<>>

(* The remote node gets an EXIT only when the local node is leaving, and   *)
(* ends without one only if nobody listened.                               *)
NoExit == {m \in Message : m.code # "EXIT"}
RemoteOK ==
  /\ rpc \in {"off", "connecting"} => lpc \in {"off", "listening"}
  /\ lpc \in {"off", "listening"} =>
       rpc \in {"off", "connecting", "ended"} /\ wire[Remote] = <<>> /\ recv_cq[Local] = <<>>
  /\ lpc \notin Leaving =>
       /\ rpc # "cleanup" /\ (rpc = "ended" => lpc \in {"off", "listening"})
       /\ recv_msg \in NoExit /\ wire[Local] \in Seq(NoExit)
       /\ recv_cq[Remote] \in Seq(NoExit \cup {Flushed})

(* The keys the local node has, those that arrived and those on their way  *)
(* number the regions of the remote node.                                  *)
KeysOK ==
  /\ \A k \in 1 .. Len(keys) : keys[k] = k
  /\ rpc # "ended" => Len(keys) <= Len(mr_arr)
  /\ lpc \in Registering =>
       /\ Len(keys) + Len(recv_cq[Local]) + Len(wire[Remote]) = Len(mr_arr)
       /\ \A k \in 1 .. Len(recv_cq[Local]) :
            recv_cq[Local][k] # Flushed /\ recv_cq[Local][k].key = Len(keys) + k
       /\ \A k \in 1 .. Len(wire[Remote]) :
            wire[Remote][k].key = Len(keys) + Len(recv_cq[Local]) + k

NodesInv == TypeOK /\ LocalOK /\ SendsOK /\ RemoteOK /\ KeysOK

-----------------------------------------------------------------------------
LEMMA NamesOfNodes ==
  /\ Local = "server" /\ Remote = "client" /\ Local \in Nodes /\ Remote \in Nodes
  /\ Local # Remote /\ Other(Local) = Remote /\ Other(Remote) = Local
  /\ Nodes = {Local, Remote}
BY NodesFacts DEF Local, Remote

LEMMA CodesAreMessages ==
  /\ \A c \in Codes : Code(c) \in Message /\ Code(c).code = c
  /\ \A k \in Nat : Key(k) \in Message /\ Key(k).key = k
  /\ Empty \in NoExit /\ NoExit \subseteq Message
  /\ \A m \in NoExit : m.code # "EXIT"
BY DEF Codes, Code, Key, Message, Empty, NoExit

LEMMA FlushedNoMessage == Flushed \notin Message
BY DEF Flushed, Message

(* What the type invariant says of each variable.                          *)
LEMMA NodesTyped ==
  ASSUME TypeOK
  PROVE  /\ QpTypeOK(Message) /\ keys \in Seq(Nat) /\ mr_arr \in Seq(Nat) /\ ops \in Seq(Op)
         /\ Len(keys) \in Nat /\ Len(mr_arr) \in Nat /\ Len(ops) \in Nat
         /\ tpc \in [Threads -> ThreadPhases]
         /\ \A n \in Nodes : /\ wire[n] \in Seq(Message) /\ Len(wire[n]) \in Nat
                             /\ recv_cq[n] \in Seq(Message \cup {Flushed})
                             /\ Len(recv_cq[n]) \in Nat /\ send_cq[n] \in Nat
                             /\ recvs[n] \in Nat
<1>1. /\ QpTypeOK(Message) /\ keys \in Seq(Nat) /\ mr_arr \in Seq(Nat) /\ ops \in Seq(Op)
      /\ tpc \in [Threads -> ThreadPhases]
  BY DEF TypeOK
<1>2. Len(keys) \in Nat /\ Len(mr_arr) \in Nat /\ Len(ops) \in Nat
  BY <1>1
<1>3. \A n \in Nodes : /\ wire[n] \in Seq(Message) /\ Len(wire[n]) \in Nat
                       /\ recv_cq[n] \in Seq(Message \cup {Flushed})
                       /\ Len(recv_cq[n]) \in Nat /\ send_cq[n] \in Nat
                       /\ recvs[n] \in Nat
  BY <1>1, QpTyped
<1> QED
  BY <1>1, <1>2, <1>3

(* The threads that wait for a completion.                                 *)
LEMMA PollingFacts ==
  ASSUME NEW P \in SUBSET Threads, NEW t \in Threads
  PROVE  /\ IsFiniteSet(P) /\ Cardinality(P) \in Nat
         /\ t \notin P => Cardinality(P \cup {t}) = Cardinality(P) + 1
         /\ t \in P => Cardinality(P) >= 1 /\ Cardinality(P \ {t}) = Cardinality(P) - 1
<1>1. IsFiniteSet(P) /\ Cardinality(P) \in Nat
  BY MtAssumption, FS_Subset, FS_CardinalityType
<1>2. t \notin P => Cardinality(P \cup {t}) = Cardinality(P) + 1
  BY <1>1, FS_AddElement
<1>3. t \in P => Cardinality(P \ {t}) = Cardinality(P) - 1
  BY <1>1, FS_RemoveElement
<1>4. t \in P => Cardinality(P) # 0
  BY <1>1, FS_EmptySet
<1> QED
  BY <1>1, <1>2, <1>3, <1>4

LEMMA NodesInit == Init => NodesInv
<1> SUFFICES ASSUME Init PROVE NodesInv
  OBVIOUS
<1>1. QpInit
  BY DEF Init
<1>2. QpTypeOK(Message) /\ SendsOf(Local) = 0
  BY <1>1, InitialQp, NamesOfNodes
<1>3. wire = [n \in Nodes |-> <<>>] /\ recv_cq = [n \in Nodes |-> <<>>] /\ qp_error = {}
  BY <1>1 DEF QpInit
<1>4. TypeOK
  BY <1>2, CodesAreMessages, MtAssumption
     DEF Init, TypeOK, LocalPhases, ThreadPhases, RemotePhases, NoMr
<1>5. LocalOK
  BY DEF Init, LocalOK, Registering, Leaving
<1>6. SendsOK
  BY <1>2, <1>3 DEF Init, SendsOK, Registering
<1>7. RemoteOK
  BY <1>3, CodesAreMessages, NamesOfNodes DEF Init, RemoteOK, Leaving
<1>8. KeysOK
  BY <1>3, NamesOfNodes DEF Init, KeysOK, Registering
<1> QED
  BY <1>4, <1>5, <1>6, <1>7, <1>8 DEF NodesInv

-----------------------------------------------------------------------------
(* The local node.  Each lemma is about one action.                        *)

LEMMA StartLocalKeeps ==
  ASSUME NodesInv, StartLocal
  PROVE  NodesInv'
<1>1. TypeOK /\ LocalOK /\ SendsOK /\ RemoteOK /\ KeysOK
  BY DEF NodesInv
<1>2. QpTypeOK(Message)' /\ \A n \in Nodes : SendsOf(n)' = SendsOf(n)
  BY <1>1 DEF StartLocal, qpVars, TypeOK, QpTypeOK, SendsOf
<1>11. TypeOK'
  BY <1>1, <1>2, NamesOfNodes, CodesAreMessages
     DEF StartLocal, remoteVars, localVars, qpVars, TypeOK, LocalPhases, ThreadPhases, RemotePhases
<1>12. LocalOK'
  BY <1>1, <1>2, NamesOfNodes, CodesAreMessages
     DEF StartLocal, remoteVars, localVars, qpVars, LocalOK, Registering, Leaving
<1>13. SendsOK'
  BY <1>1, <1>2, NamesOfNodes, CodesAreMessages
     DEF StartLocal, remoteVars, localVars, qpVars, SendsOK, Registering, Polling
<1>14. RemoteOK'
  BY <1>1, <1>2, NamesOfNodes, CodesAreMessages
     DEF StartLocal, remoteVars, localVars, qpVars, RemoteOK, Leaving, Registering
<1>15. KeysOK'
  BY <1>1, <1>2, NamesOfNodes, CodesAreMessages
     DEF StartLocal, remoteVars, localVars, qpVars, KeysOK, Registering
<1> QED
  BY <1>11, <1>12, <1>13, <1>14, <1>15 DEF NodesInv

LEMMA SendRegMrKeeps ==
  ASSUME NodesInv, SendRegMr
  PROVE  NodesInv'
<1>1. TypeOK /\ LocalOK /\ SendsOK /\ RemoteOK /\ KeysOK
  BY DEF NodesInv
<1>2. PostSend(Local, Code("REG_MR")) /\ Code("REG_MR") \in Message
  BY <1>1, CodesAreMessages DEF SendRegMr, SendCommCode, Codes, TypeOK
<1>3. QpTypeOK(Message) /\ Local \in Nodes
  BY <1>1, NamesOfNodes DEF TypeOK
<1>4. /\ QpTypeOK(Message)' /\ SendsOf(Local)' = SendsOf(Local) + 1
      /\ \A o \in Nodes : o # Local => SendsOf(o)' = SendsOf(o)
      /\ Local \notin qp_error => wire' = [wire EXCEPT ![Local] = Append(@, Code("REG_MR"))]
      /\ Local \in qp_error => wire' = wire
      /\ recvs' = recvs /\ recv_cq' = recv_cq /\ qp_error' = qp_error
  BY <1>2, <1>3, PostSendFacts
<1>11. TypeOK'
  BY <1>1, <1>4, NamesOfNodes, CodesAreMessages
     DEF SendRegMr, SendCommCode, remoteVars, localVars, TypeOK, LocalPhases, ThreadPhases, RemotePhases
<1>12. LocalOK'
  BY <1>1, <1>4, NamesOfNodes, CodesAreMessages
     DEF SendRegMr, SendCommCode, remoteVars, localVars, LocalOK, Registering, Leaving
<1>13. SendsOK'
  BY <1>1, <1>4, NamesOfNodes, CodesAreMessages
     DEF SendRegMr, SendCommCode, remoteVars, localVars, SendsOK, Registering, Polling
<1>14. RemoteOK'
  <2>1. wire'[Local] \in Seq(NoExit)
    <3>1. Code("REG_MR") \in NoExit
      BY <1>2, CodesAreMessages DEF Codes, NoExit
    <3>2. wire[Local] \in Seq(NoExit)
      BY <1>1 DEF RemoteOK, SendRegMr, Leaving
    <3>3. wire'[Local] = wire[Local] \/ wire'[Local] = Append(wire[Local], Code("REG_MR"))
      BY <1>1, <1>4, NamesOfNodes DEF TypeOK, QpTypeOK
    <3> QED
      BY <3>1, <3>2, <3>3, AppendProperties
  <2>2. wire'[Remote] = wire[Remote]
    BY <1>1, <1>4, NamesOfNodes DEF TypeOK, QpTypeOK
  <2> QED
    BY <1>1, <1>4, <2>1, <2>2 DEF SendRegMr, SendCommCode, remoteVars, RemoteOK, Leaving
<1>15. KeysOK'
  <2>1. wire'[Remote] = wire[Remote]
    BY <1>1, <1>4, NamesOfNodes DEF TypeOK, QpTypeOK
  <2> QED
    BY <1>1, <1>4, <2>1 DEF SendRegMr, SendCommCode, remoteVars, KeysOK, Registering
<1> QED
  BY <1>11, <1>12, <1>13, <1>14, <1>15 DEF NodesInv

LEMMA RegMrSentKeeps ==
  ASSUME NodesInv, RegMrSent
  PROVE  NodesInv'
<1>1. TypeOK /\ LocalOK /\ SendsOK /\ RemoteOK /\ KeysOK
  BY DEF NodesInv
<1>2. QpTypeOK(Message) /\ Local \in Nodes /\ GetSendComp(Local)
  BY <1>1, NamesOfNodes DEF TypeOK, RegMrSent
<1>3. /\ QpTypeOK(Message)' /\ SendsOf(Local) >= 1 /\ SendsOf(Local)' = SendsOf(Local) - 1
      /\ \A o \in Nodes : o # Local => SendsOf(o)' = SendsOf(o)
      /\ wire' = wire /\ recvs' = recvs /\ recv_cq' = recv_cq /\ qp_error' = qp_error
  BY <1>2, GetSendCompFacts
<1>11. TypeOK'
  BY <1>1, <1>3, NamesOfNodes, CodesAreMessages
     DEF RegMrSent, remoteVars, localVars, TypeOK, LocalPhases, ThreadPhases, RemotePhases
<1>12. LocalOK'
  BY <1>1, <1>3, NamesOfNodes, CodesAreMessages
     DEF RegMrSent, remoteVars, localVars, LocalOK, Registering, Leaving
<1>13. SendsOK'
  BY <1>1, <1>3, NamesOfNodes, CodesAreMessages
     DEF RegMrSent, remoteVars, localVars, SendsOK, Registering, Polling
<1>14. RemoteOK'
  BY <1>1, <1>3, NamesOfNodes, CodesAreMessages
     DEF RegMrSent, remoteVars, localVars, RemoteOK, Leaving, Registering
<1>15. KeysOK'
  BY <1>1, <1>3, NamesOfNodes, CodesAreMessages
     DEF RegMrSent, remoteVars, localVars, KeysOK, Registering
<1> QED
  BY <1>11, <1>12, <1>13, <1>14, <1>15 DEF NodesInv

LEMMA PostKeyRecvKeeps ==
  ASSUME NodesInv, PostKeyRecv
  PROVE  NodesInv'
<1>1. TypeOK /\ LocalOK /\ SendsOK /\ RemoteOK /\ KeysOK
  BY DEF NodesInv
<1>2. QpTypeOK(Message) /\ Local \in Nodes /\ PostRecv(Local)
  BY <1>1, NamesOfNodes DEF TypeOK, PostKeyRecv
<1>3. /\ QpTypeOK(Message)'
      /\ \A o \in Nodes : SendsOf(o)' = SendsOf(o)
      /\ Local \notin qp_error => recv_cq' = recv_cq
      /\ Local \in qp_error => recv_cq' = [recv_cq EXCEPT ![Local] = Append(@, Flushed)]
      /\ wire' = wire /\ send_cq' = send_cq /\ qp_error' = qp_error
  BY <1>2, PostRecvFacts
<1>4. recv_cq' = recv_cq
  BY <1>1, <1>3 DEF PostKeyRecv, SendsOK, Registering
<1>11. TypeOK'
  BY <1>1, <1>3, <1>4, NamesOfNodes, CodesAreMessages
     DEF PostKeyRecv, remoteVars, localVars, TypeOK, LocalPhases, ThreadPhases, RemotePhases
<1>12. LocalOK'
  BY <1>1, <1>3, <1>4, NamesOfNodes, CodesAreMessages
     DEF PostKeyRecv, remoteVars, localVars, LocalOK, Registering, Leaving
<1>13. SendsOK'
  BY <1>1, <1>3, <1>4, NamesOfNodes, CodesAreMessages
     DEF PostKeyRecv, remoteVars, localVars, SendsOK, Registering, Polling
<1>14. RemoteOK'
  BY <1>1, <1>3, <1>4, NamesOfNodes, CodesAreMessages
     DEF PostKeyRecv, remoteVars, localVars, RemoteOK, Leaving, Registering
<1>15. KeysOK'
  BY <1>1, <1>3, <1>4, NamesOfNodes, CodesAreMessages
     DEF PostKeyRecv, remoteVars, localVars, KeysOK, Registering
<1> QED
  BY <1>11, <1>12, <1>13, <1>14, <1>15 DEF NodesInv

LEMMA ReceiveKeyKeeps ==
  ASSUME NodesInv, ReceiveKey
  PROVE  NodesInv'
<1>1. TypeOK /\ LocalOK /\ SendsOK /\ RemoteOK /\ KeysOK
  BY DEF NodesInv
<1>2. QpTypeOK(Message) /\ Local \in Nodes /\ GetRecvComp(Local)
  BY <1>1, NamesOfNodes DEF TypeOK, ReceiveKey
<1>3. /\ QpTypeOK(Message)' /\ recv_cq[Local] # <<>>
      /\ Head(recv_cq[Local]) \in Message \cup {Flushed}
      /\ recv_cq' = [recv_cq EXCEPT ![Local] = Tail(@)]
      /\ \A o \in Nodes : SendsOf(o)' = SendsOf(o)
      /\ wire' = wire /\ recvs' = recvs /\ send_cq' = send_cq /\ qp_error' = qp_error
  BY <1>2, GetRecvCompFacts
<1>4. /\ lpc = "reg_wait" /\ lpc \in Registering /\ recv_cq[Local] \in Seq(Message \cup {Flushed})
      /\ keys \in Seq(Nat) /\ mr_arr \in Seq(Nat) /\ wire[Remote] \in Seq(Message)
  BY <1>1, NodesTyped, NamesOfNodes DEF ReceiveKey, Registering
<1>5. /\ Len(recv_cq[Local]) \in Nat /\ Len(recv_cq[Local]) >= 1
      /\ Head(recv_cq[Local]) = recv_cq[Local][1]
      /\ Len(Tail(recv_cq[Local])) = Len(recv_cq[Local]) - 1
      /\ \A k \in 1 .. Len(recv_cq[Local]) - 1 : Tail(recv_cq[Local])[k] = recv_cq[Local][k + 1]
  BY <1>3, <1>4, HeadTailProperties
<1>6. Head(recv_cq[Local]).key = Len(keys) + 1 /\ Len(keys) \in Nat
  <2>1. 1 \in 1 .. Len(recv_cq[Local])
    BY <1>5
  <2> QED
    BY <1>1, <1>4, <1>5, <2>1 DEF KeysOK
<1>7. /\ keys' = Append(keys, Len(keys) + 1) /\ keys' \in Seq(Nat) /\ Len(keys') = Len(keys) + 1
      /\ \A k \in 1 .. Len(keys) : keys'[k] = keys[k]
      /\ keys'[Len(keys) + 1] = Len(keys) + 1
  <2>1. keys' = Append(keys, Len(keys) + 1) /\ Len(keys) + 1 \in Nat
    BY <1>6 DEF ReceiveKey
  <2> QED
    BY <1>4, <2>1, AppendProperties
<1>8. lpc' \in {"reg_mr", "threads"} /\ tpc' = [t \in Threads |-> IF lpc' = "threads" THEN "start" ELSE tpc[t]]
  BY DEF ReceiveKey
<1>9. recv_cq'[Local] = Tail(recv_cq[Local]) /\ recv_cq'[Remote] = recv_cq[Remote]
  BY <1>1, <1>3, NamesOfNodes DEF TypeOK, QpTypeOK
<1>11. TypeOK'
  BY <1>1, <1>3, <1>7, <1>8, NamesOfNodes, CodesAreMessages
     DEF ReceiveKey, remoteVars, localVars, TypeOK, LocalPhases, ThreadPhases, RemotePhases
<1>12. LocalOK'
  BY <1>1, <1>3, <1>4, <1>8, NamesOfNodes, CodesAreMessages
     DEF ReceiveKey, remoteVars, localVars, LocalOK, Registering, Leaving
<1>13. SendsOK'
  <2>1. qp_error' = {} /\ SendsOf(Local)' = 0 /\ ops' = <<>>
    BY <1>1, <1>3, <1>4, NamesOfNodes DEF SendsOK, ReceiveKey
  <2>2. ASSUME lpc' = "threads"
        PROVE  wire'[Local] = <<>> /\ Len(ops') + send_cq'[Local] = Cardinality(Polling')
    <3>1. wire[Local] \in Seq(Message) /\ send_cq[Local] \in Nat /\ Len(wire[Local]) + send_cq[Local] = 0
      BY <1>1, <1>3, <2>1, NodesTyped, NamesOfNodes DEF SendsOf
    <3>2. wire[Local] = <<>> /\ send_cq[Local] = 0
      <4>1. Len(wire[Local]) = 0 /\ send_cq[Local] = 0
        <5>1. \A a, b \in Nat : a + b = 0 => a = 0 /\ b = 0
          OBVIOUS
        <5>2. Len(wire[Local]) \in Nat
          BY <3>1
        <5> QED
          BY <3>1, <5>1, <5>2
      <4> QED
        BY <3>1, <4>1, EmptySeq
    <3>3. Polling' = {}
      BY <1>8, <2>2 DEF Polling
    <3>4. Len(ops') = 0 /\ Cardinality({}) = 0
      BY <2>1, FS_EmptySet
    <3> QED
      BY <1>3, <3>2, <3>3, <3>4
  <2> QED
    BY <1>8, <2>1, <2>2 DEF SendsOK, Registering
<1>14. RemoteOK'
  BY <1>1, <1>3, <1>4, <1>8, <1>9, NamesOfNodes, CodesAreMessages
     DEF ReceiveKey, remoteVars, localVars, RemoteOK, Leaving, Registering
<1>15. KeysOK'
  <2>1. \A k \in 1 .. Len(keys') : keys'[k] = k
    BY <1>1, <1>6, <1>7 DEF KeysOK
  <2>2. Len(keys) + Len(recv_cq[Local]) + Len(wire[Remote]) = Len(mr_arr)
    BY <1>1, <1>4 DEF KeysOK
  <2>3. mr_arr' = mr_arr /\ rpc' = rpc /\ wire' = wire /\ Len(wire[Remote]) \in Nat
    BY <1>3, <1>4 DEF ReceiveKey, remoteVars
  <2>4. /\ Len(keys') = Len(keys) + 1 /\ Len(keys) \in Nat
        /\ Len(recv_cq'[Local]) = Len(recv_cq[Local]) - 1
        /\ Len(recv_cq[Local]) \in Nat /\ Len(recv_cq[Local]) >= 1
    BY <1>5, <1>6, <1>7, <1>9
  <2>8. Len(keys') + Len(recv_cq'[Local]) = Len(keys) + Len(recv_cq[Local])
    <3>1. \A a, b \in Nat : b >= 1 => (a + 1) + (b - 1) = a + b
      OBVIOUS
    <3> QED
      BY <2>4, <3>1
  <2>9. Len(keys') + Len(recv_cq'[Local]) + Len(wire'[Remote]) = Len(mr_arr')
    BY <2>2, <2>3, <2>8
  <2>5. Len(keys') <= Len(mr_arr')
    <3>1. \A a, b, c \in Nat : b >= 1 => a + 1 <= a + b + c
      OBVIOUS
    <3> QED
      BY <2>2, <2>3, <2>4, <3>1
  <2>6. ASSUME NEW k \in 1 .. Len(recv_cq'[Local])
        PROVE  recv_cq'[Local][k] # Flushed /\ recv_cq'[Local][k].key = Len(keys') + k
    <3>1. k + 1 \in 1 .. Len(recv_cq[Local]) /\ recv_cq'[Local][k] = recv_cq[Local][k + 1]
      BY <1>5, <1>9, <2>6
    <3>2. recv_cq[Local][k + 1] # Flushed /\ recv_cq[Local][k + 1].key = Len(keys) + (k + 1)
      BY <1>1, <1>4, <3>1 DEF KeysOK
    <3>3. Len(keys) + (k + 1) = Len(keys') + k
      <4>1. k \in Nat
        BY <2>4, <2>6
      <4>2. \A a, b \in Nat : a + (b + 1) = (a + 1) + b
        OBVIOUS
      <4> QED
        BY <2>4, <4>1, <4>2
    <3> QED
      BY <3>1, <3>2, <3>3
  <2>7. ASSUME NEW k \in 1 .. Len(wire'[Remote])
        PROVE  wire'[Remote][k].key = Len(keys') + Len(recv_cq'[Local]) + k
    <3>1. wire[Remote][k].key = Len(keys) + Len(recv_cq[Local]) + k
      BY <1>1, <1>3, <1>4, <2>7 DEF KeysOK
    <3> QED
      BY <2>3, <2>8, <3>1
  <2> QED
    BY <2>1, <2>5, <2>6, <2>7, <2>9 DEF KeysOK
<1> QED
  BY <1>11, <1>12, <1>13, <1>14, <1>15 DEF NodesInv

(* Joined threads have taken a completion for everything they posted.      *)
LEMMA JoinedDone ==
  ASSUME NodesInv, lpc = "threads", Joined
  PROVE  ops = <<>> /\ send_cq[Local] = 0 /\ wire[Local] = <<>>
<1>1. Polling = {}
  BY DEF Joined, Polling
<1>2. Len(ops) + send_cq[Local] = 0 /\ wire[Local] = <<>>
  BY <1>1, FS_EmptySet DEF NodesInv, SendsOK
<1>3. ops \in Seq(Op) /\ Len(ops) \in Nat /\ send_cq[Local] \in Nat
  BY NodesTyped, NamesOfNodes DEF NodesInv
<1>4. \A a, b \in Nat : a + b = 0 => a = 0 /\ b = 0
  OBVIOUS
<1>5. Len(ops) = 0 /\ send_cq[Local] = 0
  BY <1>2, <1>3, <1>4
<1> QED
  BY <1>2, <1>3, <1>5, EmptySeq

LEMMA SendExitKeeps ==
  ASSUME NodesInv, SendExit
  PROVE  NodesInv'
<1>1. TypeOK /\ LocalOK /\ SendsOK /\ RemoteOK /\ KeysOK
  BY DEF NodesInv
<1>2. PostSend(Local, Code("EXIT")) /\ Code("EXIT") \in Message
  BY <1>1, CodesAreMessages DEF SendExit, SendCommCode, Codes, TypeOK
<1>3. QpTypeOK(Message) /\ Local \in Nodes
  BY <1>1, NamesOfNodes DEF TypeOK
<1>4. /\ QpTypeOK(Message)' /\ SendsOf(Local)' = SendsOf(Local) + 1
      /\ \A o \in Nodes : o # Local => SendsOf(o)' = SendsOf(o)
      /\ Local \notin qp_error => wire' = [wire EXCEPT ![Local] = Append(@, Code("EXIT"))]
      /\ Local \in qp_error => wire' = wire
      /\ recvs' = recvs /\ recv_cq' = recv_cq /\ qp_error' = qp_error
  BY <1>2, <1>3, PostSendFacts
<1>11. TypeOK'
  BY <1>1, <1>4, NamesOfNodes, CodesAreMessages
     DEF SendExit, SendCommCode, remoteVars, localVars, TypeOK, LocalPhases, ThreadPhases, RemotePhases
<1>12. LocalOK'
  <2>1. lpc' = "exit_sent" /\ tpc' = tpc /\ local_mr' = local_mr /\ Joined
    BY DEF SendExit, SendCommCode
  <2> QED
    BY <1>1, <2>1 DEF LocalOK, Registering, Leaving, Joined
<1>13. SendsOK'
  <2>1. ops = <<>> /\ lpc' = "exit_sent" /\ ops' = ops
    BY JoinedDone DEF SendExit, SendCommCode
  <2> QED
    BY <2>1 DEF SendsOK, Registering
<1>14. RemoteOK'
  <2>1. wire'[Remote] = wire[Remote]
    BY <1>1, <1>4, NamesOfNodes DEF TypeOK, QpTypeOK
  <2> QED
    BY <1>1, <1>4, <2>1 DEF SendExit, SendCommCode, remoteVars, RemoteOK, Registering, Leaving
<1>15. KeysOK'
  <2>1. wire'[Remote] = wire[Remote]
    BY <1>1, <1>4, NamesOfNodes DEF TypeOK, QpTypeOK
  <2> QED
    BY <1>1, <1>4, <2>1 DEF SendExit, SendCommCode, remoteVars, KeysOK, Registering, Leaving
<1> QED
  BY <1>11, <1>12, <1>13, <1>14, <1>15 DEF NodesInv

LEMMA ExitSentKeeps ==
  ASSUME NodesInv, ExitSent
  PROVE  NodesInv'
<1>1. TypeOK /\ LocalOK /\ SendsOK /\ RemoteOK /\ KeysOK
  BY DEF NodesInv
<1>2. QpTypeOK(Message) /\ Local \in Nodes /\ GetSendComp(Local)
  BY <1>1, NamesOfNodes DEF TypeOK, ExitSent
<1>3. /\ QpTypeOK(Message)' /\ SendsOf(Local) >= 1 /\ SendsOf(Local)' = SendsOf(Local) - 1
      /\ \A o \in Nodes : o # Local => SendsOf(o)' = SendsOf(o)
      /\ wire' = wire /\ recvs' = recvs /\ recv_cq' = recv_cq /\ qp_error' = qp_error
  BY <1>2, GetSendCompFacts
<1>11. TypeOK'
  BY <1>1, <1>3, NamesOfNodes, CodesAreMessages
     DEF ExitSent, remoteVars, localVars, TypeOK, LocalPhases, ThreadPhases, RemotePhases
<1>12. LocalOK'
  BY <1>1, <1>3, NamesOfNodes, CodesAreMessages
     DEF ExitSent, remoteVars, localVars, LocalOK, Registering, Leaving
<1>13. SendsOK'
  BY <1>1, <1>3, NamesOfNodes, CodesAreMessages
     DEF ExitSent, remoteVars, localVars, SendsOK, Registering, Polling
<1>14. RemoteOK'
  BY <1>1, <1>3, NamesOfNodes, CodesAreMessages
     DEF ExitSent, remoteVars, localVars, RemoteOK, Leaving, Registering
<1>15. KeysOK'
  BY <1>1, <1>3, NamesOfNodes, CodesAreMessages
     DEF ExitSent, remoteVars, localVars, KeysOK, Registering
<1> QED
  BY <1>11, <1>12, <1>13, <1>14, <1>15 DEF NodesInv

(* The threads.                                                            *)

LEMMA RegLocalMrKeeps ==
  ASSUME NodesInv, NEW t \in Threads, RegLocalMr(t)
  PROVE  NodesInv'
<1>1. TypeOK /\ LocalOK /\ SendsOK /\ RemoteOK /\ KeysOK
  BY DEF NodesInv
<1>2. QpTypeOK(Message)' /\ \A n \in Nodes : SendsOf(n)' = SendsOf(n)
  BY <1>1 DEF RegLocalMr, qpVars, TypeOK, QpTypeOK, SendsOf
<1>11. TypeOK'
  BY <1>1, <1>2, NamesOfNodes, CodesAreMessages
     DEF RegLocalMr, remoteVars, localVars, qpVars, TypeOK, LocalPhases, ThreadPhases, RemotePhases
<1>12. LocalOK'
  BY <1>1, <1>2, NamesOfNodes, CodesAreMessages
     DEF RegLocalMr, remoteVars, localVars, qpVars, LocalOK, Registering, Leaving
<1>13. SendsOK'
  <2>1. tpc' = [tpc EXCEPT ![t] = "write"] /\ tpc[t] = "start" /\ tpc \in [Threads -> ThreadPhases]
    BY <1>1 DEF RegLocalMr, TypeOK
  <2>2. Polling' = Polling
    BY <2>1 DEF Polling
  <2>3. lpc' = lpc /\ ops' = ops /\ wire' = wire /\ send_cq' = send_cq /\ qp_error' = qp_error
    BY DEF RegLocalMr, qpVars
  <2>4. SendsOf(Local)' = SendsOf(Local)
    BY <1>2, NamesOfNodes
  <2> QED
    BY <1>1, <2>2, <2>3, <2>4 DEF SendsOK
<1>14. RemoteOK'
  BY <1>1, <1>2, NamesOfNodes, CodesAreMessages
     DEF RegLocalMr, remoteVars, localVars, qpVars, RemoteOK, Leaving, Registering
<1>15. KeysOK'
  BY <1>1, <1>2, NamesOfNodes, CodesAreMessages
     DEF RegLocalMr, remoteVars, localVars, qpVars, KeysOK, Registering
<1> QED
  BY <1>11, <1>12, <1>13, <1>14, <1>15 DEF NodesInv

LEMMA PostOpKeeps ==
  ASSUME NodesInv, NEW t \in Threads, PostOp(t)
  PROVE  NodesInv'
<1>1. TypeOK /\ LocalOK /\ SendsOK /\ RemoteOK /\ KeysOK
  BY DEF NodesInv
<1>2. lpc = "threads" /\ lpc \notin Registering /\ lpc \notin Leaving
  BY <1>1 DEF PostOp, LocalOK, Registering, Leaving
<1>3. /\ QpTypeOK(Message) /\ ops \in Seq(Op) /\ Len(ops) \in Nat
      /\ send_cq \in [Nodes -> Nat] /\ tpc \in [Threads -> ThreadPhases]
      /\ local_mr \in Threads \cup {NoMr}
  BY <1>1, NodesTyped DEF TypeOK, QpTypeOK
<1>4. /\ tpc[t] \in {"write", "read"} /\ tpc'[t] \in {"write_poll", "read_poll"}
      /\ tpc' \in [Threads -> ThreadPhases] /\ \A u \in Threads \ {t} : tpc'[u] = tpc[u]
  BY <1>3 DEF PostOp, ThreadPhases
<1>5. lpc' = lpc /\ wire' = wire /\ recvs' = recvs /\ recv_cq' = recv_cq /\ qp_error' = qp_error
  BY DEF PostOp
<1>6. local_mr \in Threads
  BY <1>1, <1>2, <1>4 DEF LocalOK
<1>7. [thread |-> t, kind |-> tpc[t], mr |-> local_mr] \in Op
  BY <1>4, <1>6 DEF Op
<1>8. /\ ops' \in Seq(Op) /\ QpTypeOK(Message)'
      /\ Len(ops') + send_cq'[Local] = (Len(ops) + send_cq[Local]) + 1
  <2>1. CASE Local \in qp_error
    <3>1. send_cq' = [send_cq EXCEPT ![Local] = @ + 1] /\ ops' = ops
      BY <2>1 DEF PostOp
    <3>2. send_cq' \in [Nodes -> Nat] /\ send_cq'[Local] = send_cq[Local] + 1 /\ send_cq[Local] \in Nat
      BY <1>3, <3>1, NamesOfNodes
    <3>3. \A a, b \in Nat : a + (b + 1) = (a + b) + 1
      OBVIOUS
    <3> QED
      BY <1>3, <1>5, <3>1, <3>2, <3>3 DEF QpTypeOK
  <2>2. CASE Local \notin qp_error
    <3>1. ops' = Append(ops, [thread |-> t, kind |-> tpc[t], mr |-> local_mr]) /\ send_cq' = send_cq
      BY <2>2 DEF PostOp
    <3>2. ops' \in Seq(Op) /\ Len(ops') = Len(ops) + 1
      BY <1>3, <1>7, <3>1, AppendProperties
    <3>3. \A a, b \in Nat : (a + 1) + b = (a + b) + 1
      OBVIOUS
    <3>4. send_cq[Local] \in Nat
      BY <1>3, NamesOfNodes
    <3>5. Len(ops') + send_cq'[Local] = (Len(ops) + send_cq[Local]) + 1
      BY <1>3, <3>1, <3>2, <3>3, <3>4
    <3>6. QpTypeOK(Message)'
      BY <1>3, <1>5, <3>1 DEF QpTypeOK
    <3> QED
      BY <3>2, <3>5, <3>6
  <2> QED
    BY <2>1, <2>2
<1>11. TypeOK'
  BY <1>1, <1>2, <1>4, <1>5, <1>8, NamesOfNodes, CodesAreMessages
     DEF PostOp, remoteVars, TypeOK, LocalPhases, ThreadPhases, RemotePhases
<1>12. LocalOK'
  BY <1>1, <1>2, <1>4, <1>5, <1>8, NamesOfNodes, CodesAreMessages
     DEF PostOp, remoteVars, LocalOK, Registering, Leaving
<1>13. SendsOK'
  <2>1. Polling \in SUBSET Threads /\ t \notin Polling
    BY <1>4 DEF Polling
  <2>2. Polling' = Polling \cup {t}
    BY <1>4 DEF Polling
  <2>3. Cardinality(Polling') = Cardinality(Polling) + 1
    BY <2>1, <2>2, PollingFacts
  <2> QED
    BY <1>1, <1>2, <1>5, <1>8, <2>3 DEF SendsOK
<1>14. RemoteOK'
  BY <1>1, <1>2, <1>4, <1>5, <1>8, NamesOfNodes, CodesAreMessages
     DEF PostOp, remoteVars, RemoteOK, Leaving, Registering
<1>15. KeysOK'
  BY <1>1, <1>2, <1>4, <1>5, <1>8, NamesOfNodes, CodesAreMessages
     DEF PostOp, remoteVars, KeysOK, Registering
<1> QED
  BY <1>11, <1>12, <1>13, <1>14, <1>15 DEF NodesInv

LEMMA PollKeeps ==
  ASSUME NodesInv, NEW t \in Threads, Poll(t)
  PROVE  NodesInv'
<1>1. TypeOK /\ LocalOK /\ SendsOK /\ RemoteOK /\ KeysOK
  BY DEF NodesInv
<1>2. QpTypeOK(Message) /\ Local \in Nodes /\ GetSendComp(Local)
  BY <1>1, NamesOfNodes DEF TypeOK, Poll
<1>3. /\ QpTypeOK(Message)' /\ SendsOf(Local) >= 1 /\ SendsOf(Local)' = SendsOf(Local) - 1
      /\ \A o \in Nodes : o # Local => SendsOf(o)' = SendsOf(o)
      /\ wire' = wire /\ recvs' = recvs /\ recv_cq' = recv_cq /\ qp_error' = qp_error
  BY <1>2, GetSendCompFacts
<1>11. TypeOK'
  BY <1>1, <1>3, NamesOfNodes, CodesAreMessages
     DEF Poll, remoteVars, localVars, TypeOK, LocalPhases, ThreadPhases, RemotePhases
<1>12. LocalOK'
  BY <1>1, <1>3, NamesOfNodes, CodesAreMessages
     DEF Poll, remoteVars, localVars, LocalOK, Registering, Leaving
<1>13. SendsOK'
  <2>1. lpc = "threads" /\ lpc \notin Registering /\ lpc \notin Leaving
    BY <1>1 DEF Poll, LocalOK, Registering, Leaving
  <2>2. /\ tpc[t] \in {"write_poll", "read_poll"} /\ tpc'[t] \in {"read", "end"}
        /\ \A u \in Threads \ {t} : tpc'[u] = tpc[u]
    BY <1>1 DEF Poll, TypeOK
  <2>3. Polling \in SUBSET Threads /\ t \in Polling /\ Polling' = Polling \ {t}
    BY <2>2 DEF Polling
  <2>4. Cardinality(Polling') = Cardinality(Polling) - 1 /\ Cardinality(Polling) \in Nat
    BY <2>3, PollingFacts
  <2>5. /\ send_cq[Local] > 0 /\ send_cq[Local] \in Nat /\ send_cq'[Local] = send_cq[Local] - 1
        /\ Len(ops) \in Nat /\ lpc' = lpc /\ ops' = ops /\ wire' = wire
    BY <1>1, NodesTyped, NamesOfNodes DEF Poll, GetSendComp, TypeOK, QpTypeOK
  <2>6. \A a, b, c \in Nat : b > 0 /\ a + b = c => a + (b - 1) = c - 1
    OBVIOUS
  <2>7. Len(ops) + send_cq[Local] = Cardinality(Polling) /\ wire[Local] = <<>>
    BY <1>1, <2>1 DEF SendsOK
  <2>8. Len(ops') + send_cq'[Local] = Cardinality(Polling')
    BY <2>4, <2>5, <2>6, <2>7
  <2> QED
    BY <2>1, <2>5, <2>7, <2>8 DEF SendsOK
<1>14. RemoteOK'
  BY <1>1, <1>3, NamesOfNodes, CodesAreMessages
     DEF Poll, remoteVars, localVars, RemoteOK, Leaving, Registering
<1>15. KeysOK'
  BY <1>1, <1>3, NamesOfNodes, CodesAreMessages
     DEF Poll, remoteVars, localVars, KeysOK, Registering
<1> QED
  BY <1>11, <1>12, <1>13, <1>14, <1>15 DEF NodesInv

(* The remote node.                                                        *)

LEMMA StartRemoteKeeps ==
  ASSUME NodesInv, StartRemote
  PROVE  NodesInv'
<1>1. TypeOK /\ LocalOK /\ SendsOK /\ RemoteOK /\ KeysOK
  BY DEF NodesInv
<1>2. QpTypeOK(Message)' /\ \A n \in Nodes : SendsOf(n)' = SendsOf(n)
  BY <1>1 DEF StartRemote, qpVars, TypeOK, QpTypeOK, SendsOf
<1>11. TypeOK'
  BY <1>1, <1>2, NamesOfNodes, CodesAreMessages
     DEF StartRemote, remoteVars, localVars, qpVars, TypeOK, LocalPhases, ThreadPhases, RemotePhases
<1>12. LocalOK'
  BY <1>1, <1>2, NamesOfNodes, CodesAreMessages
     DEF StartRemote, remoteVars, localVars, qpVars, LocalOK, Registering, Leaving
<1>13. SendsOK'
  BY <1>1, <1>2, NamesOfNodes, CodesAreMessages
     DEF StartRemote, remoteVars, localVars, qpVars, SendsOK, Registering, Polling
<1>14. RemoteOK'
  BY <1>1, <1>2, NamesOfNodes, CodesAreMessages
     DEF StartRemote, remoteVars, localVars, qpVars, RemoteOK, Leaving, Registering
<1>15. KeysOK'
  BY <1>1, <1>2, NamesOfNodes, CodesAreMessages
     DEF StartRemote, remoteVars, localVars, qpVars, KeysOK, Registering
<1> QED
  BY <1>11, <1>12, <1>13, <1>14, <1>15 DEF NodesInv

LEMMA ConnectKeeps ==
  ASSUME NodesInv, Connect
  PROVE  NodesInv'
<1>1. TypeOK /\ LocalOK /\ SendsOK /\ RemoteOK /\ KeysOK
  BY DEF NodesInv
<1>2. QpTypeOK(Message)' /\ \A n \in Nodes : SendsOf(n)' = SendsOf(n)
  BY <1>1 DEF Connect, qpVars, TypeOK, QpTypeOK, SendsOf
<1>11. TypeOK'
  BY <1>1, <1>2, NamesOfNodes, CodesAreMessages
     DEF Connect, remoteVars, localVars, qpVars, TypeOK, LocalPhases, ThreadPhases, RemotePhases
<1>12. LocalOK'
  BY <1>1, <1>2, NamesOfNodes, CodesAreMessages
     DEF Connect, remoteVars, localVars, qpVars, LocalOK, Registering, Leaving
<1>13. SendsOK'
  BY <1>1, <1>2, NamesOfNodes, CodesAreMessages
     DEF Connect, remoteVars, localVars, qpVars, SendsOK, Registering, Polling
<1>14. RemoteOK'
  BY <1>1, <1>2, NamesOfNodes, CodesAreMessages
     DEF Connect, remoteVars, localVars, qpVars, RemoteOK, Leaving, Registering
<1>15. KeysOK'
  BY <1>1, <1>2, NamesOfNodes, CodesAreMessages
     DEF Connect, remoteVars, localVars, qpVars, KeysOK, Registering
<1> QED
  BY <1>11, <1>12, <1>13, <1>14, <1>15 DEF NodesInv

LEMMA PostCodeRecvKeeps ==
  ASSUME NodesInv, PostCodeRecv
  PROVE  NodesInv'
<1>1. TypeOK /\ LocalOK /\ SendsOK /\ RemoteOK /\ KeysOK
  BY DEF NodesInv
<1>2. QpTypeOK(Message) /\ Remote \in Nodes /\ PostRecv(Remote)
  BY <1>1, NamesOfNodes DEF TypeOK, PostCodeRecv
<1>3. /\ QpTypeOK(Message)'
      /\ \A o \in Nodes : SendsOf(o)' = SendsOf(o)
      /\ Remote \notin qp_error => recv_cq' = recv_cq
      /\ Remote \in qp_error => recv_cq' = [recv_cq EXCEPT ![Remote] = Append(@, Flushed)]
      /\ wire' = wire /\ send_cq' = send_cq /\ qp_error' = qp_error
  BY <1>2, PostRecvFacts
<1>11. TypeOK'
  BY <1>1, <1>3, NamesOfNodes, CodesAreMessages
     DEF PostCodeRecv, remoteVars, localVars, TypeOK, LocalPhases, ThreadPhases, RemotePhases
<1>12. LocalOK'
  BY <1>1, <1>3, NamesOfNodes, CodesAreMessages
     DEF PostCodeRecv, remoteVars, localVars, LocalOK, Registering, Leaving
<1>13. SendsOK'
  BY <1>1, <1>3, NamesOfNodes, CodesAreMessages
     DEF PostCodeRecv, remoteVars, localVars, SendsOK, Registering, Polling
<1>14. RemoteOK'
  <2>1. recv_cq'[Local] = recv_cq[Local]
    BY <1>1, <1>3, NamesOfNodes DEF TypeOK, QpTypeOK
  <2>2. /\ lpc' = lpc /\ recv_msg' = Empty /\ rpc' = "get_recv" /\ rpc = "post_recv" /\ wire' = wire
    BY <1>3 DEF PostCodeRecv, localVars
  <2>3. ASSUME lpc \notin Leaving PROVE recv_cq'[Remote] \in Seq(NoExit \cup {Flushed})
    <3>1. recv_cq[Remote] \in Seq(NoExit \cup {Flushed})
      BY <1>1, <2>3 DEF RemoteOK
    <3>2. recv_cq'[Remote] = recv_cq[Remote] \/ recv_cq'[Remote] = Append(recv_cq[Remote], Flushed)
      BY <1>1, <1>3, NamesOfNodes DEF TypeOK, QpTypeOK
    <3>3. Flushed \in NoExit \cup {Flushed}
      OBVIOUS
    <3> QED
      BY <3>1, <3>2, <3>3, AppendProperties
  <2> QED
    BY <1>1, <2>1, <2>2, <2>3, CodesAreMessages DEF RemoteOK
<1>15. KeysOK'
  <2>1. recv_cq'[Local] = recv_cq[Local]
    BY <1>1, <1>3, NamesOfNodes DEF TypeOK, QpTypeOK
  <2>2. /\ lpc' = lpc /\ keys' = keys /\ mr_arr' = mr_arr /\ rpc' # "ended" /\ rpc # "ended"
        /\ wire' = wire
    BY <1>3 DEF PostCodeRecv, localVars
  <2> QED
    BY <1>1, <2>1, <2>2 DEF KeysOK
<1> QED
  BY <1>11, <1>12, <1>13, <1>14, <1>15 DEF NodesInv

LEMMA GetCommCodeKeeps ==
  ASSUME NodesInv, GetCommCode
  PROVE  NodesInv'
<1>1. TypeOK /\ LocalOK /\ SendsOK /\ RemoteOK /\ KeysOK
  BY DEF NodesInv
<1>2. QpTypeOK(Message) /\ Remote \in Nodes /\ GetRecvComp(Remote)
  BY <1>1, NamesOfNodes DEF TypeOK, GetCommCode
<1>3. /\ QpTypeOK(Message)' /\ recv_cq[Remote] # <<>>
      /\ Head(recv_cq[Remote]) \in Message \cup {Flushed}
      /\ recv_cq' = [recv_cq EXCEPT ![Remote] = Tail(@)]
      /\ \A o \in Nodes : SendsOf(o)' = SendsOf(o)
      /\ wire' = wire /\ recvs' = recvs /\ send_cq' = send_cq /\ qp_error' = qp_error
  BY <1>2, GetRecvCompFacts
<1>4. /\ rpc = "get_recv" /\ lpc' = lpc /\ keys' = keys /\ mr_arr' = mr_arr /\ ops' = ops
      /\ tpc' = tpc /\ local_mr' = local_mr /\ local_rm_size' = local_rm_size
      /\ rpc' = AfterCode(recv_msg'.code)
      /\ rm_size' = IF recv_msg'.code = "REG_MR" THEN CodeSize(recv_msg') ELSE rm_size
      /\ recv_msg' = IF Head(recv_cq[Remote]) = Flushed THEN recv_msg ELSE Head(recv_cq[Remote])
  BY DEF GetCommCode, localVars
<1>5. /\ recv_msg' \in Message /\ recv_msg'.size \in Nat
  <2>1. recv_msg' \in Message
    BY <1>1, <1>3, <1>4 DEF TypeOK
  <2> QED
    BY <2>1 DEF Message
<1>6. /\ rpc' \in {"cleanup", "reg", "post_recv"}
      /\ recv_msg'.code # "EXIT" => rpc' \in {"reg", "post_recv"}
  <2>1. CASE recv_msg'.code = "EXIT"
    BY <1>4, <2>1 DEF AfterCode
  <2>2. CASE recv_msg'.code = "REG_MR"
    BY <1>4, <2>2 DEF AfterCode
  <2>3. CASE recv_msg'.code \notin {"EXIT", "REG_MR"}
    BY <1>4, <2>3 DEF AfterCode
  <2> QED
    BY <2>1, <2>2, <2>3
<1>7. recv_cq'[Local] = recv_cq[Local] /\ recv_cq'[Remote] = Tail(recv_cq[Remote])
  BY <1>1, <1>3, NamesOfNodes DEF TypeOK, QpTypeOK
<1>11. TypeOK'
  <2>1. rm_size' \in Nat
    BY <1>1, <1>4, <1>5 DEF CodeSize, TypeOK
  <2> QED
    BY <1>1, <1>3, <1>4, <1>5, <1>6, <2>1 DEF TypeOK, RemotePhases
<1>12. LocalOK'
  BY <1>1, <1>3, <1>4, NamesOfNodes, CodesAreMessages
     DEF GetCommCode, remoteVars, localVars, LocalOK, Registering, Leaving
<1>13. SendsOK'
  BY <1>1, <1>3, <1>4, <1>5, <1>6, <1>7, NamesOfNodes, CodesAreMessages
     DEF GetCommCode, remoteVars, localVars, SendsOK, Registering, Polling
<1>14. RemoteOK'
  <2>1. ASSUME lpc \notin Leaving
        PROVE  recv_msg' \in NoExit /\ recv_cq'[Remote] \in Seq(NoExit \cup {Flushed})
    <3>1. recv_msg \in NoExit /\ recv_cq[Remote] \in Seq(NoExit \cup {Flushed})
      BY <1>1, <2>1 DEF RemoteOK
    <3>2. /\ Head(recv_cq[Remote]) \in NoExit \cup {Flushed}
          /\ Tail(recv_cq[Remote]) \in Seq(NoExit \cup {Flushed})
      BY <1>3, <3>1, HeadTailProperties
    <3> QED
      BY <1>4, <1>7, <3>1, <3>2
  <2>2. ASSUME lpc \notin Leaving PROVE rpc' \in {"reg", "post_recv"}
    BY <1>6, <2>1, <2>2, CodesAreMessages
  <2>3. lpc \notin {"off", "listening"}
    BY <1>1, <1>4 DEF RemoteOK
  <2> QED
    BY <1>1, <1>3, <1>4, <1>6, <2>1, <2>2, <2>3 DEF RemoteOK
<1>15. KeysOK'
  <2> QED
    BY <1>1, <1>3, <1>4, <1>6, <1>7 DEF KeysOK
<1> QED
  BY <1>11, <1>12, <1>13, <1>14, <1>15 DEF NodesInv

LEMMA CreateNewMrKeeps ==
  ASSUME NodesInv, CreateNewMr
  PROVE  NodesInv'
<1>1. TypeOK /\ LocalOK /\ SendsOK /\ RemoteOK /\ KeysOK
  BY DEF NodesInv
<1>2. PostSend(Remote, Key(ReplyKey)) /\ Key(ReplyKey) \in Message
  BY <1>1, CodesAreMessages, NodesTyped DEF CreateNewMr, ReplyKey
<1>3. QpTypeOK(Message) /\ Remote \in Nodes
  BY <1>1, NamesOfNodes DEF TypeOK
<1>4. /\ QpTypeOK(Message)' /\ SendsOf(Remote)' = SendsOf(Remote) + 1
      /\ \A o \in Nodes : o # Remote => SendsOf(o)' = SendsOf(o)
      /\ Remote \notin qp_error => wire' = [wire EXCEPT ![Remote] = Append(@, Key(ReplyKey))]
      /\ Remote \in qp_error => wire' = wire
      /\ recvs' = recvs /\ recv_cq' = recv_cq /\ qp_error' = qp_error
  BY <1>2, <1>3, PostSendFacts
<1>11. TypeOK'
  <2>1. mr_arr' \in Seq(Nat)
    <3>1. mr_arr \in Seq(Nat) /\ rm_size \in Nat /\ mr_arr' = Append(mr_arr, rm_size)
      BY <1>1 DEF TypeOK, CreateNewMr
    <3> QED
      BY <3>1, AppendProperties
  <2> QED
    BY <1>1, <1>4, <2>1 DEF CreateNewMr, localVars, TypeOK, RemotePhases
<1>12. LocalOK'
  BY <1>1, <1>4, NamesOfNodes, CodesAreMessages
     DEF CreateNewMr, remoteVars, localVars, LocalOK, Registering, Leaving
<1>13. SendsOK'
  <2>1. wire'[Local] = wire[Local]
    BY <1>1, <1>4, NamesOfNodes DEF TypeOK, QpTypeOK
  <2>2. send_cq'[Local] = send_cq[Local]
    BY <1>1, <1>2, NamesOfNodes DEF TypeOK, QpTypeOK, PostSend
  <2>3. lpc' = lpc /\ tpc' = tpc /\ ops' = ops
    BY DEF CreateNewMr, localVars
  <2>4. SendsOf(Local)' = SendsOf(Local)
    BY <1>4, NamesOfNodes
  <2>5. Polling' = Polling
    BY <2>3 DEF Polling
  <2> QED
    BY <1>1, <1>4, <2>1, <2>2, <2>3, <2>4, <2>5 DEF SendsOK
<1>14. RemoteOK'
  <2>1. wire'[Local] = wire[Local]
    BY <1>1, <1>4, NamesOfNodes DEF TypeOK, QpTypeOK
  <2>2. rpc = "reg" /\ rpc' = "reply_sent" /\ lpc' = lpc /\ recv_msg' = recv_msg
    BY DEF CreateNewMr, localVars
  <2> QED
    BY <1>1, <1>4, <2>1, <2>2 DEF RemoteOK
<1>15. KeysOK'
  <2>1. /\ rpc # "ended" /\ rpc' # "ended" /\ lpc' = lpc /\ keys' = keys
        /\ mr_arr' = Append(mr_arr, rm_size) /\ recv_cq' = recv_cq
    BY <1>4 DEF CreateNewMr, localVars
  <2>2. /\ mr_arr \in Seq(Nat) /\ Len(mr_arr) \in Nat /\ rm_size \in Nat /\ keys \in Seq(Nat)
        /\ wire[Remote] \in Seq(Message) /\ recv_cq[Local] \in Seq(Message \cup {Flushed})
        /\ Len(keys) \in Nat /\ Len(recv_cq[Local]) \in Nat /\ Len(wire[Remote]) \in Nat
    BY <1>1, NodesTyped, NamesOfNodes DEF TypeOK
  <2>3. Len(mr_arr') = Len(mr_arr) + 1
    BY <2>1, <2>2, AppendProperties
  <2>4. Len(keys') <= Len(mr_arr')
    <3>1. Len(keys) <= Len(mr_arr)
      BY <1>1, <2>1 DEF KeysOK
    <3> QED
      BY <2>1, <2>2, <2>3, <3>1
  <2>5. ASSUME lpc \in Registering
        PROVE  /\ Len(keys') + Len(recv_cq'[Local]) + Len(wire'[Remote]) = Len(mr_arr')
               /\ \A k \in 1 .. Len(wire'[Remote]) :
                    wire'[Remote][k].key = Len(keys') + Len(recv_cq'[Local]) + k
    <3>1. Len(keys) + Len(recv_cq[Local]) + Len(wire[Remote]) = Len(mr_arr)
      BY <1>1, <2>5 DEF KeysOK
    <3>2. Remote \notin qp_error
      BY <1>1, <2>5 DEF SendsOK
    <3>3. wire'[Remote] = Append(wire[Remote], Key(ReplyKey))
      BY <1>1, <1>4, <3>2, NamesOfNodes DEF TypeOK, QpTypeOK
    <3>4. /\ Len(wire'[Remote]) = Len(wire[Remote]) + 1
          /\ wire'[Remote][Len(wire[Remote]) + 1] = Key(ReplyKey)
          /\ \A k \in 1 .. Len(wire[Remote]) : wire'[Remote][k] = wire[Remote][k]
      BY <1>2, <2>2, <3>3, AppendProperties
    <3>5. \A a, b \in Nat : a + (b + 1) = (a + b) + 1
      OBVIOUS
    <3>6. Len(keys) + Len(recv_cq[Local]) \in Nat
      BY <2>2
    <3>7. Len(keys) + Len(recv_cq[Local]) + (Len(wire[Remote]) + 1) = Len(mr_arr) + 1
      BY <2>2, <3>1, <3>5, <3>6
    <3>8. Key(ReplyKey).key = Len(mr_arr) + 1 /\ ReplyKey = Len(mr_arr) + 1
      BY <2>2, CodesAreMessages DEF ReplyKey
    <3>9. ASSUME NEW k \in 1 .. Len(wire'[Remote])
          PROVE  wire'[Remote][k].key = Len(keys) + Len(recv_cq[Local]) + k
      <4>1. CASE k = Len(wire[Remote]) + 1
        BY <3>4, <3>7, <3>8, <4>1
      <4>2. CASE k # Len(wire[Remote]) + 1
        <5>1. k \in 1 .. Len(wire[Remote])
          BY <2>2, <3>4, <3>9, <4>2
        <5> QED
          BY <1>1, <2>5, <3>4, <5>1 DEF KeysOK
      <4> QED
        BY <4>1, <4>2
    <3> QED
      BY <2>1, <2>3, <3>4, <3>7, <3>9
  <2> QED
    BY <1>1, <2>1, <2>4, <2>5 DEF KeysOK
<1> QED
  BY <1>11, <1>12, <1>13, <1>14, <1>15 DEF NodesInv

LEMMA RegFailsKeeps ==
  ASSUME NodesInv, RegFails
  PROVE  NodesInv'
<1>1. TypeOK /\ LocalOK /\ SendsOK /\ RemoteOK /\ KeysOK
  BY DEF NodesInv
<1>2. QpTypeOK(Message)' /\ \A n \in Nodes : SendsOf(n)' = SendsOf(n)
  BY <1>1 DEF RegFails, qpVars, TypeOK, QpTypeOK, SendsOf
<1>11. TypeOK'
  BY <1>1, <1>2, NamesOfNodes, CodesAreMessages
     DEF RegFails, remoteVars, localVars, qpVars, TypeOK, LocalPhases, ThreadPhases, RemotePhases
<1>12. LocalOK'
  BY <1>1, <1>2, NamesOfNodes, CodesAreMessages
     DEF RegFails, remoteVars, localVars, qpVars, LocalOK, Registering, Leaving
<1>13. SendsOK'
  BY <1>1, <1>2, NamesOfNodes, CodesAreMessages
     DEF RegFails, remoteVars, localVars, qpVars, SendsOK, Registering, Polling
<1>14. RemoteOK'
  BY <1>1, <1>2, NamesOfNodes, CodesAreMessages
     DEF RegFails, remoteVars, localVars, qpVars, RemoteOK, Leaving, Registering
<1>15. KeysOK'
  BY <1>1, <1>2, NamesOfNodes, CodesAreMessages
     DEF RegFails, remoteVars, localVars, qpVars, KeysOK, Registering
<1> QED
  BY <1>11, <1>12, <1>13, <1>14, <1>15 DEF NodesInv

LEMMA ReplySentKeeps ==
  ASSUME NodesInv, ReplySent
  PROVE  NodesInv'
<1>1. TypeOK /\ LocalOK /\ SendsOK /\ RemoteOK /\ KeysOK
  BY DEF NodesInv
<1>2. QpTypeOK(Message) /\ Remote \in Nodes /\ GetSendComp(Remote)
  BY <1>1, NamesOfNodes DEF TypeOK, ReplySent
<1>3. /\ QpTypeOK(Message)' /\ SendsOf(Remote) >= 1 /\ SendsOf(Remote)' = SendsOf(Remote) - 1
      /\ \A o \in Nodes : o # Remote => SendsOf(o)' = SendsOf(o)
      /\ wire' = wire /\ recvs' = recvs /\ recv_cq' = recv_cq /\ qp_error' = qp_error
  BY <1>2, GetSendCompFacts
<1>11. TypeOK'
  BY <1>1, <1>3, NamesOfNodes, CodesAreMessages
     DEF ReplySent, remoteVars, localVars, TypeOK, LocalPhases, ThreadPhases, RemotePhases
<1>12. LocalOK'
  BY <1>1, <1>3, NamesOfNodes, CodesAreMessages
     DEF ReplySent, remoteVars, localVars, LocalOK, Registering, Leaving
<1>13. SendsOK'
  <2>1. send_cq'[Local] = send_cq[Local]
    BY <1>1, <1>2, NamesOfNodes DEF TypeOK, QpTypeOK, GetSendComp
  <2>2. lpc' = lpc /\ tpc' = tpc /\ ops' = ops /\ wire' = wire /\ qp_error' = qp_error
    BY <1>3 DEF ReplySent, localVars
  <2>3. SendsOf(Local)' = SendsOf(Local)
    BY <1>3, NamesOfNodes
  <2>4. Polling' = Polling
    BY <2>2 DEF Polling
  <2> QED
    BY <1>1, <2>1, <2>2, <2>3, <2>4 DEF SendsOK
<1>14. RemoteOK'
  BY <1>1, <1>3, NamesOfNodes, CodesAreMessages
     DEF ReplySent, remoteVars, localVars, RemoteOK, Leaving, Registering
<1>15. KeysOK'
  BY <1>1, <1>3, NamesOfNodes, CodesAreMessages
     DEF ReplySent, remoteVars, localVars, KeysOK, Registering
<1> QED
  BY <1>11, <1>12, <1>13, <1>14, <1>15 DEF NodesInv

LEMMA CleanupKeeps ==
  ASSUME NodesInv, Cleanup
  PROVE  NodesInv'
<1>1. TypeOK /\ LocalOK /\ SendsOK /\ RemoteOK /\ KeysOK
  BY DEF NodesInv
<1>2. QpTypeOK(Message)' /\ \A n \in Nodes : SendsOf(n)' = SendsOf(n)
  BY <1>1 DEF Cleanup, qpVars, TypeOK, QpTypeOK, SendsOf
<1>11. TypeOK'
  BY <1>1, <1>2, NamesOfNodes, CodesAreMessages
     DEF Cleanup, remoteVars, localVars, qpVars, TypeOK, LocalPhases, ThreadPhases, RemotePhases
<1>12. LocalOK'
  BY <1>1, <1>2, NamesOfNodes, CodesAreMessages
     DEF Cleanup, remoteVars, localVars, qpVars, LocalOK, Registering, Leaving
<1>13. SendsOK'
  BY <1>1, <1>2, NamesOfNodes, CodesAreMessages
     DEF Cleanup, remoteVars, localVars, qpVars, SendsOK, Registering, Polling
<1>14. RemoteOK'
  BY <1>1, <1>2, NamesOfNodes, CodesAreMessages
     DEF Cleanup, remoteVars, localVars, qpVars, RemoteOK, Leaving, Registering
<1>15. KeysOK'
  <2>1. /\ rpc = "cleanup" /\ rpc' = "ended" /\ lpc' = lpc /\ keys' = keys
    BY DEF Cleanup, localVars
  <2>2. lpc \notin Registering
    BY <1>1, <2>1 DEF RemoteOK, Leaving, Registering
  <2> QED
    BY <1>1, <2>1, <2>2 DEF KeysOK
<1> QED
  BY <1>11, <1>12, <1>13, <1>14, <1>15 DEF NodesInv

(* The adapters.                                                           *)

LEMMA DeliverMsgKeeps ==
  ASSUME NodesInv, NEW n \in Nodes, DeliverMsg(n)
  PROVE  NodesInv'
<1>1. TypeOK /\ LocalOK /\ SendsOK /\ RemoteOK /\ KeysOK
  BY DEF NodesInv
<1>2. QpTypeOK(Message) /\ Deliver(n) /\ UNCHANGED <<localVars, remoteVars, ops>>
  BY <1>1 DEF TypeOK, DeliverMsg
<1>3. /\ QpTypeOK(Message)'
      /\ qp_error = {} /\ qp_error' = {} /\ wire[n] # <<>>
      /\ Head(wire[n]) \in Message
      /\ wire' = [wire EXCEPT ![n] = Tail(@)]
      /\ recv_cq' = [recv_cq EXCEPT ![Other(n)] = Append(@, Head(wire[n]))]
      /\ send_cq' = [send_cq EXCEPT ![n] = @ + 1]
      /\ \A o \in Nodes : SendsOf(o)' = SendsOf(o)
  BY <1>2, DeliverFacts
<1>4. /\ lpc' = lpc /\ tpc' = tpc /\ keys' = keys /\ local_mr' = local_mr
      /\ local_rm_size' = local_rm_size /\ rpc' = rpc /\ rm_size' = rm_size
      /\ mr_arr' = mr_arr /\ recv_msg' = recv_msg /\ ops' = ops
  BY <1>2 DEF localVars, remoteVars
<1>5. n = Local \/ n = Remote
  BY NamesOfNodes
<1>6. /\ wire'[n] = Tail(wire[n]) /\ wire'[Other(n)] = wire[Other(n)]
      /\ recv_cq'[n] = recv_cq[n] /\ recv_cq'[Other(n)] = Append(recv_cq[Other(n)], Head(wire[n]))
      /\ send_cq'[Other(n)] = send_cq[Other(n)]
      /\ wire[n] \in Seq(Message) /\ recv_cq[Other(n)] \in Seq(Message \cup {Flushed})
  BY <1>2, <1>3, NodesFacts DEF QpTypeOK
<1>11. TypeOK'
  BY <1>1, <1>3, <1>4, NamesOfNodes, CodesAreMessages
     DEF DeliverMsg, TypeOK, LocalPhases, ThreadPhases, RemotePhases
<1>12. LocalOK'
  BY <1>1, <1>3, <1>4, NamesOfNodes, CodesAreMessages
     DEF DeliverMsg, LocalOK, Registering, Leaving
<1>13. SendsOK'
  <2>1. SendsOf(Local)' = SendsOf(Local)
    BY <1>3, NamesOfNodes
  <2>2. Polling' = Polling
    BY <1>4 DEF Polling
  <2>3. ASSUME lpc = "threads" PROVE wire'[Local] = wire[Local] /\ send_cq'[Local] = send_cq[Local]
    <3>1. wire[Local] = <<>>
      BY <1>1, <2>3 DEF SendsOK
    <3>2. n = Remote
      BY <1>3, <1>5, <3>1
    <3> QED
      BY <1>6, <3>2, NamesOfNodes
  <2> QED
    BY <1>1, <1>3, <1>4, <2>1, <2>2, <2>3 DEF SendsOK
<1>14. RemoteOK'
  <2>1. ASSUME lpc \notin Leaving
        PROVE  /\ wire'[Local] \in Seq(NoExit)
               /\ recv_cq'[Remote] \in Seq(NoExit \cup {Flushed})
    <3>1. wire[Local] \in Seq(NoExit) /\ recv_cq[Remote] \in Seq(NoExit \cup {Flushed})
      BY <1>1, <2>1 DEF RemoteOK
    <3>2. CASE n = Local
      <4>1. /\ Head(wire[Local]) \in NoExit \cup {Flushed} /\ Tail(wire[Local]) \in Seq(NoExit)
        BY <1>3, <3>1, <3>2, HeadTailProperties
      <4>2. /\ wire'[Local] = Tail(wire[Local])
            /\ recv_cq'[Remote] = Append(recv_cq[Remote], Head(wire[Local]))
        BY <1>6, <3>2, NamesOfNodes
      <4>3. Append(recv_cq[Remote], Head(wire[Local])) \in Seq(NoExit \cup {Flushed})
        BY <3>1, <4>1, AppendProperties
      <4> QED
        BY <4>1, <4>2, <4>3
    <3>3. CASE n = Remote
      BY <1>6, <3>1, <3>3, NamesOfNodes
    <3> QED
      BY <1>5, <3>2, <3>3
  <2>2. ASSUME lpc \in {"off", "listening"}
        PROVE  wire'[Remote] = <<>> /\ recv_cq'[Local] = <<>>
    <3>1. wire[Remote] = <<>> /\ recv_cq[Local] = <<>>
      BY <1>1, <2>2 DEF RemoteOK
    <3>2. n = Local
      BY <1>3, <1>5, <3>1
    <3> QED
      BY <1>6, <3>1, <3>2, NamesOfNodes
  <2> QED
    BY <1>1, <1>4, <2>1, <2>2 DEF RemoteOK
<1>15. KeysOK'
  <2>1. CASE n = Local
    <3>1. wire'[Remote] = wire[Remote] /\ recv_cq'[Local] = recv_cq[Local]
      BY <1>6, <2>1, NamesOfNodes
    <3> QED
      BY <1>1, <1>4, <3>1 DEF KeysOK
  <2>2. CASE n = Remote
    <3>1. /\ wire'[Remote] = Tail(wire[Remote]) /\ recv_cq'[Local] = Append(recv_cq[Local], Head(wire[Remote]))
          /\ wire[Remote] \in Seq(Message) /\ recv_cq[Local] \in Seq(Message \cup {Flushed})
          /\ wire[Remote] # <<>> /\ Head(wire[Remote]) \in Message
      BY <1>3, <1>6, <2>2, NamesOfNodes
    <3>2. /\ Len(recv_cq'[Local]) = Len(recv_cq[Local]) + 1
          /\ recv_cq'[Local][Len(recv_cq[Local]) + 1] = Head(wire[Remote])
          /\ \A k \in 1 .. Len(recv_cq[Local]) : recv_cq'[Local][k] = recv_cq[Local][k]
      BY <3>1, AppendProperties
    <3>3. /\ Len(wire[Remote]) >= 1 /\ Len(wire'[Remote]) = Len(wire[Remote]) - 1
          /\ Head(wire[Remote]) = wire[Remote][1]
          /\ \A k \in 1 .. Len(wire[Remote]) - 1 : wire'[Remote][k] = wire[Remote][k + 1]
      BY <3>1, HeadTailProperties
    <3>4. Len(keys) \in Nat /\ Len(recv_cq[Local]) \in Nat /\ Len(wire[Remote]) \in Nat
      BY <1>1, NodesTyped, NamesOfNodes
    <3>5. Len(keys) + Len(recv_cq'[Local]) + Len(wire'[Remote]) = Len(keys) + Len(recv_cq[Local]) + Len(wire[Remote])
      <4>1. \A a, b \in Nat : a + (b + 1) = (a + b) + 1 /\ a + b \in Nat
        OBVIOUS
      <4>2. \A a, b \in Nat : b >= 1 => (a + 1) + (b - 1) = a + b
        OBVIOUS
      <4>3. /\ Len(keys) + Len(recv_cq'[Local]) = (Len(keys) + Len(recv_cq[Local])) + 1
            /\ Len(keys) + Len(recv_cq[Local]) \in Nat
        BY <3>2, <3>4, <4>1
      <4> QED
        BY <3>3, <3>4, <4>2, <4>3
    <3>6. ASSUME lpc \in Registering, NEW k \in 1 .. Len(recv_cq'[Local])
          PROVE  recv_cq'[Local][k] # Flushed /\ recv_cq'[Local][k].key = Len(keys) + k
      <4>1. CASE k = Len(recv_cq[Local]) + 1
        <5>1. wire[Remote][1].key = Len(keys) + Len(recv_cq[Local]) + 1
          <6>1. 1 \in 1 .. Len(wire[Remote])
            BY <3>3, <3>4
          <6> QED
            BY <1>1, <3>6, <6>1 DEF KeysOK
        <5>2. Len(keys) + Len(recv_cq[Local]) + 1 = Len(keys) + k
          BY <3>4, <4>1
        <5>3. recv_cq'[Local][k] \in Message
          BY <3>1, <3>2, <4>1
        <5> QED
          BY <3>2, <3>3, <4>1, <5>1, <5>2, <5>3, FlushedNoMessage
      <4>2. CASE k # Len(recv_cq[Local]) + 1
        <5>1. k \in 1 .. Len(recv_cq[Local])
          BY <3>2, <3>4, <3>6, <4>2
        <5> QED
          BY <1>1, <3>2, <3>6, <5>1 DEF KeysOK
      <4> QED
        BY <4>1, <4>2
    <3>7. ASSUME lpc \in Registering, NEW k \in 1 .. Len(wire'[Remote])
          PROVE  wire'[Remote][k].key = Len(keys) + Len(recv_cq'[Local]) + k
      <4>1. k + 1 \in 1 .. Len(wire[Remote]) /\ k \in 1 .. Len(wire[Remote]) - 1
        BY <3>3, <3>4, <3>7
      <4>2. wire[Remote][k + 1].key = Len(keys) + Len(recv_cq[Local]) + (k + 1)
        BY <1>1, <3>7, <4>1 DEF KeysOK
      <4>3. \A a, b \in Nat : a + (b + 1) = (a + b) + 1 /\ a + b \in Nat
        OBVIOUS
      <4>4. \A a, b \in Nat : a + (b + 1) = (a + 1) + b
        OBVIOUS
      <4>5. /\ Len(keys) + Len(recv_cq'[Local]) = (Len(keys) + Len(recv_cq[Local])) + 1
            /\ Len(keys) + Len(recv_cq[Local]) \in Nat
        BY <3>2, <3>4, <4>3
      <4>6. k \in Nat
        BY <4>1
      <4> QED
        BY <3>3, <4>1, <4>2, <4>4, <4>5, <4>6
    <3> QED
      BY <1>1, <1>4, <3>5, <3>6, <3>7 DEF KeysOK
  <2> QED
    BY <1>5, <2>1, <2>2
<1> QED
  BY <1>11, <1>12, <1>13, <1>14, <1>15 DEF NodesInv

LEMMA ExecuteOpKeeps ==
  ASSUME NodesInv, ExecuteOp
  PROVE  NodesInv'
<1>1. TypeOK /\ LocalOK /\ SendsOK /\ RemoteOK /\ KeysOK
  BY DEF NodesInv
<1>2. lpc = "threads" /\ lpc \notin Registering /\ lpc \notin Leaving
  BY <1>1 DEF ExecuteOp, SendsOK, Registering, Leaving
<1>3. /\ QpTypeOK(Message) /\ ops \in Seq(Op) /\ ops # <<>> /\ Len(ops) \in Nat
      /\ send_cq[Local] \in Nat
  BY <1>1, NodesTyped, NamesOfNodes DEF ExecuteOp
<1>4. /\ lpc' = lpc /\ tpc' = tpc /\ keys' = keys /\ local_mr' = local_mr
      /\ local_rm_size' = local_rm_size /\ rpc' = rpc /\ rm_size' = rm_size
      /\ mr_arr' = mr_arr /\ recv_msg' = recv_msg
  BY DEF ExecuteOp, localVars, remoteVars
<1>5. /\ wire' = wire /\ recv_cq' = recv_cq /\ recvs' = recvs /\ qp_error' = qp_error
      /\ send_cq' = [send_cq EXCEPT ![Local] = @ + 1] /\ ops' = Tail(ops)
  BY DEF ExecuteOp
<1>6. QpTypeOK(Message)' /\ send_cq'[Local] = send_cq[Local] + 1
  BY <1>3, <1>5, NamesOfNodes DEF QpTypeOK
<1>7. ops' \in Seq(Op) /\ Len(ops') = Len(ops) - 1 /\ Len(ops) >= 1
  BY <1>3, <1>5, HeadTailProperties
<1>11. TypeOK'
  BY <1>1, <1>2, <1>4, <1>5, <1>6, <1>7, NamesOfNodes, CodesAreMessages
     DEF ExecuteOp, TypeOK, LocalPhases, ThreadPhases, RemotePhases
<1>12. LocalOK'
  BY <1>1, <1>2, <1>4, <1>5, <1>6, <1>7, NamesOfNodes, CodesAreMessages
     DEF ExecuteOp, LocalOK, Registering, Leaving
<1>13. SendsOK'
  <2>1. Len(ops') + send_cq'[Local] = Len(ops) + send_cq[Local]
    <3>1. \A a, b \in Nat : a >= 1 => (a - 1) + (b + 1) = a + b
      OBVIOUS
    <3> QED
      BY <1>3, <1>6, <1>7, <3>1
  <2>2. Polling' = Polling
    BY <1>4 DEF Polling
  <2> QED
    BY <1>1, <1>2, <1>4, <1>5, <2>1, <2>2 DEF SendsOK
<1>14. RemoteOK'
  BY <1>1, <1>2, <1>4, <1>5, <1>6, <1>7, <1>5, NamesOfNodes, CodesAreMessages
     DEF ExecuteOp, RemoteOK, Leaving, Registering
<1>15. KeysOK'
  BY <1>1, <1>2, <1>4, <1>5, <1>6, <1>7, NamesOfNodes, CodesAreMessages
     DEF ExecuteOp, KeysOK, Registering
<1> QED
  BY <1>11, <1>12, <1>13, <1>14, <1>15 DEF NodesInv

LEMMA RefuseOpKeeps ==
  ASSUME NodesInv, RefuseOp
  PROVE  NodesInv'
<1>1. TypeOK /\ LocalOK /\ SendsOK /\ RemoteOK /\ KeysOK
  BY DEF NodesInv
<1>2. lpc = "threads" /\ lpc \notin Registering /\ lpc \notin Leaving
  BY <1>1 DEF RefuseOp, SendsOK, Registering, Leaving
<1>3. /\ QpTypeOK(Message) /\ ops \in Seq(Op) /\ ops # <<>> /\ Len(ops) \in Nat
      /\ send_cq[Local] \in Nat
  BY <1>1, NodesTyped, NamesOfNodes DEF RefuseOp
<1>4. /\ lpc' = lpc /\ tpc' = tpc /\ keys' = keys /\ local_mr' = local_mr
      /\ local_rm_size' = local_rm_size /\ rpc' = rpc /\ rm_size' = rm_size
      /\ mr_arr' = mr_arr /\ recv_msg' = recv_msg
  BY DEF RefuseOp, localVars, remoteVars
<1>5. ops' = <<>> /\ Flush(Nodes, [n \in Nodes |-> IF n = Local THEN Len(ops) ELSE 0])
  BY DEF RefuseOp
<1>6. /\ Nodes \in SUBSET Nodes
      /\ [n \in Nodes |-> IF n = Local THEN Len(ops) ELSE 0] \in [Nodes -> Nat]
  BY <1>3
<1>7. /\ QpTypeOK(Message)' /\ wire'[Local] = <<>>
      /\ SendsOf(Local)' = SendsOf(Local) + Len(ops)
  <2> DEFINE extra == [n \in Nodes |-> IF n = Local THEN Len(ops) ELSE 0]
  <2>1. extra \in [Nodes -> Nat] /\ Flush(Nodes, extra) /\ extra[Local] = Len(ops)
    BY <1>5, <1>6, NamesOfNodes
  <2> HIDE DEF extra
  <2>2. /\ QpTypeOK(Message)'
        /\ \A n \in Nodes : SendsOf(n)' = SendsOf(n) + extra[n] /\ wire'[n] = <<>>
    <3>1. /\ QpTypeOK(Message)'
          /\ \A n \in Nodes : /\ SendsOf(n)' = SendsOf(n) + extra[n]
                              /\ wire'[n] = <<>> /\ recvs'[n] = 0
      BY <1>3, <1>6, <2>1, FlushFacts, ZenonT(60)
    <3> QED
      BY <3>1
  <2> QED
    BY <2>1, <2>2, NamesOfNodes
<1>8. recv_cq[Remote] \in Seq(NoExit \cup {Flushed}) => recv_cq'[Remote] \in Seq(NoExit \cup {Flushed})
  BY <1>3, <1>5, <1>6, NamesOfNodes, FlushedReceives
<1>11. TypeOK'
  BY <1>1, <1>2, <1>4, <1>5, <1>7, <1>8, NamesOfNodes, CodesAreMessages
     DEF RefuseOp, TypeOK, LocalPhases, ThreadPhases, RemotePhases
<1>12. LocalOK'
  BY <1>1, <1>2, <1>4, <1>5, <1>7, <1>8, NamesOfNodes, CodesAreMessages
     DEF RefuseOp, LocalOK, Registering, Leaving
<1>13. SendsOK'
  <2>1. wire[Local] = <<>> /\ Len(ops) + send_cq[Local] = Cardinality(Polling)
    BY <1>1, <1>2 DEF SendsOK
  <2>2. Len(<<>>) = 0 /\ Len(ops') = 0
    BY <1>5
  <2>3. 0 + send_cq'[Local] = (0 + send_cq[Local]) + Len(ops)
    BY <1>7, <2>1, <2>2 DEF SendsOf
  <2>4. send_cq'[Local] \in Nat
    BY <1>7, NamesOfNodes DEF QpTypeOK
  <2>5. \A a, b, c \in Nat : 0 + c = (0 + b) + a => 0 + c = a + b
    OBVIOUS
  <2>6. Len(ops') + send_cq'[Local] = Len(ops) + send_cq[Local]
    BY <1>3, <2>2, <2>3, <2>4, <2>5
  <2>7. Polling' = Polling
    BY <1>4 DEF Polling
  <2> QED
    BY <1>2, <1>4, <1>7, <2>1, <2>6, <2>7 DEF SendsOK
<1>14. RemoteOK'
  <2>1. /\ recv_cq[Remote] \in Seq(NoExit \cup {Flushed}) /\ <<>> \in Seq(NoExit)
        /\ recv_msg \in NoExit
    BY <1>1, <1>2 DEF RemoteOK
  <2>2. lpc \notin {"off", "listening"}
    BY <1>2
  <2> QED
    BY <1>1, <1>2, <1>4, <1>7, <1>8, <2>1, <2>2 DEF RemoteOK
<1>15. KeysOK'
  BY <1>1, <1>2, <1>4, <1>5, <1>7, <1>8, NamesOfNodes, CodesAreMessages
     DEF RefuseOp, KeysOK, Registering
<1> QED
  BY <1>11, <1>12, <1>13, <1>14, <1>15 DEF NodesInv

-----------------------------------------------------------------------------
(* The theorems.                                                           *)

LEMMA NodesNext == NodesInv /\ [Next]_vars => NodesInv'
<1> SUFFICES ASSUME NodesInv, [Next]_vars PROVE NodesInv'
  OBVIOUS
<1>1. CASE Start
  BY <1>1, StartLocalKeeps, StartRemoteKeeps DEF Start
<1>2. CASE Main
  BY <1>2, SendRegMrKeeps, RegMrSentKeeps, PostKeyRecvKeeps, ReceiveKeyKeeps, SendExitKeeps,
     ExitSentKeeps DEF Main
<1>3. CASE RemoteNode
  BY <1>3, ConnectKeeps, PostCodeRecvKeeps, GetCommCodeKeeps, CreateNewMrKeeps, ReplySentKeeps,
     CleanupKeeps DEF RemoteNode
<1>4. CASE RegFails
  BY <1>4, RegFailsKeeps
<1>5. CASE Adapter
  BY <1>5, DeliverMsgKeeps, ExecuteOpKeeps, RefuseOpKeeps DEF Adapter
<1>6. ASSUME NEW t \in Threads, Thread(t) PROVE NodesInv'
  BY <1>6, RegLocalMrKeeps, PostOpKeeps, PollKeeps DEF Thread
<1>7. CASE UNCHANGED vars
  BY <1>7 DEF vars, qpVars, NodesInv, TypeOK, QpTypeOK, LocalOK, SendsOK, SendsOf, Polling,
     RemoteOK, KeysOK
<1> QED
  BY <1>1, <1>2, <1>3, <1>4, <1>5, <1>6, <1>7 DEF Next, Over

(* The invariant holds in every reachable state.                           *)
THEOREM Invariance == Spec => []NodesInv
<1>1. Init => NodesInv
  BY NodesInit
<1>2. NodesInv /\ [Next]_vars => NodesInv'
  BY NodesNext
<1> QED
  BY <1>1, <1>2, PTL DEF Spec

(* The variables of both programs keep their types: the key that comes     *)
(* back is a number, never the leftover of a flushed receive.              *)
THEOREM TypeCorrect == Spec => []TypeOK
<1>1. NodesInv => TypeOK
  BY DEF NodesInv
<1> QED
  BY <1>1, Invariance, PTL

(* When thread_do has been joined for every thread, however the threads    *)
(* took each other's completions, nothing is posted and no completion is   *)
(* left for send_comm_code to take for the one of its EXIT.                *)
THEOREM JoinedThreadsAreDone == Spec => []JoinedMeansDone
<1>1. NodesInv => JoinedMeansDone
  BY JoinedDone DEF JoinedMeansDone
<1> QED
  BY <1>1, Invariance, PTL

(* reg_new_mr and create_new_mr stay paired: the i-th key that the local   *)
(* node has is the one of the i-th region of the remote node.              *)
THEOREM KeysStayPaired == Spec => []KeysMatch
<1>1. NodesInv => KeysMatch
  <2> SUFFICES ASSUME NodesInv, NEW k \in DOMAIN keys
               PROVE  keys[k] = k /\ (rpc # "ended" => k <= Len(mr_arr))
    BY DEF KeysMatch
  <2>1. keys \in Seq(Nat) /\ Len(keys) \in Nat /\ Len(mr_arr) \in Nat
    BY NodesTyped DEF NodesInv
  <2>2. k \in 1 .. Len(keys)
    BY <2>1
  <2> QED
    BY <2>1, <2>2 DEF NodesInv, KeysOK
<1> QED
  BY <1>1, Invariance, PTL
=============================================================================
