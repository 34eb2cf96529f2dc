----------------------------- MODULE KeyExchange -----------------------------
(***************************************************************************)
(* rdma_example and rdma_test: straight-line programs for two ends of one  *)
(* connection.  In both, client and server exchange a message each way; in *)
(* rdma_test the client then sends the key and the address of a buffer,    *)
(* which the server writes and reads, and waits for a last message.  Every *)
(* call is a step; those that wait for a completion block.                 *)
(***************************************************************************)
EXTENDS MsgQp

CONSTANTS Programs,   \* of {"rdma_example", "rdma_test"}
          RKeys       \* keys ibv_reg_mr may return, 4 bytes each

ASSUME KeyAssumption ==
  /\ Programs \subseteq {"rdma_example", "rdma_test"}
  /\ RKeys \subseteq Seq(0 .. 255) /\ \A k \in RKeys : Len(k) = 4

VARIABLES
  program,
  pc,        \* node -> index in its script
  linked,    \* nodes for which the connection is established
  region,    \* the key of the client's registered buffer, or None
  memory,    \* the contents of that buffer
  send_msg,  \* the client's message buffer
  got,       \* what the server received last
  target,    \* key and address the server extracted
  local,     \* the contents of the server's buffer
  ops        \* the server's RDMA operations in flight

vars == <<program, pc, linked, region, memory, send_msg, got, target, local,
          ops, qpVars>>
dataVars == <<region, memory, send_msg, got, target, local, ops>>

None    == <<>>
Zeros(n) == [i \in 1 .. n |-> 0]
Addr    == [i \in 1 .. 8 |-> 100 + i]     \* the bytes of the address
Dat     == "Dat"
Cleared == "zeros"

-----------------------------------------------------------------------------
(* The sequences of calls.                                                 *)
ExampleServer ==
  <<"post_recv", "accept", "get_recv", "post_send", "get_send", "disconnect">>
ExampleClient ==
  <<"post_recv", "connect", "post_send", "get_send", "get_recv", "disconnect">>

TestServer_OnePoll ==
  <<"post_recv", "accept", "get_recv", "post_send", "get_send",
    "post_recv", "get_recv", "extract", "write", "read", "poll",
    "post_send", "get_send", "disconnect">>
TestServer ==
  <<"post_recv", "accept", "get_recv", "post_send", "get_send",
    "post_recv", "get_recv", "extract", "write", "poll", "read", "poll",
    "post_send", "get_send", "disconnect">>
TestClient_NoWait ==
  <<"post_recv", "connect", "post_send", "get_send", "get_recv",
    "reg_mr", "post_send", "get_send", "dereg_mr", "disconnect">>
TestClient_NoRecv ==
  <<"post_recv", "connect", "post_send", "get_send", "get_recv",
    "reg_mr", "post_send", "get_send", "get_recv", "dereg_mr", "disconnect">>
TestClient ==
  <<"post_recv", "connect", "post_send", "get_send", "get_recv",
    "reg_mr", "post_send", "get_send", "post_recv", "get_recv", "dereg_mr",
    "disconnect">>

Script(n) ==
  IF program = "rdma_test"
  THEN IF n = "server" THEN TestServer ELSE TestClient
  ELSE IF n = "server" THEN ExampleServer ELSE ExampleClient

Crashed == 0
Ended(n) == pc[n] > Len(Script(n))
Running(n) == pc[n] # Crashed /\ ~Ended(n)
Calls(n, call) == Running(n) /\ Script(n)[pc[n]] = call
Returns(n) == pc' = [pc EXCEPT ![n] = @ + 1]

Init ==
  /\ program \in Programs
  /\ pc = [n \in Nodes |-> 1] /\ linked = {}
  /\ region = None /\ memory = Cleared
  /\ send_msg = Zeros(16) /\ got = Zeros(16)
  /\ target = [rkey |-> Zeros(4), addr |-> Zeros(8)]
  /\ local = Cleared /\ ops = <<>>
  /\ QpInit

-----------------------------------------------------------------------------
(* Messages.                                                               *)

CallPostRecv(n) ==
  /\ Calls(n, "post_recv") /\ Returns(n)
  /\ PostRecv(n)
  /\ UNCHANGED <<program, linked, dataVars>>

(* The server's send_msg is never written.                                 *)
CallPostSend(n) ==
  /\ Calls(n, "post_send") /\ Returns(n)
  /\ PostSend(n, [msg |-> IF n = "client" THEN send_msg ELSE Zeros(16)])
  /\ UNCHANGED <<program, linked, dataVars>>

CallGetSend(n) ==
  /\ Calls(n, "get_send") /\ Returns(n)
  /\ GetSendComp(n)
  /\ UNCHANGED <<program, linked, dataVars>>

CallGetRecv(n) ==
  /\ Calls(n, "get_recv") /\ Returns(n)
  /\ GetRecvComp(n)
  /\ got' = IF n = "server" /\ Head(recv_cq[n]) # Flushed
            THEN Head(recv_cq[n]).msg ELSE got
  /\ UNCHANGED <<program, linked, region, memory, send_msg, target, local, ops>>

(* rdma_connect blocks until the server accepts (the server was started    *)
(* first and is listening); rdma_accept then completes on both sides.      *)
Connect ==
  /\ Calls("client", "connect") /\ Calls("server", "accept")
  /\ pc' = [n \in Nodes |-> pc[n] + 1]
  /\ linked' = Nodes
  /\ UNCHANGED <<program, dataVars, qpVars>>

-----------------------------------------------------------------------------
(* The key.                                                                *)

(* memccpy copies the key up to its first zero byte and returns where it   *)
(* stopped; the address goes there.  Without a zero byte it returns NULL,  *)
(* and the copy of the address crashes.                                    *)
HasZero(k) == \E i \in 1 .. 4 : k[i] = 0
FirstZero(k) == CHOOSE i \in 1 .. 4 : k[i] = 0 /\ \A j \in 1 .. i - 1 : k[j] # 0
Pack_Unpadded(k) == SubSeq(k, 1, FirstZero(k)) \o Addr
Pack_AddrFirst(k) == Addr \o k \o Zeros(4)
Pack(k) == SubSeq(k, 1, FirstZero(k)) \o Addr \o Zeros(8 - FirstZero(k))

RegMr ==
  /\ Calls("client", "reg_mr")
  /\ \E k \in RKeys :
       /\ region' = k
       /\ IF HasZero(k)
          THEN send_msg' = Pack(k) /\ Returns("client")
          ELSE UNCHANGED send_msg /\ pc' = [pc EXCEPT !["client"] = Crashed]
  /\ UNCHANGED <<program, linked, memory, got, target, local, ops, qpVars>>

DeregMr ==
  /\ Calls("client", "dereg_mr") /\ Returns("client")
  /\ region' = None
  /\ UNCHANGED <<program, linked, memory, send_msg, got, target, local, ops, qpVars>>

(* The server takes the key from the first four bytes, the address from    *)
(* the eight that follow.                                                  *)
Extract ==
  /\ Calls("server", "extract") /\ Returns("server")
  /\ target' = [rkey |-> SubSeq(got, 1, 4), addr |-> SubSeq(got, 5, 12)]
  /\ UNCHANGED <<program, linked, region, memory, send_msg, got, local, ops, qpVars>>

-----------------------------------------------------------------------------
(* The server's RDMA operations; the buffer is cleared before the read.    *)

Write ==
  /\ Calls("server", "write") /\ Returns("server")
  /\ local' = Dat /\ ops' = Append(ops, "write")
  /\ UNCHANGED <<program, linked, region, memory, send_msg, got, target, qpVars>>

Read ==
  /\ Calls("server", "read") /\ Returns("server")
  /\ local' = Cleared
  /\ IF "server" \in qp_error
     THEN send_cq' = [send_cq EXCEPT !["server"] = @ + 1] /\ UNCHANGED ops
     ELSE ops' = Append(ops, "read") /\ UNCHANGED send_cq
  /\ UNCHANGED <<program, linked, region, memory, send_msg, got, target, wire,
                 recvs, recv_cq, qp_error>>

Poll ==
  /\ Calls("server", "poll") /\ Returns("server")
  /\ GetSendComp("server")
  /\ UNCHANGED <<program, linked, dataVars>>

(* The adapters: operations run in order if the key and the address are    *)
(* those of the region; otherwise the queue pairs go to the error state.   *)
Allowed == region # None /\ target = [rkey |-> region, addr |-> Addr]

Execute ==
  /\ ops # <<>> /\ qp_error = {} /\ Allowed
  /\ ops' = Tail(ops)
  /\ memory' = IF Head(ops) = "write" THEN local ELSE memory
  /\ local'  = IF Head(ops) = "read" THEN memory ELSE local
  /\ send_cq' = [send_cq EXCEPT !["server"] = @ + 1]
  /\ UNCHANGED <<program, pc, linked, region, send_msg, got, target, wire,
                 recvs, recv_cq, qp_error>>

Refuse ==
  /\ ops # <<>> /\ ~Allowed
  /\ Flush(Nodes, [n \in Nodes |-> IF n = "server" THEN Len(ops) ELSE 0])
  /\ ops' = <<>>
  /\ UNCHANGED <<program, pc, linked, region, memory, send_msg, got, target, local>>

DeliverMsg(n) == linked # {} /\ Deliver(n) /\ UNCHANGED <<program, pc, linked, dataVars>>

CallDisconnect(n) ==
  /\ Calls(n, "disconnect") /\ Returns(n)
  /\ linked' = linked \ {n}
  /\ UNCHANGED <<program, dataVars, qpVars>>

Over ==
  /\ \A n \in Nodes : Ended(n) \/ pc["client"] = Crashed
  /\ UNCHANGED vars

Adapter == (\E n \in Nodes : DeliverMsg(n)) \/ Execute \/ Refuse
Step(n) ==
  \/ CallPostRecv(n) \/ CallPostSend(n) \/ CallGetSend(n) \/ CallGetRecv(n)
  \/ CallDisconnect(n)
Steps == Connect \/ RegMr \/ DeregMr \/ Extract \/ Write \/ Read \/ Poll

Next == (\E n \in Nodes : Step(n)) \/ Steps \/ Adapter \/ Over

Spec == Init /\ [][Next]_vars
FairSpec ==
  Spec /\ WF_vars(Adapter) /\ WF_vars(Steps) /\ \A n \in Nodes : WF_vars(Step(n))
-----------------------------------------------------------------------------
(* Every variable has its type.                                            *)
Byte == 0 .. 255
TypeOK ==
  /\ program \in Programs /\ linked \subseteq Nodes
  /\ \A n \in Nodes : pc[n] \in 0 .. Len(Script(n)) + 1
  /\ region \in RKeys \cup {None} /\ {memory, local} \subseteq {Dat, Cleared}
  /\ send_msg \in [1 .. 16 -> Byte] /\ got \in [1 .. 16 -> Byte]
  /\ target \in [rkey : [1 .. 4 -> Byte], addr : [1 .. 8 -> Byte]]
  /\ ops \in Seq({"write", "read"}) /\ QpTypeOK([msg : [1 .. 16 -> Byte]])

Using(n) == Calls(n, "write") \/ Calls(n, "read") \/ Calls(n, "poll")

(* The key and the address arrive exactly when the only zero byte of the   *)
(* key is its last: otherwise, against "copy mr remote key and addr to     *)
(* send buffer to send to server", the server uses other values.           *)
GoodKeyDelivered ==
  Using("server") /\ region # None =>
    (target = [rkey |-> region, addr |-> Addr] <=> FirstZero(region) = 4)

(* The client keeps its region registered until the server's operations    *)
(* have completed: it waits for the server's last message, which the       *)
(* server sends after polling both completions.                            *)
RegionOutlivesUse == ops # <<>> => region # None

(* "Now try reading from remote mem": the server reads back what it wrote  *)
(* before it tells the client that it is done.                             *)
ReadBack ==
  pc["server"] = Len(TestServer) /\ program = "rdma_test" /\ qp_error = {} => local = Dat

(* Both programs come to their end, whichever side is the slower one, also *)
(* when a wrong key makes the server's operations fail: the flushed        *)
(* completions still answer every poll.                                    *)
BothEnd == <>((\A n \in Nodes : Ended(n)) \/ pc["client"] = Crashed)
=============================================================================
