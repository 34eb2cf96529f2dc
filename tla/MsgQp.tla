-------------------------------- MODULE MsgQp --------------------------------
(***************************************************************************)
(* A connected queue pair as the small programs use it (rdma_post_send,    *)
(* rdma_get_send_comp, rdma_post_recv, rdma_get_recv_comp): messages one   *)
(* way and the other, receives that have to be posted, and completions,    *)
(* whose status none of the programs looks at.  The operators are parts of *)
(* the actions of the modules that extend this one.                        *)
(***************************************************************************)
EXTENDS Naturals, Sequences

VARIABLES
  wire,      \* node -> messages it posted that have not been received
  recvs,     \* node -> receives posted
  recv_cq,   \* node -> receive completions waiting
  send_cq,   \* node -> number of send completions waiting
  qp_error   \* nodes whose queue pair is in error, or destroyed

qpVars == <<wire, recvs, recv_cq, send_cq, qp_error>>

Nodes == {"server", "client"}
Other(n) == IF n = "server" THEN "client" ELSE "server"

QpInit ==
  /\ wire = [n \in Nodes |-> <<>>] /\ recvs = [n \in Nodes |-> 0]
  /\ recv_cq = [n \in Nodes |-> <<>>] /\ send_cq = [n \in Nodes |-> 0]
  /\ qp_error = {}

(* What is posted after an error completes too, flushed; a flushed receive *)
(* leaves its buffer alone.                                                *)
Flushed == [flushed |-> TRUE]

PostSend(n, m) ==
  /\ IF n \in qp_error
     THEN send_cq' = [send_cq EXCEPT ![n] = @ + 1] /\ UNCHANGED wire
     ELSE wire' = [wire EXCEPT ![n] = Append(@, m)] /\ UNCHANGED send_cq
  /\ UNCHANGED <<recvs, recv_cq, qp_error>>

GetSendComp(n) ==
  /\ send_cq[n] > 0
  /\ send_cq' = [send_cq EXCEPT ![n] = @ - 1]
  /\ UNCHANGED <<wire, recvs, recv_cq, qp_error>>

PostRecv(n) ==
  /\ IF n \in qp_error
     THEN recv_cq' = [recv_cq EXCEPT ![n] = Append(@, Flushed)] /\ UNCHANGED recvs
     ELSE recvs' = [recvs EXCEPT ![n] = @ + 1] /\ UNCHANGED recv_cq
  /\ UNCHANGED <<wire, send_cq, qp_error>>

GetRecvComp(n) ==
  /\ recv_cq[n] # <<>>
  /\ recv_cq' = [recv_cq EXCEPT ![n] = Tail(@)]
  /\ UNCHANGED <<wire, recvs, send_cq, qp_error>>

(* A message is received once a receive is posted, and until then retried; *)
(* its send completes when it was received.                                *)
Deliver(n) ==
  /\ qp_error = {} /\ wire[n] # <<>> /\ recvs[Other(n)] > 0
  /\ recvs' = [recvs EXCEPT ![Other(n)] = @ - 1]
  /\ recv_cq' = [recv_cq EXCEPT ![Other(n)] = Append(@, Head(wire[n]))]
  /\ wire' = [wire EXCEPT ![n] = Tail(@)]
  /\ send_cq' = [send_cq EXCEPT ![n] = @ + 1]
  /\ UNCHANGED qp_error

(* The queue pairs of nodes ns go to the error state: everything posted    *)
(* completes, with extra[n] more operations of node n.                     *)
Flush(ns, extra) ==
  /\ ns \cap qp_error = {} /\ qp_error' = qp_error \cup ns
  /\ send_cq' = [n \in Nodes |-> IF n \in ns THEN send_cq[n] + Len(wire[n]) + extra[n]
                                 ELSE send_cq[n]]
  /\ wire' = [n \in Nodes |-> IF n \in ns THEN <<>> ELSE wire[n]]
  /\ recv_cq' = [n \in Nodes |-> IF n \in ns
       THEN recv_cq[n] \o [i \in 1 .. recvs[n] |-> Flushed] ELSE recv_cq[n]]
  /\ recvs' = [n \in Nodes |-> IF n \in ns THEN 0 ELSE recvs[n]]

QpTypeOK(Message) ==
  /\ wire \in [Nodes -> Seq(Message)] /\ recvs \in [Nodes -> Nat]
  /\ recv_cq \in [Nodes -> Seq(Message \cup {Flushed})]
  /\ send_cq \in [Nodes -> Nat] /\ qp_error \subseteq Nodes
=============================================================================
