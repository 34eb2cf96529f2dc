------------------------------- MODULE MtNodes -------------------------------
(***************************************************************************)
(* The two programs of multithreading/.  The remote node connects to the   *)
(* local one and then obeys its codes: REG_MR registers a memory region    *)
(* and answers with its key, EXIT ends it.  The local node registers some  *)
(* regions and starts threads that write and read the first one over the   *)
(* one queue pair, sharing the globals local_mr and wc and the completion  *)
(* queue, joins them, and sends EXIT.                                      *)
(***************************************************************************)
EXTENDS MsgQp, FiniteSets

CONSTANTS Threads,      \* the local node's threads (NUM_THREADS)
          NumRegions,   \* calls of reg_new_mr
          Sizes         \* rm_size of either node (its option -s)

ASSUME MtAssumption ==
  IsFiniteSet(Threads) /\ NumRegions \in Nat \ {0} /\ Sizes \subseteq Nat

Codes == {"BEGIN", "REG_MR", "EXIT"}
NoMr  == "none"
Local  == "server"     \* the local node listens
Remote == "client"     \* the remote node connects

VARIABLES
  lpc,       \* where the local node's main thread is
  tpc,       \* where each of its threads is
  keys,      \* keys it got with reg_new_mr, as indices of mr_arr
  local_mr,  \* the thread whose region the global local_mr denotes
  local_rm_size, \* its global rm_size
  rpc,       \* where the remote node is
  rm_size,   \* its global rm_size
  mr_arr,    \* the sizes of the regions it registered
  recv_msg,  \* its receive buffer: a code, see GetCommCode
  ops        \* RDMA operations of the threads, in posting order

vars == <<lpc, tpc, keys, local_mr, local_rm_size, rpc, rm_size, mr_arr,
          recv_msg, qpVars, ops>>
remoteVars == <<rpc, rm_size, mr_arr, recv_msg>>
localVars  == <<lpc, tpc, keys, local_mr, local_rm_size>>

LocalPhases == {"off", "listening", "reg_mr", "reg_sent", "reg_recv", "reg_wait",
                "threads", "exit", "exit_sent", "ended"}
ThreadPhases == {"new", "start", "write", "write_poll", "read", "read_poll", "end"}
RemotePhases == {"off", "connecting", "post_recv", "get_recv", "reg", "reply", "reply_sent",
                 "cleanup", "ended", "crashed"}

(* A message: a code, with the size field that follows it, or a key.       *)
Code(c) == [code |-> c, size |-> 0, key |-> 0]
Key(k)  == [code |-> "BEGIN", size |-> 0, key |-> k]
Message == [code : Codes, size : Nat, key : Nat]
Empty   == Code("BEGIN")
Op == [thread : Threads, kind : {"write", "read"}, mr : Threads]

Init ==
  /\ lpc = "off" /\ tpc = [t \in Threads |-> "new"] /\ keys = <<>>
  /\ local_mr = NoMr /\ local_rm_size \in Sizes
  /\ rpc = "off" /\ rm_size \in Sizes /\ mr_arr = <<>> /\ recv_msg = Empty
  /\ QpInit /\ ops = <<>>

-----------------------------------------------------------------------------
(* The local node's main thread.                                           *)

StartLocal ==
  /\ lpc = "off"
  /\ lpc' = "listening"
  /\ UNCHANGED <<tpc, keys, local_mr, local_rm_size, remoteVars, qpVars, ops>>

(* send_comm_code clears send_msg and stores the code in it.               *)
SendCommCode(c, next) ==
  /\ PostSend(Local, Code(c))
  /\ lpc' = next
  /\ UNCHANGED <<tpc, keys, local_mr, local_rm_size, remoteVars, ops>>

SendRegMr == lpc = "reg_mr" /\ SendCommCode("REG_MR", "reg_sent")

RegMrSent ==
  /\ lpc = "reg_sent" /\ GetSendComp(Local)
  /\ lpc' = "reg_recv"
  /\ UNCHANGED <<tpc, keys, local_mr, local_rm_size, remoteVars, ops>>

PostKeyRecv ==
  /\ lpc = "reg_recv"
  /\ PostRecv(Local)
  /\ lpc' = "reg_wait"
  /\ UNCHANGED <<tpc, keys, local_mr, local_rm_size, remoteVars, ops>>

ReceiveKey ==
  /\ lpc = "reg_wait" /\ GetRecvComp(Local)
  /\ keys' = Append(keys, Head(recv_cq[Local]).key)
  /\ lpc' = IF Len(keys) + 1 = NumRegions THEN "threads" ELSE "reg_mr"
  /\ tpc' = [t \in Threads |-> IF Len(keys) + 1 = NumRegions THEN "start" ELSE tpc[t]]
  /\ UNCHANGED <<local_mr, local_rm_size, remoteVars, ops>>

Joined_Any == \E t \in Threads : tpc[t] = "end"
Joined == \A t \in Threads : tpc[t] = "end"
SendExit == lpc = "threads" /\ Joined /\ SendCommCode("EXIT", "exit_sent")

(* Then out_func: disconnect and exit.                                     *)
ExitSent ==
  /\ lpc = "exit_sent" /\ GetSendComp(Local)
  /\ lpc' = "ended"
  /\ UNCHANGED <<tpc, keys, local_mr, local_rm_size, remoteVars, ops>>

-----------------------------------------------------------------------------
(* The threads.                                                            *)

(* Register a buffer; its region is kept in a global.                      *)
RegLocalMr(t) ==
  /\ tpc[t] = "start"
  /\ local_mr' = t
  /\ tpc' = [tpc EXCEPT ![t] = "write"]
  /\ UNCHANGED <<lpc, keys, local_rm_size, remoteVars, qpVars, ops>>

(* rdma_post_write and rdma_post_read, with the key of the first region    *)
(* and whatever local_mr denotes now.                                      *)
PostOp(t) ==
  /\ tpc[t] \in {"write", "read"}
  /\ IF Local \in qp_error
     THEN send_cq' = [send_cq EXCEPT ![Local] = @ + 1] /\ UNCHANGED ops
     ELSE /\ ops' = Append(ops, [thread |-> t, kind |-> tpc[t], mr |-> local_mr])
          /\ UNCHANGED send_cq
  /\ tpc' = [tpc EXCEPT ![t] = IF @ = "write" THEN "write_poll" ELSE "read_poll"]
  /\ UNCHANGED <<lpc, keys, local_mr, local_rm_size, remoteVars, wire, recvs, recv_cq, qp_error>>

(* ibv_poll_cq takes the next completion, whichever thread's it is.        *)
Poll(t) ==
  /\ tpc[t] \in {"write_poll", "read_poll"}
  /\ GetSendComp(Local)
  /\ tpc' = [tpc EXCEPT ![t] = IF @ = "write_poll" THEN "read" ELSE "end"]
  /\ UNCHANGED <<lpc, keys, local_mr, local_rm_size, remoteVars, ops>>

-----------------------------------------------------------------------------
(* The remote node.                                                        *)

StartRemote ==
  /\ rpc = "off"
  /\ rpc' = "connecting"
  /\ UNCHANGED <<localVars, rm_size, mr_arr, recv_msg, qpVars, ops>>

(* rdma_connect fails unless the local node is listening.                  *)
Connect ==
  /\ rpc = "connecting"
  /\ IF lpc = "listening"
     THEN rpc' = "post_recv" /\ lpc' = "reg_mr"
     ELSE rpc' = "ended" /\ UNCHANGED lpc
  /\ UNCHANGED <<tpc, keys, local_mr, local_rm_size, rm_size, mr_arr, recv_msg, qpVars, ops>>

(* get_comm_code: clear recv_msg, post a receive, wait for it; with REG_MR *)
(* the size comes from the message.                                        *)
PostCodeRecv ==
  /\ rpc = "post_recv"
  /\ PostRecv(Remote)
  /\ recv_msg' = Empty
  /\ rpc' = "get_recv"
  /\ UNCHANGED <<localVars, rm_size, mr_arr, ops>>

CodeSize_LessHeader(m) == m.size - 1
CodeSize(m) == m.size
AfterCode_NoExit(c) == IF c = "REG_MR" THEN "reg" ELSE "post_recv"
AfterCode(c) ==
  CASE c = "EXIT" -> "cleanup" [] c = "REG_MR" -> "reg" [] OTHER -> "post_recv"

GetCommCode ==
  LET got == Head(recv_cq[Remote])
      m   == IF got = Flushed THEN recv_msg ELSE got
  IN
  /\ rpc = "get_recv" /\ GetRecvComp(Remote)
  /\ recv_msg' = m
  /\ rm_size' = IF m.code = "REG_MR" THEN CodeSize(m) ELSE rm_size
  /\ rpc' = AfterCode(m.code)
  /\ UNCHANGED <<localVars, mr_arr, ops>>

(* create_new_mr.  The region is used before it is compared with NULL.     *)
ReplyKey_Last == Len(mr_arr)
ReplyKey == Len(mr_arr) + 1
CreateNewMr ==
  /\ rpc = "reg"
  /\ mr_arr' = Append(mr_arr, rm_size)
  /\ PostSend(Remote, Key(ReplyKey))
  /\ rpc' = "reply_sent"
  /\ UNCHANGED <<localVars, rm_size, recv_msg, ops>>

RegFails ==
  /\ rpc = "reg"
  /\ rpc' = "crashed"
  /\ UNCHANGED <<localVars, rm_size, mr_arr, recv_msg, qpVars, ops>>

ReplySent ==
  /\ rpc = "reply_sent" /\ GetSendComp(Remote)
  /\ rpc' = "post_recv"
  /\ UNCHANGED <<localVars, rm_size, mr_arr, recv_msg, ops>>

(* Deregister everything, disconnect, exit.                                *)
Cleanup ==
  /\ rpc = "cleanup"
  /\ mr_arr' = <<>> /\ rpc' = "ended"
  /\ UNCHANGED <<localVars, rm_size, recv_msg, qpVars, ops>>

-----------------------------------------------------------------------------
(* The adapters.                                                           *)

DeliverMsg(n) == Deliver(n) /\ UNCHANGED <<localVars, remoteVars, ops>>

(* An RDMA operation is refused if the local region is not the one of the  *)
(* buffer or the remote region is too small.                               *)
Allowed(op) ==
  local_rm_size = 0 \/ (op.mr = op.thread /\ local_rm_size <= mr_arr[keys[1]])

ExecuteOp ==
  /\ qp_error = {} /\ ops # <<>> /\ Allowed(Head(ops))
  /\ ops' = Tail(ops)
  /\ send_cq' = [send_cq EXCEPT ![Local] = @ + 1]
  /\ UNCHANGED <<localVars, remoteVars, wire, recvs, recv_cq, qp_error>>

(* A refused operation puts the queue pairs in error.                      *)
RefuseOp ==
  /\ ops # <<>> /\ ~Allowed(Head(ops))
  /\ Flush(Nodes, [n \in Nodes |-> IF n = Local THEN Len(ops) ELSE 0])
  /\ ops' = <<>>
  /\ UNCHANGED <<localVars, remoteVars>>

-----------------------------------------------------------------------------
Main == SendRegMr \/ RegMrSent \/ PostKeyRecv \/ ReceiveKey \/ SendExit \/ ExitSent
Thread(t) == RegLocalMr(t) \/ PostOp(t) \/ Poll(t)
RemoteNode == Connect \/ PostCodeRecv \/ GetCommCode \/ CreateNewMr \/ ReplySent \/ Cleanup
Adapter == (\E n \in Nodes : DeliverMsg(n)) \/ ExecuteOp \/ RefuseOp
Start == StartLocal \/ StartRemote

(* Nothing happens any more: both ended, or one waits for the other.       *)
Over == (rpc \in {"ended", "crashed"}) /\ UNCHANGED vars

Next ==
  \/ Start \/ Main \/ RemoteNode \/ RegFails \/ Adapter \/ Over
  \/ \E t \in Threads : Thread(t)

Spec == Init /\ [][Next]_vars
FairSpec ==
  /\ Spec /\ WF_vars(Start) /\ WF_vars(Main) /\ WF_vars(RemoteNode)
  /\ WF_vars(Adapter) /\ \A t \in Threads : WF_vars(Thread(t))
-----------------------------------------------------------------------------
(* Every variable has its type.                                            *)
TypeOK ==
  /\ lpc \in LocalPhases /\ tpc \in [Threads -> ThreadPhases]
  /\ keys \in Seq(Nat) /\ local_mr \in Threads \cup {NoMr}
  /\ local_rm_size \in Sizes
  /\ rpc \in RemotePhases /\ rm_size \in Nat /\ mr_arr \in Seq(Nat)
  /\ recv_msg \in Message
  /\ QpTypeOK(Message) /\ ops \in Seq(Op)

(* Threads take each other's completions from the shared queue, but when   *)
(* the threads are joined every operation has completed, also after an     *)
(* error: nothing of theirs is posted, and no completion is left that      *)
(* send_comm_code would take for the one of its EXIT.                      *)
JoinedMeansDone ==
  lpc = "threads" /\ Joined => ops = <<>> /\ send_cq[Local] = 0

(* Requests and answers stay paired although the answer may be sent before *)
(* its receive is posted: the i-th key is the one of the i-th region.      *)
KeysMatch ==
  \A i \in DOMAIN keys : keys[i] = i /\ (rpc # "ended" => i <= Len(mr_arr))

(* Both programs come to their end, also when the codes outrun the posting *)
(* of receives and the threads take each other's completions, unless an    *)
(* operation is refused, the registration fails, or the remote node finds  *)
(* nobody listening.                                                       *)
Refused == rpc = "ended" /\ lpc \in {"off", "listening"}
BothEnd ==
  <>((lpc = "ended" /\ rpc = "ended") \/ qp_error # {} \/ rpc = "crashed" \/ Refused)
=============================================================================
