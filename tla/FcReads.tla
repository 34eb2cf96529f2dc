------------------------------- MODULE FcReads -------------------------------
(***************************************************************************)
(* The read phase of the rdma_fc server: do_rdma_reads schedules RDMA      *)
(* reads round-robin over the connections, post_rdma_read places each one  *)
(* on the connection's queue pair (RC) or on a free DC initiator (DC), and *)
(* poll_cq retires the completions one at a time.  The server is a single  *)
(* thread; the adapter executes posted reads, and the clients' FIN         *)
(* messages arrive, between any two of its steps.                          *)
(***************************************************************************)
EXTENDS Integers, Sequences, FiniteSets

CONSTANTS transport,             \* "rc" or "dc" (option -x)
          num_conns,             \* connections the server reads from
          rdma_read_size,        \* bytes to read from each one per iteration
          max_read_size,         \* largest single read (option -r)
          max_outstanding_reads, \* reads in flight (option -o)
          num_iterations,        \* option -i
          tx_queue_len,          \* send queue of one queue pair
          rx_queue_len,          \* shared receive queue, before scaling
          NUM_DCI,               \* DC initiators
          BitmapBits             \* width of free_dci_bitmap

ASSUME TransportAssumption == transport \in {"rc", "dc"}
ASSUME SizesAssumption ==
  /\ num_conns \in Nat \ {0}
  /\ rdma_read_size \in Nat \ {0}
  /\ max_read_size \in Nat \ {0}
  /\ max_outstanding_reads \in Nat \ {0}
  /\ num_iterations \in Nat
  /\ tx_queue_len \in Nat \ {0}
  /\ rx_queue_len \in Nat
ASSUME DciAssumption ==
  NUM_DCI \in Nat \ {0} /\ BitmapBits \in Nat /\ NUM_DCI <= BitmapBits

Conns == 0 .. num_conns - 1      \* indices of g_test.conns
Dcis  == 0 .. NUM_DCI - 1        \* indices of g_test.dcis
Bits  == 0 .. BitmapBits - 1

VARIABLES
  pc,                    \* where the server is, see Phases
  iter,
  sched,                 \* the schedule queue of connections
  read_offset,           \* bytes of each connection posted in this iteration
  num_outstanding_reads,
  dci_outstanding,
  free_dci_bitmap,       \* the set of bits that are 1
  num_fin_recvd,
  posted,                \* reads whose completion was not polled yet
  cq,                    \* the completion queue
  fin_arrived            \* connections whose client's FIN reached the server

vars == <<pc, iter, sched, read_offset, num_outstanding_reads,
          dci_outstanding, free_dci_bitmap, num_fin_recvd,
          posted, cq, fin_arrived>>

dciVars  == <<dci_outstanding, free_dci_bitmap>>
readVars == <<sched, read_offset, num_outstanding_reads, dci_outstanding,
              free_dci_bitmap, posted>>

(* "iter" is the head of the for loop, "loop" the head of the while loop   *)
(* in it, "poll" the call of poll_cq; the others are ends of the phase:    *)
(* return 0, return an error, and the two assertions.                      *)
Ends   == {"done", "failed", "abort_dci", "abort_unread"}
Phases == {"iter", "loop", "poll"} \cup Ends

(* A read on the wire, and an entry of the completion queue.               *)
Wr  == [conn : Conns, off : Nat, len : Nat, qp : Conns \cup Dcis]
Cqe == [op : {"READ", "RECV"}, wr : Wr, ok : BOOLEAN]

Executed == {r \in posted : \E i \in DOMAIN cq : cq[i].op = "READ" /\ cq[i].wr = r}
InFlight == posted \ Executed

-----------------------------------------------------------------------------
(* The state do_rdma_reads finds: no connection read, every bit of the     *)
(* bitmap set (free_dci_bitmap = -1), and perhaps some FIN messages already *)
(* received, which the first steps below produce.                          *)
Init ==
  /\ pc = "iter" /\ iter = 0
  /\ sched = <<>>
  /\ read_offset = [c \in Conns |-> 0]
  /\ num_outstanding_reads = 0
  /\ dci_outstanding = [d \in Dcis |-> 0]
  /\ free_dci_bitmap = Bits
  /\ num_fin_recvd = 0
  /\ posted = {} /\ cq = <<>> /\ fin_arrived = {}

-----------------------------------------------------------------------------
(* The pieces of the server's steps.                                       *)

MIN(a, b) == IF a < b THEN a ELSE b
MAX(a, b) == IF a > b THEN a ELSE b

(* run_server makes both queues large enough for the control messages.     *)
TxLen == MAX(tx_queue_len, num_conns)
RxLen_Unscaled == rx_queue_len
RxLen == MAX(rx_queue_len, num_conns * 2)

(* The depth of the completion queue created by init_transport.            *)
CqLen == TxLen + RxLen

(* The size of the next segment of connection c.                           *)
SegmentSize_NoTail(c) == max_read_size
SegmentSize(c) == MIN(max_read_size, rdma_read_size - read_offset[c])

(* There are connections with pending data and room for one more read.     *)
MayPost_Unbounded == sched # <<>>
MayPost == sched # <<>> /\ num_outstanding_reads < max_outstanding_reads

(* __builtin_ffsl - 1: the lowest bit that is set.                         *)
FirstFree == CHOOSE d \in free_dci_bitmap : \A e \in free_dci_bitmap : d <= e

(* The queue pair that carries the next read of connection c.              *)
QpFor(c) == IF transport = "rc" THEN c ELSE FirstFree

OnQp(qp) == {r \in posted : r.qp = qp}

(* Nothing can be posted: the RC send queue is full (ibv_post_send returns *)
(* a positive errno, which the caller does not treat as an error), or no   *)
(* bit of the DCI bitmap is set.                                           *)
NoQpFor(c) ==
  IF transport = "rc" THEN Cardinality(OnQp(c)) >= TxLen
                      ELSE free_dci_bitmap = {}

(* The assertion that the DCI picked carries nothing.  Bits from NUM_DCI   *)
(* on index past dci_outstanding, where free_dci_bitmap itself is stored:  *)
(* what is read there has a 1 bit, so the assertion fails.                 *)
DciIsIdle(c) ==
  transport = "dc" => FirstFree \in Dcis /\ dci_outstanding[FirstFree] = 0

(* Reinsertion into the schedule queue of a connection that was posted     *)
(* (to the tail, unless it is finished) and of one that was not (to the    *)
(* head).                                                                  *)
AfterPost_Head(s, c, off) == IF off < rdma_read_size THEN <<c>> \o s ELSE s
AfterPost_Dropped(s, c, off) == s
AfterPost(s, c, off) == IF off < rdma_read_size THEN Append(s, c) ELSE s

AfterNoPost(s, c) == <<c>> \o s

(* DCI bookkeeping of post_rdma_read and of dc_send_completion.            *)
MarkBusy(d) ==
  /\ dci_outstanding' = [dci_outstanding EXCEPT ![d] = @ + 1]
  /\ free_dci_bitmap' = free_dci_bitmap \ {d}

DcSendCompletion_NoFree(d) ==
  /\ dci_outstanding' = [dci_outstanding EXCEPT ![d] = @ - 1]
  /\ free_dci_bitmap' = free_dci_bitmap
DcSendCompletion(d) ==
  /\ dci_outstanding' = [dci_outstanding EXCEPT ![d] = @ - 1]
  /\ free_dci_bitmap' = IF dci_outstanding[d] - 1 = 0
                        THEN free_dci_bitmap \cup {d} ELSE free_dci_bitmap

-----------------------------------------------------------------------------
(* The server.                                                             *)

(* Insert all connections to the schedule queue, in array order.           *)
StartIteration ==
  /\ pc = "iter" /\ iter < num_iterations
  /\ read_offset' = [c \in Conns |-> 0]
  /\ sched' = sched \o [i \in 1 .. num_conns |-> i - 1]
  /\ pc' = "loop"
  /\ UNCHANGED <<iter, num_outstanding_reads, dciVars, num_fin_recvd,
                 posted, cq, fin_arrived>>

(* The while loop ends when nothing is outstanding and nothing scheduled.  *)
LoopEnds_IgnoreOutstanding == sched = <<>>
LoopEnds_AllFins ==
  num_outstanding_reads = 0 /\ sched = <<>> /\ num_fin_recvd = num_conns
LoopEnds == num_outstanding_reads = 0 /\ sched = <<>>

EndIteration ==
  /\ pc = "loop" /\ LoopEnds
  /\ iter' = iter + 1
  /\ pc' = "iter"
  /\ UNCHANGED <<readVars, num_fin_recvd, cq, fin_arrived>>

(* "make sure everything was read", then return.                           *)
FinishReads ==
  /\ pc = "iter" /\ iter = num_iterations
  /\ pc' = IF \A c \in Conns : read_offset[c] = rdma_read_size
           THEN "done" ELSE "abort_unread"
  /\ UNCHANGED <<iter, readVars, num_fin_recvd, cq, fin_arrived>>

(* Post the next segment of the first connection of the schedule queue.    *)
PostRead ==
  LET c    == Head(sched)
      size == SegmentSize(c)
      next == read_offset[c] + size
      wr   == [conn |-> c, off |-> read_offset[c], len |-> size, qp |-> QpFor(c)]
  IN
  /\ pc = "loop" /\ ~LoopEnds /\ MayPost
  /\ ~NoQpFor(c) /\ DciIsIdle(c)
  /\ posted' = posted \cup {wr}
  /\ IF transport = "dc" THEN MarkBusy(wr.qp) ELSE UNCHANGED dciVars
  /\ num_outstanding_reads' = num_outstanding_reads + 1
  /\ read_offset' = [read_offset EXCEPT ![c] = next]
  /\ sched' = AfterPost(Tail(sched), c, next)
  /\ pc' = "poll"
  /\ UNCHANGED <<iter, num_fin_recvd, cq, fin_arrived>>

(* No queue pair can take the read: back to the head of the queue.         *)
PostNothing ==
  /\ pc = "loop" /\ ~LoopEnds /\ MayPost
  /\ NoQpFor(Head(sched))
  /\ sched' = AfterNoPost(Tail(sched), Head(sched))
  /\ pc' = "poll"
  /\ UNCHANGED <<iter, read_offset, num_outstanding_reads, dciVars,
                 num_fin_recvd, posted, cq, fin_arrived>>

(* The assertion on the DCI picked fails.                                  *)
AbortDci ==
  /\ pc = "loop" /\ ~LoopEnds /\ MayPost
  /\ ~NoQpFor(Head(sched)) /\ ~DciIsIdle(Head(sched))
  /\ pc' = "abort_dci"
  /\ UNCHANGED <<iter, readVars, num_fin_recvd, cq, fin_arrived>>

(* Nothing to post, or the limit is reached: go on to poll_cq.             *)
SkipPost ==
  /\ pc = "loop" /\ ~LoopEnds /\ ~MayPost
  /\ pc' = "poll"
  /\ UNCHANGED <<iter, readVars, num_fin_recvd, cq, fin_arrived>>

(* poll_cq: no completion; a completion in error; a FIN; a finished read.  *)
PollEmpty ==
  /\ pc = "poll" /\ cq = <<>>
  /\ pc' = "loop"
  /\ UNCHANGED <<iter, readVars, num_fin_recvd, cq, fin_arrived>>

PollError ==
  /\ pc = "poll" /\ cq # <<>> /\ ~Head(cq).ok
  /\ cq' = Tail(cq)
  /\ pc' = "failed"
  /\ UNCHANGED <<iter, readVars, num_fin_recvd, fin_arrived>>

PollFin ==
  /\ pc = "poll" /\ cq # <<>> /\ Head(cq).ok /\ Head(cq).op = "RECV"
  /\ cq' = Tail(cq)
  /\ num_fin_recvd' = num_fin_recvd + 1
  /\ pc' = "loop"
  /\ UNCHANGED <<iter, readVars, fin_arrived>>

PollRead ==
  LET wr == Head(cq).wr IN
  /\ pc = "poll" /\ cq # <<>> /\ Head(cq).ok /\ Head(cq).op = "READ"
  /\ cq' = Tail(cq)
  /\ posted' = posted \ {wr}
  /\ num_outstanding_reads' = num_outstanding_reads - 1
  /\ IF transport = "dc" THEN DcSendCompletion(wr.qp) ELSE UNCHANGED dciVars
  /\ pc' = "loop"
  /\ UNCHANGED <<iter, sched, read_offset, num_fin_recvd, fin_arrived>>

Stopped == pc \in Ends /\ UNCHANGED vars

Server ==
  \/ StartIteration \/ EndIteration \/ FinishReads
  \/ PostRead \/ PostNothing \/ AbortDci \/ SkipPost
  \/ PollEmpty \/ PollError \/ PollFin \/ PollRead

-----------------------------------------------------------------------------
(* The adapter and the clients, while the server runs.  The reads of one   *)
(* queue pair are executed in the order they were posted; different queue  *)
(* pairs progress independently.  A read may fail (retries exhausted).     *)

Oldest(r) == \A q \in InFlight : q.qp = r.qp => r.off <= q.off

CompleteRead(r, ok) ==
  /\ pc \notin Ends
  /\ r \in InFlight /\ Oldest(r)
  /\ cq' = Append(cq, [op |-> "READ", wr |-> r, ok |-> ok])
  /\ UNCHANGED <<pc, iter, readVars, num_fin_recvd, fin_arrived>>

(* The FIN that every client sends once, right after it is connected.      *)
ControlWr(c) == [conn |-> c, off |-> 0, len |-> 0, qp |-> c]
FinArrives(c) ==
  /\ pc \notin Ends
  /\ c \notin fin_arrived
  /\ fin_arrived' = fin_arrived \cup {c}
  /\ cq' = Append(cq, [op |-> "RECV", wr |-> ControlWr(c), ok |-> TRUE])
  /\ UNCHANGED <<pc, iter, readVars, num_fin_recvd>>

Adapter == \E r \in posted, ok \in BOOLEAN : CompleteRead(r, ok)

Next == Server \/ Adapter \/ (\E c \in Conns : FinArrives(c)) \/ Stopped

Spec == Init /\ [][Next]_vars

(* The server never sleeps (poll_cq does not block), and the adapter       *)
(* completes every read that is posted, with success or in error.          *)
FairSpec == Spec /\ WF_vars(Server) /\ WF_vars(Adapter)
-----------------------------------------------------------------------------
(* Every variable has its type.                                            *)
TypeOK ==
  /\ pc \in Phases /\ iter \in 0 .. num_iterations
  /\ sched \in Seq(Conns)
  /\ read_offset \in [Conns -> 0 .. rdma_read_size]
  /\ num_outstanding_reads \in Nat
  /\ dci_outstanding \in [Dcis -> Nat]
  /\ free_dci_bitmap \subseteq Bits
  /\ num_fin_recvd \in Nat
  /\ posted \subseteq Wr /\ cq \in Seq(Cqe) /\ fin_arrived \subseteq Conns

(* num_outstanding_reads counts exactly the reads posted and not polled,   *)
(* whatever the order of completions and FINs, and respects option -o.     *)
(* poll_cq decrements an unsigned counter, so one miscount is a wrap that  *)
(* never ends the while loop.                                              *)
Accounting ==
  /\ num_outstanding_reads = Cardinality(posted)
  /\ num_outstanding_reads <= max_outstanding_reads

(* A DC initiator carries at most one read: dci_outstanding counts the     *)
(* reads on it, and its bit is clear exactly while it carries one.         *)
DciExclusive ==
  transport = "dc" =>
    \A d \in Dcis : /\ dci_outstanding[d] = Cardinality(OnQp(d))
                    /\ dci_outstanding[d] <= 1
                    /\ d \in free_dci_bitmap <=> OnQp(d) = {}

(* assert(g_test.dci_outstanding[dci] == 0) in post_rdma_read, and its     *)
(* comment "0 if no available QP is found": running out of initiators is   *)
(* reported, it does not stop the server.                                  *)
DciAssertion == pc # "abort_dci"

(* "make sure everything was read": the assertion after the iterations.    *)
ReadAssertion == pc # "abort_unread"

(* The schedule is fair: no connection gets a full segment ahead of        *)
(* another one twice, also when a queue pair is full and the connection    *)
(* has to be put back.                                                     *)
Balanced ==
  \A c, d \in Conns : read_offset[c] - read_offset[d] <= max_read_size

(* The completion queue never overruns while data and control messages     *)
(* share it, provided that -o is no larger than the send queue.            *)
CqNeverOverruns == max_outstanding_reads <= TxLen => Len(cq) <= CqLen

(* The bytes a read writes: sge.addr of post_rdma_read, relative to        *)
(* rdma_buf, and its length.                                               *)
LocalBytes(r) == r.off .. r.off + r.len - 1

(* The read phase implements ReadService: every byte of every connection   *)
(* lands exactly once per iteration, an iteration never starts while a     *)
(* read of the one before is outstanding, the phase returns 0 only when    *)
(* everything was read, and no assertion stops it.                         *)
Pending(c) == UNION {LocalBytes(r) : r \in {q \in posted : q.conn = c}}
Service == INSTANCE ReadService WITH
  ReadSize <- rdma_read_size,
  Rounds   <- num_iterations,
  round    <- IF pc \in {"iter", "done"} THEN iter ELSE iter + 1,
  landed   <- [c \in Conns |-> (0 .. read_offset[c] - 1) \ Pending(c)],
  status   <- IF pc \in {"iter", "loop", "poll"} THEN "reading" ELSE pc
ImplementsReadService == Service!Spec

(* The read phase always returns.                                          *)
Terminates == <>(pc \in {"done", "failed"})
=============================================================================
