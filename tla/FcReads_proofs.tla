---------------------------- MODULE FcReads_proofs ----------------------------
(***************************************************************************)
(* Theorems about the read phase of rdma_fc, for every number of           *)
(* connections, segment size, queue length and number of initiators.       *)
(***************************************************************************)
EXTENDS FcReads, FiniteSetTheorems, SequenceTheorems, WellFoundedInduction, TLAPS

(* A read is below the offset its connection has reached, so a new read is *)
(* never equal to one that is posted.                                      *)
PostedOK ==
  /\ IsFiniteSet(posted)
  /\ \A r \in posted : r.off < read_offset[r.conn]

(* The completion queue holds each read at most once, and only posted ones.*)
CqOK ==
  /\ \A i \in 1 .. Len(cq) : cq[i].op = "READ" => cq[i].wr \in posted
  /\ \A i, j \in 1 .. Len(cq) :
       cq[i].op = "READ" /\ cq[j].op = "READ" /\ cq[i].wr = cq[j].wr => i = j

(* While an iteration runs, the schedule queue holds every unfinished      *)
(* connection once, and no other; between iterations nothing is left.      *)
SchedOK ==
  /\ pc \in {"loop", "poll"} =>
       /\ \A i \in 1 .. Len(sched) : read_offset[sched[i]] < rdma_read_size
       /\ \A c \in Conns : read_offset[c] < rdma_read_size =>
            \E i \in 1 .. Len(sched) : sched[i] = c
       /\ \A i, j \in 1 .. Len(sched) : sched[i] = sched[j] => i = j
  /\ pc = "iter" =>
       /\ sched = <<>> /\ posted = {}
       /\ iter > 0 => \A c \in Conns : read_offset[c] = rdma_read_size
  /\ pc \in {"loop", "poll"} => iter < num_iterations

(* The two records of the DC initiators agree with the reads on them.      *)
DciOK ==
  transport = "dc" =>
    /\ \A r \in posted : r.qp \in Dcis
    /\ \A r, q \in posted : r.qp = q.qp => r = q
    /\ \A d \in Dcis :
         dci_outstanding[d] = IF \E r \in posted : r.qp = d THEN 1 ELSE 0
    /\ free_dci_bitmap = Bits \ {r.qp : r \in posted}

IInv == TypeOK /\ PostedOK /\ Accounting /\ CqOK /\ SchedOK /\ DciOK

-----------------------------------------------------------------------------
(* The first and the remaining elements of a nonempty queue.               *)
LEMMA QueueFacts ==
  ASSUME NEW S, NEW s \in Seq(S), s # <<>>
  PROVE  /\ Len(s) \in Nat /\ Len(s) > 0
         /\ Head(s) \in S /\ Head(s) = s[1]
         /\ Tail(s) \in Seq(S) /\ Len(Tail(s)) = Len(s) - 1
         /\ \A i \in 1 .. Len(s) - 1 : Tail(s)[i] = s[i + 1]
  BY HeadTailProperties, EmptySeq, LenProperties, ElementOfSeq

(* Putting the element that was taken back leaves the queue unchanged.     *)
LEMMA PutBack ==
  ASSUME NEW S, NEW s \in Seq(S), s # <<>>
  PROVE  <<Head(s)>> \o Tail(s) = s
  BY HeadTailProperties

(* A queue whose head is moved to the tail (b), or dropped.                *)
LEMMA Requeue ==
  ASSUME NEW S, NEW s \in Seq(S), s # <<>>, NEW b \in BOOLEAN, NEW q,
         q = IF b THEN Append(Tail(s), Head(s)) ELSE Tail(s)
  PROVE  /\ q \in Seq(S) /\ Len(s) \in Nat /\ Len(s) > 0
         /\ \A i \in 1 .. Len(s) - 1 : q[i] = s[i + 1]
         /\ b => Len(q) = Len(s) /\ q[Len(s)] = Head(s)
         /\ ~b => Len(q) = Len(s) - 1
<1>1. /\ Len(s) \in Nat /\ Len(s) > 0 /\ Head(s) \in S
      /\ Tail(s) \in Seq(S) /\ Len(Tail(s)) = Len(s) - 1
      /\ \A i \in 1 .. Len(s) - 1 : Tail(s)[i] = s[i + 1]
  BY QueueFacts
<1>2. CASE b
  <2>1. /\ q \in Seq(S) /\ Len(q) = Len(Tail(s)) + 1
        /\ \A i \in 1 .. Len(Tail(s)) : q[i] = Tail(s)[i]
        /\ q[Len(Tail(s)) + 1] = Head(s)
    BY <1>1, <1>2, AppendProperties
  <2>4. Len(Tail(s)) + 1 = Len(s)
    BY <1>1
  <2>2. Len(q) = Len(s) /\ q[Len(s)] = Head(s)
    BY <2>1, <2>4
  <2>3. ASSUME NEW i \in 1 .. Len(s) - 1 PROVE q[i] = s[i + 1]
    BY <1>1, <2>1
  <2> QED BY <1>1, <1>2, <2>1, <2>2, <2>3
<1>3. CASE ~b
  BY <1>1, <1>3
<1> QED BY <1>2, <1>3

LEMMA InitIInv == Init => IInv
<1> SUFFICES ASSUME Init PROVE IInv
  OBVIOUS
<1> USE TransportAssumption, SizesAssumption, DciAssumption
<1>1. TypeOK
  BY DEF Init, TypeOK, Phases, Conns, Dcis, Bits
<1>2. PostedOK /\ Accounting
  BY FS_EmptySet DEF Init, PostedOK, Accounting
<1>3. CqOK /\ SchedOK /\ DciOK
  BY DEF Init, CqOK, SchedOK, DciOK, Conns, Dcis, Bits
<1> QED BY <1>1, <1>2, <1>3 DEF IInv

LEMMA StartIterationIInv == IInv /\ StartIteration => IInv'
<1> SUFFICES ASSUME IInv, StartIteration PROVE IInv'
  OBVIOUS
<1> USE SizesAssumption, DciAssumption
<1> DEFINE all == [i \in 1 .. num_conns |-> i - 1]
<1>1. all \in Seq(Conns) /\ Len(all) = num_conns
  BY DEF Conns
<1>2. sched' = all /\ posted = {}
  BY <1>1, EmptySeq, ConcatEmptySeq DEF StartIteration, IInv, SchedOK
<1>3. TypeOK'
  BY <1>1, <1>2 DEF StartIteration, IInv, TypeOK, Phases, dciVars
<1>4. (PostedOK /\ Accounting /\ CqOK /\ DciOK)'
  BY <1>2 DEF StartIteration, IInv, PostedOK, Accounting, CqOK, DciOK, dciVars
<1>5. SchedOK'
  <2>1. \A c \in Conns : c + 1 \in 1 .. num_conns /\ all[c + 1] = c
    BY DEF Conns
  <2>2. \A i \in 1 .. num_conns : all[i] \in Conns
    BY DEF Conns
  <2>3. \A c \in Conns : read_offset'[c] = 0
    BY DEF StartIteration
  <2>4. \A i \in 1 .. Len(sched') : read_offset'[sched'[i]] < rdma_read_size
    BY <1>1, <1>2, <2>2, <2>3
  <2>5. \A c \in Conns : \E i \in 1 .. Len(sched') : sched'[i] = c
    BY <1>1, <1>2, <2>1
  <2>6. \A i, j \in 1 .. Len(sched') : sched'[i] = sched'[j] => i = j
    BY <1>1, <1>2
  <2> QED BY <2>4, <2>5, <2>6 DEF StartIteration, SchedOK
<1> QED BY <1>3, <1>4, <1>5 DEF IInv

LEMMA EndIterationIInv == IInv /\ EndIteration => IInv'
<1> SUFFICES ASSUME IInv, EndIteration PROVE IInv'
  OBVIOUS
<1> USE SizesAssumption
<1>1. TypeOK'
  BY DEF EndIteration, IInv, TypeOK, SchedOK, Phases, readVars
<1>2. (PostedOK /\ Accounting /\ CqOK /\ DciOK)'
  BY DEF EndIteration, IInv, PostedOK, Accounting, CqOK, DciOK, readVars
<1>3. posted = {}
  BY FS_EmptySet DEF EndIteration, LoopEnds, IInv, Accounting, PostedOK
<1>4. \A c \in Conns : read_offset[c] = rdma_read_size
  BY EmptySeq DEF EndIteration, LoopEnds, IInv, SchedOK, TypeOK
<1>5. SchedOK'
  BY <1>3, <1>4 DEF EndIteration, LoopEnds, SchedOK, readVars
<1> QED BY <1>1, <1>2, <1>5 DEF IInv

(* The steps that change only pc and leave the loop or stay in it.         *)
LEMMA ControlIInv ==
  IInv /\ (FinishReads \/ AbortDci \/ SkipPost \/ PollEmpty) => IInv'
<1> SUFFICES ASSUME IInv, FinishReads \/ AbortDci \/ SkipPost \/ PollEmpty
             PROVE  IInv'
  OBVIOUS
<1>1. UNCHANGED <<iter, sched, read_offset, num_outstanding_reads, dciVars,
                  num_fin_recvd, posted, cq, fin_arrived>>
  BY DEF FinishReads, AbortDci, SkipPost, PollEmpty, readVars, dciVars
<1>2. pc' \in Ends \/ (pc \in {"loop", "poll"} /\ pc' \in {"loop", "poll"})
  BY DEF FinishReads, AbortDci, SkipPost, PollEmpty, Ends
<1>3. TypeOK'
  BY <1>1, <1>2 DEF IInv, TypeOK, Phases, dciVars
<1>4. (PostedOK /\ Accounting /\ CqOK /\ DciOK)'
  BY <1>1 DEF IInv, PostedOK, Accounting, CqOK, DciOK, dciVars
<1>5. SchedOK'
  BY <1>1, <1>2 DEF IInv, SchedOK, Ends
<1> QED BY <1>3, <1>4, <1>5 DEF IInv

LEMMA PostNothingIInv == IInv /\ PostNothing => IInv'
<1> SUFFICES ASSUME IInv, PostNothing PROVE IInv'
  OBVIOUS
<1>1. sched' = sched
  BY PutBack DEF PostNothing, MayPost, AfterNoPost, IInv, TypeOK
<1> QED
  BY <1>1 DEF PostNothing, IInv, TypeOK, PostedOK, Accounting, CqOK, SchedOK,
              DciOK, Phases, dciVars

LEMMA PollErrorIInv == IInv /\ PollError => IInv'
<1> SUFFICES ASSUME IInv, PollError PROVE IInv'
  OBVIOUS
<1>1. /\ cq' \in Seq(Cqe) /\ Len(cq') = Len(cq) - 1 /\ Len(cq) \in Nat
      /\ \A i \in 1 .. Len(cq) - 1 : cq'[i] = cq[i + 1]
  BY QueueFacts DEF PollError, IInv, TypeOK
<1>2. CqOK'
  BY <1>1 DEF PollError, IInv, CqOK, readVars
<1> QED
  BY <1>1, <1>2 DEF PollError, IInv, TypeOK, PostedOK, Accounting, SchedOK,
                    DciOK, Phases, Ends, readVars

LEMMA PollFinIInv == IInv /\ PollFin => IInv'
<1> SUFFICES ASSUME IInv, PollFin PROVE IInv'
  OBVIOUS
<1>1. /\ cq' \in Seq(Cqe) /\ Len(cq') = Len(cq) - 1 /\ Len(cq) \in Nat
      /\ \A i \in 1 .. Len(cq) - 1 : cq'[i] = cq[i + 1]
  BY QueueFacts DEF PollFin, IInv, TypeOK
<1>2. CqOK'
  BY <1>1 DEF PollFin, IInv, CqOK, readVars
<1> QED
  BY <1>1, <1>2 DEF PollFin, IInv, TypeOK, PostedOK, Accounting, SchedOK,
                    DciOK, Phases, readVars

(* The read that PostRead posts.                                           *)
NewWr(c) == [conn |-> c, off |-> read_offset[c], len |-> SegmentSize(c), qp |-> QpFor(c)]

(* The facts about it that the conjuncts of IInv need.                     *)
LEMMA PostReadFacts ==
  ASSUME IInv, PostRead
  PROVE  LET c == Head(sched) IN
         /\ c \in Conns /\ sched[1] = c /\ read_offset[c] < rdma_read_size
         /\ SegmentSize(c) \in Nat /\ SegmentSize(c) > 0
         /\ read_offset[c] + SegmentSize(c) <= rdma_read_size
         /\ posted' = posted \cup {NewWr(c)} /\ NewWr(c) \in Wr
         /\ NewWr(c) \notin posted
         /\ transport = "dc" => /\ FirstFree \in Dcis /\ QpFor(c) = FirstFree
                               /\ dci_outstanding[FirstFree] = 0
<1> DEFINE c == Head(sched)
<1> USE SizesAssumption, TransportAssumption, DciAssumption
<1>1. c \in Conns /\ sched[1] = c /\ Len(sched) \in Nat /\ Len(sched) > 0
  BY QueueFacts DEF PostRead, MayPost, IInv, TypeOK
<1>2. read_offset[c] \in 0 .. rdma_read_size /\ read_offset[c] < rdma_read_size
  BY <1>1 DEF PostRead, IInv, TypeOK, SchedOK
<1>3. /\ SegmentSize(c) \in Nat /\ SegmentSize(c) > 0
      /\ read_offset[c] + SegmentSize(c) <= rdma_read_size
  BY <1>2 DEF SegmentSize, MIN
<1>4. transport = "dc" => /\ FirstFree \in Dcis /\ QpFor(c) = FirstFree
                          /\ dci_outstanding[FirstFree] = 0
  BY DEF PostRead, DciIsIdle, QpFor
<1>5. QpFor(c) \in Conns \cup Dcis
  BY <1>1, <1>4 DEF QpFor
<1>6. NewWr(c) \in Wr
  BY <1>1, <1>2, <1>3, <1>5 DEF NewWr, Wr
<1>7. NewWr(c) \notin posted
  BY <1>2 DEF NewWr, IInv, PostedOK
<1>8. posted' = posted \cup {NewWr(c)}
  BY DEF PostRead, NewWr
<1> QED BY <1>1, <1>2, <1>3, <1>4, <1>6, <1>7, <1>8

LEMMA PostReadIInv == IInv /\ PostRead => IInv'
<1> SUFFICES ASSUME IInv, PostRead PROVE IInv'
  OBVIOUS
<1> USE SizesAssumption, TransportAssumption, DciAssumption
<1> DEFINE c    == Head(sched)
           next == read_offset[c] + SegmentSize(c)
<1> HIDE DEF c, next
<1>1. /\ c \in Conns /\ sched[1] = c /\ read_offset[c] < rdma_read_size
      /\ SegmentSize(c) \in Nat /\ SegmentSize(c) > 0
      /\ next <= rdma_read_size
      /\ posted' = posted \cup {NewWr(c)} /\ NewWr(c) \in Wr
      /\ NewWr(c) \notin posted
      /\ transport = "dc" => /\ FirstFree \in Dcis /\ QpFor(c) = FirstFree
                            /\ dci_outstanding[FirstFree] = 0
  BY PostReadFacts DEF c, next
<1>2. /\ pc' = "poll" /\ pc = "loop" /\ iter' = iter /\ cq' = cq
      /\ num_fin_recvd' = num_fin_recvd /\ fin_arrived' = fin_arrived
      /\ num_outstanding_reads' = num_outstanding_reads + 1
      /\ num_outstanding_reads < max_outstanding_reads
      /\ read_offset' = [read_offset EXCEPT ![c] = next]
      /\ sched' = IF next < rdma_read_size THEN Append(Tail(sched), c) ELSE Tail(sched)
      /\ IF transport = "dc" THEN MarkBusy(QpFor(c)) ELSE UNCHANGED dciVars
  BY DEF PostRead, AfterPost, MayPost, c, next
<1>3. next \in 0 .. rdma_read_size /\ read_offset[c] < next
  BY <1>1 DEF next, IInv, TypeOK
<1>4. /\ Len(sched) \in Nat /\ Len(sched) > 0
      /\ Tail(sched) \in Seq(Conns) /\ Len(Tail(sched)) = Len(sched) - 1
      /\ \A i \in 1 .. Len(sched) - 1 : Tail(sched)[i] = sched[i + 1]
  BY QueueFacts DEF PostRead, MayPost, IInv, TypeOK
<1>5. /\ sched' \in Seq(Conns)
      /\ Len(sched') = IF next < rdma_read_size THEN Len(sched) ELSE Len(sched) - 1
      /\ \A i \in 1 .. Len(sched) - 1 : sched'[i] = sched[i + 1]
      /\ next < rdma_read_size => sched'[Len(sched)] = c
  BY <1>1, <1>2, <1>4, AppendProperties
<1>6. TypeOK'
  <2>1. posted' \subseteq Wr
    BY <1>1 DEF IInv, TypeOK
  <2>2. read_offset' \in [Conns -> 0 .. rdma_read_size]
    BY <1>2, <1>3 DEF IInv, TypeOK
  <2>3. dci_outstanding' \in [Dcis -> Nat] /\ free_dci_bitmap' \subseteq Bits
    BY <1>1, <1>2 DEF IInv, TypeOK, MarkBusy, dciVars
  <2> QED BY <1>2, <1>5, <2>1, <2>2, <2>3 DEF IInv, TypeOK, Phases
<1>7. PostedOK'
  <2>1. IsFiniteSet(posted')
    BY <1>1, FS_AddElement DEF IInv, PostedOK
  <2>2. ASSUME NEW r \in posted' PROVE r.off < read_offset'[r.conn]
    <3>1. CASE r = NewWr(c)
      BY <3>1, <1>1, <1>2, <1>3 DEF NewWr, IInv, TypeOK
    <3>2. CASE r \in posted
      <4>1. r.conn \in Conns /\ r.off \in Nat /\ r.off < read_offset[r.conn]
        BY <3>2 DEF IInv, TypeOK, PostedOK, Wr
      <4>2. read_offset[r.conn] <= read_offset'[r.conn]
        BY <4>1, <1>2, <1>3 DEF IInv, TypeOK
      <4> QED BY <4>1, <4>2, <1>2, <1>3 DEF IInv, TypeOK
    <3> QED BY <3>1, <3>2, <1>1
  <2> QED BY <2>1, <2>2 DEF PostedOK
<1>8. Accounting'
  <2>1. Cardinality(posted') = Cardinality(posted) + 1
    BY <1>1, FS_AddElement DEF IInv, PostedOK
  <2> QED BY <2>1, <1>2 DEF IInv, TypeOK, Accounting
<1>9. CqOK'
  BY <1>1, <1>2 DEF IInv, CqOK
<1>10. SchedOK'
  <2> DEFINE n == Len(sched)
  <2>1. \A i \in 1 .. n : sched[i] \in Conns
    BY ElementOfSeq DEF IInv, TypeOK
  <2>2. /\ \A i \in 1 .. n : read_offset[sched[i]] < rdma_read_size
        /\ \A i, j \in 1 .. n : sched[i] = sched[j] => i = j
    BY <1>2 DEF IInv, SchedOK
  <2>9. /\ n \in Nat /\ n > 0
        /\ \A i \in 1 .. n - 1 : sched'[i] = sched[i + 1]
        /\ next < rdma_read_size => Len(sched') = n /\ sched'[n] = c
        /\ ~(next < rdma_read_size) => Len(sched') = n - 1
    BY <1>4, <1>5
  <2> HIDE DEF n
  <2>3. ASSUME NEW i \in 1 .. n - 1
        PROVE  /\ i + 1 \in 1 .. n /\ sched'[i] = sched[i + 1]
               /\ sched'[i] \in Conns /\ sched'[i] # c
               /\ read_offset'[sched'[i]] < rdma_read_size
    <3>1. i + 1 \in 1 .. n /\ 1 \in 1 .. n /\ i + 1 # 1 /\ sched'[i] = sched[i + 1]
      BY <2>9
    <3>2. sched[i + 1] \in Conns /\ sched[i + 1] # c /\ read_offset[sched[i + 1]] < rdma_read_size
      BY <3>1, <2>1, <2>2, <1>1
    <3> QED BY <3>1, <3>2, <1>2 DEF IInv, TypeOK
  <2>4. ASSUME NEW i \in 1 .. Len(sched')
        PROVE  \/ i \in 1 .. n - 1
               \/ i = n /\ next < rdma_read_size /\ sched'[i] = c
    <3>1. CASE next < rdma_read_size
      BY <3>1, <2>9
    <3>2. CASE ~(next < rdma_read_size)
      BY <3>2, <2>9
    <3> QED BY <3>1, <3>2
  <2>5. ASSUME NEW i \in 1 .. Len(sched') PROVE read_offset'[sched'[i]] < rdma_read_size
    <3>1. CASE i \in 1 .. n - 1
      BY <3>1, <2>3
    <3>2. CASE next < rdma_read_size /\ sched'[i] = c
      BY <3>2, <1>1, <1>2 DEF IInv, TypeOK
    <3> QED BY <3>1, <3>2, <2>4
  <2>7. ASSUME NEW d \in Conns, read_offset'[d] < rdma_read_size
        PROVE  \E i \in 1 .. Len(sched') : sched'[i] = d
    <3>1. CASE d = c
      <4>1. next < rdma_read_size
        BY <3>1, <2>7, <1>1, <1>2 DEF IInv, TypeOK
      <4> QED BY <4>1, <3>1, <1>4, <1>5
    <3>2. CASE d # c
      <4>1. read_offset[d] < rdma_read_size
        BY <3>2, <2>7, <1>2 DEF IInv, TypeOK
      <4>2. PICK i \in 1 .. n : sched[i] = d
        BY <4>1, <1>2 DEF IInv, SchedOK, n
      <4>3. i # 1 /\ i - 1 \in 1 .. n - 1 /\ (i - 1) + 1 = i
        BY <4>2, <3>2, <1>1, <2>9
      <4>4. sched'[i - 1] = sched[(i - 1) + 1]
        BY <4>3, <2>9
      <4>5. i - 1 \in 1 .. Len(sched')
        <5>1. CASE next < rdma_read_size
          BY <5>1, <4>3, <2>9
        <5>2. CASE ~(next < rdma_read_size)
          BY <5>2, <4>3, <2>9
        <5> QED BY <5>1, <5>2
      <4> QED BY <4>2, <4>3, <4>4, <4>5
    <3> QED BY <3>1, <3>2
  <2>8. ASSUME NEW i \in 1 .. Len(sched'), NEW j \in 1 .. Len(sched'),
               sched'[i] = sched'[j]
        PROVE  i = j
    <3>1. CASE i \in 1 .. n - 1 /\ j \in 1 .. n - 1
      <4>1. i + 1 \in 1 .. n /\ j + 1 \in 1 .. n /\ sched[i + 1] = sched[j + 1]
        BY <3>1, <2>3, <2>8
      <4> QED BY <4>1, <2>2
    <3>2. CASE i \in 1 .. n - 1 /\ j \notin 1 .. n - 1
      BY <3>2, <2>3, <2>4, <2>8
    <3>3. CASE i \notin 1 .. n - 1 /\ j \in 1 .. n - 1
      BY <3>3, <2>3, <2>4, <2>8
    <3>4. CASE i \notin 1 .. n - 1 /\ j \notin 1 .. n - 1
      BY <3>4, <2>4
    <3> QED BY <3>1, <3>2, <3>3, <3>4
  <2>6. iter' < num_iterations
    BY <1>2 DEF IInv, SchedOK
  <2> QED BY <2>5, <2>6, <2>7, <2>8, <1>2 DEF SchedOK
<1>11. DciOK'
  <2> SUFFICES ASSUME transport = "dc" PROVE DciOK'
    BY DEF DciOK
  <2> DEFINE q == FirstFree
  <2> HIDE DEF q
  <2>1. /\ q \in Dcis /\ NewWr(c).qp = q /\ dci_outstanding[q] = 0
        /\ dci_outstanding' = [dci_outstanding EXCEPT ![q] = @ + 1]
        /\ free_dci_bitmap' = free_dci_bitmap \ {q}
    BY <1>1, <1>2 DEF NewWr, MarkBusy, q
  <2>2. ~ \E r \in posted : r.qp = q
    BY <2>1 DEF IInv, DciOK
  <2>3. /\ \A r \in posted' : r.qp \in Dcis
        /\ \A r, w \in posted' : r.qp = w.qp => r = w
    BY <1>1, <2>1, <2>2 DEF IInv, DciOK
  <2>4. ASSUME NEW d \in Dcis
        PROVE  dci_outstanding'[d] = IF \E r \in posted' : r.qp = d THEN 1 ELSE 0
    <3>1. dci_outstanding \in [Dcis -> Nat]
      BY DEF IInv, TypeOK
    <3>2. CASE d = q
      BY <3>1, <3>2, <1>1, <2>1
    <3>3. CASE d # q
      <4>1. dci_outstanding'[d] = dci_outstanding[d]
        BY <3>1, <3>3, <2>1
      <4>2. (\E r \in posted' : r.qp = d) <=> (\E r \in posted : r.qp = d)
        BY <3>3, <1>1, <2>1
      <4> QED BY <4>1, <4>2 DEF IInv, DciOK
    <3> QED BY <3>2, <3>3
  <2>5. free_dci_bitmap' = Bits \ {r.qp : r \in posted'}
    BY <1>1, <2>1, <2>2 DEF IInv, DciOK
  <2> QED BY <2>3, <2>4, <2>5 DEF DciOK
<1> QED BY <1>6, <1>7, <1>8, <1>9, <1>10, <1>11 DEF IInv

LEMMA PollReadIInv == IInv /\ PollRead => IInv'
<1> SUFFICES ASSUME IInv, PollRead PROVE IInv'
  OBVIOUS
<1> USE SizesAssumption, TransportAssumption, DciAssumption
<1> DEFINE wr == Head(cq).wr
<1> HIDE DEF wr
<1>1. /\ cq' \in Seq(Cqe) /\ Len(cq') = Len(cq) - 1 /\ Len(cq) \in Nat /\ Len(cq) > 0
      /\ \A i \in 1 .. Len(cq) - 1 : cq'[i] = cq[i + 1]
      /\ cq[1].wr = wr /\ cq[1].op = "READ"
  BY QueueFacts DEF PollRead, IInv, TypeOK, wr
<1>2. /\ pc = "poll" /\ pc' = "loop" /\ posted' = posted \ {wr}
      /\ num_outstanding_reads' = num_outstanding_reads - 1
      /\ IF transport = "dc" THEN DcSendCompletion(wr.qp) ELSE UNCHANGED dciVars
      /\ UNCHANGED <<iter, sched, read_offset, num_fin_recvd, fin_arrived>>
  BY DEF PollRead, wr
<1>3. wr \in posted
  BY <1>1 DEF IInv, CqOK
<1>4. IsFiniteSet(posted') /\ Cardinality(posted') = Cardinality(posted) - 1
  BY <1>2, <1>3, FS_RemoveElement DEF IInv, PostedOK
<1>5. Accounting' /\ num_outstanding_reads' \in Nat
  BY <1>2, <1>4, FS_CardinalityType DEF IInv, TypeOK, Accounting
<1>6. PostedOK'
  BY <1>2, <1>4 DEF IInv, PostedOK
<1>7. CqOK'
  <2>1. ASSUME NEW i \in 1 .. Len(cq')
        PROVE  i + 1 \in 1 .. Len(cq) /\ cq'[i] = cq[i + 1] /\ 1 # i + 1
    BY <1>1
  <2>2. 1 \in 1 .. Len(cq)
    BY <1>1
  <2>3. ASSUME NEW i \in 1 .. Len(cq'), cq'[i].op = "READ"
        PROVE  cq'[i].wr \in posted'
    <3>1. cq[i + 1].wr \in posted
      BY <2>1, <2>3 DEF IInv, CqOK
    <3>2. cq[i + 1].wr # cq[1].wr
      BY <1>1, <2>1, <2>2, <2>3 DEF IInv, CqOK
    <3> QED BY <1>1, <1>2, <2>1, <3>1, <3>2
  <2>4. ASSUME NEW i \in 1 .. Len(cq'), NEW j \in 1 .. Len(cq'),
               cq'[i].op = "READ", cq'[j].op = "READ", cq'[i].wr = cq'[j].wr
        PROVE  i = j
    <3>1. i + 1 = j + 1
      BY <2>1, <2>4 DEF IInv, CqOK
    <3> QED BY <3>1
  <2> QED BY <2>3, <2>4 DEF CqOK
<1>8. SchedOK'
  BY <1>2 DEF IInv, SchedOK
<1>9. transport = "dc" =>
        /\ wr.qp \in Dcis /\ dci_outstanding[wr.qp] = 1
        /\ dci_outstanding' = [dci_outstanding EXCEPT ![wr.qp] = 0]
        /\ free_dci_bitmap' = free_dci_bitmap \cup {wr.qp}
  BY <1>2, <1>3 DEF IInv, DciOK, DcSendCompletion
<1>10. DciOK'
  <2> SUFFICES ASSUME transport = "dc" PROVE DciOK'
    BY DEF DciOK
  <2>1. \A r \in posted : r.qp = wr.qp => r = wr
    BY <1>3 DEF IInv, DciOK
  <2>2. ASSUME NEW d \in Dcis
        PROVE  dci_outstanding'[d] = IF \E r \in posted' : r.qp = d THEN 1 ELSE 0
    BY <1>2, <1>3, <1>9, <2>1 DEF IInv, TypeOK, DciOK
  <2>3. wr.qp \in Bits
    BY <1>9 DEF Dcis, Bits
  <2>4. free_dci_bitmap' = Bits \ {r.qp : r \in posted'}
    BY <1>2, <1>3, <1>9, <2>1, <2>3 DEF IInv, DciOK
  <2> QED BY <1>2, <2>2, <2>4 DEF IInv, DciOK
<1>11. TypeOK'
  <2>1. dci_outstanding' \in [Dcis -> Nat] /\ free_dci_bitmap' \subseteq Bits
    <3>1. CASE transport = "dc"
      <4>1. wr.qp \in Bits
        BY <3>1, <1>9 DEF Dcis, Bits
      <4> QED BY <4>1, <3>1, <1>9 DEF IInv, TypeOK
    <3>2. CASE transport # "dc"
      BY <3>2, <1>2 DEF IInv, TypeOK, dciVars
    <3> QED BY <3>1, <3>2
  <2> QED BY <1>1, <1>2, <1>5, <2>1 DEF IInv, TypeOK, Phases
<1> QED BY <1>5, <1>6, <1>7, <1>8, <1>10, <1>11 DEF IInv

LEMMA CompleteReadIInv ==
  ASSUME NEW r \in posted, NEW ok \in BOOLEAN, IInv, CompleteRead(r, ok)
  PROVE  IInv'
<1> DEFINE e == [op |-> "READ", wr |-> r, ok |-> ok]
<1>1. e \in Cqe
  BY DEF IInv, TypeOK, Cqe
<1>2. /\ cq' \in Seq(Cqe) /\ Len(cq') = Len(cq) + 1 /\ Len(cq) \in Nat
      /\ \A i \in 1 .. Len(cq) : cq'[i] = cq[i]
      /\ cq'[Len(cq) + 1] = e
  BY <1>1, AppendProperties DEF CompleteRead, IInv, TypeOK
<1>3. \A i \in 1 .. Len(cq) : cq[i].op = "READ" => cq[i].wr # r
  BY DEF CompleteRead, InFlight, Executed, IInv, TypeOK
<1>4. CqOK'
  BY <1>2, <1>3 DEF CompleteRead, IInv, CqOK, readVars
<1>5. TypeOK'
  BY <1>2 DEF CompleteRead, IInv, TypeOK, readVars
<1>6. (PostedOK /\ Accounting /\ SchedOK /\ DciOK)'
  BY DEF CompleteRead, IInv, PostedOK, Accounting, SchedOK, DciOK, readVars
<1> QED BY <1>4, <1>5, <1>6 DEF IInv

LEMMA FinArrivesIInv ==
  ASSUME NEW c \in Conns, IInv, FinArrives(c)
  PROVE  IInv'
<1> DEFINE e == [op |-> "RECV", wr |-> ControlWr(c), ok |-> TRUE]
<1>1. e \in Cqe
  BY DEF Cqe, Wr, ControlWr
<1>2. /\ cq' \in Seq(Cqe) /\ Len(cq') = Len(cq) + 1 /\ Len(cq) \in Nat
      /\ \A i \in 1 .. Len(cq) : cq'[i] = cq[i]
      /\ cq'[Len(cq) + 1] = e
  BY <1>1, AppendProperties DEF FinArrives, IInv, TypeOK
<1>3. CqOK'
  BY <1>2 DEF FinArrives, IInv, CqOK, readVars
<1>4. TypeOK'
  BY <1>2 DEF FinArrives, IInv, TypeOK, readVars
<1>5. (PostedOK /\ Accounting /\ SchedOK /\ DciOK)'
  BY DEF FinArrives, IInv, PostedOK, Accounting, SchedOK, DciOK, readVars
<1> QED BY <1>3, <1>4, <1>5 DEF IInv

-----------------------------------------------------------------------------
LEMMA NextIInv == IInv /\ [Next]_vars => IInv'
<1> SUFFICES ASSUME IInv, [Next]_vars PROVE IInv'
  OBVIOUS
<1>1. CASE StartIteration \/ EndIteration
  BY <1>1, StartIterationIInv, EndIterationIInv
<1>2. CASE FinishReads \/ AbortDci \/ SkipPost \/ PollEmpty
  BY <1>2, ControlIInv
<1>3. CASE PostRead \/ PostNothing
  BY <1>3, PostReadIInv, PostNothingIInv
<1>4. CASE PollError \/ PollFin \/ PollRead
  BY <1>4, PollErrorIInv, PollFinIInv, PollReadIInv
<1>5. CASE Adapter
  BY <1>5, CompleteReadIInv DEF Adapter
<1>6. CASE \E c \in Conns : FinArrives(c)
  BY <1>6, FinArrivesIInv
<1>7. CASE UNCHANGED vars
  BY <1>7 DEF vars, IInv, TypeOK, PostedOK, Accounting, CqOK, SchedOK, DciOK
<1> QED BY <1>1, <1>2, <1>3, <1>4, <1>5, <1>6, <1>7 DEF Next, Server, Stopped

(* The inductive invariant holds in every state of the read phase.         *)
THEOREM Invariance == Spec => []IInv
<1>1. Init => IInv
  BY InitIInv
<1>2. IInv /\ [Next]_vars => IInv'
  BY NextIInv
<1> QED BY <1>1, <1>2, PTL DEF Spec

(* Every variable keeps its type.                                          *)
THEOREM TypeCorrect == Spec => []TypeOK
<1>1. IInv => TypeOK
  BY DEF IInv
<1> QED BY <1>1, Invariance, PTL

(* num_outstanding_reads counts the reads that are posted and not polled,  *)
(* and never exceeds option -o.                                            *)
THEOREM AccountingHolds == Spec => []Accounting
<1>1. IInv => Accounting
  BY DEF IInv
<1> QED BY <1>1, Invariance, PTL

(* A DC initiator carries at most one read, and its counter and its bit    *)
(* say so.                                                                 *)
LEMMA IInvDciExclusive == IInv => DciExclusive
<1> SUFFICES ASSUME IInv, transport = "dc", NEW d \in Dcis
             PROVE  /\ dci_outstanding[d] = Cardinality(OnQp(d))
                    /\ dci_outstanding[d] <= 1
                    /\ d \in free_dci_bitmap <=> OnQp(d) = {}
  BY DEF DciExclusive
<1>1. d \in Bits
  BY DciAssumption DEF Dcis, Bits
<1>2. CASE OnQp(d) = {}
  <2>1. ~ \E r \in posted : r.qp = d
    BY <1>2 DEF OnQp
  <2>2. dci_outstanding[d] = 0 /\ d \in free_dci_bitmap
    BY <1>1, <2>1 DEF IInv, DciOK
  <2> QED BY <1>2, <2>2, FS_EmptySet
<1>3. CASE OnQp(d) # {}
  <2>1. PICK r \in posted : r.qp = d
    BY <1>3 DEF OnQp
  <2>2. OnQp(d) = {r}
    BY <2>1 DEF OnQp, IInv, DciOK
  <2>3. Cardinality(OnQp(d)) = 1
    BY <2>2, FS_Singleton
  <2> QED BY <1>3, <2>1, <2>3 DEF IInv, DciOK
<1> QED BY <1>2, <1>3

(* A DC initiator carries at most one read, and its bit of free_dci_bitmap *)
(* is clear exactly while it does, for every -o and number of initiators.  *)
THEOREM DciExclusiveHolds == Spec => []DciExclusive
BY IInvDciExclusive, Invariance, PTL

-----------------------------------------------------------------------------
(* A nonempty set of bits has a lowest one (by well-foundedness of strict  *)
(* inclusion on the initial segments 0 .. d).                              *)
LEMMA LowestBit ==
  ASSUME NEW B, B \subseteq Bits, B # {}
  PROVE  \E d \in B : \A e \in B : d <= e
<1> DEFINE S == 0 .. BitmapBits
           T == {0 .. d : d \in B}
<1>1. IsWellFoundedOn(StrictSubsetOrdering(S), FiniteSubsetsOf(S))
  BY FS_StrictSubsetOrderingWellFounded
<1>2. \A d \in B : d \in Nat /\ 0 .. d \in SUBSET S
  BY DciAssumption DEF Bits
<1>3. \A d \in B : IsFiniteSet(0 .. d)
  BY <1>2, FS_Interval
<1>4. T \subseteq FiniteSubsetsOf(S) /\ T # {}
  BY <1>2, <1>3 DEF FiniteSubsetsOf
<1>5. PICK x \in T : \A y \in T : <<y, x>> \notin StrictSubsetOrdering(S)
  BY <1>1, <1>4, WFMin
<1>6. PICK d \in B : x = 0 .. d
  BY <1>5
<1>7. ASSUME NEW e \in B PROVE d <= e
  <2> SUFFICES ASSUME e < d PROVE FALSE
    BY <1>2
  <2>1. (0 .. e) \subseteq (0 .. d) /\ 0 .. e # 0 .. d
    BY <1>2
  <2>2. <<0 .. e, 0 .. d>> \in StrictSubsetOrdering(S)
    BY <1>2, <2>1 DEF StrictSubsetOrdering
  <2> QED BY <1>5, <1>6, <2>2
<1> QED BY <1>7

LEMMA FirstFreeIsLowest ==
  ASSUME free_dci_bitmap \subseteq Bits, free_dci_bitmap # {}
  PROVE  FirstFree \in free_dci_bitmap /\ \A e \in free_dci_bitmap : FirstFree <= e
BY LowestBit DEF FirstFree

(* There are NUM_DCI initiators.                                           *)
LEMMA CountDcis == Cardinality(Dcis) = NUM_DCI
<1> DEFINE last == NUM_DCI - 1
<1>1. last \in Int /\ 0 <= last /\ last - 0 + 1 = NUM_DCI
  BY DciAssumption
<1>2. Dcis = 0 .. last
  BY DEF Dcis
<1> HIDE DEF last
<1>3. Cardinality(0 .. last) = IF 0 > last THEN 0 ELSE last - 0 + 1
  BY <1>1, FS_Interval
<1> QED BY <1>1, <1>2, <1>3

(* With no more reads in flight than initiators, a read to be posted finds *)
(* an idle initiator: if all were busy, the reads posted would be as many. *)
LEMMA SomeDciIsIdle ==
  ASSUME IInv, transport = "dc", max_outstanding_reads <= NUM_DCI, MayPost,
         free_dci_bitmap # {}
  PROVE  FirstFree \in Dcis /\ dci_outstanding[FirstFree] = 0
<1> USE SizesAssumption, DciAssumption
<1> DEFINE busy == {r.qp : r \in posted}
           qpOf == [r \in posted |-> r.qp]
<1>1. IsFiniteSet(busy) /\ Cardinality(busy) <= Cardinality(posted)
  <2>1. qpOf \in Surjection(posted, busy)
    BY DEF Surjection
  <2> QED BY <2>1, FS_Surjection DEF IInv, PostedOK
<1>2. Cardinality(busy) < NUM_DCI
  BY <1>1, FS_CardinalityType DEF IInv, Accounting, PostedOK, TypeOK, MayPost
<1>3. PICK d \in Dcis : d \notin busy
  <2> SUFFICES ASSUME Dcis \subseteq busy PROVE FALSE
    OBVIOUS
  <2>1. Cardinality(Dcis) = NUM_DCI
    BY CountDcis
  <2>2. Cardinality(Dcis) <= Cardinality(busy)
    BY <1>1, FS_Subset
  <2> QED BY <1>1, <1>2, <2>1, <2>2, FS_CardinalityType
<1>4. d \in free_dci_bitmap
  BY <1>3 DEF IInv, DciOK, Dcis, Bits
<1>5. FirstFree \in free_dci_bitmap /\ FirstFree <= d /\ FirstFree \in Bits
  BY <1>4, FirstFreeIsLowest DEF IInv, TypeOK
<1>6. FirstFree \in Dcis
  BY <1>3, <1>5 DEF Bits, Dcis
<1> QED BY <1>5, <1>6 DEF IInv, DciOK

LEMMA AbortDciImpossible ==
  ASSUME IInv, transport = "dc" => max_outstanding_reads <= NUM_DCI
  PROVE  ~AbortDci
BY SomeDciIsIdle, TransportAssumption DEF AbortDci, DciIsIdle, NoQpFor

(* The assertion of post_rdma_read never fails, with RC, and with DC when  *)
(* option -o does not exceed the number of initiators.                     *)
THEOREM DciAssertionHolds ==
  ASSUME transport = "dc" => max_outstanding_reads <= NUM_DCI
  PROVE  Spec => []DciAssertion
<1>1. Init => DciAssertion
  BY DEF Init, DciAssertion
<1>2. IInv /\ DciAssertion /\ [Next]_vars => DciAssertion'
  <2> SUFFICES ASSUME IInv, DciAssertion, [Next]_vars PROVE DciAssertion'
    OBVIOUS
  <2>1. ~AbortDci
    BY AbortDciImpossible
  <2> QED
    BY <2>1 DEF DciAssertion, Next, Server, Adapter, StartIteration, EndIteration,
       FinishReads, PostRead, PostNothing, SkipPost, PollEmpty, PollError,
       PollFin, PollRead, CompleteRead, FinArrives, Stopped, vars
<1> QED BY <1>1, <1>2, Invariance, PTL DEF Spec

(* With at least one iteration the assertion that everything was read      *)
(* never fails.                                                            *)
LEMMA FinishReadsSucceeds ==
  ASSUME IInv, FinishReads, num_iterations > 0
  PROVE  pc' = "done" /\ \A c \in Conns : read_offset[c] = rdma_read_size
BY SizesAssumption DEF IInv, SchedOK, FinishReads

(* The assertion that everything was read never fails when at least one    *)
(* iteration is run.                                                       *)
THEOREM ReadAssertionHolds ==
  ASSUME num_iterations > 0
  PROVE  Spec => []ReadAssertion
<1>1. Init => ReadAssertion
  BY DEF Init, ReadAssertion
<1>2. IInv /\ ReadAssertion /\ [Next]_vars => ReadAssertion'
  <2> SUFFICES ASSUME IInv, ReadAssertion, [Next]_vars PROVE ReadAssertion'
    OBVIOUS
  <2>1. CASE FinishReads
    BY <2>1, FinishReadsSucceeds DEF ReadAssertion
  <2>2. CASE ~FinishReads
    BY <2>2 DEF ReadAssertion, Next, Server, Adapter, StartIteration, EndIteration,
       PostRead, PostNothing, AbortDci, SkipPost, PollEmpty, PollError,
       PollFin, PollRead, CompleteRead, FinArrives, Stopped, vars
  <2> QED BY <2>1, <2>2
<1> QED BY <1>1, <1>2, Invariance, PTL DEF Spec

-----------------------------------------------------------------------------
(* Fairness of the schedule: the offsets do not decrease along the queue,  *)
(* and nobody is more than a segment ahead of its head.                    *)
OrderOK ==
  /\ Balanced
  /\ pc \in {"loop", "poll"} =>
       /\ \A i, j \in 1 .. Len(sched) :
            i <= j => read_offset[sched[i]] <= read_offset[sched[j]]
       /\ sched # <<>> => \A d \in Conns :
            read_offset[d] <= read_offset[Head(sched)] + max_read_size

LEMMA StartIterationOrder == IInv /\ StartIteration => OrderOK'
<1> SUFFICES ASSUME IInv, StartIteration PROVE OrderOK'
  OBVIOUS
<1> USE SizesAssumption
<1>1. \A c \in Conns : read_offset'[c] = 0
  BY DEF StartIteration
<1>2. sched' \in Seq(Conns)
  BY StartIterationIInv DEF IInv, TypeOK
<1>3. Balanced'
  BY <1>1 DEF Balanced
<1>4. \A i \in 1 .. Len(sched') : sched'[i] \in Conns
  BY <1>2, ElementOfSeq
<1>5. sched' # <<>> => Head(sched') \in Conns
  BY <1>2, QueueFacts
<1> QED BY <1>1, <1>3, <1>4, <1>5 DEF OrderOK

LEMMA PostReadOrder == IInv /\ OrderOK /\ PostRead => OrderOK'
<1> SUFFICES ASSUME IInv, OrderOK, PostRead PROVE OrderOK'
  OBVIOUS
<1> USE SizesAssumption
<1> DEFINE c    == Head(sched)
           n    == Len(sched)
           next == read_offset[c] + SegmentSize(c)
<1>1. /\ c \in Conns /\ sched[1] = c /\ next <= rdma_read_size
      /\ n \in Nat /\ n > 0 /\ pc = "loop" /\ sched # <<>>
  BY PostReadFacts, QueueFacts DEF IInv, TypeOK, PostRead, MayPost
<1>2. /\ read_offset' = [read_offset EXCEPT ![c] = next]
      /\ sched' = IF next < rdma_read_size THEN Append(Tail(sched), c) ELSE Tail(sched)
      /\ next = IF max_read_size < rdma_read_size - read_offset[c]
                THEN read_offset[c] + max_read_size ELSE rdma_read_size
  BY <1>1 DEF PostRead, AfterPost, SegmentSize, MIN, IInv, TypeOK
<1>3. \A d \in Conns : read_offset[d] \in 0 .. rdma_read_size
  BY DEF IInv, TypeOK
<1>4. /\ \A i \in 1 .. n : sched[i] \in Conns
      /\ \A i, j \in 1 .. n : i <= j => read_offset[sched[i]] <= read_offset[sched[j]]
      /\ \A i, j \in 1 .. n : sched[i] = sched[j] => i = j
      /\ \A d \in Conns : read_offset[d] < rdma_read_size => \E i \in 1 .. n : sched[i] = d
      /\ \A d \in Conns : read_offset[d] <= read_offset[c] + max_read_size
      /\ read_offset[c] < rdma_read_size
  BY <1>1, ElementOfSeq DEF IInv, TypeOK, SchedOK, OrderOK
<1>5. /\ sched' \in Seq(Conns)
      /\ \A i \in 1 .. n - 1 : sched'[i] = sched[i + 1]
      /\ next < rdma_read_size => Len(sched') = n /\ sched'[n] = c
      /\ ~(next < rdma_read_size) => Len(sched') = n - 1
  <2>1. sched \in Seq(Conns) /\ (next < rdma_read_size) \in BOOLEAN
    BY DEF IInv, TypeOK
  <2> HIDE DEF next
  <2> QED BY <1>1, <1>2, <2>1, Requeue
<1> HIDE DEF c, n, next
<1>6. /\ read_offset[c] < next /\ next <= read_offset[c] + max_read_size
      /\ next \in 0 .. rdma_read_size
      /\ next < rdma_read_size => next = read_offset[c] + max_read_size
  BY <1>1, <1>2, <1>3, <1>4
<1>7. \A d \in Conns : read_offset[c] <= read_offset[d]
  <2> TAKE d \in Conns
  <2>1. CASE read_offset[d] < rdma_read_size
    <3>1. PICK i \in 1 .. n : sched[i] = d
      BY <2>1, <1>4
    <3> QED BY <3>1, <1>1, <1>4
  <2>2. CASE ~(read_offset[d] < rdma_read_size)
    BY <2>2, <1>1, <1>3
  <2> QED BY <2>1, <2>2
<1>11. read_offset'[c] = next /\ \A d \in Conns : d # c => read_offset'[d] = read_offset[d]
  BY <1>1, <1>2 DEF IInv, TypeOK
<1>8. Balanced'
  <2> SUFFICES ASSUME NEW a \in Conns, NEW d \in Conns
               PROVE  read_offset'[a] - read_offset'[d] <= max_read_size
    BY DEF Balanced
  <2>1. read_offset[a] - read_offset[d] <= max_read_size
    BY DEF OrderOK, Balanced
  <2>2. read_offset[d] <= read_offset'[d] /\ read_offset'[d] \in Nat
    BY <1>3, <1>6, <1>11
  <2>3. read_offset'[a] <= read_offset[c] + max_read_size /\ read_offset'[a] \in Nat
    BY <1>3, <1>4, <1>6, <1>11
  <2>4. read_offset[c] <= read_offset[d] /\ read_offset[c] \in Nat /\ read_offset[d] \in Nat
    BY <1>1, <1>3, <1>7
  <2> QED BY <2>2, <2>3, <2>4
<1>9. ASSUME NEW i \in 1 .. n - 1
      PROVE  /\ i + 1 \in 1 .. n /\ sched'[i] = sched[i + 1] /\ sched'[i] \in Conns
             /\ sched'[i] # c
             /\ read_offset'[sched'[i]] = read_offset[sched[i + 1]]
  <2>1. i + 1 \in 1 .. n /\ 1 \in 1 .. n /\ i + 1 # 1
    BY <1>1
  <2>2. sched'[i] = sched[i + 1] /\ sched[i + 1] \in Conns
    BY <2>1, <1>4, <1>5
  <2>3. sched[i + 1] # c
    BY <2>1, <1>1, <1>4
  <2> QED BY <2>1, <2>2, <2>3, <1>11
<1>10. ASSUME NEW i \in 1 .. Len(sched')
       PROVE  \/ i \in 1 .. n - 1
              \/ i = n /\ next < rdma_read_size /\ sched'[i] = c
  <2>1. CASE next < rdma_read_size
    BY <2>1, <1>1, <1>5
  <2>2. CASE ~(next < rdma_read_size)
    BY <2>2, <1>1, <1>5
  <2> QED BY <2>1, <2>2
<1>12. ASSUME NEW i \in 1 .. Len(sched'), NEW j \in 1 .. Len(sched'), i <= j
       PROVE  read_offset'[sched'[i]] <= read_offset'[sched'[j]]
  <2>1. CASE i \in 1 .. n - 1 /\ j \in 1 .. n - 1
    <3>1. i + 1 <= j + 1
      BY <2>1, <1>12
    <3> QED BY <3>1, <2>1, <1>4, <1>9
  <2>2. CASE i \in 1 .. n - 1 /\ j \notin 1 .. n - 1
    <3>1. sched'[j] = c /\ next = read_offset[c] + max_read_size
      BY <2>2, <1>6, <1>10
    <3> QED BY <3>1, <2>2, <1>4, <1>9, <1>11
  <2>3. CASE i \notin 1 .. n - 1
    <3>1. i = n /\ j = n
      <4>1. i = n
        BY <2>3, <1>10
      <4> QED BY <4>1, <1>1, <1>10, <1>12
    <3> QED BY <3>1, <1>3, <1>6, <1>10, <1>11, <2>3
  <2> QED BY <2>1, <2>2, <2>3
<1>13. ASSUME sched' # <<>>, NEW d \in Conns
       PROVE  read_offset'[d] <= read_offset'[Head(sched')] + max_read_size
  <2>1. Head(sched') \in Conns /\ Head(sched') = sched'[1] /\ 1 \in 1 .. Len(sched')
    BY <1>5, <1>13, QueueFacts
  <2>2. read_offset'[Head(sched')] >= read_offset[c] /\ read_offset'[Head(sched')] \in Nat
    BY <2>1, <1>3, <1>6, <1>7, <1>11
  <2> QED BY <2>2, <1>1, <1>3, <1>4, <1>6, <1>11
<1> QED BY <1>8, <1>12, <1>13 DEF OrderOK

(* The round-robin schedule is fair: no connection is ever more than one   *)
(* full read ahead of another, also when a send queue is full.             *)
THEOREM BalancedHolds == Spec => []Balanced
<1>1. IInv /\ Init => OrderOK
  BY SizesAssumption DEF Init, OrderOK, Balanced
<1>2. IInv /\ OrderOK /\ [Next]_vars => OrderOK'
  <2> SUFFICES ASSUME IInv, OrderOK, [Next]_vars PROVE OrderOK'
    OBVIOUS
  <2>1. CASE StartIteration
    BY <2>1, StartIterationOrder
  <2>2. CASE PostRead
    BY <2>2, PostReadOrder
  <2>3. CASE PostNothing
    <3>1. sched' = sched
      BY <2>3, PutBack DEF PostNothing, MayPost, AfterNoPost, IInv, TypeOK
    <3> QED BY <2>3, <3>1 DEF PostNothing, OrderOK, Balanced
  <2>4. CASE EndIteration \/ FinishReads \/ AbortDci \/ SkipPost \/ PollEmpty
             \/ PollError \/ PollFin
    BY <2>4 DEF OrderOK, Balanced, EndIteration, FinishReads, AbortDci, SkipPost,
                PollEmpty, PollError, PollFin, readVars
  <2>5. CASE PollRead
    BY <2>5 DEF OrderOK, Balanced, PollRead
  <2>6. CASE Adapter \/ (\E c \in Conns : FinArrives(c))
    BY <2>6 DEF OrderOK, Balanced, Adapter, CompleteRead, FinArrives, readVars
  <2>7. CASE UNCHANGED vars
    BY <2>7 DEF OrderOK, Balanced, vars
  <2> QED BY <2>1, <2>2, <2>3, <2>4, <2>5, <2>6, <2>7 DEF Next, Server, Stopped
<1>3. OrderOK => Balanced
  BY DEF OrderOK
<1> QED BY <1>1, <1>2, <1>3, InitIInv, Invariance, PTL DEF Spec

-----------------------------------------------------------------------------
(* The reads posted of one connection are disjoint, nonempty segments      *)
(* below its offset.                                                       *)
SegmentsOK ==
  /\ \A r \in posted : r.len > 0 /\ r.off + r.len <= read_offset[r.conn]
  /\ \A r, q \in posted : r # q /\ r.conn = q.conn =>
       r.off + r.len <= q.off \/ q.off + q.len <= r.off

LEMMA PostReadSegments == IInv /\ SegmentsOK /\ PostRead => SegmentsOK'
<1> SUFFICES ASSUME IInv, SegmentsOK, PostRead PROVE SegmentsOK'
  OBVIOUS
<1> DEFINE c == Head(sched)
<1>1. /\ c \in Conns /\ posted' = posted \cup {NewWr(c)} /\ NewWr(c) \in Wr
      /\ SegmentSize(c) \in Nat /\ SegmentSize(c) > 0
      /\ read_offset' = [read_offset EXCEPT ![c] = @ + SegmentSize(c)]
  BY PostReadFacts DEF PostRead
<1> HIDE DEF c
<1>2. /\ NewWr(c).conn = c /\ NewWr(c).off = read_offset[c]
      /\ NewWr(c).len = SegmentSize(c)
  BY DEF NewWr
<1>3. ASSUME NEW r \in posted
      PROVE  /\ r.len \in Nat /\ r.off \in Nat /\ r.conn \in Conns
             /\ r.len > 0 /\ r.off + r.len <= read_offset[r.conn]
             /\ read_offset[r.conn] <= read_offset'[r.conn]
             /\ read_offset[r.conn] \in Nat /\ read_offset'[r.conn] \in Nat
  BY <1>1 DEF IInv, TypeOK, Wr, SegmentsOK
<1>4. /\ read_offset'[c] = read_offset[c] + SegmentSize(c)
      /\ read_offset[c] \in Nat
  BY <1>1 DEF IInv, TypeOK
<1>5. \A r \in posted' : r.len > 0 /\ r.off + r.len <= read_offset'[r.conn]
  BY <1>1, <1>2, <1>3, <1>4
<1>6. ASSUME NEW r \in posted', NEW q \in posted', r # q, r.conn = q.conn
      PROVE  r.off + r.len <= q.off \/ q.off + q.len <= r.off
  BY <1>1, <1>2, <1>3, <1>6 DEF SegmentsOK
<1> QED BY <1>5, <1>6 DEF SegmentsOK

LEMMA SegmentsInvariance == Spec => []SegmentsOK
<1>1. Init => SegmentsOK
  BY DEF Init, SegmentsOK
<1>2. IInv /\ SegmentsOK /\ [Next]_vars => SegmentsOK'
  <2> SUFFICES ASSUME IInv, SegmentsOK, [Next]_vars PROVE SegmentsOK'
    OBVIOUS
  <2>1. CASE StartIteration
    BY <2>1 DEF StartIteration, IInv, SchedOK, SegmentsOK
  <2>2. CASE PostRead
    BY <2>2, PostReadSegments
  <2>3. CASE PollRead
    BY <2>3 DEF PollRead, SegmentsOK
  <2>4. CASE EndIteration \/ FinishReads \/ PostNothing \/ AbortDci \/ SkipPost
             \/ PollEmpty \/ PollError \/ PollFin
    BY <2>4 DEF SegmentsOK, EndIteration, FinishReads, PostNothing, AbortDci,
                SkipPost, PollEmpty, PollError, PollFin, readVars
  <2>5. CASE Adapter \/ (\E c \in Conns : FinArrives(c))
    BY <2>5 DEF SegmentsOK, Adapter, CompleteRead, FinArrives, readVars
  <2>6. CASE UNCHANGED vars
    BY <2>6 DEF SegmentsOK, vars
  <2> QED BY <2>1, <2>2, <2>3, <2>4, <2>5, <2>6 DEF Next, Server, Stopped
<1> QED BY <1>1, <1>2, Invariance, PTL DEF Spec

-----------------------------------------------------------------------------
(* The refinement mapping, named.                                          *)
Round  == IF pc \in {"iter", "done"} THEN iter ELSE iter + 1
Landed == [c \in Conns |-> (0 .. read_offset[c] - 1) \ Pending(c)]
Status == IF pc \in {"iter", "loop", "poll"} THEN "reading" ELSE pc

(* What steps mean for the mapped variables.                               *)
LEMMA LandedSame ==
  ASSUME UNCHANGED <<read_offset, posted>>
  PROVE  Landed' = Landed
BY DEF Landed, Pending, LocalBytes

LEMMA NothingPending ==
  ASSUME posted = {}
  PROVE  Landed = [c \in Conns |-> 0 .. read_offset[c] - 1]
BY DEF Landed, Pending

LEMMA PendingMember ==
  ASSUME NEW c, NEW b
  PROVE  b \in Pending(c) <=> \E r \in posted : r.conn = c /\ b \in LocalBytes(r)
BY DEF Pending

(* Posting a read does not make anything land.                             *)
LEMMA PostReadLanded ==
  ASSUME IInv, SegmentsOK, PostRead
  PROVE  Landed' = Landed
<1> DEFINE c == Head(sched)
<1>1. /\ c \in Conns /\ posted' = posted \cup {NewWr(c)}
      /\ SegmentSize(c) \in Nat /\ SegmentSize(c) > 0
      /\ read_offset' = [read_offset EXCEPT ![c] = @ + SegmentSize(c)]
  BY PostReadFacts DEF PostRead
<1> HIDE DEF c
<1>2. /\ NewWr(c).conn = c /\ NewWr(c).off = read_offset[c]
      /\ NewWr(c).len = SegmentSize(c)
  BY DEF NewWr
<1>3. ASSUME NEW d \in Conns
      PROVE  (0 .. read_offset'[d] - 1) \ Pending(d)' = (0 .. read_offset[d] - 1) \ Pending(d)
  <2>1. read_offset[d] \in Nat /\ read_offset[c] \in Nat
    BY <1>1 DEF IInv, TypeOK
  <2>2. CASE d # c
    <3>1. Pending(d)' = Pending(d)
      BY <2>2, <1>1, <1>2 DEF Pending, LocalBytes
    <3>2. read_offset'[d] = read_offset[d]
      BY <2>2, <1>1 DEF IInv, TypeOK
    <3> QED BY <3>1, <3>2
  <2>3. CASE d = c
    <3>1. read_offset'[d] = read_offset[d] + SegmentSize(c)
      BY <2>3, <1>1 DEF IInv, TypeOK
    <3>2. LocalBytes(NewWr(c)) = read_offset[d] .. read_offset[d] + SegmentSize(c) - 1
      BY <2>3, <1>2 DEF LocalBytes
    <3>3. Pending(d)' = Pending(d) \cup LocalBytes(NewWr(c))
      BY <2>3, <1>1, <1>2 DEF Pending, LocalBytes
    <3>4. (0 .. read_offset'[d] - 1) \ LocalBytes(NewWr(c)) = 0 .. read_offset[d] - 1
      BY <3>1, <3>2, <2>1, <1>1
    <3> QED BY <3>3, <3>4
  <2> QED BY <2>2, <2>3
<1> QED BY <1>3 DEF Landed

(* Polling a read makes exactly its segment land.                          *)
LEMMA PollReadLands ==
  ASSUME IInv, SegmentsOK, PollRead
  PROVE  LET wr == Head(cq).wr
             hi == wr.off + wr.len - 1
         IN  /\ wr.conn \in Conns /\ wr.off \in Service!Bytes /\ hi \in Service!Bytes
             /\ wr.off .. hi # {} /\ (wr.off .. hi) \cap Landed[wr.conn] = {}
             /\ Landed' = [Landed EXCEPT ![wr.conn] = @ \cup (wr.off .. hi)]
<1> DEFINE wr == Head(cq).wr
           hi == wr.off + wr.len - 1
           c  == wr.conn
<1>1. wr \in posted /\ wr \in Wr /\ posted' = posted \ {wr} /\ read_offset' = read_offset
  BY QueueFacts DEF PollRead, IInv, TypeOK, CqOK
<1> HIDE DEF wr
<1>2. /\ c \in Conns /\ wr.off \in Nat /\ wr.len \in Nat /\ wr.len > 0
      /\ wr.off + wr.len <= read_offset[c] /\ read_offset[c] \in 0 .. rdma_read_size
  BY <1>1 DEF Wr, SegmentsOK, IInv, TypeOK
<1>3. /\ wr.off \in Service!Bytes /\ hi \in Service!Bytes /\ wr.off .. hi # {}
      /\ wr.off .. hi \subseteq 0 .. read_offset[c] - 1
  BY <1>2, SizesAssumption DEF Service!Bytes
<1>4. LocalBytes(wr) = wr.off .. hi
  BY DEF LocalBytes
<1>5. wr.off .. hi \subseteq Pending(c)
  BY <1>1, <1>4, PendingMember
<1>6. (wr.off .. hi) \cap Landed[c] = {}
  BY <1>2, <1>5 DEF Landed
<1>7. \A d \in Conns : d # c => Pending(d)' = Pending(d)
  BY <1>1 DEF Pending, LocalBytes
<1>8. ASSUME NEW d \in Conns, d = c
      PROVE  Pending(d)' = Pending(d) \ (wr.off .. hi)
  <2>3. \A b : b \in Pending(d)' <=>
               \E r \in posted' : r.conn = d /\ b \in r.off .. r.off + r.len - 1
    BY DEF Pending, LocalBytes
  <2>1. ASSUME NEW b, b \in Pending(d)' PROVE b \in Pending(d) /\ b \notin wr.off .. hi
    <3>1. PICK r \in posted \ {wr} : r.conn = d /\ b \in LocalBytes(r)
      BY <2>1, <2>3, <1>1 DEF LocalBytes
    <3>2. r \in Wr /\ r # wr
      BY <3>1 DEF IInv, TypeOK
    <3>3. r.off \in Nat /\ r.len \in Nat
      BY <3>2 DEF Wr
    <3>4. r.off + r.len <= wr.off \/ wr.off + wr.len <= r.off
      BY <3>1, <1>1, <1>8 DEF SegmentsOK
    <3>5. b \notin wr.off .. hi
      BY <3>1, <3>3, <3>4, <1>2 DEF LocalBytes
    <3> QED BY <3>1, <3>5, PendingMember
  <2>2. ASSUME NEW b, b \in Pending(d), b \notin wr.off .. hi PROVE b \in Pending(d)'
    <3>1. PICK r \in posted : r.conn = d /\ b \in LocalBytes(r)
      BY <2>2, PendingMember
    <3>2. r \in posted'
      BY <3>1, <2>2, <1>1, <1>4
    <3> QED BY <3>1, <3>2, <2>3 DEF LocalBytes
  <2> QED BY <2>1, <2>2
<1>9. Landed' = [Landed EXCEPT ![c] = @ \cup (wr.off .. hi)]
  <2>1. ASSUME NEW d \in Conns
        PROVE  Landed'[d] = [Landed EXCEPT ![c] = @ \cup (wr.off .. hi)][d]
    <3>1. CASE d = c
      <4>1. Landed'[d] = (0 .. read_offset[d] - 1) \ (Pending(d) \ (wr.off .. hi))
        BY <3>1, <1>1, <1>8 DEF Landed
      <4>2. Landed[d] = (0 .. read_offset[d] - 1) \ Pending(d)
        BY DEF Landed
      <4>3. Landed'[d] = Landed[d] \cup (wr.off .. hi)
        BY <3>1, <4>1, <4>2, <1>3, <1>5
      <4> QED BY <3>1, <4>3, <1>2 DEF Landed
    <3>2. CASE d # c
      BY <3>2, <1>1, <1>2, <1>7 DEF Landed
    <3> QED BY <3>1, <3>2
  <2>2. Landed' = [d \in Conns |-> Landed'[d]] /\ Landed = [d \in Conns |-> Landed[d]]
    BY DEF Landed
  <2> QED BY <2>1, <2>2
<1> QED BY <1>2, <1>3, <1>6, <1>9 DEF wr

LEMMA InitService == Init => Service!Init
<1> SUFFICES ASSUME Init PROVE Service!Init
  OBVIOUS
<1>1. Landed = [c \in Conns |-> {}]
  BY NothingPending DEF Init, Landed
<1> QED BY <1>1 DEF Init, Service!Init, Landed

LEMMA StepService ==
  ASSUME num_iterations > 0,
         transport = "dc" => max_outstanding_reads <= NUM_DCI,
         IInv, IInv', SegmentsOK, [Next]_vars
  PROVE  [Service!Next]_<<Round, Landed, Status>>
<1> USE SizesAssumption
<1>1. CASE StartIteration
  <2>1. /\ pc = "iter" /\ pc' = "loop" /\ iter' = iter /\ iter < num_iterations
        /\ posted = {} /\ posted' = {} /\ read_offset' = [c \in Conns |-> 0]
    BY <1>1 DEF StartIteration, IInv, SchedOK
  <2>2. Landed' = [c \in Conns |-> {}]
    BY <2>1 DEF Landed, Pending
  <2>3. iter > 0 => \A c \in Conns : Landed[c] = Service!Bytes
    BY <2>1, NothingPending DEF IInv, SchedOK, Service!Bytes
  <2>4. Service!StartRound
    BY <2>1, <2>2, <2>3 DEF Service!StartRound, Service!RoundLanded, Round, Landed, Status
  <2> QED BY <2>4 DEF Service!Next
<1>2. CASE FinishReads
  <2>1. /\ pc = "iter" /\ pc' = "done" /\ iter' = iter /\ iter = num_iterations
        /\ posted = {} /\ UNCHANGED <<read_offset, posted>>
        /\ \A c \in Conns : read_offset[c] = rdma_read_size
    BY <1>2, FinishReadsSucceeds DEF FinishReads, IInv, SchedOK, readVars
  <2>2. \A c \in Conns : Landed[c] = Service!Bytes
    BY <2>1, NothingPending DEF Service!Bytes
  <2>3. Landed' = Landed
    BY <2>1, LandedSame
  <2>4. Service!Finish
    BY <2>1, <2>2, <2>3 DEF Service!Finish, Service!RoundLanded, Round, Landed, Status
  <2> QED BY <2>4 DEF Service!Next
<1>3. CASE PollError
  <2>1. Landed' = Landed
    BY <1>3, LandedSame DEF PollError, readVars
  <2>2. Service!Fail
    BY <1>3, <2>1 DEF PollError, Service!Fail, Round, Landed, Status
  <2> QED BY <2>2 DEF Service!Next
<1>4. CASE PollRead
  <2> DEFINE wr == Head(cq).wr
             hi == wr.off + wr.len - 1
  <2>1. /\ wr.conn \in Conns /\ wr.off \in Service!Bytes /\ hi \in Service!Bytes
        /\ wr.off .. hi # {} /\ (wr.off .. hi) \cap Landed[wr.conn] = {}
        /\ Landed' = [Landed EXCEPT ![wr.conn] = @ \cup (wr.off .. hi)]
    BY <1>4, PollReadLands
  <2>2. pc = "poll" /\ pc' = "loop" /\ iter' = iter /\ iter \in Nat
    BY <1>4 DEF PollRead, IInv, TypeOK
  <2> HIDE DEF wr, hi
  <2>3. \E c \in Conns, lo, up \in Service!Bytes : Service!Land(c, lo, up)
    <3>1. PICK c \in Conns, lo \in Service!Bytes, up \in Service!Bytes :
            c = wr.conn /\ lo = wr.off /\ up = hi
      BY <2>1
    <3>2. Service!Land(c, lo, up)
      BY <2>1, <2>2, <3>1 DEF Service!Land, Round, Landed, Status
    <3> QED BY <3>2
  <2> QED BY <2>3 DEF Service!Next
<1>5. CASE PostRead
  <2>1. Landed' = Landed
    BY <1>5, PostReadLanded
  <2> QED BY <1>5, <2>1 DEF PostRead, Round, Status
<1>6. CASE EndIteration \/ PostNothing \/ SkipPost \/ PollEmpty \/ PollFin
  <2>1. Landed' = Landed
    BY <1>6, LandedSame DEF EndIteration, PostNothing, SkipPost, PollEmpty,
                            PollFin, readVars
  <2> QED BY <1>6, <2>1 DEF EndIteration, PostNothing, SkipPost, PollEmpty,
                            PollFin, Round, Status
<1>7. CASE Adapter \/ (\E c \in Conns : FinArrives(c))
  <2>1. UNCHANGED <<pc, iter, read_offset, posted>>
    BY <1>7 DEF Adapter, CompleteRead, FinArrives, readVars
  <2> QED BY <2>1, LandedSame DEF Round, Status
<1>8. CASE UNCHANGED vars
  <2>1. UNCHANGED <<pc, iter, read_offset, posted>>
    BY <1>8 DEF vars
  <2> QED BY <2>1, LandedSame DEF Round, Status
<1>9. ~AbortDci
  BY AbortDciImpossible
<1> QED BY <1>1, <1>2, <1>3, <1>4, <1>5, <1>6, <1>7, <1>8, <1>9
        DEF Next, Server, Stopped

(* do_rdma_reads implements ReadService: every byte lands exactly once per *)
(* iteration, iterations do not overlap, and 0 is returned only when all   *)
(* of them were read.                                                      *)
THEOREM ReadsRefineService ==
  ASSUME num_iterations > 0,
         transport = "dc" => max_outstanding_reads <= NUM_DCI
  PROVE  Spec => ImplementsReadService
<1>1. Init => Service!Init
  BY InitService
<1>2. IInv /\ IInv' /\ SegmentsOK /\ [Next]_vars => [Service!Next]_Service!vars
  BY StepService DEF Service!vars, Round, Landed, Status
<1> QED BY <1>1, <1>2, Invariance, SegmentsInvariance, PTL
        DEF Spec, Service!Spec, ImplementsReadService

-----------------------------------------------------------------------------
(* The completion queue: one FIN of each connection, besides the reads.    *)
FinsOK ==
  /\ \A i \in 1 .. Len(cq) : cq[i].op = "RECV" => cq[i].wr.conn \in fin_arrived
  /\ \A i, j \in 1 .. Len(cq) :
       cq[i].op = "RECV" /\ cq[j].op = "RECV" /\ cq[i].wr.conn = cq[j].wr.conn => i = j

LEMMA RetireFins ==
  ASSUME IInv, FinsOK, cq # <<>>, cq' = Tail(cq), fin_arrived' = fin_arrived
  PROVE  FinsOK'
<1>1. /\ Len(cq) \in Nat /\ Len(cq) > 0 /\ Len(cq') = Len(cq) - 1
      /\ \A i \in 1 .. Len(cq) - 1 : cq'[i] = cq[i + 1]
  BY QueueFacts DEF IInv, TypeOK
<1> QED BY <1>1 DEF FinsOK

LEMMA FinArrivesFins ==
  ASSUME NEW c \in Conns, IInv, FinsOK, FinArrives(c)
  PROVE  FinsOK'
<1> DEFINE e == [op |-> "RECV", wr |-> ControlWr(c), ok |-> TRUE]
<1>1. e \in Cqe
  BY DEF Cqe, Wr, ControlWr
<1>2. /\ Len(cq') = Len(cq) + 1 /\ Len(cq) \in Nat
      /\ \A i \in 1 .. Len(cq) : cq'[i] = cq[i]
      /\ cq'[Len(cq) + 1] = e
  BY <1>1, AppendProperties DEF FinArrives, IInv, TypeOK
<1>3. e.op = "RECV" /\ e.wr.conn = c
  BY DEF ControlWr
<1>4. c \notin fin_arrived /\ fin_arrived' = fin_arrived \cup {c}
  BY DEF FinArrives
<1> HIDE DEF e
<1> QED BY <1>2, <1>3, <1>4 DEF FinsOK

LEMMA CompleteReadFins ==
  ASSUME NEW r \in posted, NEW ok \in BOOLEAN, IInv, FinsOK, CompleteRead(r, ok)
  PROVE  FinsOK'
<1> DEFINE e == [op |-> "READ", wr |-> r, ok |-> ok]
<1>1. e \in Cqe
  BY DEF IInv, TypeOK, Cqe
<1>2. /\ Len(cq') = Len(cq) + 1 /\ Len(cq) \in Nat
      /\ \A i \in 1 .. Len(cq) : cq'[i] = cq[i]
      /\ cq'[Len(cq) + 1] = e
  BY <1>1, AppendProperties DEF CompleteRead, IInv, TypeOK
<1>3. e.op # "RECV" /\ fin_arrived' = fin_arrived
  BY DEF CompleteRead
<1> HIDE DEF e
<1> QED BY <1>2, <1>3 DEF FinsOK

LEMMA FinsInvariance == Spec => []FinsOK
<1>1. Init => FinsOK
  BY DEF Init, FinsOK
<1>2. IInv /\ FinsOK /\ [Next]_vars => FinsOK'
  <2> SUFFICES ASSUME IInv, FinsOK, [Next]_vars PROVE FinsOK'
    OBVIOUS
  <2>1. CASE PollError \/ PollFin \/ PollRead
    BY <2>1, RetireFins DEF PollError, PollFin, PollRead
  <2>2. CASE Adapter
    BY <2>2, CompleteReadFins DEF Adapter
  <2>3. CASE \E c \in Conns : FinArrives(c)
    BY <2>3, FinArrivesFins
  <2>4. CASE cq' = cq /\ fin_arrived' = fin_arrived
    BY <2>4 DEF FinsOK
  <2> QED BY <2>1, <2>2, <2>3, <2>4 DEF Next, Server, StartIteration, EndIteration,
       FinishReads, PostRead, PostNothing, AbortDci, SkipPost, PollEmpty, Stopped, vars
<1> QED BY <1>1, <1>2, Invariance, PTL DEF Spec

(* Its entries are at most the reads posted and the connections.           *)
LEMMA CompletionsCounted ==
  ASSUME IInv, FinsOK
  PROVE  Len(cq) <= Cardinality(posted) + num_conns /\ Cardinality(posted) \in Nat
<1> USE SizesAssumption
<1> DEFINE R == {i \in 1 .. Len(cq) : cq[i].op = "READ"}
           F == {i \in 1 .. Len(cq) : cq[i].op = "RECV"}
           f == [i \in R |-> cq[i].wr]
           g == [i \in F |-> cq[i].wr.conn]
<1>1. Len(cq) \in Nat /\ \A i \in 1 .. Len(cq) : cq[i].op = "READ" \/ cq[i].op = "RECV"
  <2>1. cq \in Seq(Cqe)
    BY DEF IInv, TypeOK
  <2>2. \A i \in 1 .. Len(cq) : cq[i] \in Cqe
    BY <2>1, ElementOfSeq
  <2> QED BY <2>1, <2>2 DEF Cqe
<1>2. IsFiniteSet(posted) /\ Cardinality(posted) \in Nat
  BY FS_CardinalityType DEF IInv, PostedOK
<1>3. IsFiniteSet(R) /\ Cardinality(R) <= Cardinality(posted)
  <2>1. f \in [R -> posted]
    BY DEF IInv, CqOK
  <2>2. \A a, b \in R : f[a] = f[b] => a = b
    BY DEF IInv, CqOK
  <2> HIDE DEF f, R
  <2>3. f \in Injection(R, posted)
    BY <2>1, <2>2 DEF Injection, IsInjective
  <2> QED BY <1>2, <2>3, FS_Injection
<1>4. IsFiniteSet(Conns) /\ Cardinality(Conns) = num_conns
  <2> DEFINE last == num_conns - 1
  <2>1. last \in Int /\ 0 <= last /\ last - 0 + 1 = num_conns
    OBVIOUS
  <2>2. Conns = 0 .. last
    BY DEF Conns
  <2> HIDE DEF last
  <2>3. IsFiniteSet(0 .. last) /\ Cardinality(0 .. last) = IF 0 > last THEN 0 ELSE last - 0 + 1
    BY <2>1, FS_Interval
  <2> QED BY <2>1, <2>2, <2>3
<1>5. IsFiniteSet(F) /\ Cardinality(F) <= num_conns
  <2>1. g \in [F -> Conns]
    BY DEF IInv, TypeOK, FinsOK
  <2>2. \A a, b \in F : g[a] = g[b] => a = b
    BY DEF FinsOK
  <2> HIDE DEF g, F
  <2>3. g \in Injection(F, Conns)
    BY <2>1, <2>2 DEF Injection, IsInjective
  <2> QED BY <1>4, <2>3, FS_Injection
<1>6. Cardinality(R \cup F) = Len(cq)
  <2>1. R \cup F = 1 .. Len(cq)
    BY <1>1
  <2>2. Cardinality(1 .. Len(cq)) = IF 1 > Len(cq) THEN 0 ELSE Len(cq) - 1 + 1
    BY <1>1, FS_Interval
  <2>3. (IF 1 > Len(cq) THEN 0 ELSE Len(cq) - 1 + 1) = Len(cq)
    BY <1>1
  <2> QED BY <2>1, <2>2, <2>3
<1>7. Cardinality(R \cup F) <= Cardinality(R) + Cardinality(F)
  <2> HIDE DEF R, F
  <2>1. Cardinality(R \cup F) = Cardinality(R) + Cardinality(F) - Cardinality(R \cap F)
    BY <1>3, <1>5, FS_Union
  <2>2. IsFiniteSet(R \cap F)
    BY <1>3, FS_Subset
  <2>3. Cardinality(R) \in Nat /\ Cardinality(F) \in Nat /\ Cardinality(R \cap F) \in Nat
    BY <1>3, <1>5, <2>2, FS_CardinalityType
  <2> QED BY <2>1, <2>3
<1>8. Cardinality(R) \in Nat /\ Cardinality(F) \in Nat
  BY <1>3, <1>5, FS_CardinalityType
<1> HIDE DEF R, F
<1> QED BY <1>1, <1>2, <1>3, <1>5, <1>6, <1>7, <1>8

(* With no more reads in flight than a send queue holds, the completion    *)
(* queue that init_transport creates is never overrun: each connection     *)
(* sends one FIN, and there is a receive for twice as many.                *)
THEOREM CqNeverOverrunsHolds == Spec => []CqNeverOverruns
<1>1. IInv /\ FinsOK => CqNeverOverruns
  <2> SUFFICES ASSUME IInv, FinsOK, max_outstanding_reads <= TxLen
               PROVE  Len(cq) <= CqLen
    BY DEF CqNeverOverruns
  <2>1. Len(cq) <= Cardinality(posted) + num_conns /\ Cardinality(posted) \in Nat
    BY CompletionsCounted
  <2>2. Cardinality(posted) <= max_outstanding_reads
    BY DEF IInv, Accounting
  <2>3. TxLen \in Nat /\ RxLen \in Nat /\ num_conns <= RxLen
    BY SizesAssumption DEF TxLen, RxLen, MAX
  <2>4. Len(cq) \in Nat
    BY DEF IInv, TypeOK
  <2> QED BY <2>1, <2>2, <2>3, <2>4, SizesAssumption DEF CqLen
<1> QED BY <1>1, Invariance, FinsInvariance, PTL
=============================================================================
