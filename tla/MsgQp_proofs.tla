----------------------------- MODULE MsgQp_proofs -----------------------------
(***************************************************************************)
(* Lemmas about the calls on a queue pair: each keeps the types of the     *)
(* queues, and keeps account of what is on its way.  The proofs about the  *)
(* programs that use the queue pair rest on them.                          *)
(***************************************************************************)
EXTENDS MsgQp, SequenceTheorems, TLAPS

(* The sends of n that were not polled, and the receives that were not.    *)
SendsOf(n) == Len(wire[n]) + send_cq[n]
RecvsOf(n) == recvs[n] + Len(recv_cq[n])

(* Messages that n posted and its peer has not taken.                      *)
Flight(n) == Len(wire[n]) + Len(recv_cq[Other(n)])

LEMMA NodesFacts ==
  /\ Nodes = {"server", "client"} /\ "server" \in Nodes /\ "client" \in Nodes
  /\ "server" # "client"
  /\ Other("server") = "client" /\ Other("client") = "server"
  /\ \A n \in Nodes : Other(n) \in Nodes /\ Other(n) # n /\ Other(Other(n)) = n
BY DEF Nodes, Other

LEMMA QpTyped ==
  ASSUME NEW M, QpTypeOK(M), NEW n \in Nodes
  PROVE  /\ wire[n] \in Seq(M) /\ Len(wire[n]) \in Nat /\ recvs[n] \in Nat
         /\ recv_cq[n] \in Seq(M \cup {Flushed}) /\ Len(recv_cq[n]) \in Nat
         /\ send_cq[n] \in Nat /\ SendsOf(n) \in Nat /\ RecvsOf(n) \in Nat
BY DEF QpTypeOK, SendsOf, RecvsOf

LEMMA InitialQp ==
  ASSUME NEW M, QpInit
  PROVE  /\ QpTypeOK(M)
         /\ \A n \in Nodes : SendsOf(n) = 0 /\ RecvsOf(n) = 0
BY DEF QpInit, QpTypeOK, SendsOf, RecvsOf

(* A send is in the queue, or, after an error, among the completions.      *)
LEMMA PostSendFacts ==
  ASSUME NEW M, QpTypeOK(M), NEW n \in Nodes, NEW m \in M, PostSend(n, m)
  PROVE  /\ QpTypeOK(M)'
         /\ SendsOf(n)' = SendsOf(n) + 1
         /\ \A o \in Nodes : o # n => SendsOf(o)' = SendsOf(o)
         /\ n \notin qp_error => wire' = [wire EXCEPT ![n] = Append(@, m)] /\ send_cq' = send_cq
         /\ n \in qp_error => wire' = wire
         /\ \A o \in Nodes : RecvsOf(o)' = RecvsOf(o)
         /\ recvs' = recvs /\ recv_cq' = recv_cq /\ qp_error' = qp_error
<1>1. wire[n] \in Seq(M) /\ Append(wire[n], m) \in Seq(M) /\ Len(Append(wire[n], m)) = Len(wire[n]) + 1
  BY QpTyped, AppendProperties
<1>2. \A o \in Nodes : Len(wire[o]) \in Nat /\ send_cq[o] \in Nat
  BY QpTyped
<1>3. recvs' = recvs /\ recv_cq' = recv_cq /\ qp_error' = qp_error
  BY DEF PostSend
<1>4. CASE n \in qp_error
  <2>1. send_cq' = [send_cq EXCEPT ![n] = @ + 1] /\ wire' = wire
    BY <1>4 DEF PostSend
  <2> QED
    BY <1>2, <1>3, <1>4, <2>1 DEF QpTypeOK, SendsOf, RecvsOf
<1>5. CASE n \notin qp_error
  <2>1. wire' = [wire EXCEPT ![n] = Append(@, m)] /\ send_cq' = send_cq
    BY <1>5 DEF PostSend
  <2> QED
    <3>1. wire' \in [Nodes -> Seq(M)]
      BY <1>1, <2>1 DEF QpTypeOK
    <3>2. QpTypeOK(M)'
      BY <1>3, <2>1, <3>1 DEF QpTypeOK
    <3>3. wire'[n] = Append(wire[n], m) /\ \A o \in Nodes : o # n => wire'[o] = wire[o]
      BY <2>1 DEF QpTypeOK
    <3>4. SendsOf(n)' = SendsOf(n) + 1
      <4>1. \A a, b \in Nat : (a + 1) + b = (a + b) + 1
        OBVIOUS
      <4> QED
        BY <1>1, <1>2, <2>1, <3>3, <4>1 DEF SendsOf
    <3>5. \A o \in Nodes : (o # n => SendsOf(o)' = SendsOf(o)) /\ RecvsOf(o)' = RecvsOf(o)
      BY <1>3, <2>1, <3>3 DEF SendsOf, RecvsOf
    <3> QED
      BY <1>3, <1>5, <2>1, <3>2, <3>4, <3>5
<1> QED
  BY <1>4, <1>5

LEMMA GetSendCompFacts ==
  ASSUME NEW M, QpTypeOK(M), NEW n \in Nodes, GetSendComp(n)
  PROVE  /\ QpTypeOK(M)'
         /\ SendsOf(n) >= 1 /\ SendsOf(n)' = SendsOf(n) - 1
         /\ \A o \in Nodes : o # n => SendsOf(o)' = SendsOf(o)
         /\ \A o \in Nodes : RecvsOf(o)' = RecvsOf(o)
         /\ wire' = wire /\ recvs' = recvs /\ recv_cq' = recv_cq /\ qp_error' = qp_error
<1>1. \A o \in Nodes : Len(wire[o]) \in Nat /\ send_cq[o] \in Nat
  BY QpTyped
<1> QED
  BY <1>1 DEF GetSendComp, QpTypeOK, SendsOf, RecvsOf

(* A receive is posted, or, after an error, completes at once.             *)
LEMMA PostRecvFacts ==
  ASSUME NEW M, QpTypeOK(M), NEW n \in Nodes, PostRecv(n)
  PROVE  /\ QpTypeOK(M)'
         /\ RecvsOf(n)' = RecvsOf(n) + 1
         /\ \A o \in Nodes : o # n => RecvsOf(o)' = RecvsOf(o)
         /\ n \notin qp_error => recvs' = [recvs EXCEPT ![n] = @ + 1] /\ recv_cq' = recv_cq
         /\ n \in qp_error =>
              recvs' = recvs /\ recv_cq' = [recv_cq EXCEPT ![n] = Append(@, Flushed)]
         /\ \A o \in Nodes : SendsOf(o)' = SendsOf(o)
         /\ wire' = wire /\ send_cq' = send_cq /\ qp_error' = qp_error
<1>1. /\ recv_cq[n] \in Seq(M \cup {Flushed})
      /\ Append(recv_cq[n], Flushed) \in Seq(M \cup {Flushed})
      /\ Len(Append(recv_cq[n], Flushed)) = Len(recv_cq[n]) + 1
  <2>1. recv_cq[n] \in Seq(M \cup {Flushed}) /\ Flushed \in M \cup {Flushed}
    BY QpTyped
  <2> QED
    BY <2>1, AppendProperties
<1>2. \A o \in Nodes : Len(recv_cq[o]) \in Nat /\ recvs[o] \in Nat
  BY QpTyped
<1>3. wire' = wire /\ send_cq' = send_cq /\ qp_error' = qp_error
  BY DEF PostRecv
<1>4. CASE n \in qp_error
  <2>1. recv_cq' = [recv_cq EXCEPT ![n] = Append(@, Flushed)] /\ recvs' = recvs
    BY <1>4 DEF PostRecv
  <2> QED
    <3>1. recv_cq' \in [Nodes -> Seq(M \cup {Flushed})]
      BY <1>1, <2>1 DEF QpTypeOK
    <3>2. QpTypeOK(M)'
      BY <1>3, <2>1, <3>1 DEF QpTypeOK
    <3>3. /\ recv_cq'[n] = Append(recv_cq[n], Flushed)
          /\ \A o \in Nodes : o # n => recv_cq'[o] = recv_cq[o]
      BY <2>1 DEF QpTypeOK
    <3>4. RecvsOf(n)' = RecvsOf(n) + 1
      <4>1. \A a, b \in Nat : a + (b + 1) = (a + b) + 1
        OBVIOUS
      <4> QED
        BY <1>1, <1>2, <2>1, <3>3, <4>1 DEF RecvsOf
    <3>5. \A o \in Nodes : (o # n => RecvsOf(o)' = RecvsOf(o)) /\ SendsOf(o)' = SendsOf(o)
      BY <1>3, <2>1, <3>3 DEF SendsOf, RecvsOf
    <3> QED
      BY <1>3, <1>4, <2>1, <3>2, <3>4, <3>5
<1>5. CASE n \notin qp_error
  <2>1. recvs' = [recvs EXCEPT ![n] = @ + 1] /\ recv_cq' = recv_cq
    BY <1>5 DEF PostRecv
  <2> QED
    BY <1>2, <1>3, <1>5, <2>1 DEF QpTypeOK, SendsOf, RecvsOf
<1> QED
  BY <1>4, <1>5

LEMMA GetRecvCompFacts ==
  ASSUME NEW M, QpTypeOK(M), NEW n \in Nodes, GetRecvComp(n)
  PROVE  /\ QpTypeOK(M)'
         /\ Head(recv_cq[n]) \in M \cup {Flushed} /\ recv_cq[n] # <<>>
         /\ recv_cq' = [recv_cq EXCEPT ![n] = Tail(@)]
         /\ RecvsOf(n) >= 1 /\ RecvsOf(n)' = RecvsOf(n) - 1
         /\ \A o \in Nodes : o # n => RecvsOf(o)' = RecvsOf(o)
         /\ \A o \in Nodes : SendsOf(o)' = SendsOf(o)
         /\ wire' = wire /\ recvs' = recvs /\ send_cq' = send_cq /\ qp_error' = qp_error
<1>1. recv_cq[n] # <<>> /\ recv_cq[n] \in Seq(M \cup {Flushed})
  BY QpTyped DEF GetRecvComp
<1>2. /\ Head(recv_cq[n]) \in M \cup {Flushed} /\ Tail(recv_cq[n]) \in Seq(M \cup {Flushed})
      /\ Len(recv_cq[n]) >= 1 /\ Len(Tail(recv_cq[n])) = Len(recv_cq[n]) - 1
  BY <1>1, HeadTailProperties
<1>3. \A o \in Nodes : Len(recv_cq[o]) \in Nat /\ recvs[o] \in Nat
  BY QpTyped
<1> QED
  BY <1>1, <1>2, <1>3 DEF GetRecvComp, QpTypeOK, SendsOf, RecvsOf

(* A message goes from one account to the other one.                       *)
LEMMA DeliverFacts ==
  ASSUME NEW M, QpTypeOK(M), NEW n \in Nodes, Deliver(n)
  PROVE  /\ QpTypeOK(M)'
         /\ qp_error = {} /\ qp_error' = {} /\ wire[n] # <<>> /\ Len(wire[n]) >= 1
         /\ Head(wire[n]) \in M /\ recvs[Other(n)] > 0
         /\ wire' = [wire EXCEPT ![n] = Tail(@)]
         /\ recvs' = [recvs EXCEPT ![Other(n)] = @ - 1]
         /\ recv_cq' = [recv_cq EXCEPT ![Other(n)] = Append(@, Head(wire[n]))]
         /\ send_cq' = [send_cq EXCEPT ![n] = @ + 1]
         /\ \A o \in Nodes : SendsOf(o)' = SendsOf(o) /\ RecvsOf(o)' = RecvsOf(o)
<1> DEFINE o == Other(n)
           m == Head(wire[n])
<1>0. o \in Nodes
  BY NodesFacts
<1>1. qp_error = {} /\ wire[n] # <<>> /\ wire[n] \in Seq(M) /\ recvs[o] > 0
  BY QpTyped DEF Deliver
<1>2. /\ m \in M /\ Tail(wire[n]) \in Seq(M)
      /\ Len(wire[n]) >= 1 /\ Len(Tail(wire[n])) = Len(wire[n]) - 1
  BY <1>1, HeadTailProperties
<1>3. \A x \in Nodes : /\ Len(recv_cq[x]) \in Nat /\ recvs[x] \in Nat
                       /\ Len(wire[x]) \in Nat /\ send_cq[x] \in Nat
  BY QpTyped
<1>4. recv_cq[o] \in Seq(M \cup {Flushed})
  BY <1>0, QpTyped
<1>5. /\ Append(recv_cq[o], m) \in Seq(M \cup {Flushed})
      /\ Len(Append(recv_cq[o], m)) = Len(recv_cq[o]) + 1
  BY <1>2, <1>4, AppendProperties
<1>6. /\ recvs' = [recvs EXCEPT ![o] = @ - 1]
      /\ recv_cq' = [recv_cq EXCEPT ![o] = Append(@, m)]
      /\ wire' = [wire EXCEPT ![n] = Tail(@)]
      /\ send_cq' = [send_cq EXCEPT ![n] = @ + 1]
      /\ qp_error' = qp_error
  BY DEF Deliver
<1> HIDE DEF o, m
<1>7. QpTypeOK(M)'
  <2>1. wire' \in [Nodes -> Seq(M)]
    BY <1>2, <1>6 DEF QpTypeOK
  <2>2. recvs' \in [Nodes -> Nat]
    <3>1. \A a \in Nat : a > 0 => a - 1 \in Nat
      OBVIOUS
    <3> QED
      BY <1>0, <1>1, <1>3, <1>6, <3>1 DEF QpTypeOK
  <2>3. recv_cq' \in [Nodes -> Seq(M \cup {Flushed})]
    BY <1>5, <1>6 DEF QpTypeOK
  <2>4. send_cq' \in [Nodes -> Nat]
    BY <1>3, <1>6 DEF QpTypeOK
  <2> QED
    BY <1>6, <2>1, <2>2, <2>3, <2>4 DEF QpTypeOK
<1>8. \A x \in Nodes : SendsOf(x)' = SendsOf(x)
  <2> TAKE x \in Nodes
  <2>1. CASE x = n
    BY <1>2, <1>3, <1>6, <2>1 DEF SendsOf, QpTypeOK
  <2>2. CASE x # n
    BY <1>6, <2>2 DEF SendsOf
  <2> QED
    BY <2>1, <2>2
<1>9. \A x \in Nodes : RecvsOf(x)' = RecvsOf(x)
  <2> TAKE x \in Nodes
  <2>1. CASE x = o
    BY <1>1, <1>3, <1>5, <1>6, <2>1 DEF RecvsOf, QpTypeOK
  <2>2. CASE x # o
    BY <1>6, <2>2 DEF RecvsOf
  <2> QED
    BY <2>1, <2>2
<1> QED
  BY <1>1, <1>2, <1>6, <1>7, <1>8, <1>9 DEF o, m

(* Everything posted completes, and nothing else does.                     *)
LEMMA FlushFacts ==
  ASSUME NEW M, QpTypeOK(M), NEW ns \in SUBSET Nodes, NEW extra \in [Nodes -> Nat],
         Flush(ns, extra)
  PROVE  /\ QpTypeOK(M)'
         /\ ns \cap qp_error = {} /\ qp_error' = qp_error \cup ns
         /\ \A n \in ns : /\ SendsOf(n)' = SendsOf(n) + extra[n]
                          /\ wire'[n] = <<>> /\ recvs'[n] = 0
         /\ \A n \in Nodes \ ns : /\ SendsOf(n)' = SendsOf(n) /\ wire'[n] = wire[n]
                                  /\ recvs'[n] = recvs[n] /\ recv_cq'[n] = recv_cq[n]
                                  /\ send_cq'[n] = send_cq[n]
         /\ \A n \in Nodes : /\ RecvsOf(n)' = RecvsOf(n)
                             /\ \A k \in 1 .. Len(recv_cq[n]) : recv_cq'[n][k] = recv_cq[n][k]
                             /\ Len(recv_cq'[n]) >= Len(recv_cq[n])
<1>1. \A n \in Nodes : /\ Len(recv_cq[n]) \in Nat /\ recvs[n] \in Nat
                       /\ Len(wire[n]) \in Nat /\ send_cq[n] \in Nat /\ extra[n] \in Nat
                       /\ wire[n] \in Seq(M)
  BY QpTyped
<1>2. ASSUME NEW n \in Nodes
      PROVE  /\ recv_cq[n] \o [i \in 1 .. recvs[n] |-> Flushed] \in Seq(M \cup {Flushed})
             /\ Len(recv_cq[n] \o [i \in 1 .. recvs[n] |-> Flushed]) = Len(recv_cq[n]) + recvs[n]
             /\ \A k \in 1 .. Len(recv_cq[n]) :
                  (recv_cq[n] \o [i \in 1 .. recvs[n] |-> Flushed])[k] = recv_cq[n][k]
  <2> DEFINE f == [i \in 1 .. recvs[n] |-> Flushed]
  <2>1. recv_cq[n] \in Seq(M \cup {Flushed}) /\ recvs[n] \in Nat
    BY QpTyped
  <2>2. f \in Seq(M \cup {Flushed}) /\ Len(f) = recvs[n]
    <3>1. f \in [1 .. recvs[n] -> M \cup {Flushed}]
      OBVIOUS
    <3> QED
      BY <2>1, <3>1
  <2> HIDE DEF f
  <2>3. /\ recv_cq[n] \o f \in Seq(M \cup {Flushed})
        /\ Len(recv_cq[n] \o f) = Len(recv_cq[n]) + Len(f)
        /\ \A k \in 1 .. Len(recv_cq[n]) + Len(f) :
             (recv_cq[n] \o f)[k] = IF k <= Len(recv_cq[n]) THEN recv_cq[n][k]
                                    ELSE f[k - Len(recv_cq[n])]
    BY <2>1, <2>2, ConcatProperties
  <2>4. \A k \in 1 .. Len(recv_cq[n]) : (recv_cq[n] \o f)[k] = recv_cq[n][k]
    <3> TAKE k \in 1 .. Len(recv_cq[n])
    <3>1. Len(recv_cq[n]) \in Nat /\ Len(f) \in Nat
      BY <1>1, <2>1, <2>2
    <3>2. k \in 1 .. Len(recv_cq[n]) + Len(f) /\ k <= Len(recv_cq[n])
      BY <3>1
    <3> QED
      BY <2>3, <3>2
  <2> QED
    BY <2>2, <2>3, <2>4 DEF f
<1>3. /\ ns \cap qp_error = {} /\ qp_error' = qp_error \cup ns
      /\ send_cq' = [n \in Nodes |-> IF n \in ns THEN send_cq[n] + Len(wire[n]) + extra[n]
                                     ELSE send_cq[n]]
      /\ wire' = [n \in Nodes |-> IF n \in ns THEN <<>> ELSE wire[n]]
      /\ recv_cq' = [n \in Nodes |-> IF n \in ns
           THEN recv_cq[n] \o [i \in 1 .. recvs[n] |-> Flushed] ELSE recv_cq[n]]
      /\ recvs' = [n \in Nodes |-> IF n \in ns THEN 0 ELSE recvs[n]]
  BY DEF Flush
<1>4. \A n \in ns : /\ send_cq'[n] = send_cq[n] + Len(wire[n]) + extra[n] /\ wire'[n] = <<>>
                    /\ recv_cq'[n] = recv_cq[n] \o [i \in 1 .. recvs[n] |-> Flushed]
                    /\ recvs'[n] = 0
  BY <1>3
<1>5. \A n \in Nodes \ ns : /\ wire'[n] = wire[n] /\ recvs'[n] = recvs[n]
                            /\ recv_cq'[n] = recv_cq[n] /\ send_cq'[n] = send_cq[n]
  BY <1>3
<1>6. QpTypeOK(M)'
  <2>1. wire' \in [Nodes -> Seq(M)]
    BY <1>1, <1>3
  <2>2. recvs' \in [Nodes -> Nat]
    BY <1>1, <1>3
  <2>3. send_cq' \in [Nodes -> Nat]
    <3>1. \A n \in Nodes : send_cq[n] + Len(wire[n]) + extra[n] \in Nat
      BY <1>1
    <3> QED
      BY <1>1, <1>3, <3>1
  <2>4. recv_cq' \in [Nodes -> Seq(M \cup {Flushed})]
    <3>1. \A n \in Nodes : recv_cq[n] \in Seq(M \cup {Flushed})
      BY QpTyped
    <3> QED
      BY <1>2, <1>3, <3>1
  <2>5. qp_error' \subseteq Nodes
    BY <1>3 DEF QpTypeOK
  <2> QED
    BY <2>1, <2>2, <2>3, <2>4, <2>5 DEF QpTypeOK
<1>7. \A n \in ns : SendsOf(n)' = SendsOf(n) + extra[n]
  <2> TAKE n \in ns
  <2>0. n \in Nodes
    OBVIOUS
  <2>1. wire'[n] = <<>> /\ Len(<<>>) = 0
    BY <1>4
  <2>2. \A a, b, c \in Nat : 0 + (a + b + c) = (b + a) + c
    OBVIOUS
  <2>3. SendsOf(n)' = 0 + (send_cq[n] + Len(wire[n]) + extra[n])
    BY <1>4, <2>1 DEF SendsOf
  <2>4. Len(wire[n]) \in Nat /\ send_cq[n] \in Nat /\ extra[n] \in Nat
    BY <1>1, <2>0
  <2> QED
    BY <2>2, <2>3, <2>4 DEF SendsOf
<1>8. \A n \in Nodes \ ns : SendsOf(n)' = SendsOf(n)
  BY <1>5 DEF SendsOf
<1>9. \A n \in Nodes : /\ RecvsOf(n)' = RecvsOf(n)
                       /\ \A k \in 1 .. Len(recv_cq[n]) : recv_cq'[n][k] = recv_cq[n][k]
                       /\ Len(recv_cq'[n]) >= Len(recv_cq[n])
  <2> TAKE n \in Nodes
  <2>1. CASE n \in ns
    <3>1. \A a, b \in Nat : 0 + (a + b) = b + a /\ a + b >= a
      OBVIOUS
    <3>2. Len(recv_cq'[n]) = Len(recv_cq[n]) + recvs[n] /\ recvs'[n] = 0
      BY <1>2, <1>4, <2>1
    <3>3. Len(recv_cq[n]) \in Nat /\ recvs[n] \in Nat
      BY <1>1
    <3>4. RecvsOf(n)' = RecvsOf(n) /\ Len(recv_cq'[n]) >= Len(recv_cq[n])
      BY <3>1, <3>2, <3>3 DEF RecvsOf
    <3>5. \A k \in 1 .. Len(recv_cq[n]) : recv_cq'[n][k] = recv_cq[n][k]
      BY <1>2, <1>4, <2>1
    <3> QED
      BY <3>4, <3>5
  <2>2. CASE n \notin ns
    BY <1>1, <1>5, <2>2 DEF RecvsOf
  <2> QED
    BY <2>1, <2>2
<1> QED
  BY <1>3, <1>4, <1>5, <1>6, <1>7, <1>8, <1>9
(* A queue of receives that holds only messages of S and flushed ones      *)
(* still does.                                                             *)
LEMMA FlushedReceives ==
  ASSUME NEW M, QpTypeOK(M), NEW ns \in SUBSET Nodes, NEW extra, Flush(ns, extra),
         NEW S, NEW n \in Nodes, recv_cq[n] \in Seq(S \cup {Flushed})
  PROVE  recv_cq'[n] \in Seq(S \cup {Flushed})
<1> DEFINE f == [i \in 1 .. recvs[n] |-> Flushed]
<1>1. recvs[n] \in Nat
  BY QpTyped
<1>2. f \in Seq(S \cup {Flushed})
  <2>1. f \in [1 .. recvs[n] -> S \cup {Flushed}]
    OBVIOUS
  <2> QED
    BY <1>1, <2>1
<1>3. recv_cq'[n] = recv_cq[n] \o f \/ recv_cq'[n] = recv_cq[n]
  BY DEF Flush
<1> HIDE DEF f
<1> QED
  BY <1>2, <1>3, ConcatProperties
(* Without an error a message is on its way from the call that posts it to *)
(* the one that takes it.                                                  *)
LEMMA PostSendFlight ==
  ASSUME NEW M, QpTypeOK(M), NEW n \in Nodes, NEW m \in M, PostSend(n, m), n \notin qp_error
  PROVE  Flight(n)' = Flight(n) + 1 /\ \A o \in Nodes : o # n => Flight(o)' = Flight(o)
<1>1. wire' = [wire EXCEPT ![n] = Append(@, m)] /\ recv_cq' = recv_cq
  BY PostSendFacts
<1>2. wire[n] \in Seq(M) /\ Len(Append(wire[n], m)) = Len(wire[n]) + 1 /\ Len(wire[n]) \in Nat
  BY QpTyped, AppendProperties
<1>3. Other(n) \in Nodes /\ Len(recv_cq[Other(n)]) \in Nat
  BY QpTyped, NodesFacts
<1>4. wire'[n] = Append(wire[n], m) /\ \A o \in Nodes : o # n => wire'[o] = wire[o]
  BY <1>1 DEF QpTypeOK
<1>5. \A a, b \in Nat : (a + 1) + b = (a + b) + 1
  OBVIOUS
<1>6. Flight(n)' = Flight(n) + 1
  <2>1. Len(wire'[n]) = Len(wire[n]) + 1 /\ recv_cq'[Other(n)] = recv_cq[Other(n)]
    BY <1>1, <1>2, <1>4
  <2>2. Flight(n)' = (Len(wire[n]) + 1) + Len(recv_cq[Other(n)])
    BY <2>1 DEF Flight
  <2> QED
    BY <1>2, <1>3, <1>5, <2>2 DEF Flight
<1> QED
  BY <1>1, <1>4, <1>6 DEF Flight

LEMMA GetRecvCompFlight ==
  ASSUME NEW M, QpTypeOK(M), NEW n \in Nodes, GetRecvComp(n)
  PROVE  /\ Flight(Other(n)) >= 1 /\ Flight(Other(n)) \in Nat
         /\ Flight(Other(n))' = Flight(Other(n)) - 1
         /\ Flight(n)' = Flight(n)
<1>1. recv_cq' = [recv_cq EXCEPT ![n] = Tail(@)] /\ wire' = wire /\ recv_cq[n] # <<>>
  BY GetRecvCompFacts
<1>2. recv_cq[n] \in Seq(M \cup {Flushed}) /\ Len(recv_cq[n]) \in Nat
  BY QpTyped
<1>3. Len(Tail(recv_cq[n])) = Len(recv_cq[n]) - 1 /\ Len(recv_cq[n]) >= 1
  BY <1>1, <1>2, HeadTailProperties
<1>4. Other(n) \in Nodes /\ Other(n) # n /\ Other(Other(n)) = n /\ Len(wire[Other(n)]) \in Nat
  BY QpTyped, NodesFacts
<1>5. recv_cq'[n] = Tail(recv_cq[n]) /\ recv_cq'[Other(n)] = recv_cq[Other(n)]
  BY <1>1, <1>4 DEF QpTypeOK
<1>6. \A a, b \in Nat : b >= 1 => a + b >= 1 /\ a + (b - 1) = (a + b) - 1 /\ a + b \in Nat
  OBVIOUS
<1>7. /\ Flight(Other(n)) >= 1 /\ Flight(Other(n))' = Flight(Other(n)) - 1
      /\ Flight(Other(n)) \in Nat
  <2>1. /\ Flight(Other(n)) = Len(wire[Other(n)]) + Len(recv_cq[n])
        /\ Flight(Other(n))' = Len(wire[Other(n)]) + (Len(recv_cq[n]) - 1)
    BY <1>1, <1>3, <1>4, <1>5 DEF Flight
  <2> QED
    BY <1>2, <1>3, <1>4, <1>6, <2>1
<1> QED
  BY <1>1, <1>5, <1>7 DEF Flight

LEMMA DeliverFlight ==
  ASSUME NEW M, QpTypeOK(M), NEW n \in Nodes, Deliver(n)
  PROVE  Flight(n)' = Flight(n) /\ Flight(Other(n))' = Flight(Other(n))
<1>1. /\ wire' = [wire EXCEPT ![n] = Tail(@)] /\ wire[n] # <<>>
      /\ recv_cq' = [recv_cq EXCEPT ![Other(n)] = Append(@, Head(wire[n]))]
      /\ Head(wire[n]) \in M \cup {Flushed}
  BY DeliverFacts
<1>2. Other(n) \in Nodes /\ Other(n) # n /\ Other(Other(n)) = n
  BY NodesFacts
<1>3. /\ wire[n] \in Seq(M) /\ Len(wire[n]) \in Nat
      /\ recv_cq[Other(n)] \in Seq(M \cup {Flushed}) /\ Len(recv_cq[Other(n)]) \in Nat
  BY <1>2, QpTyped
<1>4. Len(Tail(wire[n])) = Len(wire[n]) - 1 /\ Len(wire[n]) >= 1
  BY <1>1, <1>3, HeadTailProperties
<1>5. Len(Append(recv_cq[Other(n)], Head(wire[n]))) = Len(recv_cq[Other(n)]) + 1
  BY <1>1, <1>3, AppendProperties
<1>6. /\ wire'[n] = Tail(wire[n]) /\ wire'[Other(n)] = wire[Other(n)]
      /\ recv_cq'[n] = recv_cq[n]
      /\ recv_cq'[Other(n)] = Append(recv_cq[Other(n)], Head(wire[n]))
  BY <1>1, <1>2 DEF QpTypeOK
<1>7. \A a, b \in Nat : a >= 1 => (a - 1) + (b + 1) = a + b
  OBVIOUS
<1>8. Flight(n)' = Flight(n)
  <2>1. /\ Flight(n) = Len(wire[n]) + Len(recv_cq[Other(n)])
        /\ Flight(n)' = (Len(wire[n]) - 1) + (Len(recv_cq[Other(n)]) + 1)
    BY <1>4, <1>5, <1>6 DEF Flight
  <2> QED
    BY <1>3, <1>4, <1>7, <2>1
<1> QED
  BY <1>2, <1>6, <1>8 DEF Flight

LEMMA FlightTyped ==
  ASSUME NEW M, QpTypeOK(M), NEW n \in Nodes
  PROVE  /\ Flight(n) \in Nat
         /\ Flight(n) = 0 => wire[n] = <<>> /\ recv_cq[Other(n)] = <<>>
<1>1. /\ wire[n] \in Seq(M) /\ Len(wire[n]) \in Nat
      /\ recv_cq[Other(n)] \in Seq(M \cup {Flushed}) /\ Len(recv_cq[Other(n)]) \in Nat
  BY QpTyped, NodesFacts
<1>2. \A a, b \in Nat : a + b \in Nat /\ (a + b = 0 => a = 0 /\ b = 0)
  OBVIOUS
<1>3. Flight(n) \in Nat /\ (Flight(n) = 0 => Len(wire[n]) = 0 /\ Len(recv_cq[Other(n)]) = 0)
  BY <1>1, <1>2 DEF Flight
<1> QED
  BY <1>1, <1>3, EmptySeq
=============================================================================
