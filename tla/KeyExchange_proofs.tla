-------------------------- MODULE KeyExchange_proofs --------------------------
(***************************************************************************)
(* Theorems about rdma_test and rdma_example, for every set of keys that   *)
(* ibv_reg_mr may return.                                                  *)
(***************************************************************************)
EXTENDS KeyExchange, MsgQp_proofs

-----------------------------------------------------------------------------
(* The inductive invariant of rdma_test, by position in the two scripts.   *)

Testing == program = "rdma_test"

(* Messages a side has taken, and has posted, when it is at call number k. *)
ServerGot(k)  == IF k <= 3 THEN 0 ELSE IF k <= 7 THEN 1 ELSE 2
ServerSent(k) == IF k <= 4 THEN 0 ELSE IF k <= 13 THEN 1 ELSE 2
ClientGot(k)  == IF k = Crashed THEN 1 ELSE IF k <= 5 THEN 0 ELSE IF k <= 10 THEN 1 ELSE 2
ClientSent(k) == IF k = Crashed THEN 1 ELSE IF k <= 3 THEN 0 ELSE IF k <= 7 THEN 1 ELSE 2

(* Until something is flushed, what was sent was taken or is on its way.   *)
Flow ==
  Testing /\ qp_error = {} =>
    /\ Flight("client") + ServerGot(pc["server"]) = ClientSent(pc["client"])
    /\ Flight("server") + ClientGot(pc["client"]) = ServerSent(pc["server"])

(* The server uses the region only when the client waits for its last      *)
(* message, one operation at a time; only then can one be refused.         *)
Order ==
  Testing =>
    /\ pc["server"] >= 8 => pc["client"] >= 8
    /\ qp_error # {} => qp_error = Nodes /\ pc["server"] >= 10 /\ ops = <<>>
    /\ ops # <<>> => pc["server"] \in {10, 12}
    /\ Len(ops) + SendsOf("server") = (IF pc["server"] \in {5, 10, 12, 14} THEN 1 ELSE 0)

(* The message with the key, from the client's buffer to the server's use. *)
KeyMsg == [msg |-> send_msg]
KeyOK ==
  Testing =>
    /\ pc["client"] \in 1 .. 6 \/ pc["client"] >= 12 => region = None
    /\ pc["client"] \in 7 .. 11 => region \in RKeys /\ HasZero(region) /\ send_msg = Pack(region)
    /\ pc["server"] \in 4 .. 7 => wire["client"] \in Seq({KeyMsg}) /\ recv_cq["server"] \in Seq({KeyMsg})
    /\ pc["server"] >= 8 => got = send_msg
    /\ pc["server"] >= 9 => target = [rkey |-> SubSeq(got, 1, 4), addr |-> SubSeq(got, 5, 12)]

(* What was written is in the client's memory, and comes back.             *)
DataOK ==
  Testing /\ qp_error = {} =>
    /\ pc["server"] = 10 => local = Dat /\ (ops = <<"write">> \/ (ops = <<>> /\ memory = Dat))
    /\ pc["server"] = 11 => memory = Dat
    /\ pc["server"] = 12 => \/ ops = <<"read">> /\ memory = Dat
                            \/ ops = <<>> /\ local = Dat
    /\ pc["server"] >= 13 => local = Dat

(* rdma_example has no operations of that kind.                            *)
ExampleOK == program # "rdma_test" => program = "rdma_example" /\ ops = <<>>

ExchangeInv ==
  /\ TypeOK /\ pc \in [Nodes -> Nat]
  /\ Order /\ Flow /\ KeyOK /\ DataOK /\ ExampleOK

-----------------------------------------------------------------------------
(* The scripts.                                                            *)

LEMMA Scripts ==
  /\ Testing => Script("server") = TestServer /\ Script("client") = TestClient
  /\ ~Testing => Script("server") = ExampleServer /\ Script("client") = ExampleClient
  /\ Len(TestServer) = 15 /\ Len(TestClient) = 12
  /\ Len(ExampleServer) = 6 /\ Len(ExampleClient) = 6
  /\ \A n \in Nodes : Len(Script(n)) \in Nat
<1>1. /\ Len(TestServer) = 15 /\ Len(TestClient) = 12
      /\ Len(ExampleServer) = 6 /\ Len(ExampleClient) = 6
  BY DEF TestServer, TestClient, ExampleServer, ExampleClient
<1>2. /\ Testing => Script("server") = TestServer /\ Script("client") = TestClient
      /\ ~Testing => Script("server") = ExampleServer /\ Script("client") = ExampleClient
  BY DEF Script, Testing
<1>3. \A n \in Nodes : Len(Script(n)) \in Nat
  <2> SUFFICES ASSUME NEW n \in Nodes PROVE Len(Script(n)) \in Nat
    OBVIOUS
  <2>1. n = "server" \/ n = "client"
    BY NodesFacts
  <2> QED
    BY <1>1, <1>2, <2>1
<1> QED
  BY <1>1, <1>2, <1>3

(* Where the server of rdma_test makes a call.                             *)
LEMMA ServerCalls ==
  ASSUME NEW k \in 1 .. 15, NEW call, TestServer[k] = call
  PROVE  /\ call = "post_recv" => k \in {1, 6}
         /\ call = "accept" => k = 2
         /\ call = "get_recv" => k \in {3, 7}
         /\ call = "post_send" => k \in {4, 13}
         /\ call = "get_send" => k \in {5, 14}
         /\ call = "extract" => k = 8
         /\ call = "write" => k = 9
         /\ call = "poll" => k \in {10, 12}
         /\ call = "read" => k = 11
         /\ call = "disconnect" => k = 15
<1>1. /\ TestServer[1] = "post_recv" /\ TestServer[2] = "accept" /\ TestServer[3] = "get_recv"
      /\ TestServer[4] = "post_send" /\ TestServer[5] = "get_send" /\ TestServer[6] = "post_recv"
      /\ TestServer[7] = "get_recv" /\ TestServer[8] = "extract" /\ TestServer[9] = "write"
      /\ TestServer[10] = "poll" /\ TestServer[11] = "read" /\ TestServer[12] = "poll"
      /\ TestServer[13] = "post_send" /\ TestServer[14] = "get_send"
      /\ TestServer[15] = "disconnect"
  BY DEF TestServer
<1>2. k \in {1, 2, 3, 4, 5, 6, 7, 8, 9, 10, 11, 12, 13, 14, 15}
  OBVIOUS
<1> QED
  BY <1>1, <1>2

LEMMA ClientCalls ==
  ASSUME NEW k \in 1 .. 12, NEW call, TestClient[k] = call
  PROVE  /\ call = "post_recv" => k \in {1, 9}
         /\ call = "connect" => k = 2
         /\ call = "post_send" => k \in {3, 7}
         /\ call = "get_send" => k \in {4, 8}
         /\ call = "get_recv" => k \in {5, 10}
         /\ call = "reg_mr" => k = 6
         /\ call = "dereg_mr" => k = 11
         /\ call = "disconnect" => k = 12
<1>1. /\ TestClient[1] = "post_recv" /\ TestClient[2] = "connect" /\ TestClient[3] = "post_send"
      /\ TestClient[4] = "get_send" /\ TestClient[5] = "get_recv" /\ TestClient[6] = "reg_mr"
      /\ TestClient[7] = "post_send" /\ TestClient[8] = "get_send" /\ TestClient[9] = "post_recv"
      /\ TestClient[10] = "get_recv" /\ TestClient[11] = "dereg_mr"
      /\ TestClient[12] = "disconnect"
  BY DEF TestClient
<1>2. k \in {1, 2, 3, 4, 5, 6, 7, 8, 9, 10, 11, 12}
  OBVIOUS
<1> QED
  BY <1>1, <1>2

(* The programs of rdma_example make no call of the other kind.            *)
LEMMA ExampleCalls ==
  ASSUME NEW k \in 1 .. 6
  PROVE  /\ ExampleServer[k] \notin {"reg_mr", "dereg_mr", "extract", "write", "read", "poll"}
         /\ ExampleClient[k] \notin {"reg_mr", "dereg_mr", "extract", "write", "read", "poll"}
<1>1. /\ ExampleServer[1] = "post_recv" /\ ExampleServer[2] = "accept"
      /\ ExampleServer[3] = "get_recv" /\ ExampleServer[4] = "post_send"
      /\ ExampleServer[5] = "get_send" /\ ExampleServer[6] = "disconnect"
  BY DEF ExampleServer
<1>2. /\ ExampleClient[1] = "post_recv" /\ ExampleClient[2] = "connect"
      /\ ExampleClient[3] = "post_send" /\ ExampleClient[4] = "get_send"
      /\ ExampleClient[5] = "get_recv" /\ ExampleClient[6] = "disconnect"
  BY DEF ExampleClient
<1>3. k \in {1, 2, 3, 4, 5, 6}
  OBVIOUS
<1> QED
  BY <1>1, <1>2, <1>3

(* A node that makes a call is at that place of its script.                *)
LEMMA CallPlaces ==
  ASSUME TypeOK, pc \in [Nodes -> Nat], NEW n \in Nodes, NEW call, Calls(n, call)
  PROVE  /\ pc[n] \in 1 .. Len(Script(n))
         /\ Testing /\ n = "server" => pc[n] \in 1 .. 15 /\ TestServer[pc[n]] = call
         /\ Testing /\ n = "client" => pc[n] \in 1 .. 12 /\ TestClient[pc[n]] = call
         /\ ~Testing => call \notin {"reg_mr", "dereg_mr", "extract", "write", "read", "poll"}
<1>1. Len(Script(n)) \in Nat /\ pc[n] \in Nat
  BY Scripts
<1>2. pc[n] # 0 /\ ~(pc[n] > Len(Script(n))) /\ Script(n)[pc[n]] = call
  BY DEF Calls, Running, Ended, Crashed
<1>3. pc[n] \in 1 .. Len(Script(n))
  BY <1>1, <1>2
<1>4. Testing /\ n = "server" => pc[n] \in 1 .. 15 /\ TestServer[pc[n]] = call
  BY <1>2, <1>3, Scripts
<1>5. Testing /\ n = "client" => pc[n] \in 1 .. 12 /\ TestClient[pc[n]] = call
  BY <1>2, <1>3, Scripts
<1>6. ASSUME ~Testing
      PROVE  call \notin {"reg_mr", "dereg_mr", "extract", "write", "read", "poll"}
  <2>1. n = "server" \/ n = "client"
    BY NodesFacts
  <2>2. CASE n = "server"
    <3>1. pc[n] \in 1 .. 6 /\ ExampleServer[pc[n]] = call
      BY <1>2, <1>3, <1>6, <2>2, Scripts
    <3> QED
      BY <3>1, ExampleCalls
  <2>3. CASE n = "client"
    <3>1. pc[n] \in 1 .. 6 /\ ExampleClient[pc[n]] = call
      BY <1>2, <1>3, <1>6, <2>3, Scripts
    <3> QED
      BY <3>1, ExampleCalls
  <2> QED
    BY <2>1, <2>2, <2>3
<1> QED
  BY <1>3, <1>4, <1>5, <1>6

(* A call that returns moves one program counter by one.                   *)
PcTyped == pc \in [Nodes -> Nat] /\ \A n \in Nodes : pc[n] \in 0 .. Len(Script(n)) + 1
LEMMA CallReturns ==
  ASSUME TypeOK, pc \in [Nodes -> Nat], NEW n \in Nodes, NEW call, Calls(n, call), Returns(n),
         program' = program
  PROVE  /\ PcTyped' /\ pc'[n] = pc[n] + 1 /\ pc'[Other(n)] = pc[Other(n)]
<1>1. pc[n] \in 1 .. Len(Script(n)) /\ Len(Script(n)) \in Nat
  BY CallPlaces, Scripts
<1>2. pc' = [pc EXCEPT ![n] = @ + 1]
  BY DEF Returns
<1>3. pc'[n] = pc[n] + 1 /\ \A m \in Nodes : m # n => pc'[m] = pc[m]
  BY <1>2
<1>4. pc' \in [Nodes -> Nat]
  BY <1>1, <1>2
<1>5. \A m \in Nodes : Script(m)' = Script(m)
  BY DEF Script
<1>6. ASSUME NEW m \in Nodes PROVE pc'[m] \in 0 .. Len(Script(m)) + 1
  <2>1. pc[m] \in 0 .. Len(Script(m)) + 1 /\ Len(Script(m)) \in Nat
    BY Scripts DEF TypeOK
  <2>2. CASE m = n
    BY <1>1, <1>3, <2>2
  <2>3. CASE m # n
    BY <1>3, <2>1, <2>3
  <2> QED
    BY <2>2, <2>3
<1>7. PcTyped'
  BY <1>4, <1>5, <1>6 DEF PcTyped
<1> QED
  BY <1>3, <1>7, NodesFacts

-----------------------------------------------------------------------------
(* The key as bytes.                                                       *)

LEMMA FunctionIsSeq ==
  ASSUME NEW T, NEW n \in Nat, NEW f \in [1 .. n -> T]
  PROVE  f \in Seq(T) /\ Len(f) = n
OBVIOUS

LEMMA SeqIsFunction ==
  ASSUME NEW T, NEW s \in Seq(T)
  PROVE  s \in [1 .. Len(s) -> T]
OBVIOUS

LEMMA ZerosTyped ==
  ASSUME NEW n \in Nat
  PROVE  Zeros(n) \in [1 .. n -> Byte] /\ Zeros(n) \in Seq(Byte) /\ Len(Zeros(n)) = n
<1>1. Zeros(n) \in [1 .. n -> Byte]
  BY DEF Zeros, Byte
<1>2. Zeros(n) \in Seq(Byte) /\ Len(Zeros(n)) = n
  BY <1>1
<1> QED
  BY <1>1, <1>2

LEMMA AddrTyped ==
  /\ Addr \in [1 .. 8 -> Byte] /\ Addr \in Seq(Byte) /\ Len(Addr) = 8
  /\ \A k \in 1 .. 8 : Addr[k] = 100 + k
<1>1. Addr \in [1 .. 8 -> Byte] /\ \A k \in 1 .. 8 : Addr[k] = 100 + k
  BY DEF Addr, Byte
<1>2. Addr \in Seq(Byte) /\ Len(Addr) = 8
  <2>1. 8 \in Nat
    OBVIOUS
  <2> QED
    BY <1>1, <2>1, FunctionIsSeq
<1> QED
  BY <1>1, <1>2

LEMMA KeyTyped ==
  ASSUME NEW k \in RKeys
  PROVE  k \in Seq(Byte) /\ Len(k) = 4 /\ k # None /\ \A j \in 1 .. 4 : k[j] \in Byte
<1>1. k \in Seq(Byte) /\ Len(k) = 4
  BY KeyAssumption DEF Byte
<1>2. \A j \in 1 .. 4 : k[j] \in Byte
  BY <1>1, ElementOfSeq
<1> QED
  BY <1>1, <1>2 DEF None

(* memccpy stops at a zero byte, the first one.                            *)
LEMMA FirstZeroFacts ==
  ASSUME NEW k, HasZero(k)
  PROVE  FirstZero(k) \in 1 .. 4 /\ k[FirstZero(k)] = 0
<1> DEFINE IsFirst(z) == k[z] = 0 /\ \A j \in 1 .. z - 1 : k[j] # 0
<1>1. \E z \in 1 .. 4 : IsFirst(z)
  <2>1. PICK z0 \in 1 .. 4 : k[z0] = 0
    BY DEF HasZero
  <2>2. CASE k[1] = 0
    <3>1. IsFirst(1)
      BY <2>2
    <3> QED
      BY <3>1
  <2>3. CASE k[1] # 0 /\ k[2] = 0
    <3>1. IsFirst(2)
      <4>1. \A j \in 1 .. 2 - 1 : j = 1
        OBVIOUS
      <4> QED
        BY <2>3, <4>1
    <3> QED
      BY <3>1
  <2>4. CASE k[1] # 0 /\ k[2] # 0 /\ k[3] = 0
    <3>1. IsFirst(3)
      <4>1. \A j \in 1 .. 3 - 1 : j = 1 \/ j = 2
        OBVIOUS
      <4> QED
        BY <2>4, <4>1
    <3> QED
      BY <3>1
  <2>5. CASE k[1] # 0 /\ k[2] # 0 /\ k[3] # 0
    <3>1. z0 = 1 \/ z0 = 2 \/ z0 = 3 \/ z0 = 4
      OBVIOUS
    <3>2. k[4] = 0
      BY <2>1, <2>5, <3>1
    <3>3. IsFirst(4)
      <4>1. \A j \in 1 .. 4 - 1 : j = 1 \/ j = 2 \/ j = 3
        OBVIOUS
      <4> QED
        BY <2>5, <3>2, <4>1
    <3> QED
      BY <3>3
  <2> QED
    BY <2>2, <2>3, <2>4, <2>5
<1>2. FirstZero(k) = CHOOSE z \in 1 .. 4 : IsFirst(z)
  BY DEF FirstZero
<1> QED
  BY <1>1, <1>2

(* The bytes of the message: the key up to its first zero byte, then at    *)
(* once the address.                                                       *)
LEMMA PackBytes ==
  ASSUME NEW k \in RKeys, HasZero(k)
  PROVE  /\ Pack(k) \in Seq(Byte) /\ Len(Pack(k)) = 16 /\ Pack(k) \in [1 .. 16 -> Byte]
         /\ \A j \in 1 .. FirstZero(k) : Pack(k)[j] = k[j]
         /\ \A j \in 1 .. 8 : Pack(k)[FirstZero(k) + j] = 100 + j
<1> DEFINE z == FirstZero(k)
           start == SubSeq(k, 1, z)
           rest == Zeros(8 - z)
<1>1. z \in 1 .. 4
  BY FirstZeroFacts
<1>2. \A j \in 1 .. 4 : k[j] \in Byte
  BY KeyTyped
<1>3. start \in Seq(Byte) /\ Len(start) = z /\ \A j \in 1 .. z : start[j] = k[j]
  <2>1. \A j \in 1 .. z : k[j] \in Byte
    BY <1>1, <1>2
  <2>2. z \in Int /\ 1 \in Int /\ 1 <= z /\ z - 1 + 1 = z /\ \A j \in 1 .. z : 1 + j - 1 = j
    BY <1>1
  <2> HIDE DEF z
  <2>3. /\ start \in Seq(Byte) /\ Len(start) = (IF 1 <= z THEN z - 1 + 1 ELSE 0)
        /\ \A j \in 1 .. z - 1 + 1 : start[j] = k[1 + j - 1]
    BY <2>1, <2>2, SubSeqProperties
  <2> QED
    BY <2>2, <2>3
<1>4. 8 - z \in Nat /\ rest \in Seq(Byte) /\ Len(rest) = 8 - z
  <2>1. 8 - z \in Nat
    BY <1>1
  <2> QED
    BY <2>1, ZerosTyped
<1>5. Pack(k) = (start \o Addr) \o rest
  BY DEF Pack
<1> HIDE DEF z, start, rest
<1>6. /\ start \o Addr \in Seq(Byte) /\ Len(start \o Addr) = z + 8
      /\ \A j \in 1 .. z + 8 : (start \o Addr)[j] = IF j <= z THEN start[j] ELSE Addr[j - z]
  <2>1. Addr \in Seq(Byte) /\ Len(Addr) = 8
    BY AddrTyped
  <2>2. /\ start \o Addr \in Seq(Byte) /\ Len(start \o Addr) = Len(start) + Len(Addr)
        /\ \A j \in 1 .. Len(start) + Len(Addr) :
             (start \o Addr)[j] = IF j <= Len(start) THEN start[j] ELSE Addr[j - Len(start)]
    BY <1>3, <2>1, ConcatProperties
  <2> QED
    BY <1>3, <2>1, <2>2
<1>7. /\ Pack(k) \in Seq(Byte) /\ Len(Pack(k)) = (z + 8) + (8 - z)
      /\ \A j \in 1 .. (z + 8) + (8 - z) :
           Pack(k)[j] = IF j <= z + 8 THEN (start \o Addr)[j] ELSE rest[j - (z + 8)]
  <2> DEFINE front == start \o Addr
  <2>1. front \in Seq(Byte) /\ Len(front) = z + 8
    BY <1>6
  <2> HIDE DEF front
  <2>2. /\ front \o rest \in Seq(Byte) /\ Len(front \o rest) = Len(front) + Len(rest)
        /\ \A j \in 1 .. Len(front) + Len(rest) :
             (front \o rest)[j] = IF j <= Len(front) THEN front[j] ELSE rest[j - Len(front)]
    BY <1>4, <2>1, ConcatProperties
  <2>3. /\ front \o rest \in Seq(Byte) /\ Len(front \o rest) = (z + 8) + (8 - z)
        /\ \A j \in 1 .. (z + 8) + (8 - z) :
             (front \o rest)[j] = IF j <= z + 8 THEN front[j] ELSE rest[j - (z + 8)]
    BY <1>4, <2>1, <2>2
  <2> QED
    BY <1>5, <2>3 DEF front
<1>8. (z + 8) + (8 - z) = 16
  BY <1>1
<1>9. \A j \in 1 .. z : Pack(k)[j] = k[j]
  <2> SUFFICES ASSUME NEW j \in 1 .. z PROVE Pack(k)[j] = k[j]
    OBVIOUS
  <2>1. j \in 1 .. 16 /\ j \in 1 .. z + 8 /\ j <= z /\ j <= z + 8
    BY <1>1
  <2> QED
    BY <1>3, <1>6, <1>7, <1>8, <2>1
<1>10. \A j \in 1 .. 8 : Pack(k)[z + j] = 100 + j
  <2> SUFFICES ASSUME NEW j \in 1 .. 8 PROVE Pack(k)[z + j] = 100 + j
    OBVIOUS
  <2>1. z + j \in 1 .. 16 /\ z + j \in 1 .. z + 8 /\ ~(z + j <= z) /\ z + j <= z + 8
        /\ (z + j) - z = j
    BY <1>1
  <2> QED
    BY <1>6, <1>7, <1>8, <2>1, AddrTyped
<1>11. Pack(k) \in [1 .. 16 -> Byte]
  BY <1>7, <1>8
<1> QED
  BY <1>7, <1>8, <1>9, <1>10, <1>11 DEF z

(* The server's four and eight bytes are the key and the address exactly   *)
(* when the first zero byte is the last byte of the key.                   *)
Extracted(m) == [rkey |-> SubSeq(m, 1, 4), addr |-> SubSeq(m, 5, 12)]
LEMMA ExtractTyped ==
  ASSUME NEW m \in [1 .. 16 -> Byte]
  PROVE  /\ SubSeq(m, 1, 4) \in [1 .. 4 -> Byte] /\ SubSeq(m, 5, 12) \in [1 .. 8 -> Byte]
         /\ \A j \in 1 .. 4 : SubSeq(m, 1, 4)[j] = m[j]
         /\ \A j \in 1 .. 8 : SubSeq(m, 5, 12)[j] = m[4 + j]
<1>1. (\A j \in 1 .. 4 : m[j] \in Byte) /\ (\A j \in 5 .. 12 : m[j] \in Byte)
  OBVIOUS
<1>2. /\ SubSeq(m, 1, 4) \in Seq(Byte) /\ Len(SubSeq(m, 1, 4)) = 4
      /\ \A j \in 1 .. 4 : SubSeq(m, 1, 4)[j] = m[j]
  <2>1. /\ SubSeq(m, 1, 4) \in Seq(Byte)
        /\ Len(SubSeq(m, 1, 4)) = (IF 1 <= 4 THEN 4 - 1 + 1 ELSE 0)
        /\ \A j \in 1 .. 4 - 1 + 1 : SubSeq(m, 1, 4)[j] = m[1 + j - 1]
    BY <1>1, SubSeqProperties
  <2>2. \A j \in 1 .. 4 : 1 + j - 1 = j
    OBVIOUS
  <2> QED
    BY <2>1, <2>2
<1>3. /\ SubSeq(m, 5, 12) \in Seq(Byte) /\ Len(SubSeq(m, 5, 12)) = 8
      /\ \A j \in 1 .. 8 : SubSeq(m, 5, 12)[j] = m[4 + j]
  <2>1. /\ SubSeq(m, 5, 12) \in Seq(Byte)
        /\ Len(SubSeq(m, 5, 12)) = (IF 5 <= 12 THEN 12 - 5 + 1 ELSE 0)
        /\ \A j \in 1 .. 12 - 5 + 1 : SubSeq(m, 5, 12)[j] = m[5 + j - 1]
    BY <1>1, SubSeqProperties
  <2>2. \A j \in 1 .. 8 : 5 + j - 1 = 4 + j
    OBVIOUS
  <2> QED
    BY <2>1, <2>2
<1>4. SubSeq(m, 1, 4) \in [1 .. 4 -> Byte]
  BY <1>2, SeqIsFunction
<1>5. SubSeq(m, 5, 12) \in [1 .. 8 -> Byte]
  BY <1>3, SeqIsFunction
<1> QED
  BY <1>2, <1>3, <1>4, <1>5

LEMMA KeyArrives ==
  ASSUME NEW k \in RKeys, HasZero(k)
  PROVE  Extracted(Pack(k)) = [rkey |-> k, addr |-> Addr] <=> FirstZero(k) = 4
<1> DEFINE m == Pack(k)
           z == FirstZero(k)
<1>1. /\ m \in [1 .. 16 -> Byte] /\ z \in 1 .. 4
      /\ \A j \in 1 .. z : m[j] = k[j]
      /\ \A j \in 1 .. 8 : m[z + j] = 100 + j
  BY PackBytes, FirstZeroFacts
<1>2. /\ SubSeq(m, 1, 4) \in [1 .. 4 -> Byte] /\ SubSeq(m, 5, 12) \in [1 .. 8 -> Byte]
      /\ \A j \in 1 .. 4 : SubSeq(m, 1, 4)[j] = m[j]
      /\ \A j \in 1 .. 8 : SubSeq(m, 5, 12)[j] = m[4 + j]
  BY <1>1, ExtractTyped
<1> HIDE DEF m, z
<1>3. CASE z = 4
  <2>1. k \in [1 .. 4 -> Byte]
    BY KeyTyped
  <2>2. SubSeq(m, 1, 4) = k
    BY <1>1, <1>2, <1>3, <2>1
  <2>3. SubSeq(m, 5, 12) = Addr
    BY <1>1, <1>2, <1>3, AddrTyped
  <2> QED
    BY <1>3, <2>2, <2>3 DEF Extracted, m, z
<1>4. CASE z # 4
  <2>1. z \in 1 .. 3
    BY <1>1, <1>4
  <2>2. 5 - z \in 1 .. 8 /\ z + (5 - z) = 5 /\ 100 + (5 - z) # 101
    BY <2>1
  <2>3. m[5] # 101
    BY <1>1, <2>2
  <2>4. SubSeq(m, 5, 12)[1] = m[5] /\ Addr[1] = 101
    BY <1>2, AddrTyped
  <2>5. SubSeq(m, 5, 12) # Addr
    BY <2>3, <2>4
  <2> QED
    BY <1>4, <2>5 DEF Extracted, m, z
<1> QED
  BY <1>3, <1>4

-----------------------------------------------------------------------------
(* The calls, one lemma for each action.                                   *)

Msgs == [msg : [1 .. 16 -> Byte]]

LEMMA LedgerTyped ==
  ASSUME TypeOK
  PROVE  /\ QpTypeOK(Msgs) /\ ops \in Seq({"write", "read"}) /\ Len(ops) \in Nat
         /\ \A n \in Nodes : SendsOf(n) \in Nat /\ Flight(n) \in Nat
         /\ SendsOf("server") \in Nat
<1>1. QpTypeOK(Msgs) /\ ops \in Seq({"write", "read"})
  BY DEF TypeOK, Msgs
<1>2. Len(ops) \in Nat
  BY <1>1
<1>3. \A n \in Nodes : SendsOf(n) \in Nat /\ Flight(n) \in Nat
  BY <1>1, QpTyped, FlightTyped
<1> QED
  BY <1>1, <1>2, <1>3, NodesFacts

LEMMA TakeOne ==
  /\ \A a, b \in Nat : a + b = 1 => a + (b - 1) = 0
  /\ \A a, b \in Nat : a + b = 0 => a + (b + 1) = 1 /\ (a + 1) + b = 1
OBVIOUS

LEMMA CallPostRecvKeeps ==
  ASSUME ExchangeInv, NEW n \in Nodes, CallPostRecv(n)
  PROVE  ExchangeInv'
<1>1. /\ TypeOK /\ pc \in [Nodes -> Nat] /\ QpTypeOK(Msgs)
      /\ Order /\ Flow /\ KeyOK /\ DataOK /\ ExampleOK
  BY DEF ExchangeInv, TypeOK, Msgs
<1>2. pc["server"] \in Nat /\ pc["client"] \in Nat
  BY <1>1, NodesFacts
<1>3. /\ program' = program /\ region' = region /\ memory' = memory /\ send_msg' = send_msg
      /\ target' = target /\ local' = local /\ ops' = ops /\ got' = got /\ linked' = linked
  BY DEF CallPostRecv, dataVars
<1>4. Calls(n, "post_recv") /\ Returns(n) /\ n \in Nodes
  BY NodesFacts DEF CallPostRecv
<1>20. PcTyped' /\ pc'[n] = pc[n] + 1 /\ pc'[Other(n)] = pc[Other(n)]
  BY <1>1, <1>3, <1>4, CallReturns
<1>5. /\ Testing /\ n = "server" =>
           /\ pc["server"] \in {1, 6} /\ pc'["server"] = pc["server"] + 1
           /\ pc'["client"] = pc["client"]
      /\ Testing /\ n = "client" =>
           /\ pc["client"] \in {1, 9} /\ pc'["client"] = pc["client"] + 1
           /\ pc'["server"] = pc["server"]
      /\ n = "server" \/ n = "client"
  <2>1. /\ Testing /\ n = "server" => pc[n] \in 1 .. 15 /\ TestServer[pc[n]] = "post_recv"
        /\ Testing /\ n = "client" => pc[n] \in 1 .. 12 /\ TestClient[pc[n]] = "post_recv"
    BY <1>1, <1>4, CallPlaces
  <2> QED
    BY <2>1, <1>20, NodesFacts, ServerCalls, ClientCalls
<1>6. /\ QpTypeOK(Msgs)' /\ wire' = wire /\ qp_error' = qp_error
      /\ SendsOf("server")' = SendsOf("server")
      /\ n \notin qp_error => recv_cq' = recv_cq
  <2>1. PostRecv(n)
    BY DEF CallPostRecv
  <2> QED
    BY <1>1, <2>1, PostRecvFacts, NodesFacts
<1>7. /\ qp_error = {} => recv_cq' = recv_cq
      /\ qp_error = {} => Flight("server")' = Flight("server") /\ Flight("client")' = Flight("client")
  BY <1>6 DEF Flight
<1>21. TypeOK'
  BY <1>1, <1>2, <1>3, <1>5, <1>6, <1>7, <1>20
     DEF TypeOK, PcTyped, Msgs
<1>22. Order'
  BY <1>1, <1>2, <1>3, <1>5, <1>6, <1>7, <1>20
     DEF Order, Testing
<1>23. Flow'
  BY <1>1, <1>2, <1>3, <1>5, <1>6, <1>7, <1>20
     DEF Flow, ServerGot, ServerSent, ClientGot, ClientSent, Crashed, Testing
<1>24. KeyOK'
  <2>1. Testing /\ pc["server"] <= 9 => qp_error = {}
    BY <1>1, <1>2 DEF Order
  <2> QED
    BY <1>1, <1>2, <1>3, <1>5, <1>6, <1>7, <2>1 DEF KeyOK, KeyMsg, Testing
<1>25. DataOK'
  BY <1>1, <1>2, <1>3, <1>5, <1>6, <1>7, <1>20
     DEF DataOK, Testing
<1>26. ExampleOK'
  BY <1>1, <1>2, <1>3, <1>5, <1>6, <1>7, <1>20
     DEF ExampleOK
<1> QED
  BY <1>21, <1>22, <1>23, <1>24, <1>25, <1>26, <1>20 DEF ExchangeInv, PcTyped

LEMMA CallGetSendKeeps ==
  ASSUME ExchangeInv, NEW n \in Nodes, CallGetSend(n)
  PROVE  ExchangeInv'
<1>1. /\ TypeOK /\ pc \in [Nodes -> Nat] /\ QpTypeOK(Msgs)
      /\ Order /\ Flow /\ KeyOK /\ DataOK /\ ExampleOK
  BY DEF ExchangeInv, TypeOK, Msgs
<1>2. pc["server"] \in Nat /\ pc["client"] \in Nat
  BY <1>1, NodesFacts
<1>3. /\ program' = program /\ region' = region /\ memory' = memory /\ send_msg' = send_msg
      /\ target' = target /\ local' = local /\ ops' = ops /\ got' = got /\ linked' = linked
  BY DEF CallGetSend, dataVars
<1>4. Calls(n, "get_send") /\ Returns(n) /\ n \in Nodes
  BY NodesFacts DEF CallGetSend
<1>20. PcTyped' /\ pc'[n] = pc[n] + 1 /\ pc'[Other(n)] = pc[Other(n)]
  BY <1>1, <1>3, <1>4, CallReturns
<1>5. /\ Testing /\ n = "server" =>
           /\ pc["server"] \in {5, 14} /\ pc'["server"] = pc["server"] + 1
           /\ pc'["client"] = pc["client"]
      /\ Testing /\ n = "client" =>
           /\ pc["client"] \in {4, 8} /\ pc'["client"] = pc["client"] + 1
           /\ pc'["server"] = pc["server"]
      /\ n = "server" \/ n = "client"
  <2>1. /\ Testing /\ n = "server" => pc[n] \in 1 .. 15 /\ TestServer[pc[n]] = "get_send"
        /\ Testing /\ n = "client" => pc[n] \in 1 .. 12 /\ TestClient[pc[n]] = "get_send"
    BY <1>1, <1>4, CallPlaces
  <2> QED
    BY <2>1, <1>20, NodesFacts, ServerCalls, ClientCalls
<1>6. /\ QpTypeOK(Msgs)' /\ wire' = wire /\ recv_cq' = recv_cq /\ qp_error' = qp_error
      /\ n = "server" => SendsOf("server")' = SendsOf("server") - 1
      /\ n = "client" => SendsOf("server")' = SendsOf("server")
  <2>1. GetSendComp(n)
    BY DEF CallGetSend
  <2> QED
    BY <1>1, <2>1, GetSendCompFacts, NodesFacts
<1>7. Flight("server")' = Flight("server") /\ Flight("client")' = Flight("client")
  BY <1>6 DEF Flight
<1>8. Len(ops) \in Nat /\ SendsOf("server") \in Nat
  BY <1>1, LedgerTyped
<1>21. TypeOK'
  BY <1>1, <1>2, <1>3, <1>5, <1>6, <1>7, <1>20
     DEF TypeOK, PcTyped, Msgs
<1>22. Order'
  <2>1. CASE n = "server"
    <3>1. Testing => Len(ops) + (SendsOf("server") - 1) = 0
      <4>1. Testing => Len(ops) + SendsOf("server") = 1
        BY <1>1, <1>5, <2>1 DEF Order
      <4> QED
        BY <1>8, <4>1, TakeOne
    <3>2. Testing => Len(ops') + SendsOf("server")' = 0
      BY <1>3, <1>6, <2>1, <3>1
    <3> QED
      BY <1>1, <1>2, <1>3, <1>5, <1>6, <2>1, <3>2 DEF Order, Testing
  <2>2. CASE n = "client"
    BY <1>1, <1>2, <1>3, <1>5, <1>6, <2>2 DEF Order, Testing
  <2> QED
    BY <1>5, <2>1, <2>2
<1>23. Flow'
  <2>1. CASE n = "server"
    BY <1>1, <1>2, <1>3, <1>5, <1>6, <1>7, <1>8, <2>1 DEF Flow, ServerGot, ServerSent, ClientGot, ClientSent, Crashed, Testing
  <2>2. CASE n = "client"
    BY <1>1, <1>2, <1>3, <1>5, <1>6, <1>7, <1>8, <2>2 DEF Flow, ServerGot, ServerSent, ClientGot, ClientSent, Crashed, Testing
  <2> QED
    BY <1>5, <2>1, <2>2
<1>24. KeyOK'
  <2>1. CASE n = "server"
    <3>1. /\ program' = program /\ region' = region /\ send_msg' = send_msg /\ got' = got
          /\ target' = target /\ (Testing => pc'["client"] = pc["client"])
          /\ wire' = wire /\ recv_cq' = recv_cq
      BY <1>3, <1>5, <1>6, <2>1
    <3>2. Testing =>
            \/ pc["server"] = 5 /\ pc'["server"] = 6
            \/ pc["server"] = 14 /\ pc'["server"] = 15
      BY <1>5, <2>1
    <3>3. Testing =>
            /\ pc'["server"] \in 4 .. 7 <=> pc["server"] \in 4 .. 7
            /\ pc'["server"] >= 8 <=> pc["server"] >= 8
            /\ pc'["server"] >= 9 <=> pc["server"] >= 9
      BY <3>2
    <3> QED
      BY <1>1, <3>1, <3>3 DEF KeyOK, KeyMsg, Testing
  <2>2. CASE n = "client"
    <3>1. /\ program' = program /\ region' = region /\ send_msg' = send_msg /\ got' = got
          /\ target' = target /\ (Testing => pc'["server"] = pc["server"])
          /\ wire' = wire /\ recv_cq' = recv_cq
      BY <1>3, <1>5, <1>6, <2>2
    <3>2. Testing =>
            \/ pc["client"] = 4 /\ pc'["client"] = 5
            \/ pc["client"] = 8 /\ pc'["client"] = 9
      BY <1>5, <2>2
    <3>3. Testing =>
            /\ (pc'["client"] \in 1 .. 6 \/ pc'["client"] >= 12)
                 <=> (pc["client"] \in 1 .. 6 \/ pc["client"] >= 12)
            /\ pc'["client"] \in 7 .. 11 <=> pc["client"] \in 7 .. 11
      BY <3>2
    <3> QED
      BY <1>1, <3>1, <3>3 DEF KeyOK, KeyMsg, Testing
  <2> QED
    BY <1>5, <2>1, <2>2
<1>25. DataOK'
  BY <1>1, <1>2, <1>3, <1>5, <1>6, <1>7, <1>20
     DEF DataOK, Testing
<1>26. ExampleOK'
  BY <1>1, <1>2, <1>3, <1>5, <1>6, <1>7, <1>20
     DEF ExampleOK
<1> QED
  BY <1>21, <1>22, <1>23, <1>24, <1>25, <1>26, <1>20 DEF ExchangeInv, PcTyped

LEMMA CallDisconnectKeeps ==
  ASSUME ExchangeInv, NEW n \in Nodes, CallDisconnect(n)
  PROVE  ExchangeInv'
<1>1. /\ TypeOK /\ pc \in [Nodes -> Nat] /\ QpTypeOK(Msgs)
      /\ Order /\ Flow /\ KeyOK /\ DataOK /\ ExampleOK
  BY DEF ExchangeInv, TypeOK, Msgs
<1>2. pc["server"] \in Nat /\ pc["client"] \in Nat
  BY <1>1, NodesFacts
<1>3. /\ program' = program /\ region' = region /\ memory' = memory /\ send_msg' = send_msg
      /\ target' = target /\ local' = local /\ ops' = ops /\ got' = got /\ linked' \subseteq linked
  BY DEF CallDisconnect, dataVars
<1>4. Calls(n, "disconnect") /\ Returns(n) /\ n \in Nodes
  BY NodesFacts DEF CallDisconnect
<1>20. PcTyped' /\ pc'[n] = pc[n] + 1 /\ pc'[Other(n)] = pc[Other(n)]
  BY <1>1, <1>3, <1>4, CallReturns
<1>5. /\ Testing /\ n = "server" =>
           /\ pc["server"] \in {15} /\ pc'["server"] = pc["server"] + 1
           /\ pc'["client"] = pc["client"]
      /\ Testing /\ n = "client" =>
           /\ pc["client"] \in {12} /\ pc'["client"] = pc["client"] + 1
           /\ pc'["server"] = pc["server"]
      /\ n = "server" \/ n = "client"
  <2>1. /\ Testing /\ n = "server" => pc[n] \in 1 .. 15 /\ TestServer[pc[n]] = "disconnect"
        /\ Testing /\ n = "client" => pc[n] \in 1 .. 12 /\ TestClient[pc[n]] = "disconnect"
    BY <1>1, <1>4, CallPlaces
  <2> QED
    BY <2>1, <1>20, NodesFacts, ServerCalls, ClientCalls
<1>6. /\ wire' = wire /\ recv_cq' = recv_cq /\ qp_error' = qp_error /\ send_cq' = send_cq
      /\ recvs' = recvs
  BY DEF CallDisconnect, qpVars
<1>7. /\ Flight("server")' = Flight("server") /\ Flight("client")' = Flight("client")
      /\ SendsOf("server")' = SendsOf("server") /\ QpTypeOK(Msgs)'
  BY <1>1, <1>6 DEF Flight, SendsOf, QpTypeOK
<1>21. TypeOK'
  BY <1>1, <1>2, <1>3, <1>5, <1>6, <1>7, <1>20
     DEF TypeOK, PcTyped, Msgs
<1>22. Order'
  BY <1>1, <1>2, <1>3, <1>5, <1>6, <1>7, <1>20
     DEF Order, Testing
<1>23. Flow'
  BY <1>1, <1>2, <1>3, <1>5, <1>6, <1>7, <1>20
     DEF Flow, ServerGot, ServerSent, ClientGot, ClientSent, Crashed, Testing
<1>24. KeyOK'
  BY <1>1, <1>2, <1>3, <1>5, <1>6, <1>7, <1>20
     DEF KeyOK, KeyMsg, Testing
<1>25. DataOK'
  BY <1>1, <1>2, <1>3, <1>5, <1>6, <1>7, <1>20
     DEF DataOK, Testing
<1>26. ExampleOK'
  BY <1>1, <1>2, <1>3, <1>5, <1>6, <1>7, <1>20
     DEF ExampleOK
<1> QED
  BY <1>21, <1>22, <1>23, <1>24, <1>25, <1>26, <1>20 DEF ExchangeInv, PcTyped

LEMMA FlowMoves ==
  /\ \A a, b, c \in Nat : a + b = c => (a + 1) + b = c + 1
  /\ \A a, b, c \in Nat : a >= 1 /\ a + b = c => (a - 1) + (b + 1) = c /\ c >= b + 1
OBVIOUS

(* No error before the server's first operation.                           *)
LEMMA NoErrorYet ==
  ASSUME ExchangeInv, Testing, pc["server"] <= 9
  PROVE  qp_error = {} /\ ops = <<>>
<1>1. pc["server"] \in Nat
  BY NodesFacts DEF ExchangeInv
<1> QED
  BY <1>1 DEF ExchangeInv, Order

(* What is on its way, while nothing was flushed.                          *)
LEMMA GotTyped ==
  ASSUME NEW k \in Nat
  PROVE  ServerGot(k) \in Nat /\ ServerSent(k) \in Nat /\ ClientGot(k) \in Nat /\ ClientSent(k) \in Nat
BY DEF ServerGot, ServerSent, ClientGot, ClientSent

LEMMA CallPostSendKeeps ==
  ASSUME ExchangeInv, NEW n \in Nodes, CallPostSend(n)
  PROVE  ExchangeInv'
<1>1. /\ TypeOK /\ pc \in [Nodes -> Nat] /\ QpTypeOK(Msgs)
      /\ Order /\ Flow /\ KeyOK /\ DataOK /\ ExampleOK
  BY DEF ExchangeInv, TypeOK, Msgs
<1>2. pc["server"] \in Nat /\ pc["client"] \in Nat
  BY <1>1, NodesFacts
<1>3. /\ program' = program /\ region' = region /\ memory' = memory /\ send_msg' = send_msg
      /\ target' = target /\ local' = local /\ ops' = ops /\ got' = got /\ linked' = linked
  BY DEF CallPostSend, dataVars
<1>4. Calls(n, "post_send") /\ Returns(n) /\ n \in Nodes
  BY NodesFacts DEF CallPostSend
<1>20. PcTyped' /\ pc'[n] = pc[n] + 1 /\ pc'[Other(n)] = pc[Other(n)]
  BY <1>1, <1>3, <1>4, CallReturns
<1>5. /\ Testing /\ n = "server" =>
           /\ pc["server"] \in {4, 13} /\ pc'["server"] = pc["server"] + 1
           /\ pc'["client"] = pc["client"]
      /\ Testing /\ n = "client" =>
           /\ pc["client"] \in {3, 7} /\ pc'["client"] = pc["client"] + 1
           /\ pc'["server"] = pc["server"]
      /\ n = "server" \/ n = "client"
  <2>1. /\ Testing /\ n = "server" => pc[n] \in 1 .. 15 /\ TestServer[pc[n]] = "post_send"
        /\ Testing /\ n = "client" => pc[n] \in 1 .. 12 /\ TestClient[pc[n]] = "post_send"
    BY <1>1, <1>4, CallPlaces
  <2> QED
    BY <2>1, <1>20, NodesFacts, ServerCalls, ClientCalls
<1> DEFINE m == [msg |-> IF n = "client" THEN send_msg ELSE Zeros(16)]
<1>60. PostSend(n, m) /\ m \in Msgs
  <2>1. Zeros(16) \in [1 .. 16 -> Byte] /\ send_msg \in [1 .. 16 -> Byte]
    BY <1>1, ZerosTyped DEF TypeOK
  <2> QED
    BY <2>1 DEF CallPostSend, Msgs
<1>61. n = "client" => m = KeyMsg
  BY DEF KeyMsg
<1> HIDE DEF m
<1>6. /\ QpTypeOK(Msgs)' /\ recv_cq' = recv_cq /\ qp_error' = qp_error
      /\ n \notin qp_error => wire' = [wire EXCEPT ![n] = Append(@, m)]
      /\ n \in qp_error => wire' = wire
      /\ n = "server" => SendsOf("server")' = SendsOf("server") + 1
      /\ n = "client" => SendsOf("server")' = SendsOf("server")
  BY <1>1, <1>60, PostSendFacts, NodesFacts
<1>7. qp_error = {} =>
      /\ n = "server" => Flight("server")' = Flight("server") + 1 /\ Flight("client")' = Flight("client")
      /\ n = "client" => Flight("client")' = Flight("client") + 1 /\ Flight("server")' = Flight("server")
  BY <1>1, <1>60, PostSendFlight, NodesFacts
<1>8. /\ Len(ops) \in Nat /\ SendsOf("server") \in Nat
      /\ Flight("server") \in Nat /\ Flight("client") \in Nat
  BY <1>1, LedgerTyped, NodesFacts
<1>21. TypeOK'
  BY <1>1, <1>2, <1>3, <1>5, <1>6, <1>7, <1>20
     DEF TypeOK, PcTyped, Msgs
<1>22. Order'
  <2>1. CASE n = "server"
    <3>1. Testing => Len(ops) + (SendsOf("server") + 1) = 1
      <4>1. Testing => Len(ops) + SendsOf("server") = 0
        BY <1>1, <1>5, <2>1 DEF Order
      <4> QED
        BY <1>8, <4>1, TakeOne
    <3>2. Testing => Len(ops') + SendsOf("server")' = 1
      BY <1>3, <1>6, <2>1, <3>1
    <3>3. Testing => ops = <<>>
      BY <1>1, <1>5, <2>1 DEF Order
    <3> QED
      BY <1>1, <1>2, <1>3, <1>5, <1>6, <2>1, <3>2, <3>3 DEF Order, Testing
  <2>2. CASE n = "client"
    BY <1>1, <1>2, <1>3, <1>5, <1>6, <2>2 DEF Order, Testing
  <2> QED
    BY <1>5, <2>1, <2>2
<1>23. Flow'
  <2>1. CASE n = "server"
    <3>1. Testing /\ qp_error = {} =>
            Flight("server") + ClientGot(pc["client"]) = ServerSent(pc["server"])
      BY <1>1 DEF Flow
    <3>2. Testing => ServerSent(pc["server"] + 1) = ServerSent(pc["server"]) + 1
                     /\ ServerGot(pc["server"] + 1) = ServerGot(pc["server"])
      BY <1>5, <2>1 DEF ServerSent, ServerGot
    <3>3. Testing /\ qp_error = {} =>
            (Flight("server") + 1) + ClientGot(pc["client"]) = ServerSent(pc["server"]) + 1
      <4>1. ClientGot(pc["client"]) \in Nat /\ ServerSent(pc["server"]) \in Nat
        BY <1>2, GotTyped
      <4> QED
        BY <1>8, <3>1, <4>1, FlowMoves
    <3> QED
      BY <1>1, <1>3, <1>5, <1>6, <1>7, <2>1, <3>2, <3>3 DEF Flow, Testing
  <2>2. CASE n = "client"
    <3>1. Testing /\ qp_error = {} =>
            Flight("client") + ServerGot(pc["server"]) = ClientSent(pc["client"])
      BY <1>1 DEF Flow
    <3>2. Testing => ClientSent(pc["client"] + 1) = ClientSent(pc["client"]) + 1
                     /\ ClientGot(pc["client"] + 1) = ClientGot(pc["client"])
      BY <1>5, <2>2 DEF ClientSent, ClientGot, Crashed
    <3>3. Testing /\ qp_error = {} =>
            (Flight("client") + 1) + ServerGot(pc["server"]) = ClientSent(pc["client"]) + 1
      <4>1. ServerGot(pc["server"]) \in Nat /\ ClientSent(pc["client"]) \in Nat
        BY <1>2, GotTyped
      <4> QED
        BY <1>8, <3>1, <4>1, FlowMoves
    <3> QED
      BY <1>1, <1>3, <1>5, <1>6, <1>7, <2>2, <3>2, <3>3 DEF Flow, Testing
  <2> QED
    BY <1>5, <2>1, <2>2
<1>24. KeyOK'
  <2>1. CASE n = "server"
    <3>1. wire'["client"] = wire["client"]
      BY <1>1, <1>6, <2>1, NodesFacts DEF QpTypeOK
    <3>2. Testing /\ pc["server"] = 4 => wire["client"] \in Seq({KeyMsg}) /\ recv_cq["server"] \in Seq({KeyMsg})
      BY <1>1 DEF KeyOK
    <3> QED
      BY <1>1, <1>2, <1>3, <1>5, <1>6, <2>1, <3>1, <3>2 DEF KeyOK, KeyMsg, Testing
  <2>2. CASE n = "client"
    <3>1. Testing => pc["server"] < 8
      BY <1>1, <1>2, <1>5, <2>2 DEF Order
    <3>2. Testing => qp_error = {} /\ wire'["client"] = Append(wire["client"], KeyMsg)
      <4>1. Testing => qp_error = {}
        BY <1>2, <3>1, NoErrorYet
      <4> QED
        BY <1>1, <1>6, <1>61, <2>2, <4>1, NodesFacts DEF QpTypeOK
    <3>3. Testing /\ pc["server"] \in 4 .. 7 => wire'["client"] \in Seq({KeyMsg})
      <4>1. Testing /\ pc["server"] \in 4 .. 7 => wire["client"] \in Seq({KeyMsg})
        BY <1>1 DEF KeyOK
      <4>2. KeyMsg \in {KeyMsg}
        OBVIOUS
      <4> QED
        BY <3>2, <4>1, <4>2, AppendProperties
    <3> QED
      BY <1>1, <1>2, <1>3, <1>5, <1>6, <2>2, <3>1, <3>3 DEF KeyOK, KeyMsg, Testing
  <2> QED
    BY <1>5, <2>1, <2>2
<1>25. DataOK'
  BY <1>1, <1>2, <1>3, <1>5, <1>6, <1>7, <1>20
     DEF DataOK, Testing
<1>26. ExampleOK'
  BY <1>1, <1>2, <1>3, <1>5, <1>6, <1>7, <1>20
     DEF ExampleOK
<1> QED
  BY <1>21, <1>22, <1>23, <1>24, <1>25, <1>26, <1>20 DEF ExchangeInv, PcTyped

LEMMA KeyMsgIsMessage == KeyMsg # Flushed /\ KeyMsg.msg = send_msg
<1>1. DOMAIN KeyMsg = {"msg"} /\ DOMAIN Flushed = {"flushed"} /\ "msg" # "flushed"
  BY DEF KeyMsg, Flushed
<1>2. KeyMsg # Flushed
  BY <1>1
<1> QED
  BY <1>2 DEF KeyMsg

LEMMA CallGetRecvKeeps ==
  ASSUME ExchangeInv, NEW n \in Nodes, CallGetRecv(n)
  PROVE  ExchangeInv'
<1>1. /\ TypeOK /\ pc \in [Nodes -> Nat] /\ QpTypeOK(Msgs)
      /\ Order /\ Flow /\ KeyOK /\ DataOK /\ ExampleOK
  BY DEF ExchangeInv, TypeOK, Msgs
<1>2. pc["server"] \in Nat /\ pc["client"] \in Nat
  BY <1>1, NodesFacts
<1>3. /\ program' = program /\ region' = region /\ memory' = memory /\ send_msg' = send_msg
      /\ target' = target /\ local' = local /\ ops' = ops /\ linked' = linked
  BY DEF CallGetRecv, dataVars
<1>4. Calls(n, "get_recv") /\ Returns(n) /\ n \in Nodes
  BY NodesFacts DEF CallGetRecv
<1>20. PcTyped' /\ pc'[n] = pc[n] + 1 /\ pc'[Other(n)] = pc[Other(n)]
  BY <1>1, <1>3, <1>4, CallReturns
<1>5. /\ Testing /\ n = "server" =>
           /\ pc["server"] \in {3, 7} /\ pc'["server"] = pc["server"] + 1
           /\ pc'["client"] = pc["client"]
      /\ Testing /\ n = "client" =>
           /\ pc["client"] \in {5, 10} /\ pc'["client"] = pc["client"] + 1
           /\ pc'["server"] = pc["server"]
      /\ n = "server" \/ n = "client"
  <2>1. /\ Testing /\ n = "server" => pc[n] \in 1 .. 15 /\ TestServer[pc[n]] = "get_recv"
        /\ Testing /\ n = "client" => pc[n] \in 1 .. 12 /\ TestClient[pc[n]] = "get_recv"
    BY <1>1, <1>4, CallPlaces
  <2> QED
    BY <2>1, <1>20, NodesFacts, ServerCalls, ClientCalls
<1>6. /\ QpTypeOK(Msgs)' /\ wire' = wire /\ qp_error' = qp_error
      /\ recv_cq' = [recv_cq EXCEPT ![n] = Tail(@)]
      /\ Head(recv_cq[n]) \in Msgs \cup {Flushed} /\ recv_cq[n] # <<>>
      /\ SendsOf("server")' = SendsOf("server")
  <2>1. GetRecvComp(n)
    BY DEF CallGetRecv
  <2> QED
    BY <1>1, <2>1, GetRecvCompFacts, NodesFacts
<1>7. /\ n = "server" => Flight("client") >= 1 /\ Flight("client")' = Flight("client") - 1
                         /\ Flight("server")' = Flight("server")
      /\ n = "client" => Flight("server") >= 1 /\ Flight("server")' = Flight("server") - 1
                         /\ Flight("client")' = Flight("client")
  <2>1. GetRecvComp(n)
    BY DEF CallGetRecv
  <2> QED
    BY <1>1, <2>1, GetRecvCompFlight, NodesFacts
<1>8. Flight("server") \in Nat /\ Flight("client") \in Nat
  BY <1>1, LedgerTyped, NodesFacts
<1>9. got' = IF n = "server" /\ Head(recv_cq[n]) # Flushed THEN Head(recv_cq[n]).msg ELSE got
  BY DEF CallGetRecv
<1>10. Testing /\ n = "server" => ServerGot(pc["server"]) + 1 <= ClientSent(pc["client"])
  <2>1. Testing /\ n = "server" => qp_error = {}
    BY <1>5, NoErrorYet
  <2>2. Testing /\ n = "server" => Flight("client") + ServerGot(pc["server"]) = ClientSent(pc["client"])
    BY <1>1, <2>1 DEF Flow
  <2>3. ServerGot(pc["server"]) \in Nat /\ ClientSent(pc["client"]) \in Nat
    BY <1>2, GotTyped
  <2> QED
    BY <1>7, <1>8, <2>2, <2>3, FlowMoves
<1>11. Testing /\ n = "server" /\ pc["server"] = 7 => pc["client"] >= 8
  <2>1. Testing /\ n = "server" /\ pc["server"] = 7 => 2 <= ClientSent(pc["client"])
    BY <1>10 DEF ServerGot
  <2> QED
    BY <1>2, <2>1 DEF ClientSent, Crashed
<1>21. TypeOK'
  <2>1. got' \in [1 .. 16 -> Byte]
    <3>1. Head(recv_cq[n]) # Flushed => Head(recv_cq[n]).msg \in [1 .. 16 -> Byte]
      BY <1>6 DEF Msgs
    <3> QED
      BY <1>1, <1>9, <3>1 DEF TypeOK
  <2> QED
    BY <1>1, <1>3, <1>6, <1>20, <2>1 DEF TypeOK, PcTyped, Msgs
<1>22. Order'
  BY <1>1, <1>2, <1>3, <1>5, <1>6, <1>20, <1>11
     DEF Order, Testing
<1>23. Flow'
  <2>1. CASE n = "server"
    <3>1. Testing /\ qp_error = {} =>
            Flight("client") + ServerGot(pc["server"]) = ClientSent(pc["client"])
      BY <1>1 DEF Flow
    <3>2. Testing => ServerGot(pc["server"] + 1) = ServerGot(pc["server"]) + 1
                     /\ ServerSent(pc["server"] + 1) = ServerSent(pc["server"])
      BY <1>5, <2>1 DEF ServerSent, ServerGot, Crashed
    <3>3. Testing /\ qp_error = {} =>
            (Flight("client") - 1) + (ServerGot(pc["server"]) + 1) = ClientSent(pc["client"])
      <4>1. ServerGot(pc["server"]) \in Nat /\ ClientSent(pc["client"]) \in Nat
        BY <1>2, GotTyped
      <4>2. Flight("client") >= 1 /\ Flight("client") \in Nat
        BY <1>7, <1>8, <2>1
      <4> QED
        BY <3>1, <4>1, <4>2, FlowMoves
    <3> QED
      BY <1>1, <1>3, <1>5, <1>6, <1>7, <2>1, <3>2, <3>3 DEF Flow, Testing
  <2>2. CASE n = "client"
    <3>1. Testing /\ qp_error = {} =>
            Flight("server") + ClientGot(pc["client"]) = ServerSent(pc["server"])
      BY <1>1 DEF Flow
    <3>2. Testing => ClientGot(pc["client"] + 1) = ClientGot(pc["client"]) + 1
                     /\ ClientSent(pc["client"] + 1) = ClientSent(pc["client"])
      BY <1>5, <2>2 DEF ClientSent, ClientGot, Crashed
    <3>3. Testing /\ qp_error = {} =>
            (Flight("server") - 1) + (ClientGot(pc["client"]) + 1) = ServerSent(pc["server"])
      <4>1. ClientGot(pc["client"]) \in Nat /\ ServerSent(pc["server"]) \in Nat
        BY <1>2, GotTyped
      <4>2. Flight("server") >= 1 /\ Flight("server") \in Nat
        BY <1>7, <1>8, <2>2
      <4> QED
        BY <3>1, <4>1, <4>2, FlowMoves
    <3> QED
      BY <1>1, <1>3, <1>5, <1>6, <1>7, <2>2, <3>2, <3>3 DEF Flow, Testing
  <2> QED
    BY <1>5, <2>1, <2>2
<1>24. KeyOK'
  <2>1. CASE n = "server"
    <3>1. Testing /\ pc["server"] = 3 => wire'["client"] = <<>> /\ recv_cq'["server"] = <<>>
      <4> SUFFICES ASSUME Testing, pc["server"] = 3
                   PROVE  wire'["client"] = <<>> /\ recv_cq'["server"] = <<>>
        OBVIOUS
      <4>1. qp_error = {}
        BY NoErrorYet
      <4>2. Flight("server") + ClientGot(pc["client"]) = 0
        BY <1>1, <4>1 DEF Flow, ServerSent
      <4>3. ClientGot(pc["client"]) = 0
        <5>1. ClientGot(pc["client"]) \in Nat
          BY <1>2, GotTyped
        <5>2. \A a, b \in Nat : a + b = 0 => b = 0
          OBVIOUS
        <5> QED
          BY <1>8, <4>2, <5>1, <5>2
      <4>4. ClientSent(pc["client"]) <= 1 /\ ClientSent(pc["client"]) \in Nat
        BY <1>2, <4>3 DEF ClientGot, ClientSent, Crashed
      <4>5. Flight("client") + 0 = ClientSent(pc["client"])
        BY <1>1, <4>1 DEF Flow, ServerGot
      <4>6. Flight("client")' = 0
        BY <1>7, <1>8, <2>1, <4>4, <4>5
      <4>7. Len(wire'["client"]) + Len(recv_cq'["server"]) = 0
        BY <4>6, NodesFacts DEF Flight
      <4>8. wire'["client"] \in Seq(Msgs) /\ recv_cq'["server"] \in Seq(Msgs \cup {Flushed})
        BY <1>6, NodesFacts DEF QpTypeOK
      <4>9. Len(wire'["client"]) = 0 /\ Len(recv_cq'["server"]) = 0
        <5>1. Len(wire'["client"]) \in Nat /\ Len(recv_cq'["server"]) \in Nat
          BY <4>8
        <5>2. \A a, b \in Nat : a + b = 0 => a = 0 /\ b = 0
          OBVIOUS
        <5> QED
          BY <4>7, <5>1, <5>2
      <4> QED
        BY <4>8, <4>9, EmptySeq
    <3>2. Testing /\ pc["server"] = 7 => got' = send_msg
      <4> SUFFICES ASSUME Testing, pc["server"] = 7 PROVE got' = send_msg
        OBVIOUS
      <4>1. recv_cq["server"] \in Seq({KeyMsg}) /\ recv_cq["server"] # <<>>
        BY <1>1, <1>6, <2>1 DEF KeyOK
      <4>2. Head(recv_cq["server"]) = KeyMsg
        BY <4>1
      <4> QED
        BY <1>9, <2>1, <4>2, KeyMsgIsMessage
    <3>3. <<>> \in Seq({KeyMsg})
      OBVIOUS
    <3>4. Testing => /\ pc["client"] \in 1 .. 6 \/ pc["client"] >= 12 => region = None
                     /\ pc["client"] \in 7 .. 11 =>
                          region \in RKeys /\ HasZero(region) /\ send_msg = Pack(region)
      BY <1>1 DEF KeyOK
    <3>5. CASE Testing /\ pc["server"] = 3
      <4>1. wire'["client"] \in Seq({KeyMsg}) /\ recv_cq'["server"] \in Seq({KeyMsg})
        BY <3>1, <3>3, <3>5
      <4> QED
        BY <1>2, <1>3, <1>5, <2>1, <3>4, <3>5, <4>1 DEF KeyOK, KeyMsg, Testing
    <3>6. CASE Testing /\ pc["server"] = 7
      BY <1>2, <1>3, <1>5, <2>1, <3>2, <3>4, <3>6 DEF KeyOK, KeyMsg, Testing
    <3> QED
      BY <1>3, <1>5, <2>1, <3>5, <3>6 DEF KeyOK, Testing
  <2>2. CASE n = "client"
    <3>1. recv_cq'["server"] = recv_cq["server"] /\ got' = got
      BY <1>1, <1>6, <1>9, <2>2, NodesFacts DEF QpTypeOK
    <3> QED
      BY <1>1, <1>2, <1>3, <1>5, <1>6, <2>2, <3>1 DEF KeyOK, KeyMsg, Testing
  <2> QED
    BY <1>5, <2>1, <2>2
<1>25. DataOK'
  BY <1>1, <1>2, <1>3, <1>5, <1>6, <1>20
     DEF DataOK, Testing
<1>26. ExampleOK'
  BY <1>1, <1>2, <1>3, <1>5, <1>6, <1>20
     DEF ExampleOK
<1> QED
  BY <1>21, <1>22, <1>23, <1>24, <1>25, <1>26, <1>20 DEF ExchangeInv, PcTyped

LEMMA ConnectKeeps ==
  ASSUME ExchangeInv, Connect
  PROVE  ExchangeInv'
<1>1. /\ TypeOK /\ pc \in [Nodes -> Nat] /\ QpTypeOK(Msgs)
      /\ Order /\ Flow /\ KeyOK /\ DataOK /\ ExampleOK
  BY DEF ExchangeInv, TypeOK, Msgs
<1>2. pc["server"] \in Nat /\ pc["client"] \in Nat
  BY <1>1, NodesFacts
<1>3. /\ program' = program /\ region' = region /\ memory' = memory /\ send_msg' = send_msg
      /\ target' = target /\ local' = local /\ ops' = ops /\ got' = got /\ linked' = Nodes
      /\ wire' = wire /\ recvs' = recvs /\ recv_cq' = recv_cq /\ send_cq' = send_cq
      /\ qp_error' = qp_error
  BY DEF Connect, dataVars, qpVars
<1>7. /\ Flight("server")' = Flight("server") /\ Flight("client")' = Flight("client")
      /\ SendsOf("server")' = SendsOf("server") /\ QpTypeOK(Msgs)'
  BY <1>1, <1>3 DEF Flight, SendsOf, QpTypeOK
<1>4. /\ Calls("client", "connect") /\ Calls("server", "accept")
      /\ pc' = [n \in Nodes |-> pc[n] + 1]
  BY DEF Connect
<1>5. Testing => /\ pc["server"] = 2 /\ pc["client"] = 2
                 /\ pc'["server"] = 3 /\ pc'["client"] = 3
  <2>1. Testing => /\ pc["server"] \in 1 .. 15 /\ TestServer[pc["server"]] = "accept"
                   /\ pc["client"] \in 1 .. 12 /\ TestClient[pc["client"]] = "connect"
    BY <1>1, <1>4, CallPlaces, NodesFacts
  <2>2. Testing => pc["server"] = 2 /\ pc["client"] = 2
    BY <2>1, ServerCalls, ClientCalls
  <2> QED
    BY <1>4, <2>2, NodesFacts
<1>20. PcTyped'
  <2>1. \A n \in Nodes : Script(n)' = Script(n)
    BY <1>3 DEF Script
  <2>2. \A n \in Nodes : pc[n] \in 1 .. Len(Script(n)) /\ Len(Script(n)) \in Nat
    BY <1>1, <1>4, CallPlaces, Scripts, NodesFacts
  <2>3. ASSUME NEW n \in Nodes PROVE pc'[n] \in Nat /\ pc'[n] \in 0 .. Len(Script(n)) + 1
    <3>1. \A k \in Nat, m \in Nat : k \in 1 .. m => k + 1 \in Nat /\ k + 1 \in 0 .. m + 1
      OBVIOUS
    <3>2. pc[n] \in 1 .. Len(Script(n)) /\ Len(Script(n)) \in Nat /\ pc[n] \in Nat /\ pc'[n] = pc[n] + 1
      BY <1>1, <1>4, <2>2
    <3> QED
      BY <3>1, <3>2
  <2> QED
    BY <1>4, <2>1, <2>3 DEF PcTyped
<1>21. TypeOK'
  BY <1>1, <1>2, <1>3, <1>5, <1>7, <1>20
     DEF TypeOK, PcTyped, Msgs
<1>22. Order'
  BY <1>1, <1>2, <1>3, <1>5, <1>7, <1>20
     DEF Order, Testing
<1>23. Flow'
  BY <1>1, <1>2, <1>3, <1>5, <1>7, <1>20
     DEF Flow, ServerGot, ServerSent, ClientGot, ClientSent, Crashed, Testing
<1>24. KeyOK'
  BY <1>1, <1>2, <1>3, <1>5, <1>7, <1>20
     DEF KeyOK, KeyMsg, Testing
<1>25. DataOK'
  BY <1>1, <1>2, <1>3, <1>5, <1>7, <1>20
     DEF DataOK, Testing
<1>26. ExampleOK'
  BY <1>1, <1>2, <1>3, <1>5, <1>7, <1>20
     DEF ExampleOK
<1> QED
  BY <1>21, <1>22, <1>23, <1>24, <1>25, <1>26, <1>20 DEF ExchangeInv, PcTyped

LEMMA DeregMrKeeps ==
  ASSUME ExchangeInv, DeregMr
  PROVE  ExchangeInv'
<1>1. /\ TypeOK /\ pc \in [Nodes -> Nat] /\ QpTypeOK(Msgs)
      /\ Order /\ Flow /\ KeyOK /\ DataOK /\ ExampleOK
  BY DEF ExchangeInv, TypeOK, Msgs
<1>2. pc["server"] \in Nat /\ pc["client"] \in Nat
  BY <1>1, NodesFacts
<1>3. /\ program' = program /\ memory' = memory /\ send_msg' = send_msg /\ linked' = linked
      /\ target' = target /\ local' = local /\ ops' = ops /\ got' = got /\ region' = None
      /\ wire' = wire /\ recvs' = recvs /\ recv_cq' = recv_cq /\ send_cq' = send_cq
      /\ qp_error' = qp_error
  BY DEF DeregMr, dataVars, qpVars
<1>4. Calls("client", "dereg_mr") /\ Returns("client")
  BY DEF DeregMr
<1>20. PcTyped' /\ pc'["client"] = pc["client"] + 1 /\ pc'["server"] = pc["server"]
  BY <1>1, <1>3, <1>4, CallReturns, NodesFacts
<1>5. Testing /\ pc["client"] = 11
  <2>1. /\ Testing => pc["client"] \in 1 .. 12 /\ TestClient[pc["client"]] = "dereg_mr"
        /\ ~Testing => "dereg_mr" \notin {"reg_mr", "dereg_mr", "extract", "write", "read", "poll"}
    BY <1>1, <1>4, CallPlaces, NodesFacts
  <2>2. Testing
    BY <2>1
  <2> QED
    BY <2>1, <2>2, ServerCalls, ClientCalls
<1>7. /\ Flight("server")' = Flight("server") /\ Flight("client")' = Flight("client")
      /\ SendsOf("server")' = SendsOf("server") /\ QpTypeOK(Msgs)'
  BY <1>1, <1>3 DEF Flight, SendsOf, QpTypeOK
<1>21. TypeOK'
  BY <1>1, <1>2, <1>3, <1>5, <1>7, <1>20
     DEF TypeOK, PcTyped, Msgs
<1>22. Order'
  BY <1>1, <1>2, <1>3, <1>5, <1>7, <1>20
     DEF Order, Testing
<1>23. Flow'
  BY <1>1, <1>2, <1>3, <1>5, <1>7, <1>20
     DEF Flow, ServerGot, ServerSent, ClientGot, ClientSent, Crashed, Testing
<1>24. KeyOK'
  BY <1>1, <1>2, <1>3, <1>5, <1>7, <1>20
     DEF KeyOK, KeyMsg, Testing
<1>25. DataOK'
  BY <1>1, <1>2, <1>3, <1>5, <1>7, <1>20
     DEF DataOK, Testing
<1>26. ExampleOK'
  BY <1>1, <1>2, <1>3, <1>5, <1>7, <1>20
     DEF ExampleOK
<1> QED
  BY <1>21, <1>22, <1>23, <1>24, <1>25, <1>26, <1>20 DEF ExchangeInv, PcTyped

LEMMA ExtractKeeps ==
  ASSUME ExchangeInv, Extract
  PROVE  ExchangeInv'
<1>1. /\ TypeOK /\ pc \in [Nodes -> Nat] /\ QpTypeOK(Msgs)
      /\ Order /\ Flow /\ KeyOK /\ DataOK /\ ExampleOK
  BY DEF ExchangeInv, TypeOK, Msgs
<1>2. pc["server"] \in Nat /\ pc["client"] \in Nat
  BY <1>1, NodesFacts
<1>3. /\ program' = program /\ memory' = memory /\ send_msg' = send_msg /\ linked' = linked
      /\ region' = region /\ local' = local /\ ops' = ops /\ got' = got
      /\ wire' = wire /\ recvs' = recvs /\ recv_cq' = recv_cq /\ send_cq' = send_cq
      /\ qp_error' = qp_error
  BY DEF Extract, dataVars, qpVars
<1>4. Calls("server", "extract") /\ Returns("server")
  BY DEF Extract
<1>20. PcTyped' /\ pc'["server"] = pc["server"] + 1 /\ pc'["client"] = pc["client"]
  BY <1>1, <1>3, <1>4, CallReturns, NodesFacts
<1>5. Testing /\ pc["server"] = 8
  <2>1. /\ Testing => pc["server"] \in 1 .. 15 /\ TestServer[pc["server"]] = "extract"
        /\ ~Testing => "extract" \notin {"reg_mr", "dereg_mr", "extract", "write", "read", "poll"}
    BY <1>1, <1>4, CallPlaces, NodesFacts
  <2>2. Testing
    BY <2>1
  <2> QED
    BY <2>1, <2>2, ServerCalls, ClientCalls
<1>7. /\ Flight("server")' = Flight("server") /\ Flight("client")' = Flight("client")
      /\ SendsOf("server")' = SendsOf("server") /\ QpTypeOK(Msgs)'
  BY <1>1, <1>3 DEF Flight, SendsOf, QpTypeOK
<1>8. target' = [rkey |-> SubSeq(got, 1, 4), addr |-> SubSeq(got, 5, 12)]
  BY DEF Extract
<1>9. SubSeq(got, 1, 4) \in [1 .. 4 -> Byte] /\ SubSeq(got, 5, 12) \in [1 .. 8 -> Byte]
  <2>1. got \in [1 .. 16 -> Byte]
    BY <1>1 DEF TypeOK
  <2> QED
    BY <2>1, ExtractTyped
<1>21. TypeOK'
  BY <1>1, <1>2, <1>3, <1>5, <1>7, <1>20, <1>8, <1>9
     DEF TypeOK, PcTyped, Msgs
<1>22. Order'
  BY <1>1, <1>2, <1>3, <1>5, <1>7, <1>20
     DEF Order, Testing
<1>23. Flow'
  BY <1>1, <1>2, <1>3, <1>5, <1>7, <1>20
     DEF Flow, ServerGot, ServerSent, ClientGot, ClientSent, Crashed, Testing
<1>24. KeyOK'
  BY <1>1, <1>2, <1>3, <1>5, <1>7, <1>20, <1>8
     DEF KeyOK, KeyMsg, Testing
<1>25. DataOK'
  BY <1>1, <1>2, <1>3, <1>5, <1>7, <1>20
     DEF DataOK, Testing
<1>26. ExampleOK'
  BY <1>1, <1>2, <1>3, <1>5, <1>7, <1>20
     DEF ExampleOK
<1> QED
  BY <1>21, <1>22, <1>23, <1>24, <1>25, <1>26, <1>20 DEF ExchangeInv, PcTyped

LEMMA WriteKeeps ==
  ASSUME ExchangeInv, Write
  PROVE  ExchangeInv'
<1>1. /\ TypeOK /\ pc \in [Nodes -> Nat] /\ QpTypeOK(Msgs)
      /\ Order /\ Flow /\ KeyOK /\ DataOK /\ ExampleOK
  BY DEF ExchangeInv, TypeOK, Msgs
<1>2. pc["server"] \in Nat /\ pc["client"] \in Nat
  BY <1>1, NodesFacts
<1>3. /\ program' = program /\ memory' = memory /\ send_msg' = send_msg /\ linked' = linked
      /\ region' = region /\ target' = target /\ got' = got /\ local' = Dat
      /\ wire' = wire /\ recvs' = recvs /\ recv_cq' = recv_cq /\ send_cq' = send_cq
      /\ qp_error' = qp_error
  BY DEF Write, dataVars, qpVars
<1>4. Calls("server", "write") /\ Returns("server")
  BY DEF Write
<1>20. PcTyped' /\ pc'["server"] = pc["server"] + 1 /\ pc'["client"] = pc["client"]
  BY <1>1, <1>3, <1>4, CallReturns, NodesFacts
<1>5. Testing /\ pc["server"] = 9
  <2>1. /\ Testing => pc["server"] \in 1 .. 15 /\ TestServer[pc["server"]] = "write"
        /\ ~Testing => "write" \notin {"reg_mr", "dereg_mr", "extract", "write", "read", "poll"}
    BY <1>1, <1>4, CallPlaces, NodesFacts
  <2>2. Testing
    BY <2>1
  <2> QED
    BY <2>1, <2>2, ServerCalls, ClientCalls
<1>7. /\ Flight("server")' = Flight("server") /\ Flight("client")' = Flight("client")
      /\ SendsOf("server")' = SendsOf("server") /\ QpTypeOK(Msgs)'
  BY <1>1, <1>3 DEF Flight, SendsOf, QpTypeOK
<1>8. ops = <<>> /\ qp_error = {}
  BY <1>2, <1>5, NoErrorYet
<1>9. ops' = <<"write">> /\ Len(ops') = 1 /\ ops' \in Seq({"write", "read"})
  BY <1>8 DEF Write
<1>10. Len(ops') + SendsOf("server") = 1
  <2>1. Len(ops) + SendsOf("server") = 0 /\ Len(ops) = 0
    BY <1>1, <1>5, <1>8 DEF Order
  <2>2. SendsOf("server") \in Nat
    BY <1>1, LedgerTyped
  <2> QED
    BY <1>9, <2>1, <2>2
<1>21. TypeOK'
  BY <1>1, <1>2, <1>3, <1>5, <1>7, <1>20, <1>9
     DEF TypeOK, PcTyped, Msgs
<1>22. Order'
  BY <1>1, <1>2, <1>3, <1>5, <1>7, <1>20, <1>8, <1>9, <1>10
     DEF Order, Testing
<1>23. Flow'
  BY <1>1, <1>2, <1>3, <1>5, <1>7, <1>20
     DEF Flow, ServerGot, ServerSent, ClientGot, ClientSent, Crashed, Testing
<1>24. KeyOK'
  BY <1>1, <1>2, <1>3, <1>5, <1>7, <1>20
     DEF KeyOK, KeyMsg, Testing
<1>25. DataOK'
  BY <1>1, <1>2, <1>3, <1>5, <1>7, <1>20, <1>9
     DEF DataOK, Testing
<1>26. ExampleOK'
  BY <1>3, <1>5 DEF ExampleOK, Testing
<1> QED
  BY <1>21, <1>22, <1>23, <1>24, <1>25, <1>26, <1>20 DEF ExchangeInv, PcTyped

LEMMA ReadKeeps ==
  ASSUME ExchangeInv, Read
  PROVE  ExchangeInv'
<1>1. /\ TypeOK /\ pc \in [Nodes -> Nat] /\ QpTypeOK(Msgs)
      /\ Order /\ Flow /\ KeyOK /\ DataOK /\ ExampleOK
  BY DEF ExchangeInv, TypeOK, Msgs
<1>2. pc["server"] \in Nat /\ pc["client"] \in Nat
  BY <1>1, NodesFacts
<1>3. /\ program' = program /\ memory' = memory /\ send_msg' = send_msg /\ linked' = linked
      /\ region' = region /\ target' = target /\ got' = got /\ local' = Cleared
      /\ wire' = wire /\ recvs' = recvs /\ recv_cq' = recv_cq /\ qp_error' = qp_error
  BY DEF Read, dataVars, qpVars
<1>4. Calls("server", "read") /\ Returns("server")
  BY DEF Read
<1>20. PcTyped' /\ pc'["server"] = pc["server"] + 1 /\ pc'["client"] = pc["client"]
  BY <1>1, <1>3, <1>4, CallReturns, NodesFacts
<1>5. Testing /\ pc["server"] = 11
  <2>1. /\ Testing => pc["server"] \in 1 .. 15 /\ TestServer[pc["server"]] = "read"
        /\ ~Testing => "read" \notin {"reg_mr", "dereg_mr", "extract", "write", "read", "poll"}
    BY <1>1, <1>4, CallPlaces, NodesFacts
  <2>2. Testing
    BY <2>1
  <2> QED
    BY <2>1, <2>2, ServerCalls, ClientCalls
<1>6. /\ "server" \in qp_error =>
           send_cq' = [send_cq EXCEPT !["server"] = @ + 1] /\ ops' = ops
      /\ "server" \notin qp_error => ops' = Append(ops, "read") /\ send_cq' = send_cq
  BY DEF Read
<1>7. /\ Flight("server")' = Flight("server") /\ Flight("client")' = Flight("client")
      /\ QpTypeOK(Msgs)'
  <2>1. Flight("server")' = Flight("server") /\ Flight("client")' = Flight("client")
    BY <1>3 DEF Flight
  <2>2. send_cq' \in [Nodes -> Nat]
    <3>1. send_cq \in [Nodes -> Nat]
      BY <1>1 DEF QpTypeOK
    <3>2. [send_cq EXCEPT !["server"] = @ + 1] \in [Nodes -> Nat]
      <4>1. send_cq["server"] \in Nat /\ send_cq["server"] + 1 \in Nat
        BY <3>1, NodesFacts
      <4> QED
        BY <3>1, <4>1
    <3> QED
      BY <1>6, <3>1, <3>2
  <2> QED
    BY <1>1, <1>3, <2>1, <2>2 DEF QpTypeOK
<1>8. /\ ops = <<>> /\ Len(ops) = 0 /\ SendsOf("server") = 0
      /\ qp_error = {} \/ qp_error = Nodes
  <2>1. ops = <<>> /\ Len(ops) + SendsOf("server") = 0 /\ (qp_error = {} \/ qp_error = Nodes)
    BY <1>1, <1>5 DEF Order
  <2>2. SendsOf("server") \in Nat
    BY <1>1, LedgerTyped
  <2>3. Len(ops) = 0
    BY <2>1
  <2> QED
    BY <2>1, <2>2, <2>3
<1>9. ASSUME qp_error = {}
      PROVE  ops' \in Seq({"write", "read"}) /\ Order' /\ DataOK'
  <2>1. ops' = <<"read">> /\ Len(ops') = 1 /\ SendsOf("server")' = 0 /\ ops' \in Seq({"write", "read"})
    <3>1. ops' = Append(<<>>, "read") /\ send_cq' = send_cq
      BY <1>6, <1>8, <1>9
    <3>2. SendsOf("server")' = SendsOf("server")
      BY <1>3, <3>1 DEF SendsOf
    <3> QED
      BY <1>8, <3>1, <3>2
  <2>2. Order'
    BY <1>1, <1>2, <1>3, <1>5, <1>9, <1>20, <2>1 DEF Order, Testing
  <2>3. DataOK'
    BY <1>1, <1>2, <1>3, <1>5, <1>9, <1>20, <2>1 DEF DataOK, Testing
  <2> QED
    BY <2>1, <2>2, <2>3
<1>10. ASSUME qp_error = Nodes
       PROVE  ops' \in Seq({"write", "read"}) /\ Order' /\ DataOK'
  <2>1. SendsOf("server")' = 1
    <3>1. send_cq'["server"] = send_cq["server"] + 1 /\ wire'["server"] = wire["server"]
      BY <1>1, <1>3, <1>6, <1>10, NodesFacts DEF QpTypeOK
    <3>2. Len(wire["server"]) \in Nat /\ send_cq["server"] \in Nat
      BY <1>1, QpTyped, NodesFacts
    <3>3. Len(wire["server"]) + send_cq["server"] = 0 \/ send_cq["server"] + Len(wire["server"]) = 0
      BY <1>8 DEF SendsOf
    <3>4. \A a, b \in Nat : (a + b = 0 => a + (b + 1) = 1) /\ (b + a = 0 => (b + 1) + a = 1 /\ a + (b + 1) = 1)
      OBVIOUS
    <3> QED
      BY <3>1, <3>2, <3>3, <3>4 DEF SendsOf
  <2>2. ops' = <<>> /\ Len(ops') = 0 /\ ops' \in Seq({"write", "read"})
    BY <1>6, <1>8, <1>10, NodesFacts
  <2>3. Order'
    BY <1>1, <1>2, <1>3, <1>5, <1>10, <1>20, <2>1, <2>2 DEF Order, Testing
  <2>4. DataOK'
    BY <1>3, <1>10, NodesFacts DEF DataOK
  <2> QED
    BY <2>2, <2>3, <2>4
<1>11. ops' \in Seq({"write", "read"}) /\ Order' /\ DataOK'
  BY <1>8, <1>9, <1>10
<1>21. TypeOK'
  BY <1>1, <1>2, <1>3, <1>5, <1>7, <1>20, <1>11
     DEF TypeOK, PcTyped, Msgs
<1>22. Order'
  BY <1>11
<1>23. Flow'
  BY <1>1, <1>2, <1>3, <1>5, <1>7, <1>20
     DEF Flow, ServerGot, ServerSent, ClientGot, ClientSent, Crashed, Testing
<1>24. KeyOK'
  BY <1>1, <1>2, <1>3, <1>5, <1>7, <1>20
     DEF KeyOK, KeyMsg, Testing
<1>25. DataOK'
  BY <1>11
<1>26. ExampleOK'
  BY <1>3, <1>5 DEF ExampleOK, Testing
<1> QED
  BY <1>21, <1>22, <1>23, <1>24, <1>25, <1>26, <1>20 DEF ExchangeInv, PcTyped

LEMMA PollKeeps ==
  ASSUME ExchangeInv, Poll
  PROVE  ExchangeInv'
<1>1. /\ TypeOK /\ pc \in [Nodes -> Nat] /\ QpTypeOK(Msgs)
      /\ Order /\ Flow /\ KeyOK /\ DataOK /\ ExampleOK
  BY DEF ExchangeInv, TypeOK, Msgs
<1>2. pc["server"] \in Nat /\ pc["client"] \in Nat
  BY <1>1, NodesFacts
<1>3. /\ program' = program /\ region' = region /\ memory' = memory /\ send_msg' = send_msg
      /\ target' = target /\ local' = local /\ ops' = ops /\ got' = got /\ linked' = linked
  BY DEF Poll, dataVars
<1>4. Calls("server", "poll") /\ Returns("server")
  BY DEF Poll
<1>20. PcTyped' /\ pc'["server"] = pc["server"] + 1 /\ pc'["client"] = pc["client"]
  BY <1>1, <1>3, <1>4, CallReturns, NodesFacts
<1>5. Testing /\ pc["server"] \in {10, 12}
  <2>1. /\ Testing => pc["server"] \in 1 .. 15 /\ TestServer[pc["server"]] = "poll"
        /\ ~Testing => "poll" \notin {"reg_mr", "dereg_mr", "extract", "write", "read", "poll"}
    BY <1>1, <1>4, CallPlaces, NodesFacts
  <2>2. Testing
    BY <2>1
  <2> QED
    BY <2>1, <2>2, ServerCalls, ClientCalls
<1>6. /\ QpTypeOK(Msgs)' /\ wire' = wire /\ recv_cq' = recv_cq /\ qp_error' = qp_error
      /\ SendsOf("server") >= 1 /\ SendsOf("server")' = SendsOf("server") - 1
  <2>1. GetSendComp("server")
    BY DEF Poll
  <2> QED
    BY <1>1, <2>1, GetSendCompFacts, NodesFacts
<1>7. Flight("server")' = Flight("server") /\ Flight("client")' = Flight("client")
  BY <1>6 DEF Flight
<1>8. ops = <<>> /\ Len(ops) = 0 /\ SendsOf("server")' = 0
  <2>1. Len(ops) + SendsOf("server") = 1
    BY <1>1, <1>5 DEF Order
  <2>2. Len(ops) \in Nat /\ SendsOf("server") \in Nat /\ ops \in Seq({"write", "read"})
    BY <1>1, LedgerTyped
  <2>3. Len(ops) = 0 /\ SendsOf("server") = 1
    BY <1>6, <2>1, <2>2
  <2> QED
    BY <1>6, <2>2, <2>3, EmptySeq
<1>21. TypeOK'
  BY <1>1, <1>2, <1>3, <1>5, <1>6, <1>7, <1>20
     DEF TypeOK, PcTyped, Msgs
<1>22. Order'
  BY <1>1, <1>2, <1>3, <1>5, <1>6, <1>7, <1>20, <1>8
     DEF Order, Testing
<1>23. Flow'
  BY <1>1, <1>2, <1>3, <1>5, <1>6, <1>7, <1>20
     DEF Flow, ServerGot, ServerSent, ClientGot, ClientSent, Crashed, Testing
<1>24. KeyOK'
  BY <1>1, <1>2, <1>3, <1>5, <1>6, <1>7, <1>20
     DEF KeyOK, KeyMsg, Testing
<1>25. DataOK'
  BY <1>1, <1>2, <1>3, <1>5, <1>6, <1>7, <1>20, <1>8
     DEF DataOK, Testing
<1>26. ExampleOK'
  BY <1>1, <1>2, <1>3, <1>5, <1>6, <1>7, <1>20
     DEF ExampleOK
<1> QED
  BY <1>21, <1>22, <1>23, <1>24, <1>25, <1>26, <1>20 DEF ExchangeInv, PcTyped

LEMMA ExecuteKeeps ==
  ASSUME ExchangeInv, Execute
  PROVE  ExchangeInv'
<1>1. /\ TypeOK /\ pc \in [Nodes -> Nat] /\ QpTypeOK(Msgs)
      /\ Order /\ Flow /\ KeyOK /\ DataOK /\ ExampleOK
  BY DEF ExchangeInv, TypeOK, Msgs
<1>2. pc["server"] \in Nat /\ pc["client"] \in Nat
  BY <1>1, NodesFacts
<1>3. /\ program' = program /\ pc' = pc /\ linked' = linked /\ region' = region
      /\ send_msg' = send_msg /\ got' = got /\ target' = target /\ wire' = wire
      /\ recvs' = recvs /\ recv_cq' = recv_cq /\ qp_error' = qp_error
  BY DEF Execute
<1>4. /\ ops # <<>> /\ qp_error = {} /\ ops' = Tail(ops)
      /\ memory' = IF Head(ops) = "write" THEN local ELSE memory
      /\ local'  = IF Head(ops) = "read" THEN memory ELSE local
      /\ send_cq' = [send_cq EXCEPT !["server"] = @ + 1]
  BY DEF Execute
<1>20. PcTyped'
  <2>1. \A o \in Nodes : Script(o)' = Script(o)
    BY <1>3 DEF Script
  <2> QED
    BY <1>1, <1>3, <2>1 DEF TypeOK, PcTyped
<1>5. Testing /\ pc["server"] \in {10, 12}
  BY <1>1, <1>4 DEF ExampleOK, Order, Testing
<1>6. /\ pc["server"] = 10 => ops = <<"write">> /\ local = Dat
      /\ pc["server"] = 12 => ops = <<"read">> /\ memory = Dat
  BY <1>1, <1>4, <1>5 DEF DataOK
<1>7. ops' = <<>> /\ Len(ops') = 0 /\ Len(ops) = 1 /\ ops' \in Seq({"write", "read"})
  BY <1>4, <1>5, <1>6
<1>8. SendsOf("server") \in Nat /\ Len(ops) + SendsOf("server") = 1
  BY <1>1, <1>5, LedgerTyped DEF Order
<1>9. SendsOf("server")' = 1
  <2>1. SendsOf("server") = 0
    BY <1>7, <1>8
  <2>2. send_cq'["server"] = send_cq["server"] + 1 /\ wire'["server"] = wire["server"]
    BY <1>1, <1>3, <1>4, NodesFacts DEF QpTypeOK
  <2>3. Len(wire["server"]) \in Nat /\ send_cq["server"] \in Nat
    BY <1>1, QpTyped, NodesFacts
  <2>4. Len(wire["server"]) + send_cq["server"] = 0 \/ send_cq["server"] + Len(wire["server"]) = 0
    BY <2>1 DEF SendsOf
  <2>5. \A a, b \in Nat : (a + b = 0 => a + (b + 1) = 1) /\ (b + a = 0 => (b + 1) + a = 1 /\ a + (b + 1) = 1)
    OBVIOUS
  <2> QED
    BY <2>2, <2>3, <2>4, <2>5 DEF SendsOf
<1>10. QpTypeOK(Msgs)'
  <2>1. send_cq \in [Nodes -> Nat]
    BY <1>1 DEF QpTypeOK
  <2>2. send_cq' \in [Nodes -> Nat]
    <3>1. send_cq["server"] \in Nat /\ send_cq["server"] + 1 \in Nat
      BY <2>1, NodesFacts
    <3> QED
      BY <1>4, <2>1, <3>1
  <2> QED
    BY <1>1, <1>3, <2>2 DEF QpTypeOK
<1>11. Flight("server")' = Flight("server") /\ Flight("client")' = Flight("client")
  BY <1>3 DEF Flight
<1>12. {memory', local'} \subseteq {Dat, Cleared}
  BY <1>1, <1>4 DEF TypeOK
<1>21. TypeOK'
  BY <1>1, <1>2, <1>3, <1>5, <1>20, <1>7, <1>10, <1>12
     DEF TypeOK, PcTyped, Msgs
<1>22. Order'
  BY <1>1, <1>2, <1>3, <1>5, <1>20, <1>4, <1>7, <1>9
     DEF Order, Testing
<1>23. Flow'
  BY <1>1, <1>2, <1>3, <1>5, <1>20, <1>11
     DEF Flow, ServerGot, ServerSent, ClientGot, ClientSent, Crashed, Testing
<1>24. KeyOK'
  BY <1>1, <1>2, <1>3, <1>5, <1>20
     DEF KeyOK, KeyMsg, Testing
<1>25. DataOK'
  BY <1>1, <1>2, <1>3, <1>5, <1>20, <1>4, <1>6, <1>7
     DEF DataOK, Testing
<1>26. ExampleOK'
  BY <1>3, <1>5 DEF ExampleOK, Testing
<1> QED
  BY <1>21, <1>22, <1>23, <1>24, <1>25, <1>26, <1>20 DEF ExchangeInv, PcTyped

LEMMA RefuseKeeps ==
  ASSUME ExchangeInv, Refuse
  PROVE  ExchangeInv'
<1>1. /\ TypeOK /\ pc \in [Nodes -> Nat] /\ QpTypeOK(Msgs)
      /\ Order /\ Flow /\ KeyOK /\ DataOK /\ ExampleOK
  BY DEF ExchangeInv, TypeOK, Msgs
<1>2. pc["server"] \in Nat /\ pc["client"] \in Nat
  BY <1>1, NodesFacts
<1>3. /\ program' = program /\ pc' = pc /\ linked' = linked /\ region' = region
      /\ send_msg' = send_msg /\ got' = got /\ target' = target /\ memory' = memory
      /\ local' = local
  BY DEF Refuse
<1> DEFINE extra == [n \in Nodes |-> IF n = "server" THEN Len(ops) ELSE 0]
<1>4. ops # <<>> /\ ops' = <<>> /\ Flush(Nodes, extra)
  BY DEF Refuse
<1>20. PcTyped'
  <2>1. \A o \in Nodes : Script(o)' = Script(o)
    BY <1>3 DEF Script
  <2> QED
    BY <1>1, <1>3, <2>1 DEF TypeOK, PcTyped
<1>5. Testing /\ pc["server"] \in {10, 12}
  BY <1>1, <1>4 DEF ExampleOK, Order, Testing
<1>6. SendsOf("server") \in Nat /\ Len(ops) \in Nat /\ Len(ops) + SendsOf("server") = 1
  BY <1>1, <1>5, LedgerTyped DEF Order
<1>7. extra \in [Nodes -> Nat] /\ extra["server"] = Len(ops)
  BY <1>6, NodesFacts
<1> HIDE DEF extra
<1>8. Nodes \in SUBSET Nodes
  OBVIOUS
<1>9. /\ QpTypeOK(Msgs)' /\ Nodes \cap qp_error = {} /\ qp_error' = qp_error \cup Nodes
      /\ SendsOf("server")' = SendsOf("server") + extra["server"]
  <2>1. /\ QpTypeOK(Msgs)' /\ Nodes \cap qp_error = {} /\ qp_error' = qp_error \cup Nodes
        /\ \A n \in Nodes : /\ SendsOf(n)' = SendsOf(n) + extra[n]
                            /\ wire'[n] = <<>> /\ recvs'[n] = 0
    <3>1. QpTypeOK(Msgs)
      BY <1>1
    <3>2. extra \in [Nodes -> Nat] /\ Flush(Nodes, extra)
      BY <1>4, <1>7
    <3> QED
      BY <1>8, <3>1, <3>2, FlushFacts, ZenonT(60)
  <2> QED
    BY <2>1, NodesFacts
<1>10. qp_error' = Nodes /\ qp_error' # {}
  BY <1>1, <1>9, NodesFacts DEF QpTypeOK
<1>11. Len(ops') = 0 /\ ops' \in Seq({"write", "read"}) /\ Len(ops') + SendsOf("server")' = 1
  <2>1. SendsOf("server")' = SendsOf("server") + Len(ops)
    BY <1>7, <1>9
  <2>2. SendsOf("server")' = 1
    BY <1>6, <2>1
  <2> QED
    BY <1>4, <2>2
<1>21. TypeOK'
  BY <1>1, <1>2, <1>3, <1>5, <1>20, <1>9, <1>11
     DEF TypeOK, PcTyped, Msgs
<1>22. Order'
  BY <1>1, <1>2, <1>3, <1>5, <1>20, <1>4, <1>10, <1>11
     DEF Order, Testing
<1>23. Flow'
  BY <1>10 DEF Flow
<1>24. KeyOK'
  BY <1>1, <1>2, <1>3, <1>5, <1>20
     DEF KeyOK, KeyMsg, Testing
<1>25. DataOK'
  BY <1>10 DEF DataOK
<1>26. ExampleOK'
  BY <1>3, <1>5 DEF ExampleOK, Testing
<1> QED
  BY <1>21, <1>22, <1>23, <1>24, <1>25, <1>26, <1>20 DEF ExchangeInv, PcTyped

LEMMA DeliverMsgKeeps ==
  ASSUME ExchangeInv, NEW n \in Nodes, DeliverMsg(n)
  PROVE  ExchangeInv'
<1>1. /\ TypeOK /\ pc \in [Nodes -> Nat] /\ QpTypeOK(Msgs)
      /\ Order /\ Flow /\ KeyOK /\ DataOK /\ ExampleOK
  BY DEF ExchangeInv, TypeOK, Msgs
<1>2. pc["server"] \in Nat /\ pc["client"] \in Nat
  BY <1>1, NodesFacts
<1>3. /\ program' = program /\ pc' = pc /\ linked' = linked /\ region' = region
      /\ send_msg' = send_msg /\ got' = got /\ target' = target /\ memory' = memory
      /\ local' = local /\ ops' = ops
  BY DEF DeliverMsg, dataVars
<1>4. Deliver(n)
  BY DEF DeliverMsg
<1>20. PcTyped'
  <2>1. \A o \in Nodes : Script(o)' = Script(o)
    BY <1>3 DEF Script
  <2> QED
    BY <1>1, <1>3, <2>1 DEF TypeOK, PcTyped
<1>5. n = "server" \/ n = "client"
  BY NodesFacts
<1>6. /\ QpTypeOK(Msgs)' /\ qp_error' = qp_error /\ wire[n] # <<>>
      /\ wire' = [wire EXCEPT ![n] = Tail(@)]
      /\ recv_cq' = [recv_cq EXCEPT ![Other(n)] = Append(@, Head(wire[n]))]
      /\ SendsOf("server")' = SendsOf("server")
  BY <1>1, <1>4, DeliverFacts, NodesFacts
<1>7. Flight("server")' = Flight("server") /\ Flight("client")' = Flight("client")
  BY <1>1, <1>4, <1>5, DeliverFlight, NodesFacts
<1>8. wire["client"] \in Seq({KeyMsg}) /\ recv_cq["server"] \in Seq({KeyMsg}) =>
      wire'["client"] \in Seq({KeyMsg}) /\ recv_cq'["server"] \in Seq({KeyMsg})
  <2> SUFFICES ASSUME wire["client"] \in Seq({KeyMsg}), recv_cq["server"] \in Seq({KeyMsg})
               PROVE  wire'["client"] \in Seq({KeyMsg}) /\ recv_cq'["server"] \in Seq({KeyMsg})
    OBVIOUS
  <2>1. CASE n = "client"
    <3>1. wire'["client"] = Tail(wire["client"]) /\ wire["client"] # <<>>
          /\ recv_cq'["server"] = Append(recv_cq["server"], Head(wire["client"]))
      BY <1>1, <1>6, <2>1, NodesFacts DEF QpTypeOK
    <3>2. Tail(wire["client"]) \in Seq({KeyMsg}) /\ Head(wire["client"]) \in {KeyMsg}
      BY <3>1, HeadTailProperties
    <3> QED
      BY <3>1, <3>2, AppendProperties
  <2>2. CASE n = "server"
    BY <1>1, <1>6, <2>2, NodesFacts DEF QpTypeOK
  <2> QED
    BY <1>5, <2>1, <2>2
<1>9. KeyMsg' = KeyMsg
  BY <1>3 DEF KeyMsg
<1>21. TypeOK'
  BY <1>1, <1>2, <1>3, <1>20, <1>6
     DEF TypeOK, PcTyped, Msgs
<1>22. Order'
  BY <1>1, <1>2, <1>3, <1>20, <1>6
     DEF Order, Testing
<1>23. Flow'
  BY <1>1, <1>2, <1>3, <1>20, <1>6, <1>7
     DEF Flow, ServerGot, ServerSent, ClientGot, ClientSent, Crashed, Testing
<1>24. KeyOK'
  BY <1>1, <1>3, <1>8, <1>9 DEF KeyOK, Testing
<1>25. DataOK'
  BY <1>1, <1>2, <1>3, <1>20, <1>6
     DEF DataOK, Testing
<1>26. ExampleOK'
  BY <1>1, <1>2, <1>3, <1>20
     DEF ExampleOK
<1> QED
  BY <1>21, <1>22, <1>23, <1>24, <1>25, <1>26, <1>20 DEF ExchangeInv, PcTyped

LEMMA RegMrKeeps ==
  ASSUME ExchangeInv, RegMr
  PROVE  ExchangeInv'
<1>1. /\ TypeOK /\ pc \in [Nodes -> Nat] /\ QpTypeOK(Msgs)
      /\ Order /\ Flow /\ KeyOK /\ DataOK /\ ExampleOK
  BY DEF ExchangeInv, TypeOK, Msgs
<1>2. pc["server"] \in Nat /\ pc["client"] \in Nat
  BY <1>1, NodesFacts
<1>3. /\ program' = program /\ memory' = memory /\ linked' = linked /\ target' = target
      /\ got' = got /\ local' = local /\ ops' = ops
      /\ wire' = wire /\ recvs' = recvs /\ recv_cq' = recv_cq /\ send_cq' = send_cq
      /\ qp_error' = qp_error
  BY DEF RegMr, qpVars
<1>7. /\ Flight("server")' = Flight("server") /\ Flight("client")' = Flight("client")
      /\ SendsOf("server")' = SendsOf("server") /\ QpTypeOK(Msgs)'
  BY <1>1, <1>3 DEF Flight, SendsOf, QpTypeOK
<1>4. PICK k \in RKeys :
        /\ region' = k
        /\ IF HasZero(k)
           THEN send_msg' = Pack(k) /\ Returns("client")
           ELSE UNCHANGED send_msg /\ pc' = [pc EXCEPT !["client"] = Crashed]
  BY DEF RegMr
<1>5. Testing /\ pc["client"] = 6 /\ Calls("client", "reg_mr")
  <2>1. Calls("client", "reg_mr")
    BY DEF RegMr
  <2>2. /\ Testing => pc["client"] \in 1 .. 12 /\ TestClient[pc["client"]] = "reg_mr"
        /\ ~Testing => "reg_mr" \notin {"reg_mr", "dereg_mr", "extract", "write", "read", "poll"}
    BY <1>1, <2>1, CallPlaces, NodesFacts
  <2>3. Testing
    BY <2>2
  <2> QED
    BY <2>1, <2>2, <2>3, ClientCalls
<1>6. pc["server"] <= 7 /\ qp_error = {}
  <2>1. pc["server"] <= 7
    BY <1>1, <1>2, <1>5 DEF Order
  <2> QED
    BY <1>2, <1>5, <2>1, NoErrorYet
<1>8. Flight("client") \in Nat /\ Flight("server") \in Nat
  BY <1>1, LedgerTyped, NodesFacts
<1>9. pc["server"] \in 4 .. 7 => wire["client"] = <<>> /\ recv_cq["server"] = <<>>
  <2> SUFFICES ASSUME pc["server"] \in 4 .. 7
               PROVE  wire["client"] = <<>> /\ recv_cq["server"] = <<>>
    OBVIOUS
  <2>1. Flight("client") + 1 = 1
    BY <1>1, <1>5, <1>6 DEF Flow, ServerGot, ClientSent, Crashed
  <2>2. Flight("client") = 0
    BY <1>8, <2>1
  <2> QED
    BY <1>1, <2>2, FlightTyped, NodesFacts
<1>10. /\ pc' \in [Nodes -> Nat] /\ pc'["server"] = pc["server"] /\ PcTyped'
       /\ \/ pc'["client"] = 7 /\ HasZero(k) /\ send_msg' = Pack(k)
          \/ pc'["client"] = 0 /\ send_msg' = send_msg
  <2>1. CASE HasZero(k)
    <3>1. Returns("client") /\ send_msg' = Pack(k)
      BY <1>4, <2>1
    <3>2. PcTyped' /\ pc'["client"] = pc["client"] + 1 /\ pc'["server"] = pc["server"]
      BY <1>1, <1>3, <1>5, <3>1, CallReturns, NodesFacts
    <3> QED
      BY <1>5, <2>1, <3>1, <3>2 DEF PcTyped
  <2>2. CASE ~HasZero(k)
    <3>1. pc' = [pc EXCEPT !["client"] = 0] /\ send_msg' = send_msg
      BY <1>4, <2>2 DEF Crashed
    <3>2. /\ pc' \in [Nodes -> Nat] /\ pc'["client"] = 0
          /\ \A n \in Nodes : n # "client" => pc'[n] = pc[n]
      BY <1>1, <3>1, NodesFacts
    <3>3. ASSUME NEW n \in Nodes PROVE pc'[n] \in 0 .. Len(Script(n)') + 1
      <4>1. Script(n)' = Script(n) /\ Len(Script(n)) \in Nat /\ pc[n] \in 0 .. Len(Script(n)) + 1
        BY <1>1, <1>3, Scripts DEF Script, TypeOK
      <4>2. pc'[n] = 0 \/ pc'[n] = pc[n]
        BY <3>2
      <4> QED
        BY <4>1, <4>2
    <3>4. PcTyped'
      BY <3>2, <3>3 DEF PcTyped
    <3> QED
      BY <3>1, <3>2, <3>4, NodesFacts
  <2> QED
    BY <2>1, <2>2
<1>20. PcTyped'
  BY <1>10
<1>11. send_msg' \in [1 .. 16 -> Byte] /\ region' \in RKeys
  <2>1. HasZero(k) => Pack(k) \in [1 .. 16 -> Byte]
    BY PackBytes
  <2>2. send_msg \in [1 .. 16 -> Byte]
    BY <1>1 DEF TypeOK
  <2> QED
    BY <1>4, <1>10, <2>1, <2>2
<1>21. TypeOK'
  BY <1>1, <1>2, <1>3, <1>5, <1>6, <1>7, <1>20, <1>11
     DEF TypeOK, PcTyped, Msgs
<1>22. Order'
  BY <1>1, <1>2, <1>3, <1>5, <1>6, <1>7, <1>20, <1>10
     DEF Order, Testing
<1>23. Flow'
  BY <1>1, <1>2, <1>3, <1>5, <1>6, <1>7, <1>20, <1>10
     DEF Flow, ServerGot, ServerSent, ClientGot, ClientSent, Crashed, Testing
<1>24. KeyOK'
  <2>1. pc'["client"] \notin 1 .. 6 /\ ~(pc'["client"] >= 12)
    BY <1>10
  <2>2. pc'["client"] \in 7 .. 11 => region' \in RKeys /\ HasZero(region') /\ send_msg' = Pack(region')
    BY <1>4, <1>10
  <2>3. pc'["server"] \in 4 .. 7 => wire'["client"] = <<>> /\ recv_cq'["server"] = <<>>
    BY <1>3, <1>9, <1>10
  <2>4. <<>> \in Seq({KeyMsg'})
    OBVIOUS
  <2>5. pc'["server"] < 8 /\ pc'["server"] < 9
    BY <1>2, <1>6, <1>10
  <2>6. pc'["server"] \in 4 .. 7 => wire'["client"] \in Seq({KeyMsg'}) /\ recv_cq'["server"] \in Seq({KeyMsg'})
    BY <2>3, <2>4
  <2> QED
    BY <1>2, <1>10, <2>1, <2>2, <2>5, <2>6 DEF KeyOK
<1>25. DataOK'
  BY <1>1, <1>2, <1>3, <1>5, <1>6, <1>7, <1>20, <1>10
     DEF DataOK, Testing
<1>26. ExampleOK'
  BY <1>3, <1>5 DEF ExampleOK, Testing
<1> QED
  BY <1>21, <1>22, <1>23, <1>24, <1>25, <1>26, <1>20 DEF ExchangeInv, PcTyped

LEMMA StutterKeeps ==
  ASSUME ExchangeInv, UNCHANGED vars
  PROVE  ExchangeInv'
<1>1. /\ program' = program /\ pc' = pc /\ linked' = linked /\ region' = region
      /\ memory' = memory /\ send_msg' = send_msg /\ got' = got /\ target' = target
      /\ local' = local /\ ops' = ops /\ wire' = wire /\ recvs' = recvs /\ recv_cq' = recv_cq
      /\ send_cq' = send_cq /\ qp_error' = qp_error
  BY DEF vars, qpVars
<1>2. TypeOK' /\ pc' \in [Nodes -> Nat]
  <2>1. \A o \in Nodes : Script(o)' = Script(o)
    BY <1>1 DEF Script
  <2>2. QpTypeOK(Msgs)'
    BY <1>1 DEF ExchangeInv, TypeOK, Msgs, QpTypeOK
  <2> QED
    BY <1>1, <2>1, <2>2 DEF ExchangeInv, TypeOK, Msgs
<1>3. Order'
  BY <1>1 DEF ExchangeInv, Order, SendsOf, Testing
<1>4. Flow'
  BY <1>1 DEF ExchangeInv, Flow, Flight, Testing
<1>5. KeyOK'
  BY <1>1 DEF ExchangeInv, KeyOK, KeyMsg, Testing
<1>6. DataOK' /\ ExampleOK'
  BY <1>1 DEF ExchangeInv, DataOK, ExampleOK, Testing
<1> QED
  BY <1>2, <1>3, <1>4, <1>5, <1>6 DEF ExchangeInv

-----------------------------------------------------------------------------
(* The theorems.                                                           *)

LEMMA InitEstablishes == Init => ExchangeInv
<1> SUFFICES ASSUME Init PROVE ExchangeInv
  OBVIOUS
<1>1. /\ program \in Programs /\ pc = [n \in Nodes |-> 1] /\ linked = {}
      /\ region = None /\ memory = Cleared /\ send_msg = Zeros(16) /\ got = Zeros(16)
      /\ target = [rkey |-> Zeros(4), addr |-> Zeros(8)] /\ local = Cleared /\ ops = <<>>
      /\ QpInit
  BY DEF Init
<1>2. /\ QpTypeOK(Msgs) /\ SendsOf("server") = 0 /\ qp_error = {}
      /\ Flight("server") = 0 /\ Flight("client") = 0
  <2>1. QpTypeOK(Msgs) /\ SendsOf("server") = 0
    BY <1>1, InitialQp, NodesFacts
  <2>2. qp_error = {} /\ Flight("server") = 0 /\ Flight("client") = 0
    BY <1>1, NodesFacts DEF QpInit, Flight
  <2> QED
    BY <2>1, <2>2
<1>3. /\ Zeros(16) \in [1 .. 16 -> Byte] /\ Zeros(4) \in [1 .. 4 -> Byte]
      /\ Zeros(8) \in [1 .. 8 -> Byte]
  BY ZerosTyped
<1>4. pc["server"] = 1 /\ pc["client"] = 1 /\ pc \in [Nodes -> Nat]
  BY <1>1, NodesFacts
<1>5. TypeOK
  <2>1. \A n \in Nodes : pc[n] \in 0 .. Len(Script(n)) + 1
    <3>1. \A n \in Nodes : pc[n] = 1 /\ Len(Script(n)) \in Nat
      BY <1>1, Scripts
    <3> QED
      BY <3>1
  <2> QED
    BY <1>1, <1>2, <1>3, <2>1 DEF TypeOK, Msgs
<1>6. Order
  <2>1. Len(ops) = 0
    BY <1>1
  <2> QED
    BY <1>1, <1>2, <1>4, <2>1 DEF Order
<1>7. Flow
  BY <1>2, <1>4 DEF Flow, ServerGot, ServerSent, ClientGot, ClientSent, Crashed
<1>8. KeyOK
  BY <1>1, <1>4 DEF KeyOK
<1>9. DataOK /\ ExampleOK
  BY <1>1, <1>4, KeyAssumption DEF DataOK, ExampleOK
<1> QED
  BY <1>4, <1>5, <1>6, <1>7, <1>8, <1>9 DEF ExchangeInv

(* The invariant is inductive: every call of either program, and every     *)
(* step of the adapters, keeps it.                                         *)
THEOREM Invariance == Spec => []ExchangeInv
<1>1. Init => ExchangeInv
  BY InitEstablishes
<1>2. ExchangeInv /\ [Next]_vars => ExchangeInv'
  <2> SUFFICES ASSUME ExchangeInv, [Next]_vars PROVE ExchangeInv'
    OBVIOUS
  <2>1. ASSUME NEW n \in Nodes, Step(n) PROVE ExchangeInv'
    BY <2>1, CallPostRecvKeeps, CallPostSendKeeps, CallGetSendKeeps, CallGetRecvKeeps,
       CallDisconnectKeeps DEF Step
  <2>2. CASE Steps
    BY <2>2, ConnectKeeps, RegMrKeeps, DeregMrKeeps, ExtractKeeps, WriteKeeps, ReadKeeps,
       PollKeeps DEF Steps
  <2>3. CASE Adapter
    BY <2>3, DeliverMsgKeeps, ExecuteKeeps, RefuseKeeps DEF Adapter
  <2>4. CASE UNCHANGED vars
    BY <2>4, StutterKeeps
  <2>5. CASE Over
    BY <2>5, StutterKeeps DEF Over
  <2> QED
    BY <2>1, <2>2, <2>3, <2>4, <2>5 DEF Next
<1> QED
  BY <1>1, <1>2, PTL DEF Spec

(* Every variable keeps its type, whatever the keys.                       *)
THEOREM TypeCorrect == Spec => []TypeOK
<1>1. ExchangeInv => TypeOK
  BY DEF ExchangeInv
<1> QED
  BY <1>1, Invariance, PTL

(* When the server of rdma_test uses the client's region, it has the key   *)
(* and the address that the client sent exactly when the key's only zero   *)
(* byte is its last: memccpy stops at the first one.                       *)
THEOREM KeyDelivered == Spec => []GoodKeyDelivered
<1>1. ExchangeInv => GoodKeyDelivered
  <2> SUFFICES ASSUME ExchangeInv, Using("server"), region # None
               PROVE  target = [rkey |-> region, addr |-> Addr] <=> FirstZero(region) = 4
    BY DEF GoodKeyDelivered
  <2>1. TypeOK /\ pc \in [Nodes -> Nat] /\ Order /\ KeyOK
    BY DEF ExchangeInv
  <2>2. pc["client"] \in Nat
    BY <2>1, NodesFacts
  <2>3. Testing /\ pc["server"] \in 9 .. 12
    <3>1. PICK call \in {"write", "read", "poll"} : Calls("server", call)
      BY DEF Using
    <3>2. Testing
      BY <2>1, <3>1, CallPlaces, NodesFacts
    <3>3. pc["server"] \in 1 .. 15 /\ TestServer[pc["server"]] = call
      BY <2>1, <3>1, <3>2, CallPlaces, NodesFacts
    <3>4. pc["server"] \in {9, 10, 11, 12}
      BY <3>3, ServerCalls
    <3> QED
      BY <3>2, <3>4
  <2>4. pc["client"] \in 8 .. 11
    <3>1. pc["client"] >= 8
      BY <2>1, <2>3 DEF Order
    <3>2. ~(pc["client"] >= 12)
      BY <2>1, <2>3 DEF KeyOK
    <3> QED
      BY <2>2, <3>1, <3>2
  <2>5. /\ region \in RKeys /\ HasZero(region) /\ send_msg = Pack(region)
        /\ got = send_msg /\ target = Extracted(got)
    BY <2>1, <2>3, <2>4 DEF KeyOK, Extracted
  <2> QED
    BY <2>5, KeyArrives
<1> QED
  BY <1>1, Invariance, PTL

(* The client deregisters its region only after the server's last message, *)
(* which the server sends when nothing of its own is in flight any more.   *)
THEOREM RegionOutlives == Spec => []RegionOutlivesUse
<1>1. ExchangeInv => RegionOutlivesUse
  <2> SUFFICES ASSUME ExchangeInv, ops # <<>> PROVE region # None
    BY DEF RegionOutlivesUse
  <2>1. TypeOK /\ pc \in [Nodes -> Nat] /\ Order /\ Flow /\ KeyOK /\ ExampleOK
    BY DEF ExchangeInv
  <2>2. pc["client"] \in Nat /\ pc["server"] \in Nat
    BY <2>1, NodesFacts
  <2>3. Testing /\ qp_error = {} /\ pc["server"] \in {10, 12} /\ pc["client"] >= 8
    BY <2>1 DEF ExampleOK, Order, Testing
  <2>4. Flight("server") + ClientGot(pc["client"]) = 1
    BY <2>1, <2>3 DEF Flow, ServerSent
  <2>5. Flight("server") \in Nat /\ ClientGot(pc["client"]) \in Nat
    BY <2>1, <2>2, LedgerTyped, GotTyped, NodesFacts
  <2>6. ClientGot(pc["client"]) <= 1
    BY <2>4, <2>5
  <2>7. pc["client"] \in 8 .. 10
    BY <2>2, <2>3, <2>6 DEF ClientGot, Crashed
  <2>8. region \in RKeys
    BY <2>1, <2>3, <2>7 DEF KeyOK
  <2> QED
    BY <2>8, KeyTyped
<1> QED
  BY <1>1, Invariance, PTL

(* The server that reaches its end without an error read back what it      *)
(* wrote into the client's buffer.                                         *)
THEOREM ReadsBack == Spec => []ReadBack
<1>1. ExchangeInv => ReadBack
  <2> SUFFICES ASSUME ExchangeInv, pc["server"] = Len(TestServer), program = "rdma_test",
                      qp_error = {}
               PROVE  local = Dat
    BY DEF ReadBack
  <2>1. pc["server"] = 15
    BY Scripts
  <2> QED
    BY <2>1 DEF ExchangeInv, DataOK, Testing
<1> QED
  BY <1>1, Invariance, PTL
=============================================================================
