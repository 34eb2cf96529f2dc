----------------------------- MODULE Rcopy_proofs -----------------------------
(***************************************************************************)
(* Theorems about rcopy, for every number of clients and of pieces of      *)
(* data, and all faults, also a raccept that fails: the safety properties  *)
(* of its server, and that it implements CopyService.                      *)
(***************************************************************************)
EXTENDS Rcopy, FiniteSetTheorems, SequenceTheorems, TLAPS

USE DEF Sockets

OK(cmd) == [cmd |-> cmd, ok |-> TRUE]

(* What a client sends in a whole session, and how much that is.           *)
Total == Chunks + 5
Item(k) ==
  IF k = 1 THEN "OPEN" ELSE IF k = 2 THEN "PATH" ELSE IF k = 3 THEN "WRITE"
  ELSE IF k = 4 THEN "SIZE" ELSE IF k = Total THEN "CLOSE" ELSE "DATA"

(* The globals of the server, whatever connections failed.  Nothing ever   *)
(* arrives on the socket of a raccept that failed.                         *)
ServerOK ==
  /\ spc = "accept" <=> cur = Nobody
  /\ c2s[Invalid] = <<>> /\ (cur = Invalid => Invalid \in broken)
  /\ spc = "path" => fd \notin Files /\ file_addr = Null
  /\ spc \in {"size", "data"} => fd \in Files
  /\ spc = "data" => file_addr = fd /\ got < Chunks
  /\ file_addr # Null => fd \in Files
  /\ fd = Garbage => broken # {}

(* Where a client is, as far as the server knows.                          *)
ClientOK(c) ==
  /\ <<"client", c>> \in left => cpc[c] \in {"ok", "failed", "gone"}
  /\ cpc[c] \in {"start", "waiting", "open", "open_resp", "write"} => sent[c] = 0
  /\ cpc[c] = "data" => sent[c] < Chunks
  /\ cpc[c] = "ok" => ret[c]
  /\ cpc[c] \in {"start", "waiting"} =>
       /\ c2s[c] = <<>> /\ s2c[c] = <<>> /\ file[c] = {}
       /\ c \notin broken /\ fd # c
       /\ <<"client", c>> \notin left /\ <<"server", c>> \notin left
  /\ cur = c => <<"server", c>> \notin left /\ cpc[c] \notin {"start", "waiting", "gone", "refused"}
  /\ cur # c /\ <<"server", c>> \notin left =>
       cpc[c] \in {"start", "waiting", "gone", "refused", "failed"}

(* Something may still come out of the stream of c.                        *)
Live(c) == c2s[c] # <<>> \/ (c \notin broken /\ <<"client", c>> \notin left)

(* The stream of the client that is served holds the next items after the  *)
(* first a of them, which the server has received.                         *)
Stream(c, a) ==
  /\ a + Len(c2s[c]) <= Total
  /\ \A i \in 1 .. Len(c2s[c]) : c2s[c][i] = Item(a + i)

ServerAt(c, a) ==
  /\ spc = "hdr" =>
       \/ a = 0 /\ file[c] = {}
       \/ a = 2 /\ file[c] = {} /\ fd = c
       \/ a = Chunks + 4 /\ file[c] = 1 .. Chunks /\ fd = c
       \/ a = Total /\ file[c] = 1 .. Chunks /\ fd # c
  /\ spc = "path" => a = 1 /\ file[c] = {}
  /\ spc = "size" => a = 3 /\ file[c] = {} /\ fd = c
  /\ spc = "data" => a = got + 4 /\ file[c] = 1 .. got /\ fd = c

(* What a client that is up has sent, b items ...                          *)
ClientAt(c, b) ==
  /\ cpc[c] = "open" => b = 0
  /\ cpc[c] \in {"open_resp", "write"} => b = 2
  /\ cpc[c] = "data" => b = sent[c] + 4
  /\ cpc[c] \in {"write_resp", "close"} => b = Chunks + 4
  /\ cpc[c] = "close_resp" => b = Total

(* ... and what it still has to receive.                                   *)
Link(c, a) ==
  /\ a <= 1 /\ spc \in {"hdr", "path"} =>
       /\ s2c[c] = <<>>
       /\ cpc[c] \in {"open", "open_resp"} \/ (cpc[c] = "shutdown" /\ a = 0 /\ c2s[c] = <<>>)
  /\ a \in 2 .. Chunks + 3 /\ spc \in {"hdr", "size", "data"} =>
       \/ cpc[c] = "open_resp" /\ s2c[c] = <<OK("OPEN")>>
       \/ cpc[c] \in {"write", "data", "write_resp"} /\ s2c[c] = <<>>
  /\ a = Chunks + 4 /\ spc = "hdr" =>
       \/ cpc[c] = "write_resp" /\ s2c[c] = <<OK("WRITE")>>
       \/ cpc[c] \in {"close", "close_resp"} /\ ret[c] /\ s2c[c] = <<>>
  /\ a = Total /\ spc = "hdr" =>
       \/ cpc[c] = "close_resp" /\ s2c[c] = <<OK("CLOSE")>>
       \/ cpc[c] = "shutdown" /\ s2c[c] = <<>>

Session(c, a) ==
  /\ Stream(c, a)
  /\ Live(c) => ServerAt(c, a)
  /\ c \notin broken /\ <<"client", c>> \notin left =>
       ClientAt(c, a + Len(c2s[c])) /\ Link(c, a)

SessionOK == cur \in Clients => \E a \in 0 .. Total : Session(cur, a)

(* A good answer to WRITE that is under way, or was received, means that   *)
(* the file is complete.                                                   *)
Sending == {"start", "waiting", "open", "open_resp", "write", "data"}
Ending  == {"close", "close_resp", "shutdown", "ok"}
AnswerOK(c) ==
  /\ \A i \in 1 .. Len(s2c[c]) :
       s2c[c][i] = OK("WRITE") => file[c] = 1 .. Chunks /\ cpc[c] \notin Sending
  /\ c \notin broken /\ ret[c] /\ cpc[c] \in Ending => file[c] = 1 .. Chunks

(* While such a client's file is the one that is open, the server waits    *)
(* for its CLOSE.                                                          *)
Wrote(c) ==
  \/ ret[c] /\ cpc[c] \in Ending
  \/ cpc[c] = "write_resp" /\ s2c[c] # <<>> /\ Head(s2c[c]) = OK("WRITE")
CloseAwaited(c) ==
  c \notin broken /\ fd = c /\ Wrote(c) =>
    cur = c /\ spc = "hdr" /\ cpc[c] \in {"write_resp", "close", "close_resp"}

IInv ==
  /\ TypeOK /\ ServerOK /\ OneFile /\ SessionOK
  /\ \A c \in Clients : ClientOK(c) /\ AnswerOK(c) /\ CloseAwaited(c)

-----------------------------------------------------------------------------
(* The streams.                                                            *)

(* Taking the next item of a stream.                                       *)
LEMMA TakesFacts ==
  ASSUME TypeOK, NEW c \in Sockets, NEW item, Takes(c, item)
  PROVE  /\ c2s' \in [Sockets -> Seq(Items)]
         /\ \A d \in Sockets \ {c} : c2s'[d] = c2s[d]
         /\ c2s[c] # <<>> /\ Len(c2s[c]) \in Nat /\ Len(c2s[c]) > 0 /\ c2s[c][1] = item
         /\ c2s'[c] \in Seq(Items) /\ Len(c2s'[c]) = Len(c2s[c]) - 1
         /\ \A i \in 1 .. Len(c2s'[c]) : c2s'[c][i] = c2s[c][i + 1]
<1>1. c2s[c] \in Seq(Items) /\ c2s[c] # <<>>
  BY DEF TypeOK, Takes
<1>2. /\ Len(c2s[c]) \in Nat /\ Len(c2s[c]) > 0 /\ Head(c2s[c]) = c2s[c][1]
      /\ Tail(c2s[c]) \in Seq(Items) /\ Len(Tail(c2s[c])) = Len(c2s[c]) - 1
      /\ \A i \in 1 .. Len(Tail(c2s[c])) : Tail(c2s[c])[i] = c2s[c][i + 1]
  BY <1>1, HeadTailProperties, EmptySeq, LenProperties
<1>3. c2s'[c] = Tail(c2s[c]) /\ Head(c2s[c]) = item
  BY DEF TypeOK, Takes
<1> QED
  BY <1>1, <1>2, <1>3 DEF TypeOK, Takes

(* A response is added at the end, or dropped.                             *)
LEMMA RespondFacts ==
  ASSUME TypeOK, NEW c \in Sockets, NEW cmd \in Commands \cup {Null}, NEW ok \in BOOLEAN,
         Respond(c, cmd, ok)
  PROVE  /\ s2c' \in [Sockets -> Seq(Responses)]
         /\ \A d \in Sockets \ {c} : s2c'[d] = s2c[d]
         /\ IF c \in broken \/ <<"client", c>> \in left THEN s2c' = s2c
            ELSE s2c'[c] = Append(s2c[c], [cmd |-> cmd, ok |-> ok])
<1>1. [cmd |-> cmd, ok |-> ok] \in Responses
  BY DEF Responses
<1>2. Append(s2c[c], [cmd |-> cmd, ok |-> ok]) \in Seq(Responses)
  BY <1>1, AppendProperties DEF TypeOK
<1> QED
  BY <1>2 DEF TypeOK, Respond

(* Sending items.                                                          *)
LEMMA SendFacts ==
  ASSUME TypeOK, NEW c \in Clients, NEW items \in Seq(Items), NEW next, Send(c, items, next)
  PROVE  /\ c2s' \in [Sockets -> Seq(Items)]
         /\ \A d \in Sockets \ {c} : c2s'[d] = c2s[d]
         /\ Len(c2s[c]) \in Nat /\ Len(items) \in Nat
         /\ Len(c2s'[c]) = Len(c2s[c]) + Len(items)
         /\ \A i \in 1 .. Len(c2s[c]) + Len(items) :
              c2s'[c][i] = IF i <= Len(c2s[c]) THEN c2s[c][i] ELSE items[i - Len(c2s[c])]
<1>1. c2s[c] \in Seq(Items)
  BY DEF TypeOK
<1>2. c2s'[c] = c2s[c] \o items
  BY DEF TypeOK, Send
<1> QED
  BY <1>1, <1>2, ConcatProperties, LenProperties DEF TypeOK, Send

(* Losing the tail of a stream.                                            *)
LEMMA LosesFacts ==
  ASSUME TypeOK, NEW c \in Clients, LosesTail(c)
  PROVE  /\ c2s' \in [Sockets -> Seq(Items)]
         /\ \A d \in Sockets \ {c} : c2s'[d] = c2s[d]
         /\ Len(c2s[c]) \in Nat /\ Len(c2s'[c]) \in Nat
         /\ Len(c2s'[c]) <= Len(c2s[c])
         /\ \A i \in 1 .. Len(c2s'[c]) : c2s'[c][i] = c2s[c][i]
<1>1. c2s[c] \in Seq(Items) /\ Len(c2s[c]) \in Nat
  BY LenProperties DEF TypeOK
<1>2. PICK n \in 0 .. Len(c2s[c]) : c2s' = [c2s EXCEPT ![c] = SubSeq(@, 1, n)]
  BY DEF LosesTail
<1>3. \A i \in 1 .. n : c2s[c][i] \in Items
  BY <1>1, <1>2, ElementOfSeq
<1>4. /\ SubSeq(c2s[c], 1, n) \in Seq(Items)
      /\ Len(SubSeq(c2s[c], 1, n)) = n
      /\ \A i \in 1 .. n : SubSeq(c2s[c], 1, n)[i] = c2s[c][i]
  <2>1. 1 \in Int /\ n \in Int
    BY <1>1, <1>2
  <2>2. /\ SubSeq(c2s[c], 1, n) \in Seq(Items)
        /\ Len(SubSeq(c2s[c], 1, n)) = IF 1 <= n THEN n - 1 + 1 ELSE 0
        /\ \A i \in 1 .. n - 1 + 1 : SubSeq(c2s[c], 1, n)[i] = c2s[c][1 + i - 1]
    BY <2>1, <1>3, SubSeqProperties
  <2> QED
    BY <2>1, <2>2, <1>1, <1>2
<1>5. c2s'[c] = SubSeq(c2s[c], 1, n)
  BY <1>1, <1>2 DEF TypeOK
<1> QED
  BY <1>1, <1>2, <1>4, <1>5 DEF TypeOK

(* What the client receives.                                               *)
LEMMA TakeRespFacts ==
  ASSUME TypeOK, NEW c \in Clients, TakeResp(c)
  PROVE  /\ s2c' \in [Sockets -> Seq(Responses)]
         /\ \A d \in Sockets \ {c} : s2c'[d] = s2c[d]
         /\ s2c[c] = <<>> => s2c'[c] = <<>>
         /\ s2c[c] # <<>> => s2c'[c] = Tail(s2c[c])
         /\ Len(s2c[c]) \in Nat /\ Len(s2c'[c]) \in Nat /\ Len(s2c'[c]) <= Len(s2c[c])
         /\ \A i \in 1 .. Len(s2c'[c]) : \E j \in 1 .. Len(s2c[c]) : s2c'[c][i] = s2c[c][j]
<1>1. s2c[c] \in Seq(Responses) /\ s2c'[c] = IF s2c[c] = <<>> THEN <<>> ELSE Tail(s2c[c])
  BY DEF TypeOK, TakeResp
<1>2. CASE s2c[c] = <<>>
  BY <1>1, <1>2, EmptySeq DEF TypeOK, TakeResp
<1>3. CASE s2c[c] # <<>>
  <2>1. /\ Len(s2c[c]) \in Nat /\ Len(s2c[c]) > 0
        /\ Tail(s2c[c]) \in Seq(Responses) /\ Len(Tail(s2c[c])) = Len(s2c[c]) - 1
        /\ \A i \in 1 .. Len(Tail(s2c[c])) : Tail(s2c[c])[i] = s2c[c][i + 1]
    BY <1>1, <1>3, HeadTailProperties, EmptySeq, LenProperties
  <2>2. \A i \in 1 .. Len(s2c'[c]) : i + 1 \in 1 .. Len(s2c[c]) /\ s2c'[c][i] = s2c[c][i + 1]
    BY <1>1, <1>3, <2>1
  <2> QED
    BY <1>1, <1>3, <2>1, <2>2 DEF TypeOK, TakeResp
<1> QED
  BY <1>2, <1>3

-----------------------------------------------------------------------------
(* The types, the globals and the phases of the clients.                   *)
BaseInv == TypeOK /\ ServerOK /\ OneFile /\ \A c \in Clients : ClientOK(c)

LEMMA Distinct ==
  /\ Null # Bad /\ Null # Garbage /\ Bad # Garbage /\ Chunks \in Nat /\ Chunks > 0
  /\ \A c \in Clients : c # Null /\ c # Bad /\ c # Garbage /\ c # Nobody
  /\ Null \notin Files /\ Bad \notin Files /\ Garbage \in Files /\ Clients \subseteq Files
  /\ Invalid \notin Clients /\ Nobody \notin Sockets
  BY RcopyAssumption DEF Null, Bad, Garbage, Nobody, Invalid, Files

LEMMA InitBase == Init => BaseInv
<1> SUFFICES ASSUME Init PROVE BaseInv
  OBVIOUS
<1>1. TypeOK
  BY Distinct, EmptySeq DEF Init, TypeOK, ClientPhases
<1>2. ServerOK /\ OneFile
  BY Distinct DEF Init, ServerOK, OneFile
<1>3. ASSUME NEW c \in Clients PROVE ClientOK(c)
  BY Distinct, <1>1 DEF Init, ClientOK
<1> QED BY <1>1, <1>2, <1>3 DEF BaseInv

LEMMA AcceptBase == ASSUME BaseInv, NEW c \in Clients, Accept(c) PROVE BaseInv'
<1>1. TypeOK'
  BY DEF BaseInv, Accept, TypeOK, ClientPhases
<1>2. ServerOK' /\ OneFile'
  BY Distinct DEF BaseInv, Accept, ServerOK, OneFile, Nobody
<1>3. ASSUME NEW d \in Clients PROVE ClientOK(d)'
  <2>1. ClientOK(d) /\ ClientOK(c) /\ cur = Nobody
    BY DEF BaseInv, Accept, ServerOK
  <2> QED BY Distinct, <2>1 DEF BaseInv, Accept, ClientOK, TypeOK, ServerOK
<1> QED BY <1>1, <1>2, <1>3 DEF BaseInv

LEMMA AcceptFailsBase == ASSUME BaseInv, NEW c \in Clients, AcceptFails(c) PROVE BaseInv'
<1>1. /\ \/ cpc[c] = "gone" /\ cpc' = [cpc EXCEPT ![c] = "failed"]
         \/ cpc[c] = "waiting" /\ cpc' = [cpc EXCEPT ![c] = "refused"]
      /\ spc = "accept" /\ spc' = "hdr" /\ cur' = Invalid /\ msg' = Null
      /\ broken' = broken \cup {Invalid}
      /\ UNCHANGED <<fd, file_addr, open_files, file, got, sent, ret, c2s, s2c, left>>
  BY DEF AcceptFails
<1>2. TypeOK'
  BY <1>1 DEF BaseInv, TypeOK, ClientPhases, Ends
<1>3. ServerOK' /\ OneFile'
  BY <1>1, Distinct DEF BaseInv, ServerOK, OneFile
<1>4. ASSUME NEW d \in Clients PROVE ClientOK(d)'
  <2>1. ClientOK(d) /\ cur = Nobody /\ cpc \in [Clients -> ClientPhases]
    BY <1>1 DEF BaseInv, ServerOK, TypeOK
  <2>2. CASE d = c
    BY <1>1, <2>1, <2>2, Distinct DEF ClientOK
  <2>3. CASE d # c
    BY <1>1, <2>1, <2>3, Distinct DEF ClientOK
  <2> QED BY <2>2, <2>3
<1> QED BY <1>2, <1>3, <1>4 DEF BaseInv

(* What the streams look like after one of the three ways to receive.      *)
LEMMA ReceiveFacts ==
  ASSUME TypeOK, NEW c \in Sockets, NEW item, Takes(c, item) \/ AtEof(c) \/ Stale(c)
  PROVE  /\ c2s' \in [Sockets -> Seq(Items)]
         /\ \A d \in Sockets \ {c} : c2s'[d] = c2s[d]
  BY TakesFacts DEF AtEof, Stale, TypeOK

(* What the server does with a command, to its globals.                    *)
LEMMA ProcessBase ==
  ASSUME BaseInv, cur \in Sockets, c2s'[Invalid] = <<>>,
         NEW cmd \in Commands \cup {Bad}, Process(cur, cmd), spc = "hdr",
         msg' = cmd, UNCHANGED <<cur, file, got, broken>>
  PROVE  /\ s2c' \in [Sockets -> Seq(Responses)]
         /\ \A d \in Sockets \ {cur} : s2c'[d] = s2c[d]
         /\ spc' \in {"hdr", "path", "size", "end"}
         /\ fd' \in Files \cup {Null, Bad} /\ file_addr' \in Files \cup {Null, Bad}
         /\ open_files' \subseteq Files
         /\ fd' = fd \/ fd' = Null
         /\ ServerOK' /\ OneFile'
<1>1. TypeOK /\ ServerOK /\ OneFile
  BY DEF BaseInv
<1> USE Distinct
<1>2. CASE cmd = "OPEN" /\ StartOpen(cur)
  BY <1>1, <1>2, RespondFacts DEF StartOpen, TypeOK, ServerOK, OneFile, Commands, Busy
<1>3. CASE cmd = "WRITE" /\ StartWrite(cur)
  BY <1>1, <1>3, RespondFacts DEF StartWrite, TypeOK, ServerOK, OneFile, Commands
<1>4. CASE cmd = "CLOSE" /\ ServerClose(cur)
  BY <1>1, <1>4, RespondFacts DEF ServerClose, TypeOK, ServerOK, OneFile, Commands
<1>5. CASE cmd = Bad /\ BadCommand(cur)
  BY <1>1, <1>5, RespondFacts DEF BadCommand, TypeOK, ServerOK, OneFile, Commands
<1> QED BY <1>2, <1>3, <1>4, <1>5 DEF Process

LEMMA CurIsSocket == ASSUME BaseInv, spc # "accept" PROVE cur \in Sockets
  BY DEF BaseInv, TypeOK, ServerOK

LEMMA InvalidIsStale ==
  ASSUME BaseInv, cur = Invalid
  PROVE  ~AtEof(cur) /\ \A item : ~Takes(cur, item)
  BY DEF BaseInv, ServerOK, AtEof, Takes

(* So that receiving leaves the stream of that socket empty.               *)
LEMMA InvalidEmpty ==
  ASSUME BaseInv, cur \in Sockets, NEW item, Takes(cur, item) \/ AtEof(cur) \/ Stale(cur)
  PROVE  c2s'[Invalid] = <<>>
<1>1. CASE Takes(cur, item)
  <2>1. cur # Invalid
    BY <1>1, InvalidIsStale
  <2> QED BY <1>1, <2>1, TakesFacts DEF BaseInv, ServerOK
<1>2. CASE AtEof(cur) \/ Stale(cur)
  BY <1>2 DEF AtEof, Stale, BaseInv, ServerOK
<1> QED BY <1>1, <1>2

LEMMA RecvHdrBase == ASSUME BaseInv, RecvHdr PROVE BaseInv'
<1>1. PICK cmd \in Commands \cup {Bad} :
        /\ \/ cmd \in Commands /\ Takes(cur, cmd)
           \/ cmd \in StaleHeaders /\ Stale(cur)
        /\ msg' = cmd
        /\ Process(cur, cmd)
  BY DEF RecvHdr
<1>2. cur \in Sockets /\ spc = "hdr" /\ TypeOK /\ UNCHANGED <<cur, file, got, clientVars, left, broken>>
  BY CurIsSocket DEF RecvHdr, BaseInv
<1>3. /\ c2s' \in [Sockets -> Seq(Items)] /\ c2s'[Invalid] = <<>>
      /\ \A d \in Sockets \ {cur} : c2s'[d] = c2s[d]
  BY <1>1, <1>2, ReceiveFacts, InvalidEmpty
<1>4. /\ s2c' \in [Sockets -> Seq(Responses)]
      /\ \A d \in Sockets \ {cur} : s2c'[d] = s2c[d]
      /\ spc' \in {"hdr", "path", "size", "end"}
      /\ fd' \in Files \cup {Null, Bad} /\ file_addr' \in Files \cup {Null, Bad}
      /\ open_files' \subseteq Files
      /\ fd' = fd \/ fd' = Null
      /\ ServerOK' /\ OneFile'
  BY <1>1, <1>2, <1>3, ProcessBase
<1>5. TypeOK'
  BY <1>1, <1>2, <1>3, <1>4 DEF TypeOK, clientVars
<1>6. ASSUME NEW d \in Clients PROVE ClientOK(d)'
  BY <1>2, <1>3, <1>4, Distinct DEF BaseInv, ClientOK, clientVars
<1> QED BY <1>4, <1>5, <1>6 DEF BaseInv

LEMMA RecvHdrEofBase == ASSUME BaseInv, RecvHdrEof PROVE BaseInv'
<1>1. cur \in Sockets
  BY CurIsSocket DEF RecvHdrEof
<1>2. spc' = "end" /\ spc = "hdr"
      /\ UNCHANGED <<cur, msg, fd, file_addr, open_files, file, got, clientVars, c2s, s2c, left, broken>>
  BY DEF RecvHdrEof, AfterEof, AtEof
<1>3. TypeOK' /\ ServerOK' /\ OneFile'
  BY <1>1, <1>2 DEF BaseInv, TypeOK, ServerOK, OneFile, clientVars
<1>4. ASSUME NEW d \in Clients PROVE ClientOK(d)'
  BY <1>2 DEF BaseInv, ClientOK, clientVars
<1> QED BY <1>3, <1>4 DEF BaseInv

LEMMA RecvPathBase == ASSUME BaseInv, RecvPath PROVE BaseInv'
<1>1. cur \in Sockets /\ TypeOK /\ ServerOK /\ spc = "path"
  BY CurIsSocket DEF RecvPath, BaseInv
<1>2. /\ c2s' \in [Sockets -> Seq(Items)] /\ c2s'[Invalid] = <<>>
      /\ \A d \in Sockets \ {cur} : c2s'[d] = c2s[d]
  BY <1>1, ReceiveFacts, InvalidEmpty DEF RecvPath
<1>3. /\ s2c' \in [Sockets -> Seq(Responses)]
      /\ \A d \in Sockets \ {cur} : s2c'[d] = s2c[d]
  BY <1>1, RespondFacts DEF RecvPath, OpenFile, OpenFails, Commands
<1>4. UNCHANGED <<cur, msg, file_addr, got, clientVars, left, broken>> /\ spc' \in {"hdr", "end"}
  BY DEF RecvPath, OpenFile, OpenFails
<1>5. open_files = {} /\ fd \notin Files /\ file_addr = Null
  BY <1>1 DEF BaseInv, ServerOK, OneFile, TypeOK
<1>6. \/ \E f \in Files : /\ f = cur \/ (f = Garbage /\ cur \in broken)
                          /\ fd' = f /\ open_files' = open_files \cup {f}
                          /\ file' = [file EXCEPT ![f] = {}]
      \/ fd' \in {fd, Bad} /\ UNCHANGED <<open_files, file>>
  BY <1>1, InvalidIsStale, Distinct DEF RecvPath, OpenFile, OpenFails, Stale
<1>7. TypeOK'
  BY <1>1, <1>2, <1>3, <1>4, <1>6 DEF TypeOK, clientVars
<1>8. ServerOK' /\ OneFile'
  BY <1>1, <1>2, <1>4, <1>5, <1>6, Distinct DEF ServerOK, OneFile, TypeOK
<1>9. ASSUME NEW d \in Clients PROVE ClientOK(d)'
  <2>1. ClientOK(d)
    BY DEF BaseInv
  <2>2. d # cur /\ fd' = d => fd = d
    BY <1>6, Distinct
  <2>3. file[d] = {} => file'[d] = {}
    BY <1>1, <1>6, Distinct DEF TypeOK
  <2> QED BY <1>2, <1>3, <1>4, <2>1, <2>2, <2>3 DEF ClientOK, clientVars
<1> QED BY <1>7, <1>8, <1>9 DEF BaseInv

LEMMA RecvSizeBase == ASSUME BaseInv, RecvSize PROVE BaseInv'
<1>1. cur \in Sockets /\ TypeOK /\ ServerOK /\ spc = "size"
  BY CurIsSocket DEF RecvSize, BaseInv
<1>2. /\ c2s' \in [Sockets -> Seq(Items)] /\ c2s'[Invalid] = <<>>
      /\ \A d \in Sockets \ {cur} : c2s'[d] = c2s[d]
  BY <1>1, ReceiveFacts, InvalidEmpty DEF RecvSize
<1>3. /\ s2c' \in [Sockets -> Seq(Responses)]
      /\ \A d \in Sockets \ {cur} : s2c'[d] = s2c[d]
  BY <1>1, RespondFacts DEF RecvSize, MapFile, MapFails, Commands, TypeOK
<1>4. UNCHANGED <<cur, msg, fd, open_files, file, clientVars, left, broken>>
  BY DEF RecvSize
<1>5. \/ spc' = "data" /\ file_addr' = fd /\ got' = 0
      \/ spc' \in {"hdr", "end"} /\ file_addr' \in {file_addr, Bad} /\ got' = got
  BY DEF RecvSize, MapFile, MapFails
<1>6. TypeOK'
  BY <1>1, <1>2, <1>3, <1>4, <1>5, Distinct DEF TypeOK, ServerOK, clientVars
<1>7. ServerOK' /\ OneFile'
  BY <1>1, <1>2, <1>4, <1>5, Distinct DEF BaseInv, ServerOK, OneFile, TypeOK
<1>8. ASSUME NEW d \in Clients PROVE ClientOK(d)'
  BY <1>2, <1>3, <1>4 DEF BaseInv, ClientOK, clientVars
<1> QED BY <1>6, <1>7, <1>8 DEF BaseInv

LEMMA RecvDataBase == ASSUME BaseInv, RecvData PROVE BaseInv'
<1>1. cur \in Sockets /\ TypeOK /\ ServerOK /\ spc = "data" /\ got < Chunks /\ file_addr = fd
      /\ fd \in Files
  BY CurIsSocket DEF RecvData, BaseInv, ServerOK
<1>2. /\ c2s' \in [Sockets -> Seq(Items)] /\ c2s'[Invalid] = <<>>
      /\ \A d \in Sockets \ {cur} : c2s'[d] = c2s[d]
  BY <1>1, ReceiveFacts, InvalidEmpty DEF RecvData
<1>3. /\ s2c' \in [Sockets -> Seq(Responses)]
      /\ \A d \in Sockets \ {cur} : s2c'[d] = s2c[d]
  BY <1>1, RespondFacts DEF RecvData, Commands, TypeOK
<1>4. UNCHANGED <<cur, msg, fd, file_addr, open_files, clientVars, left, broken>>
  BY DEF RecvData
<1>5. \/ /\ file' = [file EXCEPT ![fd] = @ \cup {got + 1}] /\ got' = got + 1
         /\ (spc' = "data" /\ got + 1 # Chunks) \/ spc' = "hdr"
      \/ spc' = "hdr" /\ UNCHANGED <<file, got>>
  BY <1>1 DEF RecvData, AllData
<1>6. TypeOK'
  <2>1. file' \in [Files -> SUBSET (1 .. Chunks)] /\ got' \in 0 .. Chunks
    <3>1. /\ got \in Nat /\ got \in 0 .. Chunks /\ got + 1 \in 1 .. Chunks
          /\ file \in [Files -> SUBSET (1 .. Chunks)]
      BY <1>1, Distinct DEF TypeOK
    <3>2. CASE file' = [file EXCEPT ![fd] = @ \cup {got + 1}] /\ got' = got + 1
      <4>1. file[fd] \cup {got + 1} \in SUBSET (1 .. Chunks)
        BY <1>1, <3>1
      <4>2. file' \in [Files -> SUBSET (1 .. Chunks)]
        <5> DEFINE piece == file[fd] \cup {got + 1}
        <5>1. file' = [file EXCEPT ![fd] = piece] /\ piece \in SUBSET (1 .. Chunks)
          BY <3>2, <4>1
        <5> HIDE DEF piece
        <5> QED BY <3>1, <5>1
      <4>3. got' \in 0 .. Chunks
        BY <3>1, <3>2, Distinct
      <4> QED BY <4>2, <4>3
    <3> QED BY <1>5, <3>1, <3>2
  <2>2. spc' \in {"hdr", "data"}
    BY <1>5
  <2> QED BY <1>1, <1>2, <1>3, <1>4, <2>1, <2>2 DEF TypeOK, clientVars
<1>7. ServerOK' /\ OneFile'
  <2>1. OneFile'
    BY <1>4 DEF BaseInv, OneFile
  <2>2. spc' \in {"hdr", "data"} /\ cur # Nobody
    BY <1>1, <1>5 DEF ServerOK
  <2>3. spc' = "data" => got' < Chunks
    <3>1. got \in Nat /\ (got + 1 # Chunks => got + 1 < Chunks)
      BY <1>1, Distinct DEF TypeOK
    <3> QED BY <1>5, <3>1
  <2>4. ServerOK'
    BY <1>1, <1>2, <1>4, <2>2, <2>3 DEF ServerOK
  <2> QED BY <2>1, <2>4
<1>8. ASSUME NEW d \in Clients PROVE ClientOK(d)'
  <2>1. fd # d => file'[d] = file[d]
    BY <1>1, <1>5, Distinct DEF TypeOK
  <2> QED BY <1>2, <1>3, <1>4, <2>1 DEF BaseInv, ClientOK, clientVars
<1> QED BY <1>6, <1>7, <1>8 DEF BaseInv

LEMMA EndSessionBase == ASSUME BaseInv, EndSession PROVE BaseInv'
<1>1. cur \in Sockets
  BY CurIsSocket DEF EndSession
<1>2. TypeOK'
  BY <1>1 DEF EndSession, BaseInv, TypeOK, clientVars
<1>3. ServerOK' /\ OneFile'
  BY <1>1, Distinct DEF EndSession, BaseInv, ServerOK, OneFile
<1>4. ASSUME NEW d \in Clients PROVE ClientOK(d)'
  BY <1>1, Distinct DEF EndSession, BaseInv, ClientOK, clientVars
<1> QED BY <1>2, <1>3, <1>4 DEF BaseInv

(* The steps of client c.                                                  *)
LEMMA ConnectBase == ASSUME BaseInv, NEW c \in Clients, Connect(c) PROVE BaseInv'
<1>1. TypeOK' /\ ServerOK' /\ OneFile'
  BY DEF Connect, BaseInv, TypeOK, ServerOK, OneFile, serverVars, ClientPhases, Ends
<1>2. ASSUME NEW d \in Clients PROVE ClientOK(d)'
  BY DEF Connect, BaseInv, TypeOK, ClientOK, serverVars
<1> QED BY <1>1, <1>2 DEF BaseInv

(* A client that is up and sends is the one that is served.                *)
LEMMA UpIsServed ==
  ASSUME BaseInv, NEW c \in Clients, Up(c),
         cpc[c] \notin {"start", "waiting", "gone", "refused", "failed"}
  PROVE  cur = c
  BY DEF BaseInv, ClientOK, Up

(* A step that sends items, or gives up.                                   *)
LEMMA ClientSendBase ==
  ASSUME BaseInv, NEW c \in Clients, NEW next \in ClientPhases,
         next \notin {"start", "waiting", "gone", "ok", "refused", "failed"},
         cpc[c] \notin {"start", "waiting", "gone", "ok", "refused", "failed"},
         c2s' \in [Sockets -> Seq(Items)], \A d \in Sockets \ {c} : c2s'[d] = c2s[d],
         cpc' = [cpc EXCEPT ![c] = next],
         ret' \in [Clients -> BOOLEAN], \A d \in Clients \ {c} : ret'[d] = ret[d],
         sent' \in [Clients -> 0 .. Chunks], \A d \in Clients \ {c} : sent'[d] = sent[d],
         next = "data" => sent'[c] < Chunks,
         next \in {"open", "open_resp", "write"} => sent'[c] = 0,
         s2c' \in [Sockets -> Seq(Responses)], \A d \in Sockets \ {c} : s2c'[d] = s2c[d],
         UNCHANGED <<serverVars, left, broken>>
  PROVE  BaseInv'
<1>1. TypeOK' /\ ServerOK' /\ OneFile'
  BY Distinct DEF BaseInv, TypeOK, ServerOK, OneFile, serverVars
<1>2. ASSUME NEW d \in Clients PROVE ClientOK(d)'
  <2>1. ClientOK(d) /\ TypeOK
    BY DEF BaseInv
  <2>2. CASE d = c
    BY <2>1, <2>2 DEF TypeOK, ClientOK, serverVars
  <2>3. CASE d # c
    BY <2>1, <2>3 DEF TypeOK, ClientOK, serverVars
  <2> QED BY <2>2, <2>3
<1> QED BY <1>1, <1>2 DEF BaseInv

(* The sequences of items a client sends.                                  *)
LEMMA Requests ==
  /\ <<"OPEN", "PATH">> \in Seq(Items) /\ Len(<<"OPEN", "PATH">>) = 2
  /\ <<"WRITE", "SIZE">> \in Seq(Items) /\ Len(<<"WRITE", "SIZE">>) = 2
  /\ <<"DATA">> \in Seq(Items) /\ Len(<<"DATA">>) = 1
  /\ <<"CLOSE">> \in Seq(Items) /\ Len(<<"CLOSE">>) = 1
  BY DEF Items, Commands

LEMMA ClientOpenBase == ASSUME BaseInv, NEW c \in Clients, ClientOpen(c) PROVE BaseInv'
<1>1. TypeOK /\ cpc[c] = "open" /\ UNCHANGED <<serverVars, sent, s2c, left, broken>>
      /\ sent[c] = 0
  BY DEF ClientOpen, BaseInv, ClientOK
<1>2. CASE Send(c, <<"OPEN", "PATH">>, "open_resp")
  BY <1>1, <1>2, Requests, SendFacts, ClientSendBase DEF Send, TypeOK, ClientPhases
<1>3. CASE GivesUp(c, "shutdown")
  BY <1>1, <1>3, ClientSendBase DEF GivesUp, TypeOK, ClientPhases
<1> QED BY <1>2, <1>3 DEF ClientOpen, SendFails

LEMMA ClientStartWriteBase == ASSUME BaseInv, NEW c \in Clients, ClientStartWrite(c) PROVE BaseInv'
<1>1. TypeOK /\ cpc[c] = "write" /\ UNCHANGED <<serverVars, sent, s2c, left, broken>>
      /\ sent[c] < Chunks
  BY Distinct DEF ClientStartWrite, BaseInv, ClientOK
<1>2. CASE Send(c, <<"WRITE", "SIZE">>, "data")
  BY <1>1, <1>2, Requests, SendFacts, ClientSendBase DEF Send, TypeOK, ClientPhases
<1>3. CASE GivesUp(c, "close")
  BY <1>1, <1>3, ClientSendBase DEF GivesUp, TypeOK, ClientPhases
<1> QED BY <1>2, <1>3 DEF ClientStartWrite, SendFails

LEMMA ClientSendDataBase == ASSUME BaseInv, NEW c \in Clients, ClientSendData(c) PROVE BaseInv'
<1>1. TypeOK /\ cpc[c] = "data" /\ UNCHANGED <<serverVars, s2c, left, broken>> /\ sent[c] < Chunks
  BY DEF ClientSendData, BaseInv, ClientOK
<1>4. sent[c] \in Nat
  BY <1>1, Distinct DEF TypeOK
<1> DEFINE next == IF sent[c] + 1 = Chunks THEN "write_resp" ELSE "data"
<1>2. CASE Send(c, <<"DATA">>, next) /\ sent' = [sent EXCEPT ![c] = @ + 1]
  <2>1. sent' \in [Clients -> 0 .. Chunks] /\ (next = "data" => sent'[c] < Chunks)
    BY <1>1, <1>2, <1>4, Distinct DEF TypeOK
  <2>2. /\ c2s' \in [Sockets -> Seq(Items)]
        /\ \A d \in Sockets \ {c} : c2s'[d] = c2s[d]
    BY <1>1, <1>2, Requests, SendFacts
  <2>3. next \in ClientPhases /\ next \in {"write_resp", "data"}
    BY DEF ClientPhases
  <2>4. cpc' = [cpc EXCEPT ![c] = next] /\ ret' = ret
    BY <1>2 DEF Send
  <2> HIDE DEF next
  <2> QED BY <1>1, <1>2, <2>1, <2>2, <2>3, <2>4, ClientSendBase DEF TypeOK
<1>3. CASE GivesUp(c, "close") /\ UNCHANGED sent
  BY <1>1, <1>3, ClientSendBase DEF GivesUp, TypeOK, ClientPhases
<1> QED BY <1>2, <1>3 DEF ClientSendData, SendFails

LEMMA ClientCloseBase == ASSUME BaseInv, NEW c \in Clients, ClientClose(c) PROVE BaseInv'
<1>1. TypeOK /\ cpc[c] = "close" /\ UNCHANGED <<serverVars, sent, s2c, left, broken>>
  BY DEF ClientClose, BaseInv
<1>2. CASE Send(c, <<"CLOSE">>, "close_resp")
  BY <1>1, <1>2, Requests, SendFacts, ClientSendBase DEF Send, TypeOK, ClientPhases
<1>3. CASE cpc' = [cpc EXCEPT ![c] = "shutdown"] /\ UNCHANGED <<ret, c2s>>
  BY <1>1, <1>3, ClientSendBase DEF TypeOK, ClientPhases
<1> QED BY <1>2, <1>3 DEF ClientClose

LEMMA AnswersBoolean == ASSUME NEW c, NEW cmd, NEW ok \in Answers(c, cmd) PROVE ok \in BOOLEAN
  BY DEF Answers, Good

LEMMA ClientRespBase ==
  ASSUME BaseInv, NEW c \in Clients, ClientOpened(c) \/ ClientWritten(c) \/ ClientClosed(c)
  PROVE  BaseInv'
<1>1. TypeOK /\ TakeResp(c) /\ UNCHANGED <<serverVars, sent, c2s, left, broken>>
      /\ cpc[c] \in {"open_resp", "write_resp", "close_resp"}
  BY DEF ClientOpened, ClientWritten, ClientClosed, BaseInv
<1>2. s2c' \in [Sockets -> Seq(Responses)] /\ \A d \in Sockets \ {c} : s2c'[d] = s2c[d]
  BY <1>1, TakeRespFacts
<1>3. PICK next \in {"write", "shutdown", "close"} :
        cpc' = [cpc EXCEPT ![c] = next] /\ (next = "write" => cpc[c] = "open_resp")
  BY <1>1 DEF ClientOpened, OpenResp, ClientWritten, ClientClosed
<1>4. ret' \in [Clients -> BOOLEAN] /\ \A d \in Clients \ {c} : ret'[d] = ret[d]
  <2>1. ret' = ret \/ \E ok \in BOOLEAN : ret' = [ret EXCEPT ![c] = ok]
    BY <1>1, AnswersBoolean DEF ClientOpened, OpenResp, ClientWritten, ClientClosed
  <2> QED BY <1>1, <2>1 DEF TypeOK
<1>5. next = "write" => sent'[c] = 0
  BY <1>1, <1>3 DEF BaseInv, ClientOK
<1>6. next \in ClientPhases /\ next \notin {"start", "waiting", "gone", "ok", "refused", "failed"}
  BY DEF ClientPhases
<1> QED BY <1>1, <1>2, <1>3, <1>4, <1>5, <1>6, ClientSendBase DEF TypeOK

LEMMA ClientEndsBase == ASSUME BaseInv, NEW c \in Clients, ClientEnds(c) PROVE BaseInv'
<1>1. /\ (IF ret[c] THEN "ok" ELSE "failed") \in ClientPhases
      /\ left' \subseteq {"server", "client"} \X Sockets
  BY DEF ClientEnds, BaseInv, TypeOK, ClientPhases, Ends
<1>2. TypeOK'
  BY <1>1 DEF ClientEnds, BaseInv, TypeOK, serverVars
<1>3. ServerOK' /\ OneFile'
  BY DEF ClientEnds, BaseInv, ServerOK, OneFile, serverVars
<1>4. ASSUME NEW d \in Clients PROVE ClientOK(d)'
  BY DEF ClientEnds, BaseInv, TypeOK, ClientOK, serverVars
<1> QED BY <1>2, <1>3, <1>4 DEF BaseInv

LEMMA CrashBase == ASSUME BaseInv, NEW c \in Clients, Crash(c) PROVE BaseInv'
<1>1. /\ c2s' \in [Sockets -> Seq(Items)]
      /\ \A d \in Sockets \ {c} : c2s'[d] = c2s[d]
  BY LosesFacts DEF Crash, BaseInv
<1>2. left' \subseteq {"server", "client"} \X Sockets /\ cpc' \in [Clients -> ClientPhases]
  BY DEF Crash, BaseInv, TypeOK, ClientPhases, Ends
<1>3. TypeOK'
  BY <1>1, <1>2 DEF Crash, BaseInv, TypeOK, serverVars
<1>4. ServerOK' /\ OneFile'
  BY <1>1, Distinct DEF Crash, BaseInv, ServerOK, OneFile, serverVars
<1>5. ASSUME NEW d \in Clients PROVE ClientOK(d)'
  BY <1>1 DEF Crash, BaseInv, TypeOK, ClientOK, serverVars, Ends
<1> QED BY <1>3, <1>4, <1>5 DEF BaseInv

LEMMA BreakBase == ASSUME BaseInv, NEW c \in Clients, Break(c) PROVE BaseInv'
<1>1. /\ c2s' \in [Sockets -> Seq(Items)]
      /\ \A d \in Sockets \ {c} : c2s'[d] = c2s[d]
  BY LosesFacts DEF Break, BaseInv
<1>2. TypeOK' /\ ServerOK' /\ OneFile'
  BY <1>1, Distinct DEF Break, BaseInv, TypeOK, ServerOK, OneFile, serverVars, clientVars
<1>3. ASSUME NEW d \in Clients PROVE ClientOK(d)'
  BY <1>1 DEF Break, BaseInv, TypeOK, ClientOK, serverVars, clientVars
<1> QED BY <1>2, <1>3 DEF BaseInv

LEMMA StutterBase == ASSUME BaseInv, UNCHANGED vars PROVE BaseInv'
<1>1. TypeOK' /\ ServerOK' /\ OneFile'
  BY DEF vars, BaseInv, TypeOK, ServerOK, OneFile
<1>2. ASSUME NEW d \in Clients PROVE ClientOK(d)'
  BY DEF vars, BaseInv, ClientOK
<1> QED BY <1>1, <1>2 DEF BaseInv

LEMMA BaseStep == BaseInv /\ [Next]_vars => BaseInv'
<1> SUFFICES ASSUME BaseInv, [Next]_vars PROVE BaseInv'
  OBVIOUS
<1>1. CASE Server
  BY <1>1, AcceptBase, AcceptFailsBase, RecvHdrBase, RecvHdrEofBase, RecvPathBase, RecvSizeBase, RecvDataBase,
     EndSessionBase DEF Server
<1>2. CASE Idle \/ UNCHANGED vars
  BY <1>2, StutterBase DEF Idle
<1>3. ASSUME NEW c \in Clients, Client(c) \/ Crash(c) \/ Break(c) PROVE BaseInv'
  BY <1>3, ConnectBase, ClientOpenBase, ClientStartWriteBase, ClientSendDataBase, ClientCloseBase,
     ClientRespBase, ClientEndsBase, CrashBase, BreakBase DEF Client
<1> QED BY <1>1, <1>2, <1>3 DEF Next

-----------------------------------------------------------------------------
(* The session with the client that is served.                             *)
Rest == SessionOK /\ \A c \in Clients : AnswerOK(c) /\ CloseAwaited(c)

LEMMA IInvParts == IInv <=> BaseInv /\ Rest
  BY DEF IInv, BaseInv, Rest

LEMMA Singleton ==
  ASSUME NEW x
  PROVE  /\ Append(<<>>, x) = <<x>> /\ <<x>> # <<>> /\ Head(<<x>>) = x /\ Tail(<<x>>) = <<>>
         /\ Len(<<x>>) = 1 /\ <<x>>[1] = x
  OBVIOUS

LEMMA EmptyStream ==
  ASSUME TypeOK, NEW c \in Clients
  PROVE  /\ Len(c2s[c]) \in Nat /\ (Len(c2s[c]) = 0 <=> c2s[c] = <<>>)
         /\ Len(s2c[c]) \in Nat /\ (Len(s2c[c]) = 0 <=> s2c[c] = <<>>)
         /\ s2c[c] # <<>> => Head(s2c[c]) = s2c[c][1]
<1>1. c2s[c] \in Seq(Items) /\ s2c[c] \in Seq(Responses)
  BY DEF TypeOK
<1> QED BY <1>1, EmptySeq, LenProperties, HeadTailProperties

(* Sums, for the positions in a stream.                                    *)
LEMMA Sums ==
  \A x, y, z \in Nat :
     /\ z = y - 1 => (x + 1) + z = x + y
     /\ x + y + (z - y) = x + z
  OBVIOUS

(* What the server receives next, and the session after that.              *)
LEMMA SessionTakes ==
  ASSUME TypeOK, NEW c \in Clients, NEW a \in 0 .. Total, Stream(c, a), NEW item, Takes(c, item)
  PROVE  /\ a + 1 \in 0 .. Total /\ item = Item(a + 1) /\ Stream(c, a + 1)' /\ Live(c)
         /\ (a + 1) + Len(c2s'[c]) = a + Len(c2s[c])
         /\ a + Len(c2s[c]) \in a + 1 .. Total
<1>1. /\ c2s[c] # <<>> /\ Len(c2s[c]) \in Nat /\ Len(c2s[c]) > 0 /\ c2s[c][1] = item
      /\ Len(c2s'[c]) = Len(c2s[c]) - 1
      /\ \A i \in 1 .. Len(c2s'[c]) : c2s'[c][i] = c2s[c][i + 1]
  BY TakesFacts
<1>2. Total \in Nat /\ a \in Nat
  BY Distinct DEF Total
<1>3. a + Len(c2s[c]) <= Total /\ \A i \in 1 .. Len(c2s[c]) : c2s[c][i] = Item(a + i)
  BY DEF Stream
<1>4. item = Item(a + 1)
  BY <1>1, <1>3
<1>5. ASSUME NEW i \in 1 .. Len(c2s'[c]) PROVE c2s'[c][i] = Item((a + 1) + i)
  <2>1. i + 1 \in 1 .. Len(c2s[c]) /\ a + (i + 1) = (a + 1) + i
    BY <1>1
  <2>2. c2s[c][i + 1] = Item(a + (i + 1))
    BY <1>3, <2>1
  <2> QED BY <1>1, <2>1, <2>2
<1>6. (a + 1) + Len(c2s'[c]) <= Total /\ (a + 1) + Len(c2s'[c]) = a + Len(c2s[c])
  <2>1. Len(c2s'[c]) \in Nat /\ Len(c2s[c]) \in Nat /\ Len(c2s'[c]) = Len(c2s[c]) - 1
    BY <1>1
  <2>2. a + Len(c2s[c]) <= Total
    BY <1>3
  <2>3. (a + 1) + Len(c2s'[c]) = a + Len(c2s[c])
    BY <2>1, <1>2, Sums
  <2> QED BY <2>2, <2>3
<1>7. Stream(c, a + 1)'
  BY <1>5, <1>6, <1>2 DEF Stream, Total, Item
<1>8. a + 1 \in 0 .. Total /\ a + Len(c2s[c]) \in a + 1 .. Total
  <2>1. Len(c2s[c]) \in Nat /\ Len(c2s[c]) > 0 /\ a + Len(c2s[c]) <= Total
    BY <1>1, <1>3
  <2>2. \A n \in Nat : n > 0 => a + n >= a + 1
    BY <1>2
  <2> QED BY <1>2, <2>1, <2>2
<1> QED BY <1>1, <1>4, <1>6, <1>7, <1>8 DEF Live

(* A client goes on sending where it had stopped.                          *)
LEMMA SessionSends ==
  ASSUME TypeOK, NEW c \in Clients, NEW a \in 0 .. Total, Stream(c, a),
         NEW items \in Seq(Items), NEW next, Send(c, items, next),
         a + Len(c2s[c]) + Len(items) <= Total,
         \A j \in 1 .. Len(items) : items[j] = Item(a + Len(c2s[c]) + j)
  PROVE  Stream(c, a)' /\ a + Len(c2s'[c]) = a + Len(c2s[c]) + Len(items)
<1>1. /\ Len(c2s[c]) \in Nat /\ Len(items) \in Nat
      /\ Len(c2s'[c]) = Len(c2s[c]) + Len(items)
      /\ \A i \in 1 .. Len(c2s[c]) + Len(items) :
           c2s'[c][i] = IF i <= Len(c2s[c]) THEN c2s[c][i] ELSE items[i - Len(c2s[c])]
  BY SendFacts
<1>2. Total \in Nat /\ a \in Nat
  BY Distinct DEF Total
<1>3. ASSUME NEW i \in 1 .. Len(c2s'[c]) PROVE c2s'[c][i] = Item(a + i)
  <2>1. CASE i <= Len(c2s[c])
    BY <1>1, <2>1 DEF Stream
  <2>2. CASE ~(i <= Len(c2s[c]))
    <3>1. i - Len(c2s[c]) \in 1 .. Len(items)
      BY <1>1, <2>2
    <3>2. items[i - Len(c2s[c])] = Item(a + Len(c2s[c]) + (i - Len(c2s[c])))
      BY <3>1
    <3>3. i \in Nat /\ Len(c2s[c]) \in Nat
      BY <1>1
    <3>4. a + Len(c2s[c]) + (i - Len(c2s[c])) = a + i
      BY <1>2, <3>3, Sums
    <3> QED BY <1>1, <2>2, <3>2, <3>4
  <2> QED BY <2>1, <2>2
<1>4. a + Len(c2s'[c]) = a + Len(c2s[c]) + Len(items)
  BY <1>1
<1> QED BY <1>2, <1>3, <1>4 DEF Stream, Total, Item

(* A connection, or its client, goes and takes the tail of the stream.     *)
LEMMA SessionLoses ==
  ASSUME TypeOK, NEW c \in Clients, NEW a \in 0 .. Total, Stream(c, a), LosesTail(c)
  PROVE  Stream(c, a)' /\ (c2s'[c] # <<>> => c2s[c] # <<>>)
<1>1. /\ c2s' \in [Sockets -> Seq(Items)]
      /\ Len(c2s[c]) \in Nat /\ Len(c2s'[c]) \in Nat
      /\ Len(c2s'[c]) <= Len(c2s[c])
      /\ \A i \in 1 .. Len(c2s'[c]) : c2s'[c][i] = c2s[c][i]
  BY LosesFacts
<1>2. Total \in Nat /\ a \in Nat
  BY Distinct DEF Total
<1>3. Len(c2s'[c]) = 0 <=> c2s'[c] = <<>>
  BY <1>1, EmptySeq
<1>4. Len(c2s[c]) = 0 <=> c2s[c] = <<>>
  BY EmptyStream
<1>5. ASSUME NEW i \in 1 .. Len(c2s'[c]) PROVE c2s'[c][i] = Item(a + i)
  BY <1>1 DEF Stream
<1>6. a + Len(c2s'[c]) <= Total
  BY <1>1, <1>2 DEF Stream
<1> QED BY <1>1, <1>3, <1>4, <1>5, <1>6 DEF Stream, Total, Item

(* The session is not touched by what others do.                           *)
LEMMA SessionKept ==
  ASSUME NEW c \in Clients, NEW a \in 0 .. Total, Session(c, a), c2s'[c] = c2s[c], s2c'[c] = s2c[c],
         UNCHANGED <<serverVars, broken>>,
         cpc'[c] = cpc[c], sent'[c] = sent[c], ret'[c] = ret[c],
         <<"client", c>> \in left' <=> <<"client", c>> \in left
  PROVE  Session(c, a)'
<1>1. Stream(c, a)' /\ (Live(c)' <=> Live(c))
  BY DEF Session, Stream, Live, Item, Total
<1>2. Live(c) => ServerAt(c, a)'
  BY DEF Session, ServerAt, serverVars, Total
<1>3. c \notin broken /\ <<"client", c>> \notin left => ClientAt(c, a + Len(c2s[c]))' /\ Link(c, a)'
  BY DEF Session, ClientAt, Link, serverVars, Total, OK
<1> QED BY <1>1, <1>2, <1>3 DEF Session

LEMMA ItemAt ==
  /\ Item(1) = "OPEN" /\ Item(2) = "PATH" /\ Item(3) = "WRITE" /\ Item(4) = "SIZE"
  /\ Item(Chunks + 5) = "CLOSE" /\ \A k \in 5 .. Chunks + 4 : Item(k) = "DATA"
  /\ Total = Chunks + 5 /\ Total \in Nat
  /\ 1 .. Chunks # {}
<1>1. 1 \in 1 .. Chunks
  BY Distinct
<1> QED BY <1>1, Distinct DEF Item, Total

(* The responses that are no good answer to WRITE.                         *)
Quiet(c) ==
  \/ s2c'[c] = s2c[c]
  \/ \E r \in Responses : r # OK("WRITE") /\ s2c'[c] = Append(s2c[c], r)

LEMMA RespondQuiet ==
  ASSUME TypeOK, NEW c \in Clients, NEW cmd \in Commands \cup {Null}, NEW ok \in BOOLEAN,
         Respond(c, cmd, ok), cmd # "WRITE" \/ ~ok
  PROVE  Quiet(c)
<1>1. [cmd |-> cmd, ok |-> ok] \in Responses
  BY DEF Responses
<1>2. [cmd |-> cmd, ok |-> ok] # OK("WRITE")
  BY DEF OK
<1> QED BY <1>1, <1>2, RespondFacts DEF Quiet

LEMMA QuietKeeps ==
  ASSUME TypeOK, NEW c \in Clients, Quiet(c), AnswerOK(c),
         cpc'[c] = cpc[c], ret'[c] = ret[c], file'[c] = file[c], broken' = broken
  PROVE  AnswerOK(c)' /\ (Wrote(c)' => Wrote(c))
<1>1. s2c[c] \in Seq(Responses)
  BY DEF TypeOK
<1>2. CASE s2c'[c] = s2c[c]
  BY <1>2 DEF AnswerOK, Wrote, OK
<1>3. ASSUME NEW r \in Responses, r # OK("WRITE"), s2c'[c] = Append(s2c[c], r)
      PROVE  AnswerOK(c)' /\ (Wrote(c)' => Wrote(c))
  <2>1. /\ Len(s2c[c]) \in Nat /\ Len(s2c'[c]) = Len(s2c[c]) + 1
        /\ \A i \in 1 .. Len(s2c[c]) : s2c'[c][i] = s2c[c][i]
        /\ s2c'[c][Len(s2c[c]) + 1] = r
        /\ s2c'[c] \in Seq(Responses) /\ s2c'[c] # <<>>
    BY <1>1, <1>3, AppendProperties, LenProperties
  <2>2. \A i \in 1 .. Len(s2c'[c]) : s2c'[c][i] = OK("WRITE") => i \in 1 .. Len(s2c[c]) /\ s2c[c][i] = OK("WRITE")
    BY <2>1, <1>3
  <2>3. AnswerOK(c)'
    BY <2>2 DEF AnswerOK, OK
  <2>4. Head(s2c'[c]) = s2c'[c][1] /\ 1 \in 1 .. Len(s2c'[c])
    BY <2>1, HeadTailProperties
  <2>5. Head(s2c'[c]) = OK("WRITE") => s2c[c] # <<>> /\ Head(s2c[c]) = OK("WRITE")
    BY <2>2, <2>4, EmptyStream
  <2> QED BY <2>3, <2>5 DEF Wrote, OK
<1> QED BY <1>2, <1>3 DEF Quiet

(* As long as the file is not complete, its client has not written it.     *)
LEMMA NotWritten ==
  ASSUME TypeOK, NEW c \in Clients, AnswerOK(c), c \notin broken, file[c] # 1 .. Chunks
  PROVE  ~Wrote(c)
<1>1. s2c[c] # <<>> => 1 \in 1 .. Len(s2c[c]) /\ Head(s2c[c]) = s2c[c][1]
  BY EmptyStream
<1> QED BY <1>1 DEF AnswerOK, Wrote

(* The clients the server is not serving.                                  *)
LEMMA ServerOthers ==
  ASSUME NEW d \in Clients, AnswerOK(d), CloseAwaited(d), d # cur, cur' = cur,
         s2c'[d] = s2c[d], file'[d] = file[d], UNCHANGED <<clientVars, broken>>, fd' = d => fd = d
  PROVE  AnswerOK(d)' /\ CloseAwaited(d)'
  BY DEF AnswerOK, CloseAwaited, Wrote, clientVars, OK

(* A server that runs on after raccept failed touches nothing of theirs.   *)
LEMMA InvalidRest ==
  ASSUME IInv, cur = Invalid, cur' = cur, s2c' = s2c,
         \A d \in Clients : file'[d] = file[d] /\ (fd' = d => fd = d),
         UNCHANGED <<clientVars, broken>>
  PROVE  Rest'
<1>1. ASSUME NEW d \in Clients PROVE AnswerOK(d)' /\ CloseAwaited(d)'
  BY ServerOthers, Distinct DEF IInv
<1> QED BY <1>1, Distinct DEF Rest, SessionOK

(* A receive that gets nothing, because the connection failed or the       *)
(* client left: nothing of the session is left.                            *)
LEMMA DeadReceive ==
  ASSUME IInv, cur \in Clients, AtEof(cur) \/ Stale(cur), s2c' = s2c, file'[cur] = file[cur],
         cur' = cur, UNCHANGED <<clientVars, left, broken>>, fd' = cur => fd = cur
  PROVE  SessionOK' /\ AnswerOK(cur)' /\ CloseAwaited(cur)'
<1>1. PICK a \in 0 .. Total : Session(cur, a)
  BY Distinct DEF IInv, SessionOK
<1>2. c2s' = c2s /\ ~Live(cur) /\ (cur \in broken \/ <<"client", cur>> \in left)
  BY DEF AtEof, Stale, Live
<1>3. Session(cur, a)'
  BY <1>1, <1>2 DEF Session, Stream, Live, Total, Item
<1>4. AnswerOK(cur)' /\ (Wrote(cur)' <=> Wrote(cur))
  BY DEF IInv, AnswerOK, Wrote, clientVars, OK
<1>5. CloseAwaited(cur)'
  BY <1>2, <1>4 DEF IInv, ClientOK, CloseAwaited
<1> QED BY <1>3, <1>4, <1>5 DEF SessionOK, Total

(* The steps of the server.                                                *)
LEMMA AcceptRest == ASSUME IInv, NEW c \in Clients, Accept(c) PROVE Rest'
<1>1. TypeOK /\ ClientOK(c) /\ cpc[c] = "waiting"
  BY DEF IInv, Accept
<1>2. /\ cur' = c /\ spc' = "hdr" /\ cpc' = [cpc EXCEPT ![c] = "open"]
      /\ UNCHANGED <<fd, file, ret, c2s, s2c, left, broken>>
  BY DEF Accept
<1>3. Session(c, 0)'
  <2>1. Stream(c, 0)'
    BY <1>1, <1>2, EmptySeq, ItemAt DEF ClientOK, Stream
  <2>2. ServerAt(c, 0)' /\ cpc'[c] = "open" /\ Len(c2s'[c]) = 0
    BY <1>1, <1>2, EmptySeq DEF ClientOK, ServerAt, TypeOK
  <2>3. 0 + Len(c2s'[c]) = 0
    BY <2>2
  <2>4. ClientAt(c, 0 + Len(c2s[c]))'
    BY <2>2, <2>3 DEF ClientAt
  <2>5. Link(c, 0)'
    BY <1>1, <1>2, <2>2, ItemAt, Distinct DEF ClientOK, Link
  <2> QED BY <2>1, <2>2, <2>4, <2>5 DEF Session
<1>4. SessionOK'
  BY <1>2, <1>3, ItemAt DEF SessionOK
<1>5. ASSUME NEW d \in Clients PROVE AnswerOK(d)' /\ CloseAwaited(d)'
  <2>1. CASE d = c
    BY <1>1, <1>2, <2>1, EmptySeq DEF ClientOK, AnswerOK, CloseAwaited, Wrote, Ending, Sending, TypeOK
  <2>2. CASE d # c
    BY <1>2, <2>2 DEF Accept, IInv, AnswerOK, CloseAwaited, Wrote, OK, TypeOK
  <2> QED BY <2>1, <2>2
<1> QED BY <1>4, <1>5 DEF Rest

LEMMA AcceptFailsRest == ASSUME IInv, NEW c \in Clients, AcceptFails(c) PROVE Rest'
<1>1. /\ TypeOK /\ spc = "accept" /\ cur' = Invalid /\ broken' = broken \cup {Invalid}
      /\ UNCHANGED <<fd, file, ret, s2c>>
      /\ \/ cpc[c] = "gone" /\ cpc' = [cpc EXCEPT ![c] = "failed"]
         \/ cpc[c] = "waiting" /\ cpc' = [cpc EXCEPT ![c] = "refused"]
  BY DEF IInv, AcceptFails
<1>2. SessionOK'
  BY <1>1, Distinct DEF SessionOK
<1>3. ASSUME NEW d \in Clients PROVE AnswerOK(d)' /\ CloseAwaited(d)'
  <2>1. AnswerOK(d) /\ CloseAwaited(d) /\ (d \in broken' <=> d \in broken)
    BY <1>1, Distinct DEF IInv
  <2>2. CASE d = c
    <3>1. cpc'[c] \in {"failed", "refused"}
      BY <1>1 DEF TypeOK
    <3> QED BY <1>1, <2>1, <2>2, <3>1 DEF AnswerOK, CloseAwaited, Wrote, Sending, Ending, OK
  <2>3. CASE d # c
    <3>1. cpc'[d] = cpc[d]
      BY <1>1, <2>3 DEF TypeOK
    <3> QED BY <1>1, <2>1, <3>1 DEF AnswerOK, CloseAwaited, Wrote, OK
  <2> QED BY <2>2, <2>3
<1> QED BY <1>2, <1>3 DEF Rest

LEMMA EndSessionRest == ASSUME IInv, EndSession PROVE Rest'
  BY Distinct DEF IInv, EndSession, Rest, SessionOK, AnswerOK, CloseAwaited, Wrote, OK, clientVars

LEMMA RecvHdrEofRest == ASSUME IInv, RecvHdrEof PROVE Rest'
<1>1. cur \in Clients
  BY CurIsSocket, InvalidIsStale, IInvParts DEF RecvHdrEof
<1>2. AtEof(cur) /\ UNCHANGED <<cur, fd, file, clientVars, s2c, left, broken>>
  BY DEF RecvHdrEof
<1>3. SessionOK' /\ AnswerOK(cur)' /\ CloseAwaited(cur)'
  BY <1>1, <1>2, DeadReceive
<1>4. ASSUME NEW d \in Clients, d # cur PROVE AnswerOK(d)' /\ CloseAwaited(d)'
  BY <1>2, <1>4, ServerOthers DEF IInv
<1> QED BY <1>2, <1>3, <1>4 DEF Rest

(* What remains after the server took an item: its own side, if the stream *)
(* can still give something, and the client's.                             *)
LEMMA SessionAfter ==
  ASSUME TypeOK, NEW c \in Clients, NEW a \in 0 .. Total, Session(c, a), NEW item, Takes(c, item),
         cur' = c, UNCHANGED <<clientVars, left, broken>>,
         ServerAt(c, a + 1)',
         c \notin broken /\ <<"client", c>> \notin left => Link(c, a + 1)'
  PROVE  SessionOK'
<1>1. /\ a + 1 \in 0 .. Total /\ Stream(c, a + 1)'
      /\ (a + 1) + Len(c2s'[c]) = a + Len(c2s[c])
  BY SessionTakes DEF Session
<1>2. c \notin broken /\ <<"client", c>> \notin left => ClientAt(c, (a + 1) + Len(c2s[c]))'
  BY <1>1 DEF Session, ClientAt, clientVars
<1>3. Session(c, a + 1)'
  BY <1>1, <1>2 DEF Session
<1> QED BY <1>1, <1>3 DEF SessionOK, Total

LEMMA OpenTaken ==
  ASSUME IInv, NEW c \in Clients, cur = c, spc = "hdr", Takes(c, "OPEN"), StartOpen(c),
         UNCHANGED <<cur, file, got, clientVars, left, broken>>
  PROVE  SessionOK' /\ AnswerOK(c)' /\ CloseAwaited(c)'
<1>1. TypeOK /\ ClientOK(c) /\ AnswerOK(c) /\ CloseAwaited(c)
  BY DEF IInv
<1>2. PICK a \in 0 .. Total : Session(c, a)
  BY Distinct DEF IInv, SessionOK
<1>3. a + Len(c2s[c]) \in a + 1 .. Total /\ a + 1 \in 0 .. Total /\ "OPEN" = Item(a + 1) /\ Live(c)
  BY <1>1, <1>2, SessionTakes DEF Session
<1>4. a = 0 /\ file[c] = {}
  BY <1>2, <1>3, ItemAt, Distinct DEF Session, ServerAt
<1>5. \/ spc' = "end"
      \/ spc' = "path" /\ s2c' = s2c
  BY DEF StartOpen
<1>6. Quiet(c) /\ fd' = fd
  BY <1>1, RespondQuiet DEF StartOpen, Quiet, Commands
<1>7. c \notin broken => ~Wrote(c)
  BY <1>1, <1>4, NotWritten, ItemAt
<1>8. AnswerOK(c)' /\ CloseAwaited(c)'
  BY <1>1, <1>6, <1>7, QuietKeeps DEF CloseAwaited, clientVars
<1>9. ServerAt(c, a + 1)'
  BY <1>4, <1>5 DEF ServerAt
<1>10. c \notin broken /\ <<"client", c>> \notin left => Link(c, a + 1)'
  <2>1. SUFFICES ASSUME c \notin broken, <<"client", c>> \notin left, spc' = "path", s2c' = s2c
                 PROVE  Link(c, a + 1)'
    BY <1>4, <1>5, Distinct DEF Link, Total
  <2>2. Link(c, 0) /\ c2s[c] # <<>>
    BY <1>2, <1>4, <2>1 DEF Session, Takes
  <2> QED BY <1>4, <2>1, <2>2, Distinct DEF Link, Total, clientVars
<1>11. SessionOK'
  BY <1>1, <1>2, <1>9, <1>10, SessionAfter
<1> QED BY <1>8, <1>11

LEMMA WriteTaken ==
  ASSUME IInv, NEW c \in Clients, cur = c, spc = "hdr", Takes(c, "WRITE"), StartWrite(c),
         UNCHANGED <<cur, file, got, clientVars, left, broken>>
  PROVE  SessionOK' /\ AnswerOK(c)' /\ CloseAwaited(c)'
<1>1. TypeOK /\ ClientOK(c) /\ AnswerOK(c) /\ CloseAwaited(c)
  BY DEF IInv
<1>2. PICK a \in 0 .. Total : Session(c, a)
  BY Distinct DEF IInv, SessionOK
<1>3. a + Len(c2s[c]) \in a + 1 .. Total /\ a + 1 \in 0 .. Total /\ "WRITE" = Item(a + 1) /\ Live(c)
  BY <1>1, <1>2, SessionTakes DEF Session
<1>4. a = 2 /\ file[c] = {} /\ fd = c
  BY <1>2, <1>3, ItemAt, Distinct DEF Session, ServerAt
<1>5. spc' = "size" /\ s2c' = s2c /\ fd' = fd
  BY <1>4, Distinct DEF StartWrite
<1>6. Quiet(c)
  BY <1>5 DEF Quiet
<1>7. c \notin broken => ~Wrote(c)
  BY <1>1, <1>4, NotWritten, ItemAt
<1>8. AnswerOK(c)' /\ CloseAwaited(c)'
  BY <1>1, <1>6, <1>7, QuietKeeps DEF CloseAwaited, clientVars
<1>9. ServerAt(c, a + 1)'
  BY <1>4, <1>5 DEF ServerAt
<1>10. c \notin broken /\ <<"client", c>> \notin left => Link(c, a + 1)'
  BY <1>2, <1>4, <1>5, Distinct DEF Link, Total, clientVars, Session, OK
<1>11. SessionOK'
  BY <1>1, <1>2, <1>9, <1>10, SessionAfter
<1> QED BY <1>8, <1>11

LEMMA CloseTaken ==
  ASSUME IInv, NEW c \in Clients, cur = c, spc = "hdr", Takes(c, "CLOSE"), ServerClose(c),
         UNCHANGED <<cur, file, got, clientVars, left, broken>>
  PROVE  SessionOK' /\ AnswerOK(c)' /\ CloseAwaited(c)'
<1>1. TypeOK /\ ClientOK(c) /\ AnswerOK(c) /\ CloseAwaited(c)
  BY DEF IInv
<1>2. PICK a \in 0 .. Total : Session(c, a)
  BY Distinct DEF IInv, SessionOK
<1>3. a + Len(c2s[c]) \in a + 1 .. Total /\ a + 1 \in 0 .. Total /\ "CLOSE" = Item(a + 1) /\ Live(c)
  BY <1>1, <1>2, SessionTakes DEF Session
<1>4. a = Chunks + 4 /\ file[c] = 1 .. Chunks /\ fd = c
  BY <1>2, <1>3, ItemAt, Distinct DEF Session, ServerAt
<1>5. spc' = "hdr" /\ fd' = Null
  BY <1>4, Distinct DEF ServerClose
<1>6. Quiet(c) /\ Respond(c, "CLOSE", TRUE)
  BY <1>1, RespondQuiet DEF ServerClose, Commands
<1>7. AnswerOK(c)' /\ CloseAwaited(c)'
  BY <1>1, <1>5, <1>6, QuietKeeps, Distinct DEF CloseAwaited, clientVars
<1>8. ServerAt(c, a + 1)'
  BY <1>4, <1>5, ItemAt, Distinct DEF ServerAt
<1>9. c \notin broken /\ <<"client", c>> \notin left => Link(c, a + 1)'
  <2>1. SUFFICES ASSUME c \notin broken, <<"client", c>> \notin left PROVE Link(c, a + 1)'
    OBVIOUS
  <2>2. ClientAt(c, a + Len(c2s[c])) /\ Link(c, a)
    BY <1>2, <2>1 DEF Session
  <2>3. a + Len(c2s[c]) = Chunks + 5
    <3>1. \A n \in a + 1 .. Total : n = Chunks + 5
      BY <1>4, ItemAt, Distinct
    <3> QED BY <1>3, <3>1
  <2>4. cpc[c] \notin {"write_resp", "close"}
    BY <2>2, <2>3, Distinct DEF ClientAt
  <2>5. cpc[c] = "close_resp" /\ s2c[c] = <<>>
    BY <1>4, <2>2, <2>4, Distinct DEF Link
  <2>6. s2c'[c] = <<OK("CLOSE")>>
    <3>1. s2c'[c] = Append(s2c[c], OK("CLOSE"))
      BY <1>1, <1>6, <2>1, RespondFacts DEF OK, Commands
    <3> QED BY <2>5, <3>1, Singleton
  <2> QED BY <1>4, <1>5, <2>5, <2>6, ItemAt, Distinct DEF Link, clientVars, OK
<1>10. SessionOK'
  BY <1>1, <1>2, <1>8, <1>9, SessionAfter
<1> QED BY <1>7, <1>10

LEMMA RecvHdrRest == ASSUME IInv, RecvHdr PROVE Rest'
<1>1. CASE cur = Invalid
  <2>1. PICK cmd \in Commands \cup {Bad} : Stale(cur) /\ Process(cur, cmd)
    BY <1>1, InvalidIsStale, IInvParts DEF RecvHdr
  <2>2. s2c' = s2c /\ (fd' = fd \/ fd' = Null)
    BY <2>1 DEF Process, StartOpen, StartWrite, ServerClose, BadCommand, Respond, Stale
  <2> QED BY <1>1, <2>2, InvalidRest, Distinct DEF RecvHdr
<1>2. CASE cur # Invalid
  <2>1. PICK c \in Clients : c = cur /\ cur' = c
    BY <1>2, CurIsSocket, IInvParts DEF RecvHdr
  <2>2. PICK cmd \in Commands \cup {Bad} :
          /\ \/ cmd \in Commands /\ Takes(c, cmd)
             \/ cmd \in StaleHeaders /\ Stale(c)
          /\ msg' = cmd
          /\ Process(c, cmd)
    BY <2>1 DEF RecvHdr
  <2>3. TypeOK /\ BaseInv /\ spc = "hdr" /\ UNCHANGED <<cur, file, got, clientVars, left, broken>>
    BY IInvParts DEF RecvHdr, IInv
  <2>4. /\ \A d \in Sockets \ {c} : s2c'[d] = s2c[d]
        /\ fd' = fd \/ fd' = Null
    <3>1. c2s'[Invalid] = <<>>
      BY <2>1, <2>2, <2>3, InvalidEmpty
    <3> QED BY <2>1, <2>2, <2>3, <3>1, ProcessBase
  <2>5. ASSUME NEW d \in Clients, d # cur PROVE AnswerOK(d)' /\ CloseAwaited(d)'
    BY <2>1, <2>3, <2>4, <2>5, ServerOthers, Distinct DEF IInv
  <2>6. CASE Stale(c)
    <3>1. s2c' = s2c
      BY <2>2, <2>6 DEF Process, StartOpen, StartWrite, ServerClose, BadCommand, Respond, Stale
    <3> QED BY <2>1, <2>3, <2>4, <2>5, <2>6, <3>1, DeadReceive, Distinct DEF Rest
  <2>7. CASE cmd \in Commands /\ Takes(c, cmd)
    <3>1. SessionOK' /\ AnswerOK(c)' /\ CloseAwaited(c)'
      BY <2>1, <2>2, <2>3, <2>7, OpenTaken, WriteTaken, CloseTaken DEF Process, Commands, Bad
    <3> QED BY <2>1, <2>5, <3>1 DEF Rest
  <2> QED BY <2>2, <2>6, <2>7
<1> QED BY <1>1, <1>2

LEMMA PathTaken ==
  ASSUME IInv, NEW c \in Clients, cur = c, spc = "path", Takes(c, "PATH"), OpenFile(c) \/ OpenFails,
         UNCHANGED <<cur, file_addr, got, clientVars, left, broken>>
  PROVE  SessionOK' /\ AnswerOK(c)' /\ CloseAwaited(c)'
<1>1. TypeOK /\ ClientOK(c) /\ AnswerOK(c) /\ CloseAwaited(c)
  BY DEF IInv
<1>2. PICK a \in 0 .. Total : Session(c, a)
  BY Distinct DEF IInv, SessionOK
<1>3. a + Len(c2s[c]) \in a + 1 .. Total /\ Live(c)
  BY <1>1, <1>2, SessionTakes DEF Session
<1>4. a = 1 /\ file[c] = {}
  BY <1>2, <1>3 DEF Session, ServerAt
<1>5. /\ file'[c] = file[c]
      /\ \/ spc' = "end" /\ fd' = Bad
         \/ spc' = "hdr" /\ fd' = c /\ Respond(c, "OPEN", TRUE)
  BY <1>1, <1>4, Distinct DEF OpenFile, OpenFails, TypeOK
<1>6. Quiet(c)
  BY <1>1, RespondQuiet DEF OpenFile, OpenFails, Commands
<1>7. c \notin broken => ~Wrote(c)
  BY <1>1, <1>4, NotWritten, ItemAt
<1>8. AnswerOK(c)' /\ CloseAwaited(c)'
  BY <1>1, <1>5, <1>6, <1>7, QuietKeeps, Distinct DEF CloseAwaited, clientVars
<1>9. ServerAt(c, a + 1)'
  <2>1. a + 1 = 2 /\ file'[c] = {}
    BY <1>4, <1>5
  <2> QED BY <1>5, <2>1 DEF ServerAt
<1>10. c \notin broken /\ <<"client", c>> \notin left => Link(c, a + 1)'
  <2>1. SUFFICES ASSUME c \notin broken, <<"client", c>> \notin left, spc' = "hdr",
                        Respond(c, "OPEN", TRUE)
                 PROVE  Link(c, a + 1)'
    BY <1>4, <1>5, Distinct DEF Link, Total
  <2>2. Link(c, 1) /\ ClientAt(c, a + Len(c2s[c]))
    BY <1>2, <1>4, <2>1 DEF Session
  <2>3. cpc[c] \in {"open", "open_resp"} /\ s2c[c] = <<>>
    BY <1>4, <2>2 DEF Link
  <2>4. cpc[c] = "open_resp"
    <3>1. \A n \in a + 1 .. Total : n # 0
      BY <1>4, ItemAt
    <3> QED BY <1>3, <2>2, <2>3, <3>1 DEF ClientAt
  <2>5. s2c'[c] = <<OK("OPEN")>>
    <3>1. s2c'[c] = Append(s2c[c], OK("OPEN"))
      BY <1>1, <2>1, RespondFacts DEF OK, Commands
    <3> QED BY <2>3, <3>1, Singleton
  <2> QED BY <1>4, <2>1, <2>4, <2>5, ItemAt, Distinct DEF Link, clientVars, OK
<1>11. SessionOK'
  BY <1>1, <1>2, <1>9, <1>10, SessionAfter
<1> QED BY <1>8, <1>11

LEMMA RecvPathRest == ASSUME IInv, RecvPath PROVE Rest'
<1>1. CASE cur = Invalid
  <2>1. /\ TypeOK /\ Stale(cur) /\ (OpenFile(Garbage) \/ OpenFails)
        /\ UNCHANGED <<cur, clientVars, broken>>
    BY <1>1, InvalidIsStale, IInvParts DEF RecvPath, IInv
  <2>2. s2c' = s2c /\ fd' \in {Bad, Garbage} /\ \A d \in Clients : file'[d] = file[d]
    BY <2>1, Distinct DEF OpenFile, OpenFails, Respond, Stale, TypeOK
  <2> QED BY <1>1, <2>1, <2>2, InvalidRest, Distinct
<1>2. CASE cur # Invalid
  <2>1. PICK c \in Clients : c = cur /\ cur' = c
    BY <1>2, CurIsSocket, IInvParts DEF RecvPath
  <2>2. /\ TypeOK /\ spc = "path"
        /\ UNCHANGED <<cur, file_addr, got, clientVars, left, broken>>
        /\ \/ Takes(c, "PATH") /\ (OpenFile(c) \/ OpenFails)
           \/ Stale(c) /\ (OpenFile(Garbage) \/ OpenFails)
           \/ AtEof(c) /\ Respond(c, "OPEN", TRUE) /\ UNCHANGED <<fd, file>>
    BY <2>1 DEF RecvPath, IInv
  <2>3. fd \notin Clients
    BY <2>2, Distinct DEF IInv, ServerOK
  <2>4. \A d \in Sockets \ {c} : s2c'[d] = s2c[d]
    BY <2>1, <2>2, RespondFacts DEF OpenFile, OpenFails, Commands
  <2>5. /\ \A d \in Clients \ {c} : file'[d] = file[d]
        /\ fd' \in {fd, Bad, Garbage, c}
    BY <2>2, Distinct DEF OpenFile, OpenFails, TypeOK
  <2>6. ASSUME NEW d \in Clients, d # cur PROVE AnswerOK(d)' /\ CloseAwaited(d)'
    BY <2>1, <2>2, <2>4, <2>5, <2>6, ServerOthers, Distinct DEF IInv
  <2>7. CASE Takes(c, "PATH") /\ (OpenFile(c) \/ OpenFails)
    BY <2>1, <2>2, <2>6, <2>7, PathTaken DEF Rest
  <2>8. CASE /\ AtEof(c) \/ Stale(c)
             /\ \/ OpenFile(Garbage) \/ OpenFails
                \/ Respond(c, "OPEN", TRUE) /\ UNCHANGED <<fd, file>>
    <3>1. s2c' = s2c /\ file'[c] = file[c] /\ fd' # c
      BY <2>1, <2>2, <2>3, <2>8, Distinct DEF OpenFile, OpenFails, Respond, AtEof, Stale, TypeOK
    <3> QED BY <2>1, <2>2, <2>6, <2>8, <3>1, DeadReceive DEF Rest
  <2> QED BY <2>2, <2>7, <2>8
<1> QED BY <1>1, <1>2

LEMMA SizeTaken ==
  ASSUME IInv, NEW c \in Clients, cur = c, spc = "size", Takes(c, "SIZE"), MapFile \/ MapFails,
         UNCHANGED <<cur, fd, file, clientVars, left, broken>>
  PROVE  SessionOK' /\ AnswerOK(c)' /\ CloseAwaited(c)'
<1>1. TypeOK /\ ClientOK(c) /\ AnswerOK(c) /\ CloseAwaited(c)
  BY DEF IInv
<1>2. PICK a \in 0 .. Total : Session(c, a)
  BY Distinct DEF IInv, SessionOK
<1>3. a + Len(c2s[c]) \in a + 1 .. Total /\ Live(c)
  BY <1>1, <1>2, SessionTakes DEF Session
<1>4. a = 3 /\ file[c] = {} /\ fd = c
  BY <1>2, <1>3 DEF Session, ServerAt
<1>5. \/ spc' = "end"
      \/ spc' = "data" /\ got' = 0 /\ s2c' = s2c
  BY <1>1, <1>4 DEF MapFile, MapFails
<1>6. Quiet(c)
  BY <1>1, <1>4, RespondQuiet DEF MapFile, MapFails, Commands, Quiet
<1>7. c \notin broken => ~Wrote(c)
  BY <1>1, <1>4, NotWritten, ItemAt
<1>8. AnswerOK(c)' /\ CloseAwaited(c)'
  BY <1>1, <1>6, <1>7, QuietKeeps DEF CloseAwaited, clientVars
<1>9. ServerAt(c, a + 1)'
  <2>1. a + 1 = 4 /\ 4 = 0 + 4 /\ 1 .. 0 = {}
    BY <1>4
  <2> QED BY <1>4, <1>5, <2>1 DEF ServerAt
<1>10. c \notin broken /\ <<"client", c>> \notin left => Link(c, a + 1)'
  <2>1. SUFFICES ASSUME c \notin broken, <<"client", c>> \notin left, spc' = "data", s2c' = s2c
                 PROVE  Link(c, a + 1)'
    BY <1>4, <1>5, Distinct DEF Link, Total
  <2>2. Link(c, 3) /\ 3 \in 2 .. Chunks + 3 /\ 4 \in 2 .. Chunks + 3
    BY <1>2, <1>4, <2>1, Distinct DEF Session
  <2> QED BY <1>4, <2>1, <2>2 DEF Link, Total, clientVars, OK
<1>11. SessionOK'
  BY <1>1, <1>2, <1>9, <1>10, SessionAfter
<1> QED BY <1>8, <1>11

LEMMA RecvSizeRest == ASSUME IInv, RecvSize PROVE Rest'
<1>1. CASE cur = Invalid
  <2>1. Stale(cur) /\ (MapFile \/ MapFails) /\ UNCHANGED <<cur, fd, file, clientVars, broken>>
    BY <1>1, InvalidIsStale, IInvParts DEF RecvSize
  <2>2. s2c' = s2c
    BY <2>1 DEF MapFile, MapFails, Respond, Stale
  <2> QED BY <1>1, <2>1, <2>2, InvalidRest
<1>2. CASE cur # Invalid
  <2>1. PICK c \in Clients : c = cur /\ cur' = c
    BY <1>2, CurIsSocket, IInvParts DEF RecvSize
  <2>2. /\ TypeOK /\ spc = "size"
        /\ UNCHANGED <<cur, fd, file, clientVars, left, broken>>
        /\ \/ Takes(c, "SIZE") /\ (MapFile \/ MapFails)
           \/ (Stale(c) \/ AtEof(c)) /\ (UNCHANGED s2c \/ \E ok \in BOOLEAN : Respond(c, "WRITE", ok))
    BY <2>1 DEF RecvSize, IInv, MapFile, MapFails
  <2>3. \A d \in Sockets \ {c} : s2c'[d] = s2c[d]
    <3>1. UNCHANGED s2c \/ \E ok \in BOOLEAN : Respond(c, "WRITE", ok)
      BY <2>1, <2>2 DEF MapFile, MapFails
    <3> QED BY <2>2, <3>1, RespondFacts DEF Commands
  <2>4. ASSUME NEW d \in Clients, d # cur PROVE AnswerOK(d)' /\ CloseAwaited(d)'
    BY <2>1, <2>2, <2>3, <2>4, ServerOthers DEF IInv
  <2>5. CASE Takes(c, "SIZE") /\ (MapFile \/ MapFails)
    BY <2>1, <2>2, <2>4, <2>5, SizeTaken DEF Rest
  <2>6. CASE AtEof(c) \/ Stale(c)
    <3>1. s2c' = s2c
      BY <2>2, <2>6 DEF Respond, AtEof, Stale, Takes
    <3> QED BY <2>1, <2>2, <2>4, <2>6, <3>1, DeadReceive DEF Rest
  <2> QED BY <2>2, <2>5, <2>6
<1> QED BY <1>1, <1>2

LEMMA DataTaken ==
  ASSUME IInv, NEW c \in Clients, cur = c, spc = "data", Takes(c, "DATA"),
         file' = [file EXCEPT ![file_addr] = @ \cup {got + 1}],
         got' = got + 1,
         IF AllData THEN Respond(c, "WRITE", TRUE) /\ spc' = "hdr" ELSE UNCHANGED <<s2c, spc>>,
         UNCHANGED <<cur, fd, clientVars, left, broken>>
  PROVE  SessionOK' /\ AnswerOK(c)' /\ CloseAwaited(c)'
<1>1. TypeOK /\ ClientOK(c) /\ AnswerOK(c) /\ CloseAwaited(c)
  BY DEF IInv
<1>2. PICK a \in 0 .. Total : Session(c, a)
  BY Distinct DEF IInv, SessionOK
<1>3. a + Len(c2s[c]) \in a + 1 .. Total /\ Live(c)
  BY <1>1, <1>2, SessionTakes DEF Session
<1>4. a = got + 4 /\ file[c] = 1 .. got /\ fd = c /\ got \in 0 .. Chunks - 1 /\ file_addr = c
  BY <1>1, <1>2, <1>3, Distinct DEF Session, ServerAt, IInv, ServerOK, TypeOK
<1>5. file'[c] = 1 .. got' /\ got' = got + 1 /\ got' \in 1 .. Chunks
  <2>1. file'[c] = (1 .. got) \cup {got + 1}
    BY <1>1, <1>4, Distinct DEF TypeOK
  <2>2. got + 1 \in 1 .. Chunks /\ (1 .. got) \cup {got + 1} = 1 .. (got + 1)
    BY <1>4, Distinct
  <2> QED BY <2>1, <2>2
<1>6. file[c] # 1 .. Chunks
  <2>1. Chunks \in 1 .. Chunks /\ Chunks \notin 1 .. got
    BY <1>4, Distinct
  <2> QED BY <1>4, <2>1
<1>7. c \notin broken => ~Wrote(c)
  BY <1>1, <1>6, NotWritten
<1>8. ASSUME NEW i \in 1 .. Len(s2c[c]) PROVE s2c[c][i] # OK("WRITE")
  BY <1>1, <1>6 DEF AnswerOK
<1>9. ServerAt(c, a + 1)'
  <2>1. a + 1 = got' + 4
    BY <1>4, <1>5
  <2>2. CASE AllData
    BY <1>4, <1>5, <2>1, <2>2 DEF ServerAt, AllData
  <2>3. CASE ~AllData
    BY <1>4, <1>5, <2>1, <2>3 DEF ServerAt
  <2> QED BY <2>2, <2>3
<1>10. ASSUME c \notin broken, <<"client", c>> \notin left
       PROVE  /\ Link(c, a)
              /\ ~AllData => Link(c, a + 1)'
              /\ AllData => cpc[c] = "write_resp" /\ s2c[c] = <<>>
  <2>1. Link(c, a) /\ ClientAt(c, a + Len(c2s[c]))
    BY <1>2, <1>10 DEF Session
  <2>2. \/ cpc[c] = "open_resp" /\ s2c[c] = <<OK("OPEN")>>
        \/ cpc[c] \in {"write", "data", "write_resp"} /\ s2c[c] = <<>>
    BY <1>4, <2>1, Distinct DEF Link
  <2>3. ASSUME ~AllData PROVE Link(c, a + 1)'
    <3>1. a + 1 \in 2 .. Chunks + 3
      BY <1>4, <2>3, Distinct DEF AllData
    <3>2. UNCHANGED <<cpc, s2c, ret>>
      BY <2>3 DEF clientVars
    <3> QED BY <2>2, <3>1, <3>2, Distinct DEF Link, OK, Total
  <2>4. ASSUME AllData PROVE cpc[c] = "write_resp"
    <3>1. \A n \in a + 1 .. Total : n # 2 /\ n >= Chunks + 4
      BY <1>4, <2>4, ItemAt, Distinct DEF AllData
    <3>2. cpc[c] # "data"
      <4>1. cpc[c] = "data" => sent[c] < Chunks /\ sent[c] \in Nat
        BY <1>1, Distinct DEF ClientOK, TypeOK
      <4>2. \A n \in Nat : n < Chunks => ~(n + 4 >= Chunks + 4)
        BY Distinct
      <4> QED BY <1>3, <2>1, <3>1, <4>1, <4>2 DEF ClientAt
    <3> QED BY <1>3, <2>1, <2>2, <3>1, <3>2 DEF ClientAt
  <2> QED BY <2>1, <2>2, <2>3, <2>4
<1>11. AnswerOK(c)' /\ CloseAwaited(c)'
  <2>1. CASE ~AllData
    BY <1>1, <1>7, <1>8, <2>1 DEF AnswerOK, CloseAwaited, Wrote, clientVars, OK
  <2>2. CASE AllData /\ (c \in broken \/ <<"client", c>> \in left)
    <3>1. s2c' = s2c
      BY <2>2 DEF Respond
    <3> QED BY <1>1, <1>7, <1>8, <3>1 DEF AnswerOK, CloseAwaited, Wrote, clientVars, OK
  <2>3. CASE AllData /\ c \notin broken /\ <<"client", c>> \notin left
    <3>1. cpc[c] = "write_resp" /\ file'[c] = 1 .. Chunks /\ spc' = "hdr"
      BY <1>5, <1>10, <2>3 DEF AllData
    <3> QED BY <3>1 DEF AnswerOK, CloseAwaited, Sending, Ending, clientVars
  <2> QED BY <2>1, <2>2, <2>3
<1>12. c \notin broken /\ <<"client", c>> \notin left => Link(c, a + 1)'
  <2>1. SUFFICES ASSUME c \notin broken, <<"client", c>> \notin left, AllData
                 PROVE  Link(c, a + 1)'
    BY <1>10
  <2>2. s2c'[c] = <<OK("WRITE")>>
    <3>1. s2c'[c] = Append(s2c[c], OK("WRITE"))
      BY <1>1, <2>1, RespondFacts DEF OK, Commands
    <3> QED BY <1>10, <2>1, <3>1, Singleton
  <2>3. cpc'[c] = "write_resp" /\ a + 1 = Chunks + 4
    BY <1>4, <1>10, <2>1, Distinct DEF clientVars, AllData
  <2> QED BY <2>2, <2>3, ItemAt, Distinct DEF Link, OK
<1>13. SessionOK'
  BY <1>1, <1>2, <1>9, <1>12, SessionAfter
<1> QED BY <1>11, <1>13

LEMMA RecvDataRest == ASSUME IInv, RecvData PROVE Rest'
<1>1. CASE cur = Invalid
  <2>1. /\ Stale(cur) /\ Respond(cur, "WRITE", TRUE)
        /\ UNCHANGED <<cur, fd, file, clientVars, broken>>
    BY <1>1, InvalidIsStale, IInvParts DEF RecvData
  <2>2. s2c' = s2c
    BY <2>1 DEF Respond, Stale
  <2> QED BY <1>1, <2>1, <2>2, InvalidRest
<1>2. CASE cur # Invalid
  <2>1. PICK c \in Clients : c = cur /\ cur' = c
    BY <1>2, CurIsSocket, IInvParts DEF RecvData
  <2>2. /\ TypeOK /\ spc = "data" /\ file_addr = fd /\ fd \in Files
        /\ UNCHANGED <<cur, fd, clientVars, left, broken>>
    BY <2>1 DEF RecvData, IInv, ServerOK
  <2>3. CASE /\ Takes(c, "DATA")
             /\ file' = [file EXCEPT ![file_addr] = @ \cup {got + 1}]
             /\ got' = got + 1
             /\ IF AllData THEN Respond(c, "WRITE", TRUE) /\ spc' = "hdr"
                           ELSE UNCHANGED <<s2c, spc>>
    <3>1. SessionOK' /\ AnswerOK(c)' /\ CloseAwaited(c)'
      BY <2>1, <2>2, <2>3, DataTaken
    <3>2. fd = c
      <4>1. PICK a \in 0 .. Total : Session(c, a)
        BY <2>1, Distinct DEF IInv, SessionOK
      <4> QED BY <2>2, <2>3, <4>1 DEF Session, ServerAt, Live, Takes
    <3>3. ASSUME NEW d \in Clients, d # cur PROVE AnswerOK(d)' /\ CloseAwaited(d)'
      <4>1. s2c'[d] = s2c[d]
        BY <2>1, <2>2, <2>3, <3>3, RespondFacts DEF Commands
      <4>2. file'[d] = file[d]
        BY <2>1, <2>2, <2>3, <3>2, <3>3 DEF TypeOK
      <4> QED BY <2>1, <2>2, <3>3, <4>1, <4>2, ServerOthers DEF IInv
    <3> QED BY <2>1, <3>1, <3>3 DEF Rest
  <2>4. CASE (AtEof(c) \/ Stale(c)) /\ Respond(c, "WRITE", TRUE) /\ UNCHANGED file
    <3>1. s2c' = s2c
      BY <2>4 DEF Respond, AtEof, Stale
    <3>2. ASSUME NEW d \in Clients, d # cur PROVE AnswerOK(d)' /\ CloseAwaited(d)'
      BY <2>1, <2>2, <2>4, <3>1, <3>2, ServerOthers DEF IInv
    <3> QED BY <2>1, <2>2, <2>4, <3>1, <3>2, DeadReceive DEF Rest
  <2> QED BY <2>1, <2>3, <2>4 DEF RecvData
<1> QED BY <1>1, <1>2

(* The steps of the clients.  A step of c does not touch the others.       *)
LEMMA ClientOthers ==
  ASSUME NEW c \in Clients, NEW d \in Clients, d # c, AnswerOK(d), CloseAwaited(d),
         UNCHANGED <<serverVars, broken>>, s2c'[d] = s2c[d], cpc'[d] = cpc[d], ret'[d] = ret[d]
  PROVE  AnswerOK(d)' /\ CloseAwaited(d)'
  BY DEF AnswerOK, CloseAwaited, Wrote, serverVars, OK

(* Nor does it touch the session, when c is not served ...                 *)
LEMMA SessionOfOther ==
  ASSUME SessionOK, NEW c \in Clients, c # cur,
         UNCHANGED <<serverVars, broken>>, \A d \in Clients \ {c} :
           /\ c2s'[d] = c2s[d] /\ s2c'[d] = s2c[d] /\ cpc'[d] = cpc[d] /\ sent'[d] = sent[d]
           /\ ret'[d] = ret[d] /\ (<<"client", d>> \in left' <=> <<"client", d>> \in left)
  PROVE  SessionOK'
<1>1. CASE cur \notin Clients
  BY <1>1 DEF SessionOK, serverVars
<1>2. CASE cur \in Clients
  <2>1. PICK a \in 0 .. Total : Session(cur, a)
    BY <1>2 DEF SessionOK
  <2>2. PICK d \in Clients \ {c} : d = cur /\ d = cur'
    BY <1>2 DEF serverVars
  <2>3. Session(d, a)'
    BY <2>1, <2>2, SessionKept
  <2> QED BY <2>2, <2>3 DEF SessionOK, Total
<1> QED BY <1>1, <1>2

(* ... or has only been given up: the connection is broken or the client   *)
(* has left.                                                               *)
LEMMA SessionDead ==
  ASSUME TypeOK, NEW c \in Clients, cur = c, SessionOK, UNCHANGED serverVars,
         UNCHANGED c2s \/ LosesTail(c),
         c \in broken' \/ <<"client", c>> \in left',
         broken \subseteq broken', left \subseteq left'
  PROVE  SessionOK'
<1>1. PICK a \in 0 .. Total : Session(c, a)
  BY Distinct DEF SessionOK
<1>2. Stream(c, a)' /\ (c2s'[c] # <<>> => c2s[c] # <<>>)
  BY <1>1, SessionLoses DEF Session, Stream, Total, Item
<1>3. Live(c)' => Live(c)
  BY <1>2 DEF Live
<1>4. Live(c)' => ServerAt(c, a)'
  BY <1>1, <1>3 DEF Session, ServerAt, serverVars, Total
<1>5. Session(c, a)'
  BY <1>2, <1>4 DEF Session
<1>6. cur' = c
  BY DEF serverVars
<1> QED BY <1>5, <1>6 DEF SessionOK, Total

LEMMA ConnectRest == ASSUME IInv, NEW c \in Clients, Connect(c) PROVE Rest'
<1>1. /\ TypeOK /\ ClientOK(c) /\ cpc[c] = "start" /\ cur # c /\ SessionOK
      /\ cpc'[c] \in {"waiting", "refused"}
      /\ UNCHANGED <<serverVars, sent, ret, c2s, s2c, left, broken>>
      /\ \A d \in Clients \ {c} : cpc'[d] = cpc[d]
  BY DEF IInv, Connect, ClientOK, TypeOK
<1>2. SessionOK'
  BY <1>1, SessionOfOther DEF TypeOK
<1>3. AnswerOK(c)' /\ CloseAwaited(c)'
  <2>1. s2c'[c] = <<>> /\ fd' # c
    BY <1>1 DEF ClientOK, serverVars
  <2>2. \A i \in 1 .. Len(s2c'[c]) : FALSE
    BY <2>1, EmptySeq
  <2> QED BY <1>1, <2>1, <2>2 DEF AnswerOK, CloseAwaited, Ending
<1>4. ASSUME NEW d \in Clients, d # c PROVE AnswerOK(d)' /\ CloseAwaited(d)'
  BY <1>1, <1>4, ClientOthers DEF IInv
<1> QED BY <1>2, <1>3, <1>4 DEF Rest

LEMMA CrashRest == ASSUME IInv, NEW c \in Clients, Crash(c) PROVE Rest'
<1>1. /\ TypeOK /\ AnswerOK(c) /\ SessionOK
      /\ cpc' = [cpc EXCEPT ![c] = IF @ = "waiting" THEN "gone" ELSE "failed"]
      /\ left' = left \cup {<<"client", c>>}
      /\ LosesTail(c)
      /\ UNCHANGED <<serverVars, sent, ret, s2c, broken>>
  BY DEF IInv, Crash
<1>2. \A d \in Sockets \ {c} : c2s'[d] = c2s[d] /\ cpc'[d] = cpc[d]
  BY <1>1, LosesFacts DEF TypeOK
<1>3. SessionOK'
  <2>1. CASE cur = c
    BY <1>1, <2>1, SessionDead
  <2>2. CASE cur # c
    BY <1>1, <1>2, <2>2, SessionOfOther DEF TypeOK
  <2> QED BY <2>1, <2>2
<1>4. AnswerOK(c)' /\ CloseAwaited(c)'
  <2>1. cpc'[c] \in {"gone", "failed"}
    BY <1>1 DEF TypeOK
  <2> QED BY <1>1, <2>1 DEF AnswerOK, CloseAwaited, Wrote, Sending, Ending, serverVars, OK
<1>5. ASSUME NEW d \in Clients, d # c PROVE AnswerOK(d)' /\ CloseAwaited(d)'
  BY <1>1, <1>2, <1>5, ClientOthers DEF IInv
<1> QED BY <1>3, <1>4, <1>5 DEF Rest

LEMMA BreakRest == ASSUME IInv, NEW c \in Clients, Break(c) PROVE Rest'
<1>1. /\ TypeOK /\ SessionOK /\ c = cur
      /\ broken' = broken \cup {c}
      /\ LosesTail(c)
      /\ UNCHANGED <<serverVars, clientVars, s2c, left>>
  BY DEF IInv, Break
<1>2. SessionOK'
  BY <1>1, SessionDead
<1>3. ASSUME NEW d \in Clients PROVE AnswerOK(d)' /\ CloseAwaited(d)'
  BY <1>1 DEF IInv, AnswerOK, CloseAwaited, Wrote, serverVars, clientVars, OK
<1> QED BY <1>2, <1>3 DEF Rest

LEMMA ClientEndsRest == ASSUME IInv, NEW c \in Clients, ClientEnds(c) PROVE Rest'
<1>1. /\ TypeOK /\ AnswerOK(c) /\ CloseAwaited(c) /\ SessionOK /\ cpc[c] = "shutdown"
      /\ cpc' = [cpc EXCEPT ![c] = IF ret[c] THEN "ok" ELSE "failed"]
      /\ left' = left \cup {<<"client", c>>}
      /\ UNCHANGED <<serverVars, sent, ret, c2s, s2c, broken>>
  BY DEF IInv, ClientEnds
<1>2. SessionOK'
  <2>1. CASE cur = c
    BY <1>1, <2>1, SessionDead
  <2>2. CASE cur # c
    BY <1>1, <2>2, SessionOfOther DEF TypeOK
  <2> QED BY <2>1, <2>2
<1>3. cpc'[c] = IF ret[c] THEN "ok" ELSE "failed"
  BY <1>1 DEF TypeOK
<1>4. AnswerOK(c)' /\ CloseAwaited(c)'
  BY <1>1, <1>3 DEF AnswerOK, CloseAwaited, Wrote, Sending, Ending, serverVars, OK
<1>5. ASSUME NEW d \in Clients, d # c PROVE AnswerOK(d)' /\ CloseAwaited(d)'
  <2>1. cpc'[d] = cpc[d]
    BY <1>1, <1>5 DEF TypeOK
  <2> QED BY <1>1, <1>5, <2>1, ClientOthers DEF IInv
<1> QED BY <1>2, <1>4, <1>5 DEF Rest

LEMMA NoAnswer ==
  ASSUME TypeOK, NEW c \in Clients, AnswerOK(c), cpc[c] \in Sending
  PROVE  /\ \A i \in 1 .. Len(s2c[c]) : s2c[c][i] # OK("WRITE")
         /\ s2c[c] # <<>> => Head(s2c[c]) # OK("WRITE")
<1>1. \A i \in 1 .. Len(s2c[c]) : s2c[c][i] # OK("WRITE")
  BY DEF AnswerOK
<1>2. s2c[c] # <<>> => 1 \in 1 .. Len(s2c[c]) /\ Head(s2c[c]) = s2c[c][1]
  BY EmptyStream
<1> QED BY <1>1, <1>2

(* The session of a client whose connection is up.                         *)
LEMMA UpSession ==
  ASSUME IInv, NEW c \in Clients, cpc[c] \notin {"start", "waiting", "gone", "refused", "ok", "failed"},
         c \notin broken, cur = c
  PROVE  /\ <<"client", c>> \notin left /\ <<"server", c>> \notin left
         /\ \E a \in 0 .. Total :
              /\ Session(c, a) /\ Live(c) /\ ServerAt(c, a)
              /\ ClientAt(c, a + Len(c2s[c])) /\ Link(c, a)
<1>1. <<"client", c>> \notin left /\ <<"server", c>> \notin left
  BY DEF IInv, ClientOK
<1>2. PICK a \in 0 .. Total : Session(c, a)
  BY Distinct DEF IInv, SessionOK
<1> QED BY <1>1, <1>2 DEF Session, Live

LEMMA SessionMoves ==
  ASSUME NEW c \in Clients, cur = c, NEW a \in 0 .. Total, Session(c, a), Live(c), UNCHANGED serverVars,
         Stream(c, a)', ClientAt(c, a + Len(c2s[c]))', Link(c, a)'
  PROVE  SessionOK'
<1>1. ServerAt(c, a)'
  BY DEF Session, ServerAt, serverVars, Total
<1>2. Session(c, a)'
  BY <1>1 DEF Session
<1> QED BY <1>2 DEF SessionOK, Total, serverVars

(* A client that gives up: its connection failed, the server left, or it   *)
(* could not open its own file.                                            *)
LEMMA GivesUpRest ==
  ASSUME IInv, NEW c \in Clients, NEW next, GivesUp(c, next),
         \/ cpc[c] = "open" /\ next = "shutdown"
         \/ ~Up(c) /\ cpc[c] \in {"write", "data"} /\ next = "close",
         UNCHANGED <<serverVars, sent, s2c, left, broken>>
  PROVE  Rest'
<1>1. /\ TypeOK /\ ClientOK(c) /\ AnswerOK(c) /\ SessionOK /\ c2s' = c2s
      /\ cpc'[c] = next /\ ret'[c] = FALSE
      /\ \A d \in Clients \ {c} : cpc'[d] = cpc[d] /\ ret'[d] = ret[d]
  BY DEF IInv, GivesUp, TypeOK
<1>2. SessionOK'
  <2>1. CASE cur = c /\ c \in broken
    BY <1>1, <2>1, SessionDead
  <2>2. CASE cur = c /\ c \notin broken
    <3>1. cpc[c] = "open" /\ next = "shutdown"
      BY <1>1, <2>2 DEF Up, ClientOK
    <3>2. PICK a \in 0 .. Total :
             Session(c, a) /\ Live(c) /\ ClientAt(c, a + Len(c2s[c])) /\ Link(c, a)
      BY <2>2, <3>1, UpSession
    <3>3. a + Len(c2s[c]) = 0
      BY <3>1, <3>2 DEF ClientAt
    <3>4. a = 0 /\ c2s[c] = <<>>
      <4>1. \A n \in Nat : a + n = 0 => a = 0 /\ n = 0
        BY ItemAt
      <4> QED BY <1>1, <3>3, <4>1, EmptyStream
    <3>5. Stream(c, a)'
      BY <1>1, <3>2 DEF Session, Stream, Total, Item
    <3>6. ClientAt(c, a + Len(c2s[c]))'
      BY <1>1, <3>1 DEF ClientAt
    <3>7. Link(c, a)'
      BY <1>1, <3>1, <3>2, <3>4, ItemAt, Distinct DEF Link, serverVars
    <3> QED BY <2>2, <3>2, <3>5, <3>6, <3>7, SessionMoves
  <2>3. CASE cur # c
    BY <1>1, <2>3, SessionOfOther DEF TypeOK
  <2> QED BY <2>1, <2>2, <2>3
<1>3. AnswerOK(c)' /\ CloseAwaited(c)'
  <2>1. \A i \in 1 .. Len(s2c[c]) : s2c[c][i] # OK("WRITE")
    BY <1>1, NoAnswer DEF Sending
  <2> QED BY <1>1, <2>1 DEF AnswerOK, CloseAwaited, Wrote, Ending, OK, serverVars
<1>4. ASSUME NEW d \in Clients, d # c PROVE AnswerOK(d)' /\ CloseAwaited(d)'
  BY <1>1, <1>4, ClientOthers DEF IInv
<1> QED BY <1>2, <1>3, <1>4 DEF Rest

(* A client that sends what the server expects next.                       *)
LEMMA SentRest ==
  ASSUME IInv, NEW c \in Clients, NEW items \in Seq(Items), NEW next, Send(c, items, next), cur = c,
         NEW a \in 0 .. Total, Session(c, a), Live(c),
         a + Len(c2s[c]) + Len(items) <= Total,
         \A j \in 1 .. Len(items) : items[j] = Item(a + Len(c2s[c]) + j),
         UNCHANGED <<serverVars, s2c, left, broken>>, \A d \in Clients \ {c} : sent'[d] = sent[d],
         \A b : b = a + Len(c2s[c]) + Len(items) => ClientAt(c, b)',
         Link(c, a)',
         \/ cpc[c] \in Sending /\ next \in Sending \cup {"write_resp"}
         \/ cpc[c] = "close" /\ next = "close_resp"
  PROVE  Rest'
<1>1. /\ TypeOK /\ AnswerOK(c) /\ CloseAwaited(c) /\ cpc'[c] = next /\ ret' = ret
      /\ \A d \in Clients \ {c} : cpc'[d] = cpc[d] /\ c2s'[d] = c2s[d]
  BY SendFacts DEF IInv, Send, TypeOK
<1>2. SessionOK'
  <2>1. Stream(c, a)' /\ a + Len(c2s'[c]) = a + Len(c2s[c]) + Len(items)
    BY <1>1, SessionSends DEF Session
  <2>2. ClientAt(c, a + Len(c2s[c]))'
    BY <2>1
  <2> QED BY <2>1, <2>2, SessionMoves
<1>3. AnswerOK(c)' /\ CloseAwaited(c)'
  <2>1. CASE cpc[c] \in Sending /\ next \in Sending \cup {"write_resp"}
    BY <1>1, <2>1, NoAnswer DEF AnswerOK, CloseAwaited, Wrote, Sending, Ending, OK, serverVars
  <2>2. CASE cpc[c] = "close" /\ next = "close_resp"
    BY <1>1, <2>2 DEF AnswerOK, CloseAwaited, Wrote, Sending, Ending, OK, serverVars
  <2> QED BY <2>1, <2>2
<1>4. ASSUME NEW d \in Clients, d # c PROVE AnswerOK(d)' /\ CloseAwaited(d)'
  BY <1>1, <1>4, ClientOthers DEF IInv
<1> QED BY <1>2, <1>3, <1>4 DEF Rest

LEMMA ClientOpenRest == ASSUME IInv, NEW c \in Clients, ClientOpen(c) PROVE Rest'
<1>1. TypeOK /\ BaseInv /\ cpc[c] = "open" /\ UNCHANGED <<serverVars, sent, s2c, left, broken>>
  BY IInvParts DEF ClientOpen, IInv
<1>2. CASE Send(c, <<"OPEN", "PATH">>, "open_resp")
  <2>1. cur = c /\ c \notin broken
    BY <1>1, <1>2, UpIsServed DEF Send, Up
  <2>2. PICK a \in 0 .. Total :
          Session(c, a) /\ Live(c) /\ ClientAt(c, a + Len(c2s[c])) /\ Link(c, a)
    BY <1>1, <2>1, UpSession
  <2>3. a + Len(c2s[c]) = 0
    BY <1>1, <2>2 DEF ClientAt
  <2>4. a = 0
    <3>1. \A n \in Nat : a + n = 0 => a = 0
      BY ItemAt
    <3> QED BY <1>1, <2>3, <3>1, EmptyStream
  <2> DEFINE items == <<"OPEN", "PATH">>
  <2>5. items \in Seq(Items) /\ Len(items) = 2 /\ items[1] = Item(0 + 1) /\ items[2] = Item(0 + 2)
    BY Requests, ItemAt
  <2>6. cpc'[c] = "open_resp"
    BY <1>1, <1>2 DEF Send, TypeOK
  <2>7. 0 + 2 <= Total
    BY ItemAt, Distinct
  <2>8. Link(c, a)'
    BY <1>1, <2>2, <2>4, <2>6, ItemAt, Distinct DEF Link, serverVars
  <2>9. \A b : b = 0 + 2 => ClientAt(c, b)'
    BY <2>6 DEF ClientAt
  <2>10. Send(c, items, "open_resp")
    BY <1>2
  <2>11. \A j \in 1 .. Len(items) : items[j] = Item(0 + j)
    BY <2>5
  <2> HIDE DEF items
  <2> QED
    BY <1>1, <2>1, <2>2, <2>3, <2>5, <2>7, <2>8, <2>9, <2>10, <2>11, SentRest DEF Sending
<1>3. CASE GivesUp(c, "shutdown")
  BY <1>1, <1>3, GivesUpRest
<1> QED BY <1>2, <1>3 DEF ClientOpen, SendFails

LEMMA ClientStartWriteRest == ASSUME IInv, NEW c \in Clients, ClientStartWrite(c) PROVE Rest'
<1>1. TypeOK /\ BaseInv /\ cpc[c] = "write" /\ UNCHANGED <<serverVars, sent, s2c, left, broken>>
      /\ sent[c] = 0
  BY IInvParts DEF ClientStartWrite, IInv, ClientOK
<1>2. CASE Send(c, <<"WRITE", "SIZE">>, "data")
  <2>1. cur = c /\ c \notin broken
    BY <1>1, <1>2, UpIsServed DEF Send, Up
  <2>2. PICK a \in 0 .. Total :
          Session(c, a) /\ Live(c) /\ ClientAt(c, a + Len(c2s[c])) /\ Link(c, a)
    BY <1>1, <2>1, UpSession
  <2>3. a + Len(c2s[c]) = 2
    BY <1>1, <2>2 DEF ClientAt
  <2> DEFINE items == <<"WRITE", "SIZE">>
  <2>5. items \in Seq(Items) /\ Len(items) = 2 /\ items[1] = Item(2 + 1) /\ items[2] = Item(2 + 2)
    BY Requests, ItemAt
  <2>6. cpc'[c] = "data"
    BY <1>1, <1>2 DEF Send, TypeOK
  <2>7. 2 + 2 <= Total
    BY ItemAt, Distinct
  <2>8. Link(c, a)'
    BY <1>1, <2>2, <2>6, ItemAt, Distinct DEF Link, serverVars, OK
  <2>9. \A b : b = 2 + 2 => ClientAt(c, b)'
    BY <1>1, <2>6 DEF ClientAt
  <2>10. Send(c, items, "data")
    BY <1>2
  <2>11. \A j \in 1 .. Len(items) : items[j] = Item(2 + j)
    BY <2>5
  <2> HIDE DEF items
  <2> QED
    BY <1>1, <2>1, <2>2, <2>3, <2>5, <2>7, <2>8, <2>9, <2>10, <2>11, SentRest DEF Sending
<1>3. CASE SendFails(c, "close")
  BY <1>1, <1>3, GivesUpRest DEF SendFails
<1> QED BY <1>2, <1>3 DEF ClientStartWrite

LEMMA ClientSendDataRest == ASSUME IInv, NEW c \in Clients, ClientSendData(c) PROVE Rest'
<1>1. TypeOK /\ BaseInv /\ cpc[c] = "data" /\ UNCHANGED <<serverVars, s2c, left, broken>>
      /\ sent[c] < Chunks
  BY IInvParts DEF ClientSendData, IInv, ClientOK
<1>2. sent[c] \in Nat
  BY <1>1, Distinct DEF TypeOK
<1> DEFINE next == IF sent[c] + 1 = Chunks THEN "write_resp" ELSE "data"
<1>3. CASE Send(c, <<"DATA">>, next) /\ sent' = [sent EXCEPT ![c] = @ + 1]
  <2>1. cur = c /\ c \notin broken
    BY <1>1, <1>3, UpIsServed DEF Send, Up
  <2>2. PICK a \in 0 .. Total :
          Session(c, a) /\ Live(c) /\ ClientAt(c, a + Len(c2s[c])) /\ Link(c, a)
    BY <1>1, <2>1, UpSession
  <2>3. a + Len(c2s[c]) = sent[c] + 4
    BY <1>1, <2>2 DEF ClientAt
  <2> DEFINE items == <<"DATA">>
  <2>5. items \in Seq(Items) /\ Len(items) = 1 /\ items[1] = Item(sent[c] + 4 + 1)
    BY <1>1, <1>2, Requests, ItemAt, Distinct
  <2>6. cpc'[c] = next /\ sent'[c] = sent[c] + 1 /\ \A d \in Clients \ {c} : sent'[d] = sent[d]
    BY <1>1, <1>3 DEF Send, TypeOK
  <2>7. sent[c] + 4 + 1 <= Total
    BY <1>1, <1>2, ItemAt, Distinct
  <2>8. Link(c, a)'
    BY <1>1, <2>2, <2>6, ItemAt, Distinct DEF Link, serverVars, OK
  <2>9. \A b : b = sent[c] + 4 + 1 => ClientAt(c, b)'
    BY <1>2, <2>6, Distinct DEF ClientAt
  <2>10. Send(c, items, next) /\ next \in {"data", "write_resp"}
    BY <1>3
  <2>11. \A j \in 1 .. Len(items) : items[j] = Item(sent[c] + 4 + j)
    BY <2>5
  <2> HIDE DEF items, next
  <2> QED
    BY <1>1, <2>1, <2>2, <2>3, <2>5, <2>6, <2>7, <2>8, <2>9, <2>10, <2>11, SentRest DEF Sending
<1>4. CASE SendFails(c, "close") /\ UNCHANGED sent
  BY <1>1, <1>4, GivesUpRest DEF SendFails
<1> QED BY <1>3, <1>4 DEF ClientSendData

LEMMA ClientCloseRest == ASSUME IInv, NEW c \in Clients, ClientClose(c) PROVE Rest'
<1>1. TypeOK /\ BaseInv /\ cpc[c] = "close" /\ UNCHANGED <<serverVars, sent, s2c, left, broken>>
      /\ ClientOK(c) /\ AnswerOK(c) /\ CloseAwaited(c) /\ SessionOK
  BY IInvParts DEF ClientClose, IInv
<1>2. CASE Send(c, <<"CLOSE">>, "close_resp")
  <2>1. cur = c /\ c \notin broken
    BY <1>1, <1>2, UpIsServed DEF Send, Up
  <2>2. PICK a \in 0 .. Total :
          Session(c, a) /\ Live(c) /\ ClientAt(c, a + Len(c2s[c])) /\ Link(c, a)
    BY <1>1, <2>1, UpSession
  <2>3. a + Len(c2s[c]) = Chunks + 4
    BY <1>1, <2>2 DEF ClientAt
  <2> DEFINE items == <<"CLOSE">>
  <2>4. Chunks + 4 + 1 = Total
    BY ItemAt, Distinct
  <2>5. items \in Seq(Items) /\ Len(items) = 1 /\ items[1] = Item(Chunks + 4 + 1)
    BY <2>4, Requests, ItemAt
  <2>6. cpc'[c] = "close_resp" /\ ret' = ret
    BY <1>1, <1>2 DEF Send, TypeOK
  <2>7. Chunks + 4 + 1 <= Total
    BY <2>4, ItemAt
  <2>8. Link(c, a)'
    <3>1. a # Total
      <4>1. \A n \in Nat : Total + n # Chunks + 4
        BY ItemAt, Distinct
      <4> QED BY <1>1, <2>3, <4>1, EmptyStream
    <3> QED BY <1>1, <2>2, <2>6, <3>1, ItemAt, Distinct DEF Link, serverVars, OK
  <2>9. \A b : b = Chunks + 4 + 1 => ClientAt(c, b)'
    BY <2>4, <2>6 DEF ClientAt, Total
  <2>10. Send(c, items, "close_resp")
    BY <1>2
  <2>11. \A j \in 1 .. Len(items) : items[j] = Item(Chunks + 4 + j)
    BY <2>5
  <2> HIDE DEF items
  <2> QED
    BY <1>1, <2>1, <2>2, <2>3, <2>5, <2>7, <2>8, <2>9, <2>10, <2>11, SentRest
<1>3. CASE ~Up(c) /\ cpc' = [cpc EXCEPT ![c] = "shutdown"] /\ UNCHANGED <<ret, c2s>>
  <2>1. c \in broken \/ cur # c
    BY <1>1, <1>3 DEF Up, ClientOK
  <2>2. cpc'[c] = "shutdown" /\ \A d \in Clients \ {c} : cpc'[d] = cpc[d]
    BY <1>1, <1>3 DEF TypeOK
  <2>3. SessionOK'
    <3>1. CASE cur # c
      BY <1>1, <1>3, <2>2, <3>1, SessionOfOther DEF TypeOK
    <3>2. CASE cur = c
      BY <1>1, <1>3, <2>1, <3>2, SessionDead
    <3> QED BY <3>1, <3>2
  <2>4. AnswerOK(c)' /\ CloseAwaited(c)'
    BY <1>1, <1>3, <2>1, <2>2 DEF AnswerOK, CloseAwaited, Wrote, Sending, Ending, OK, serverVars
  <2>5. ASSUME NEW d \in Clients, d # c PROVE AnswerOK(d)' /\ CloseAwaited(d)'
    BY <1>1, <1>3, <2>2, <2>5, ClientOthers DEF IInv
  <2> QED BY <2>3, <2>4, <2>5 DEF Rest
<1> QED BY <1>2, <1>3 DEF ClientClose

(* A client that is waiting for a response takes it.                       *)
LEMMA TakeRespKeeps ==
  ASSUME IInv, NEW c \in Clients, TakeResp(c),
         cpc[c] \notin {"start", "waiting", "gone", "refused", "ok", "failed"},
         UNCHANGED <<serverVars, sent, c2s, left, broken>>,
         \A d \in Clients \ {c} : cpc'[d] = cpc[d] /\ ret'[d] = ret[d]
  PROVE  /\ \A d \in Clients \ {c} : AnswerOK(d)' /\ CloseAwaited(d)'
         /\ cur # c \/ c \in broken => SessionOK'
         /\ \A i \in 1 .. Len(s2c'[c]) : s2c'[c][i] = OK("WRITE") =>
              file'[c] = 1 .. Chunks /\ cpc[c] \notin Sending
<1>1. TypeOK /\ SessionOK /\ AnswerOK(c)
  BY DEF IInv
<1>2. /\ \A d \in Sockets \ {c} : s2c'[d] = s2c[d]
      /\ \A i \in 1 .. Len(s2c'[c]) : \E j \in 1 .. Len(s2c[c]) : s2c'[c][i] = s2c[c][j]
  BY <1>1, TakeRespFacts
<1>3. ASSUME NEW d \in Clients, d # c PROVE AnswerOK(d)' /\ CloseAwaited(d)'
  BY <1>2, <1>3, ClientOthers DEF IInv
<1>4. ASSUME cur # c PROVE SessionOK'
  BY <1>1, <1>2, <1>4, SessionOfOther DEF TypeOK
<1>5. ASSUME cur = c, c \in broken PROVE SessionOK'
  BY <1>1, <1>5, SessionDead
<1>6. \A i \in 1 .. Len(s2c'[c]) : s2c'[c][i] = OK("WRITE") =>
        file'[c] = 1 .. Chunks /\ cpc[c] \notin Sending
  BY <1>1, <1>2 DEF AnswerOK, serverVars
<1> QED BY <1>3, <1>4, <1>5, <1>6

LEMMA ClientOpenedRest == ASSUME IInv, NEW c \in Clients, ClientOpened(c) PROVE Rest'
<1>1. /\ TypeOK /\ AnswerOK(c) /\ cpc[c] = "open_resp" /\ TakeResp(c) /\ ClientOK(c)
      /\ UNCHANGED <<serverVars, sent, c2s, left, broken>>
  BY DEF ClientOpened, IInv
<1>2. PICK ok \in Answers(c, "OPEN") : OpenResp(c, ok)
  BY DEF ClientOpened
<1>3. /\ cpc'[c] = (IF ok THEN "write" ELSE "shutdown") /\ ret'[c] = ok
      /\ \A d \in Clients \ {c} : cpc'[d] = cpc[d] /\ ret'[d] = ret[d]
  BY <1>1, <1>2, AnswersBoolean DEF OpenResp, TypeOK
<1>4. /\ \A d \in Clients \ {c} : AnswerOK(d)' /\ CloseAwaited(d)'
      /\ cur # c \/ c \in broken => SessionOK'
      /\ \A i \in 1 .. Len(s2c'[c]) : s2c'[c][i] # OK("WRITE")
  BY <1>1, <1>3, TakeRespKeeps DEF Sending
<1>5. AnswerOK(c)' /\ CloseAwaited(c)'
  BY <1>3, <1>4 DEF AnswerOK, CloseAwaited, Wrote, Sending, Ending, OK
<1>6. ASSUME cur = c, c \notin broken PROVE SessionOK'
  <2>1. <<"server", c>> \notin left
    BY <1>1, <1>6, UpSession
  <2>2. PICK a \in 0 .. Total :
          Session(c, a) /\ Live(c) /\ ClientAt(c, a + Len(c2s[c])) /\ Link(c, a)
    BY <1>1, <1>6, UpSession
  <2>3. s2c[c] # <<>>
    BY <1>2, <1>6, <2>1 DEF Answers
  <2>4. a \in 2 .. Chunks + 3 /\ spc \in {"hdr", "size", "data"} => ok /\ s2c'[c] = <<>>
    <3>1. SUFFICES ASSUME a \in 2 .. Chunks + 3, spc \in {"hdr", "size", "data"}
                   PROVE  ok /\ s2c'[c] = <<>>
      OBVIOUS
    <3>2. s2c[c] = <<OK("OPEN")>>
      BY <1>1, <2>2, <3>1 DEF Link
    <3>3. Head(s2c[c]) = OK("OPEN") /\ Tail(s2c[c]) = <<>>
      BY <3>2, Singleton
    <3> QED BY <1>1, <1>2, <2>3, <3>3, TakeRespFacts DEF Answers, Good, OK
  <2>5. Stream(c, a)'
    BY <1>1, <2>2 DEF Session, Stream, Total, Item
  <2>6. ClientAt(c, a + Len(c2s[c]))'
    BY <1>1, <1>3, <2>2 DEF ClientAt
  <2>7. Link(c, a)'
    BY <1>1, <1>3, <2>2, <2>3, <2>4, ItemAt, Distinct DEF Link, serverVars
  <2> QED BY <1>1, <1>6, <2>2, <2>5, <2>6, <2>7, SessionMoves
<1> QED BY <1>4, <1>5, <1>6 DEF Rest

LEMMA ClientWrittenRest == ASSUME IInv, NEW c \in Clients, ClientWritten(c) PROVE Rest'
<1>1. /\ TypeOK /\ AnswerOK(c) /\ CloseAwaited(c) /\ cpc[c] = "write_resp" /\ TakeResp(c)
      /\ cpc' = [cpc EXCEPT ![c] = "close"]
      /\ UNCHANGED <<serverVars, sent, c2s, left, broken>>
  BY DEF ClientWritten, IInv
<1>2. PICK ok \in Answers(c, "WRITE") : ret' = [ret EXCEPT ![c] = ok]
  BY DEF ClientWritten
<1>3. /\ cpc'[c] = "close" /\ ret'[c] = ok
      /\ \A d \in Clients \ {c} : cpc'[d] = cpc[d] /\ ret'[d] = ret[d]
  BY <1>1, <1>2 DEF TypeOK
<1>4. /\ \A d \in Clients \ {c} : AnswerOK(d)' /\ CloseAwaited(d)'
      /\ cur # c \/ c \in broken => SessionOK'
      /\ \A i \in 1 .. Len(s2c'[c]) : s2c'[c][i] = OK("WRITE") => file'[c] = 1 .. Chunks
  BY <1>1, <1>3, TakeRespKeeps
<1>5. c \notin broken /\ ok => s2c[c] # <<>> /\ Head(s2c[c]) = OK("WRITE")
  BY <1>2 DEF Answers, Good, OK
<1>6. c \notin broken /\ ok => file[c] = 1 .. Chunks /\ Wrote(c)
  <2>1. s2c[c] # <<>> => 1 \in 1 .. Len(s2c[c]) /\ Head(s2c[c]) = s2c[c][1]
    BY <1>1, EmptyStream
  <2> QED BY <1>1, <1>5, <2>1 DEF AnswerOK, Wrote
<1>7. AnswerOK(c)' /\ CloseAwaited(c)'
  BY <1>1, <1>3, <1>4, <1>6 DEF AnswerOK, CloseAwaited, Wrote, Sending, Ending, OK, serverVars
<1>8. ASSUME cur = c, c \notin broken PROVE SessionOK'
  <2>1. <<"server", c>> \notin left
    BY <1>1, <1>8, UpSession
  <2>2. PICK a \in 0 .. Total :
          Session(c, a) /\ Live(c) /\ ClientAt(c, a + Len(c2s[c])) /\ Link(c, a)
    BY <1>1, <1>8, UpSession
  <2>3. s2c[c] # <<>>
    BY <1>2, <1>8, <2>1 DEF Answers
  <2>4. a = Chunks + 4 /\ spc = "hdr" => ok /\ s2c'[c] = <<>>
    <3>1. SUFFICES ASSUME a = Chunks + 4, spc = "hdr" PROVE ok /\ s2c'[c] = <<>>
      OBVIOUS
    <3>2. s2c[c] = <<OK("WRITE")>>
      BY <1>1, <2>2, <3>1 DEF Link
    <3>3. Head(s2c[c]) = OK("WRITE") /\ Tail(s2c[c]) = <<>>
      BY <3>2, Singleton
    <3> QED BY <1>1, <1>2, <2>3, <3>3, TakeRespFacts DEF Answers, Good, OK
  <2>5. Stream(c, a)'
    BY <1>1, <2>2 DEF Session, Stream, Total, Item
  <2>6. ClientAt(c, a + Len(c2s[c]))'
    BY <1>1, <1>3, <2>2 DEF ClientAt
  <2>7. Link(c, a)'
    BY <1>1, <1>3, <2>2, <2>3, <2>4, ItemAt, Distinct DEF Link, serverVars
  <2> QED BY <1>1, <1>8, <2>2, <2>5, <2>6, <2>7, SessionMoves
<1> QED BY <1>4, <1>7, <1>8 DEF Rest

LEMMA ClientClosedRest == ASSUME IInv, NEW c \in Clients, ClientClosed(c) PROVE Rest'
<1>1. /\ TypeOK /\ AnswerOK(c) /\ CloseAwaited(c) /\ cpc[c] = "close_resp" /\ TakeResp(c)
      /\ cpc' = [cpc EXCEPT ![c] = "shutdown"] /\ Answers(c, "CLOSE") # {}
      /\ UNCHANGED <<serverVars, sent, ret, c2s, left, broken>>
  BY DEF ClientClosed, IInv
<1>2. /\ cpc'[c] = "shutdown"
      /\ \A d \in Clients \ {c} : cpc'[d] = cpc[d] /\ ret'[d] = ret[d]
  BY <1>1 DEF TypeOK
<1>3. /\ \A d \in Clients \ {c} : AnswerOK(d)' /\ CloseAwaited(d)'
      /\ cur # c \/ c \in broken => SessionOK'
      /\ \A i \in 1 .. Len(s2c'[c]) : s2c'[c][i] = OK("WRITE") => file'[c] = 1 .. Chunks
  BY <1>1, <1>2, TakeRespKeeps
<1>4. AnswerOK(c)'
  BY <1>1, <1>2, <1>3 DEF AnswerOK, Sending, Ending, OK, serverVars
<1>5. ASSUME cur = c, c \notin broken
      PROVE  SessionOK' /\ (spc = "hdr" => fd # c)
  <2>1. <<"server", c>> \notin left
    BY <1>1, <1>5, UpSession
  <2>2. PICK a \in 0 .. Total :
          /\ Session(c, a) /\ Live(c) /\ ServerAt(c, a)
          /\ ClientAt(c, a + Len(c2s[c])) /\ Link(c, a)
    BY <1>1, <1>5, UpSession
  <2>3. s2c[c] # <<>>
    BY <1>1, <1>5, <2>1 DEF Answers
  <2>4. a = Total /\ spc = "hdr" => s2c'[c] = <<>>
    <3>1. SUFFICES ASSUME a = Total, spc = "hdr" PROVE s2c'[c] = <<>>
      OBVIOUS
    <3>2. s2c[c] = <<OK("CLOSE")>>
      BY <1>1, <2>2, <3>1 DEF Link
    <3>3. Tail(s2c[c]) = <<>>
      BY <3>2, Singleton
    <3> QED BY <1>1, <2>3, <3>3, TakeRespFacts
  <2>5. Stream(c, a)'
    BY <1>1, <2>2 DEF Session, Stream, Total, Item
  <2>6. ClientAt(c, a + Len(c2s[c]))'
    BY <1>2 DEF ClientAt
  <2>7. Link(c, a)'
    BY <1>1, <1>2, <2>2, <2>3, <2>4, ItemAt, Distinct DEF Link, serverVars
  <2>8. spc = "hdr" => fd # c
    BY <1>1, <2>2, <2>3, ItemAt, Distinct DEF Link, ServerAt
  <2> QED BY <1>1, <1>5, <2>2, <2>5, <2>6, <2>7, <2>8, SessionMoves
<1>6. CloseAwaited(c)'
  BY <1>1, <1>2, <1>5 DEF CloseAwaited, Wrote, Ending, serverVars
<1> QED BY <1>3, <1>4, <1>5, <1>6 DEF Rest

LEMMA StutterRest == ASSUME IInv, UNCHANGED vars PROVE Rest'
<1>1. ASSUME NEW d \in Clients PROVE AnswerOK(d)' /\ CloseAwaited(d)'
  BY DEF vars, IInv, AnswerOK, CloseAwaited, Wrote, OK
<1>2. SessionOK'
  <2>1. CASE cur \notin Clients
    BY <2>1 DEF vars, SessionOK
  <2>2. CASE cur \in Clients
    <3>1. PICK a \in 0 .. Total : Session(cur, a)
      BY <2>2 DEF IInv, SessionOK
    <3>2. PICK c \in Clients : c = cur /\ c = cur'
      BY <2>2 DEF vars, IInv, TypeOK
    <3>3. Session(c, a)'
      BY <3>1, <3>2, SessionKept DEF vars, serverVars
    <3> QED BY <3>2, <3>3 DEF SessionOK, Total
  <2> QED BY <2>1, <2>2
<1> QED BY <1>1, <1>2 DEF Rest

LEMMA RestStep == IInv /\ [Next]_vars => Rest'
<1> SUFFICES ASSUME IInv, [Next]_vars PROVE Rest'
  OBVIOUS
<1>1. CASE Server
  BY <1>1, AcceptRest, AcceptFailsRest, RecvHdrRest, RecvHdrEofRest, RecvPathRest, RecvSizeRest, RecvDataRest,
     EndSessionRest DEF Server
<1>2. CASE Idle \/ UNCHANGED vars
  BY <1>2, StutterRest DEF Idle
<1>3. ASSUME NEW c \in Clients, Client(c) \/ Crash(c) \/ Break(c) PROVE Rest'
  BY <1>3, ConnectRest, ClientOpenRest, ClientOpenedRest, ClientStartWriteRest,
     ClientSendDataRest, ClientWrittenRest, ClientCloseRest, ClientClosedRest, ClientEndsRest,
     CrashRest, BreakRest DEF Client
<1> QED BY <1>1, <1>2, <1>3 DEF Next

LEMMA InitRest == Init => Rest
<1> SUFFICES ASSUME Init PROVE Rest
  OBVIOUS
<1>1. SessionOK
  BY Distinct DEF Init, SessionOK
<1>2. ASSUME NEW c \in Clients PROVE AnswerOK(c) /\ CloseAwaited(c)
  <2>1. s2c[c] = <<>> /\ cpc[c] = "start" /\ fd # c
    BY Distinct DEF Init
  <2>2. \A i \in 1 .. Len(s2c[c]) : FALSE
    BY <2>1, EmptySeq
  <2> QED BY <2>1, <2>2 DEF AnswerOK, CloseAwaited, Ending
<1> QED BY <1>1, <1>2 DEF Rest

-----------------------------------------------------------------------------
(* The inductive invariant holds in every reachable state of rcopy.        *)
THEOREM Invariance == Spec => []IInv
<1>1. Init => IInv
  BY InitBase, InitRest, IInvParts
<1>2. IInv /\ [Next]_vars => IInv'
  <2>1. IInv' <=> BaseInv' /\ Rest'
    BY IInvParts, PTL
  <2> QED BY <2>1, IInvParts, BaseStep, RestStep
<1> QED BY <1>1, <1>2, PTL DEF Spec

(* Every variable of server, clients and streams keeps its type.           *)
THEOREM TypeCorrect == Spec => []TypeOK
<1>1. IInv => TypeOK
  BY DEF IInv
<1> QED BY <1>1, Invariance, PTL

(* The globals never lose track of an open file (rcopy.c's fd, which       *)
(* server_open, server_close and a failing session all write).             *)
THEOREM NoLostFile == Spec => []OneFile
<1>1. IInv => OneFile
  BY DEF IInv
<1> QED BY <1>1, Invariance, PTL

(* The two ends agree on where a message ends: what is next in the stream  *)
(* of the connection that is served is what the server waits for.          *)
THEOREM FramingHolds == Spec => []Framing
<1>1. IInv => Framing
  <2> SUFFICES ASSUME IInv, cur # Nobody, c2s[cur] # <<>>
               PROVE  Head(c2s[cur]) \in Expected(spc)
    BY DEF Framing
  <2>1. PICK c \in Clients : c = cur
    BY DEF IInv, TypeOK, ServerOK
  <2>2. PICK a \in 0 .. Total : Stream(c, a) /\ ServerAt(c, a)
    BY <2>1 DEF IInv, SessionOK, Session, Live
  <2>3. /\ c2s[c] \in Seq(Items) /\ Len(c2s[c]) \in Nat /\ Len(c2s[c]) > 0
        /\ Head(c2s[c]) = c2s[c][1] /\ c2s[c][1] \in Items
    <3>1. c2s[c] \in Seq(Items) /\ c2s[c] # <<>>
      BY <2>1 DEF IInv, TypeOK
    <3> QED BY <3>1, EmptySeq, LenProperties, HeadTailProperties, ElementOfSeq
  <2>4. Head(c2s[c]) = Item(a + 1) /\ a + 1 <= Total
    <3>1. \A n \in Nat : n > 0 /\ a + n <= Total => a + 1 <= Total /\ 1 \in 1 .. n
      BY ItemAt
    <3>2. 1 \in 1 .. Len(c2s[c]) /\ a + 1 <= Total
      BY <2>2, <2>3, <3>1 DEF Stream
    <3> QED BY <2>2, <2>3, <3>2 DEF Stream
  <2>5. spc \in {"hdr", "path", "size", "data", "end"}
    BY DEF IInv, TypeOK, ServerOK
  <2>6. spc = "hdr" => Item(a + 1) \in Commands
    BY <2>2, <2>4, ItemAt, Distinct DEF ServerAt, Commands
  <2>7. spc = "data" => Item(a + 1) = "DATA"
    BY <2>2, ItemAt, Distinct DEF ServerAt, IInv, ServerOK, TypeOK
  <2> QED BY <2>1, <2>2, <2>3, <2>4, <2>5, <2>6, <2>7, ItemAt DEF Expected, ServerAt
<1> QED BY <1>1, Invariance, PTL

(* A server that waits for a connection refuses the next client with EBUSY *)
(* only because of a client that did not succeed, or because a connection  *)
(* or raccept failed.                                                      *)
THEOREM BusyOnlyAfterFailure == Spec => []BusyAfterFailure
<1>1. IInv => BusyAfterFailure
  <2> SUFFICES ASSUME IInv, spc = "accept", Busy
               PROVE  IF fd \in Clients \ broken THEN cpc[fd] # "ok" ELSE broken # {}
    BY DEF BusyAfterFailure
  <2>1. fd \in Files /\ (fd = Garbage => broken # {})
    BY DEF IInv, ServerOK, Busy
  <2>2. ASSUME NEW c \in Clients, c = fd, c \notin broken PROVE cpc[c] # "ok"
    BY <2>2 DEF IInv, CloseAwaited, ClientOK, Wrote, Ending
  <2> QED BY <2>1, <2>2 DEF Files
<1> QED BY <1>1, Invariance, PTL

-----------------------------------------------------------------------------
(* The refinement of CopyService.                                          *)
Stored  == [c \in Clients |-> file[c]]
Results == [c \in Clients |-> Outcome(c)]
Serving == IF cur = Invalid THEN Nobody ELSE cur
Lost    == broken \ {Invalid}

LEMMA OutcomeOf ==
  ASSUME NEW c \in Clients
  PROVE  /\ cpc[c] \notin Ends \cup {"gone"} <=> Outcome(c) = "pending"
         /\ cpc[c] = "ok" => Outcome(c) = "ok"
         /\ cpc[c] \in {"failed", "refused", "gone"} => Outcome(c) = "failed"
  BY DEF Outcome, Ends

LEMMA ResultsSame ==
  ASSUME \A c \in Clients :
           \/ cpc'[c] = cpc[c]
           \/ {cpc[c], cpc'[c]} \cap (Ends \cup {"gone"}) = {}
           \/ cpc[c] = "gone" /\ cpc'[c] = "failed"
  PROVE  Results' = Results
<1>1. ASSUME NEW c \in Clients PROVE Outcome(c)' = Outcome(c)
  BY DEF Outcome, Ends
<1> QED BY <1>1 DEF Results

(* The end of client c.                                                    *)
LEMMA ResultsEnd ==
  ASSUME TypeOK, NEW c \in Clients, cpc[c] \notin Ends \cup {"gone"}, NEW end \in Ends \cup {"gone"},
         cpc' = [cpc EXCEPT ![c] = end]
  PROVE  Results' = [Results EXCEPT ![c] = IF end = "ok" THEN "ok" ELSE "failed"]
<1>1. cpc'[c] = end /\ \A d \in Clients \ {c} : cpc'[d] = cpc[d]
  BY DEF TypeOK
<1>2. Outcome(c)' = IF end = "ok" THEN "ok" ELSE "failed"
  BY <1>1 DEF Outcome, Ends
<1>3. \A d \in Clients \ {c} : Outcome(d)' = Outcome(d)
  BY <1>1 DEF Outcome
<1> QED BY <1>2, <1>3 DEF Results

(* The cardinality of CopyService is that of FiniteSets.                   *)
LEMMA SameCardinality == ASSUME NEW S PROVE Service!Cardinality(S) = Cardinality(S)
  BY DEF Service!Cardinality, Cardinality

LEMMA InitService == Init => Service!Init
  BY Distinct DEF Init, Service!Init, Outcome, Files

(* The steps of the server.                                                *)
LEMMA ServerService ==
  ASSUME IInv, Server
  PROVE  [Service!Next]_<<Serving, Stored, Results, Lost>>
<1>1. ASSUME NEW c \in Clients, Accept(c) PROVE Service!Serve(c)
  <2>1. Stored' = Stored
    BY <1>1 DEF Accept, Stored
  <2>2. Results' = Results
    BY <1>1, ResultsSame DEF Accept, IInv, TypeOK, Ends
  <2>3. Outcome(c) = "pending"
    BY <1>1 DEF Accept, Outcome
  <2>4. Serving = Nobody /\ Serving' = c /\ Lost' = Lost
    BY <1>1, Distinct DEF Accept, IInv, ServerOK, Serving, Lost
  <2> QED BY <2>1, <2>2, <2>3, <2>4 DEF Service!Serve, Stored, Results, Serving, Lost
<1>2. CASE RecvHdr \/ RecvHdrEof \/ RecvSize
  BY <1>2, ResultsSame DEF RecvHdr, RecvHdrEof, RecvSize, clientVars, Stored, Serving, Lost
<1>3. CASE cur = Invalid /\ (RecvPath \/ RecvData)
  <2>1. /\ TypeOK /\ Stale(cur)
        /\ OpenFile(Garbage) \/ UNCHANGED file
        /\ UNCHANGED <<cur, clientVars, broken>>
    BY <1>3, InvalidIsStale, IInvParts DEF RecvPath, RecvData, OpenFails, IInv
  <2>2. \A d \in Clients : file'[d] = file[d]
    BY <2>1, Distinct DEF OpenFile, TypeOK
  <2>3. Results' = Results
    BY <2>1, ResultsSame DEF clientVars
  <2> QED BY <2>1, <2>2, <2>3 DEF Stored, Serving, Lost
<1>4. CASE cur # Invalid /\ RecvPath
  <2>1. PICK c \in Clients : c = cur /\ spc = "path" /\ TypeOK
    BY <1>4, CurIsSocket, IInvParts DEF RecvPath, IInv
  <2>2. PICK a \in 0 .. Total : Session(c, a)
    BY <2>1, Distinct DEF IInv, SessionOK
  <2>3. Takes(c, "PATH") => file[c] = {}
    BY <2>1, <2>2 DEF Session, Live, ServerAt, Takes
  <2>4. \A d \in Clients : file'[d] = file[d]
    BY <1>4, <2>1, <2>3, Distinct DEF RecvPath, OpenFile, OpenFails, TypeOK
  <2>5. Results' = Results /\ UNCHANGED <<Serving, Lost>>
    BY <1>4, ResultsSame DEF RecvPath, clientVars, Serving, Lost
  <2> QED BY <2>4, <2>5 DEF Stored
<1>5. CASE cur # Invalid /\ RecvData
  <2>1. PICK c \in Clients : c = cur /\ spc = "data" /\ TypeOK /\ file_addr = fd /\ got < Chunks
    BY <1>5, CurIsSocket, IInvParts DEF RecvData, IInv, ServerOK
  <2>2. PICK a \in 0 .. Total : Session(c, a)
    BY <2>1, Distinct DEF IInv, SessionOK
  <2>3. Results' = Results /\ UNCHANGED <<Serving, Lost>>
    BY <1>5, ResultsSame DEF RecvData, clientVars, Serving, Lost
  <2>4. CASE UNCHANGED file
    BY <2>3, <2>4 DEF Stored
  <2>5. CASE Takes(c, "DATA") /\ file' = [file EXCEPT ![file_addr] = @ \cup {got + 1}]
    <3>1. file[c] = 1 .. got /\ fd = c
      BY <2>1, <2>2, <2>5 DEF Session, Live, ServerAt, Takes
    <3>2. got \in Nat /\ Cardinality(1 .. got) = got
      <4>1. got \in Nat /\ 1 \in Int /\ got \in Int
        BY <2>1, Distinct DEF TypeOK
      <4>2. Cardinality(1 .. got) = IF 1 > got THEN 0 ELSE got - 1 + 1
        BY <4>1, FS_Interval
      <4> QED BY <4>1, <4>2
    <3>3. Stored' = [Stored EXCEPT ![c] = @ \cup {Cardinality(@) + 1}]
      BY <2>1, <2>5, <3>1, <3>2, Distinct DEF Stored, TypeOK
    <3>4. Stored[c] # 1 .. Chunks
      <4>1. Chunks \in 1 .. Chunks /\ Chunks \notin 1 .. got
        BY <2>1, <3>2, Distinct
      <4> QED BY <3>1, <4>1 DEF Stored
    <3>5. Service!Store(c)
      <4>1. Serving = c /\ Serving' = Serving /\ Lost' = Lost /\ Results' = Results
        BY <2>1, <2>3, Distinct DEF Serving
      <4>2. ~Service!Complete(c)
        BY <3>4 DEF Service!Complete, Stored
      <4>3. [d \in Clients |-> file[d]]' =
              [[d \in Clients |-> file[d]] EXCEPT ![c] = @ \cup {Service!Cardinality(@) + 1}]
        BY <3>3, SameCardinality DEF Stored
      <4> QED BY <4>1, <4>2, <4>3 DEF Service!Store, Results, Serving, Lost
    <3> QED BY <3>5 DEF Service!Next
  <2> QED BY <1>5, <2>1, <2>4, <2>5 DEF RecvData
<1>6. CASE EndSession
  <2>1. Results' = Results /\ Stored' = Stored
    BY <1>6, ResultsSame DEF EndSession, clientVars, Stored
  <2>2. cur # Nobody /\ Serving' = Nobody /\ Lost' = Lost
    BY <1>6, Distinct DEF EndSession, IInv, ServerOK, Serving, Lost
  <2>3. CASE cur = Invalid
    BY <2>1, <2>2, <2>3 DEF Serving
  <2>4. CASE cur # Invalid
    <3>1. Serving # Nobody
      BY <2>2, <2>4 DEF Serving
    <3>2. Service!Leave
      BY <2>1, <2>2, <3>1 DEF Service!Leave, Stored, Results, Serving, Lost
    <3> QED BY <3>2 DEF Service!Next
  <2> QED BY <2>3, <2>4
(* Of a raccept that fails, CopyService sees only the client whose         *)
(* connection fails with it; that of a client that is gone it saw before.  *)
<1>7. ASSUME NEW c \in Clients, AcceptFails(c)
      PROVE  [Service!Next]_<<Serving, Stored, Results, Lost>>
  <2>1. Stored' = Stored
    BY <1>7 DEF AcceptFails, Stored
  <2>2. cur = Nobody /\ Serving = Nobody /\ Serving' = Nobody /\ Lost' = Lost
    BY <1>7, Distinct DEF AcceptFails, IInv, ServerOK, Serving, Lost
  <2>3. CASE cpc[c] = "gone" /\ cpc' = [cpc EXCEPT ![c] = "failed"]
    <3>1. Results' = Results
      BY <2>3, ResultsSame DEF IInv, TypeOK
    <3> QED BY <2>1, <2>2, <3>1
  <2>4. CASE cpc[c] = "waiting" /\ cpc' = [cpc EXCEPT ![c] = "refused"]
    <3>1. TypeOK /\ cpc[c] \notin Ends \cup {"gone"} /\ "refused" \in Ends
      BY <2>4 DEF Ends, IInv
    <3>2. Results' = [Results EXCEPT ![c] = IF "refused" = "ok" THEN "ok" ELSE "failed"]
      BY <2>4, <3>1, ResultsEnd
    <3>3. Outcome(c) = "pending"
      BY <3>1, OutcomeOf
    <3>4. Service!Fail(c)
      BY <2>1, <2>2, <3>2, <3>3 DEF Service!Fail, Stored, Results, Serving, Lost
    <3> QED BY <3>4 DEF Service!Next
  <2> QED BY <1>7, <2>3, <2>4 DEF AcceptFails
<1> QED BY <1>1, <1>2, <1>3, <1>4, <1>5, <1>6, <1>7 DEF Server, Service!Next

(* The steps of the clients, and faults.                                   *)
LEMMA ClientService ==
  ASSUME IInv, NEW c \in Clients, Client(c) \/ Crash(c) \/ Break(c)
  PROVE  [Service!Next]_<<Serving, Stored, Results, Lost>>
<1> USE DEF IInv
<1>1. CASE \/ ClientOpen(c) \/ ClientOpened(c) \/ ClientStartWrite(c) \/ ClientSendData(c)
           \/ ClientWritten(c) \/ ClientClose(c) \/ ClientClosed(c)
  <2>1. UNCHANGED <<serverVars, broken>>
    BY <1>1 DEF ClientOpen, ClientOpened, ClientStartWrite, ClientSendData, ClientWritten,
                ClientClose, ClientClosed
  <2>2. /\ cpc[c] \notin Ends \cup {"gone"}
        /\ \E next \in ClientPhases \ (Ends \cup {"gone"}) : cpc' = [cpc EXCEPT ![c] = next]
    BY <1>1 DEF ClientOpen, ClientOpened, ClientStartWrite, ClientSendData, ClientWritten,
                ClientClose, ClientClosed, Send, SendFails, GivesUp, OpenResp, Ends, ClientPhases
  <2>3. Results' = Results
    BY <2>2, ResultsSame DEF TypeOK
  <2> QED BY <2>1, <2>3 DEF serverVars, Stored, Serving, Lost
<1>2. CASE Connect(c)
  <2>1. UNCHANGED <<cur, broken, file>> /\ cpc[c] = "start"
    BY <1>2 DEF Connect, serverVars
  <2>2. CASE cpc' = [cpc EXCEPT ![c] = "waiting"]
    BY <2>1, <2>2, ResultsSame DEF TypeOK, Stored, Ends, Serving, Lost
  <2>3. CASE cpc' = [cpc EXCEPT ![c] = "refused"]
    <3>1. cpc[c] \notin Ends \cup {"gone"} /\ "refused" \in Ends
      BY <2>1 DEF Ends
    <3>2. Results' = [Results EXCEPT ![c] = IF "refused" = "ok" THEN "ok" ELSE "failed"]
      BY <2>3, <3>1, ResultsEnd
    <3>3. Service!Fail(c)
      BY <2>1, <3>2 DEF Service!Fail, Stored, Results, Outcome, Serving, Lost
    <3> QED BY <3>3 DEF Service!Next
  <2> QED BY <1>2, <2>2, <2>3 DEF Connect
<1>3. CASE ClientEnds(c)
  <2>1. UNCHANGED <<cur, broken, file>> /\ cpc[c] = "shutdown"
    BY <1>3 DEF ClientEnds, serverVars
  <2>2. CASE ret[c]
    <3>1. Results' = [Results EXCEPT ![c] = "ok"]
      BY <1>3, <2>1, <2>2, ResultsEnd DEF ClientEnds, Ends
    <3>2. file[c] = 1 .. Chunks \/ c \in Lost
      BY <2>1, <2>2, Distinct DEF AnswerOK, Ending, Lost
    <3>3. Service!Succeed(c)
      BY <2>1, <3>1, <3>2 DEF Service!Succeed, Service!Complete, Stored, Results, Outcome,
                              Serving, Lost
    <3> QED BY <3>3 DEF Service!Next
  <2>3. CASE ~ret[c]
    <3>1. Results' = [Results EXCEPT ![c] = "failed"]
      BY <1>3, <2>1, <2>3, ResultsEnd DEF ClientEnds, Ends
    <3>2. Service!Fail(c)
      BY <2>1, <3>1 DEF Service!Fail, Stored, Results, Outcome, Serving, Lost
    <3> QED BY <3>2 DEF Service!Next
  <2> QED BY <2>2, <2>3
<1>4. CASE Crash(c)
  <2>1. UNCHANGED <<cur, broken, file>> /\ cpc[c] \notin Ends \cup {"gone"}
    BY <1>4 DEF Crash, serverVars
  <2>2. \E end \in {"gone", "failed"} : cpc' = [cpc EXCEPT ![c] = end]
    BY <1>4 DEF Crash, TypeOK
  <2>3. Results' = [Results EXCEPT ![c] = "failed"]
    BY <2>1, <2>2, ResultsEnd DEF Ends
  <2>4. Service!Fail(c)
    BY <2>1, <2>3, OutcomeOf DEF Service!Fail, Stored, Results, Serving, Lost
  <2> QED BY <2>4 DEF Service!Next
<1>5. CASE Break(c)
  <2>1. UNCHANGED <<cur, cpc, file>> /\ cur = c /\ broken' = broken \cup {c}
    BY <1>5 DEF Break, serverVars, clientVars
  <2>2. Results' = Results /\ Stored' = Stored
    BY <2>1, ResultsSame DEF Stored
  <2>3. Serving = c /\ Serving' = Serving /\ Lost' = Lost \cup {c}
    BY <2>1, Distinct DEF Serving, Lost
  <2>4. Service!Lose(c)
    BY <2>2, <2>3 DEF Service!Lose, Stored, Results, Serving, Lost
  <2> QED BY <2>4 DEF Service!Next
<1> QED BY <1>1, <1>2, <1>3, <1>4, <1>5 DEF Client

LEMMA StepService ==
  ASSUME IInv, [Next]_vars
  PROVE  [Service!Next]_Service!vars
<1>1. CASE Idle \/ UNCHANGED vars
  BY <1>1, ResultsSame DEF Idle, vars, Stored, Results, Serving, Lost, Service!vars
<1> QED BY <1>1, ServerService, ClientService
       DEF Next, Stored, Results, Serving, Lost, Service!vars

(* rcopy implements CopyService: whatever crashes or fails, a client       *)
(* reports success only when its whole file is at the server, its pieces   *)
(* are stored in order and only during its own session, and nothing that   *)
(* is stored is taken away.                                                *)
THEOREM CopiesRefineService == Spec => ImplementsCopyService
<1>1. Init => Service!Init
  BY InitService
<1>2. IInv /\ [Next]_vars => [Service!Next]_Service!vars
  BY StepService
<1> QED BY <1>1, <1>2, Invariance, PTL DEF Spec, Service!Spec, ImplementsCopyService
=============================================================================
