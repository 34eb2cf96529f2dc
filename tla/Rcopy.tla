-------------------------------- MODULE Rcopy --------------------------------
(***************************************************************************)
(* rcopy: copies a file to a server over an rsocket.  The server handles   *)
(* one connection at a time and keeps the open file, its mapping and its   *)
(* size in globals that outlive the connection; the client sends OPEN,     *)
(* WRITE, the data and CLOSE, and waits for the response to the first two  *)
(* requests, to the data and to CLOSE.  Client, server and the two streams *)
(* between them run concurrently.                                          *)
(***************************************************************************)
EXTENDS Naturals, Sequences, FiniteSets

CONSTANTS Clients,   \* client processes, each copying to a path of its own
          Chunks,    \* pieces in which the data of one file travels
          Backlog,   \* rlisten's backlog
          Faults     \* what may go wrong, see FaultKinds

(* "crash": a client may die at any step, which the server sees as the end *)
(* of its stream, or as a failure of raccept; "io": open, ftruncate or     *)
(* mmap may fail, on either side; "break": a connection may fail, after    *)
(* which rrecv returns -1, or fail before raccept has returned it.         *)
FaultKinds == {"crash", "io", "break"}

ASSUME RcopyAssumption ==
  /\ IsFiniteSet(Clients) /\ Clients \cap {"null", "bad", "garbage", "nobody", "invalid"} = {}
  /\ Chunks \in Nat \ {0} /\ Backlog \in Nat \ {0}
  /\ Faults \subseteq FaultKinds

(* Values of the server's globals that are no client's file.               *)
Null    == "null"      \* fd = 0, file_addr = NULL
Bad     == "bad"       \* fd = -1, file_addr = MAP_FAILED
Garbage == "garbage"   \* a file with an uninitialised name
Nobody  == "nobody"

(* The connections, and the -1 of a raccept that failed, which server_run  *)
(* passes to server_process: rrecv and rsend fail on it.                   *)
Invalid == "invalid"
Sockets == Clients \cup {Invalid}

VARIABLES
  spc,        \* where the server blocks: raccept, or a _recv, or "end"
  cur,        \* the socket it serves
  msg,        \* command of the header in server_process, or Null
  fd,         \* the file open at the server
  file_addr,  \* whose mapping file_addr is
  open_files, \* files the server process has open
  file,       \* pieces of each client's data in its destination file
  got,        \* pieces received by the WRITE under way
  cpc,        \* where each client is
  sent,       \* pieces of data it has sent
  ret,        \* its ret is 0
  c2s, s2c,   \* the two streams of every connection
  left,       \* <<p, c>>: p has shut down or lost its side of connection c
  broken      \* connections that failed; Invalid, once raccept has failed

vars == <<spc, cur, msg, fd, file_addr, open_files, file, got, cpc, sent, ret,
          c2s, s2c, left, broken>>
serverVars == <<spc, cur, msg, fd, file_addr, open_files, file, got>>
clientVars == <<cpc, sent, ret>>

Ends == {"ok", "failed", "refused"}
ClientPhases == {"start", "waiting", "gone", "open", "open_resp", "write", "data",
                 "write_resp", "close", "close_resp", "shutdown"} \cup Ends
Commands == {"OPEN", "WRITE", "CLOSE"}
Items    == Commands \cup {"PATH", "SIZE", "DATA"}
Files    == Clients \cup {Garbage}
Responses == [cmd : Commands \cup {Null}, ok : BOOLEAN]

Init ==
  /\ spc = "accept" /\ cur = Nobody /\ msg = Null
  /\ fd = Null /\ file_addr = Null /\ open_files = {}
  /\ file = [f \in Files |-> {}] /\ got = 0
  /\ cpc = [c \in Clients |-> "start"]
  /\ sent = [c \in Clients |-> 0] /\ ret = [c \in Clients |-> TRUE]
  /\ c2s = [c \in Sockets |-> <<>>] /\ s2c = [c \in Sockets |-> <<>>]
  /\ left = {} /\ broken = {}

-----------------------------------------------------------------------------
(* The three ways _recv returns at the server: with the next item of the   *)
(* stream; 0 at its end; or, after an error, len although nothing arrived, *)
(* because the -1 of rrecv is stored in a size_t (RcopyRecv has the loop). *)
Takes(c, item) == c2s[c] # <<>> /\ Head(c2s[c]) = item /\ c2s' = [c2s EXCEPT ![c] = Tail(@)]
AtEof(c) == c2s[c] = <<>> /\ c \notin broken /\ <<"client", c>> \in left /\ UNCHANGED c2s
Stale(c) == c2s[c] = <<>> /\ c \in broken /\ UNCHANGED c2s

(* msg_send_resp; the result of rsend is ignored.                          *)
Respond(c, cmd, ok) ==
  s2c' = IF c \in broken \/ <<"client", c>> \in left THEN s2c
         ELSE [s2c EXCEPT ![c] = Append(@, [cmd |-> cmd, ok |-> ok])]

(* server_open refuses a second file.                                      *)
Busy_MapOnly == file_addr # Null
Busy == file_addr # Null \/ fd \in Files

Accept(c) ==
  /\ spc = "accept" /\ cpc[c] = "waiting"
  /\ spc' = "hdr" /\ cur' = c /\ msg' = Null
  /\ cpc' = [cpc EXCEPT ![c] = "open"]
  /\ UNCHANGED <<fd, file_addr, open_files, file, got, sent, ret, c2s, s2c,
                 left, broken>>

(* Nobody looks at what raccept returned.  It fails for a client that died *)
(* while it waited, or when the connection fails as it is accepted, which  *)
(* fails that client's rconnect.                                           *)
AcceptFails(c) ==
  /\ spc = "accept"
  /\ \/ cpc[c] = "gone" /\ cpc' = [cpc EXCEPT ![c] = "failed"]
     \/ "break" \in Faults /\ cpc[c] = "waiting" /\ cpc' = [cpc EXCEPT ![c] = "refused"]
  /\ spc' = "hdr" /\ cur' = Invalid /\ msg' = Null
  /\ broken' = broken \cup {Invalid}
  /\ UNCHANGED <<fd, file_addr, open_files, file, got, sent, ret, c2s, s2c, left>>

(* msg_recv_hdr and the switch of server_process.  Until a session has had *)
(* a header, msg is what the stack holds: often the CLOSE of the last one. *)
StaleHeaders == IF msg = Null THEN Commands \cup {Bad} ELSE {msg}

StartOpen_KeepServing(c) ==
  /\ spc' = IF Busy THEN "hdr" ELSE "path"
  /\ IF Busy THEN Respond(c, "OPEN", FALSE) ELSE UNCHANGED s2c
  /\ UNCHANGED <<fd, file_addr, open_files>>
StartOpen(c) ==
  /\ spc' = IF Busy THEN "end" ELSE "path"
  /\ IF Busy THEN Respond(c, "OPEN", FALSE) ELSE UNCHANGED s2c
  /\ UNCHANGED <<fd, file_addr, open_files>>
StartWrite(c) ==
  /\ spc' = IF fd \in Files THEN "size" ELSE "end"
  /\ IF fd \in Files THEN UNCHANGED s2c ELSE Respond(c, "WRITE", FALSE)
  /\ UNCHANGED <<fd, file_addr, open_files>>
ServerClose_KeepFd(c) ==
  /\ Respond(c, "CLOSE", TRUE)
  /\ file_addr' = Null /\ fd' = fd /\ open_files' = open_files \ {fd}
  /\ spc' = "hdr"
ServerClose(c) ==
  /\ Respond(c, "CLOSE", TRUE)
  /\ file_addr' = Null
  /\ fd' = IF fd \in Files THEN Null ELSE fd
  /\ open_files' = open_files \ {fd}
  /\ spc' = "hdr"
BadCommand(c) ==
  /\ Respond(c, Null, FALSE)
  /\ spc' = "end"
  /\ UNCHANGED <<fd, file_addr, open_files>>

Process(c, cmd) ==
  \/ cmd = "OPEN"  /\ StartOpen(c)
  \/ cmd = "WRITE" /\ StartWrite(c)
  \/ cmd = "CLOSE" /\ ServerClose(c)
  \/ cmd = Bad     /\ BadCommand(c)

RecvHdr ==
  /\ spc = "hdr"
  /\ \E cmd \in Commands \cup {Bad} :
       /\ \/ cmd \in Commands /\ Takes(cur, cmd)
          \/ cmd \in StaleHeaders /\ Stale(cur)
       /\ msg' = cmd
       /\ Process(cur, cmd)
  /\ UNCHANGED <<cur, file, got, clientVars, left, broken>>

AfterEof_Continue == "hdr"
AfterEof == "end"
RecvHdrEof ==
  /\ spc = "hdr" /\ AtEof(cur)
  /\ spc' = AfterEof
  /\ UNCHANGED <<cur, msg, fd, file_addr, open_files, file, got, clientVars,
                 s2c, left, broken>>

(* The rest of server_open: receive the path, open and truncate the file.  *)
(* A short receive returns its 0, which looks like success.                *)
OpenFile(f) ==
  /\ fd' = f /\ open_files' = open_files \cup {f}
  /\ file' = [file EXCEPT ![f] = {}]
  /\ Respond(cur, "OPEN", TRUE)
  /\ spc' = "hdr"
OpenFails_Errno ==
  /\ fd' = "errno" /\ UNCHANGED <<open_files, file>>
  /\ Respond(cur, "OPEN", FALSE)
  /\ spc' = "end"
OpenFails ==
  /\ fd' = Bad /\ UNCHANGED <<open_files, file>>
  /\ Respond(cur, "OPEN", FALSE)
  /\ spc' = "end"

RecvPath ==
  /\ spc = "path"
  /\ \/ Takes(cur, "PATH") /\ (OpenFile(cur) \/ ("io" \in Faults /\ OpenFails))
     \/ Stale(cur) /\ (OpenFile(Garbage) \/ OpenFails)
     \/ /\ AtEof(cur)
        /\ Respond(cur, "OPEN", TRUE) /\ spc' = "hdr"
        /\ UNCHANGED <<fd, open_files, file>>
  /\ UNCHANGED <<cur, msg, file_addr, got, clientVars, left, broken>>

(* server_write: receive the size, set the size of the file, map it.       *)
MapFile ==
  /\ file_addr' = fd /\ got' = 0
  /\ spc' = "data"
  /\ UNCHANGED s2c
MapFails ==
  /\ file_addr' \in {file_addr, Bad}     \* ftruncate or mmap failed
  /\ Respond(cur, "WRITE", FALSE)
  /\ spc' = "end"
  /\ UNCHANGED got

RecvSize ==
  /\ spc = "size"
  /\ \/ Takes(cur, "SIZE") /\ (MapFile \/ ("io" \in Faults /\ MapFails))
     \/ Stale(cur) /\ (MapFile \/ MapFails)
     \/ /\ AtEof(cur)
        /\ Respond(cur, "WRITE", TRUE) /\ spc' = "hdr"
        /\ UNCHANGED <<file_addr, got>>
  /\ UNCHANGED <<cur, msg, fd, open_files, file, clientVars, left, broken>>

(* Then receive the data into the mapping, piece by piece, and respond.    *)
AllData == got + 1 = Chunks
RecvData ==
  /\ spc = "data"
  /\ \/ /\ Takes(cur, "DATA")
        /\ file' = [file EXCEPT ![file_addr] = @ \cup {got + 1}]
        /\ got' = got + 1
        /\ IF AllData THEN Respond(cur, "WRITE", TRUE) /\ spc' = "hdr"
                      ELSE UNCHANGED <<s2c, spc>>
     \/ /\ AtEof(cur) \/ Stale(cur)
        /\ Respond(cur, "WRITE", TRUE) /\ spc' = "hdr"
        /\ UNCHANGED <<file, got>>
  /\ UNCHANGED <<cur, msg, fd, file_addr, open_files, clientVars, left, broken>>

(* Back in server_run: shut the connection down, wait for the next one.    *)
(* What the session left in the globals stays.                             *)
EndSession ==
  /\ spc = "end"
  /\ left' = left \cup {<<"server", cur>>}
  /\ spc' = "accept" /\ cur' = Nobody
  /\ UNCHANGED <<msg, fd, file_addr, open_files, file, got, clientVars, c2s,
                 s2c, broken>>

Server ==
  \/ \E c \in Clients : Accept(c) \/ AcceptFails(c)
  \/ RecvHdr \/ RecvHdrEof \/ RecvPath \/ RecvSize \/ RecvData \/ EndSession
-----------------------------------------------------------------------------
(* The client.  A failed client_open goes to the shutdown directly; later  *)
(* errors go through client_close, whose result client_run ignores.        *)

(* The backlog; a request stays in it when its client dies.                *)
Waiting == {c \in Clients : cpc[c] \in {"waiting", "gone"}}

Connect(c) ==
  /\ cpc[c] = "start"
  /\ cpc' = [cpc EXCEPT ![c] = IF Cardinality(Waiting) < Backlog
                               THEN "waiting" ELSE "refused"]
  /\ UNCHANGED <<serverVars, sent, ret, c2s, s2c, left, broken>>

(* rsend of a request, or of a piece of the data; it fails once the        *)
(* connection is down.                                                     *)
Up(c) == c \notin broken /\ <<"server", c>> \notin left

Send(c, items, next) ==
  /\ Up(c)
  /\ c2s' = [c2s EXCEPT ![c] = @ \o items]
  /\ cpc' = [cpc EXCEPT ![c] = next]
  /\ UNCHANGED ret
GivesUp(c, next) ==
  /\ cpc' = [cpc EXCEPT ![c] = next]
  /\ ret' = [ret EXCEPT ![c] = FALSE]
  /\ UNCHANGED c2s
SendFails(c, next) == ~Up(c) /\ GivesUp(c, next)

(* The source file is opened and mapped before anything is sent.           *)
ClientOpen(c) ==
  /\ cpc[c] = "open"
  /\ \/ Send(c, <<"OPEN", "PATH">>, "open_resp") \/ SendFails(c, "shutdown")
     \/ "io" \in Faults /\ GivesUp(c, "shutdown")
  /\ UNCHANGED <<serverVars, sent, s2c, left, broken>>

ClientStartWrite(c) ==
  /\ cpc[c] = "write"
  /\ Send(c, <<"WRITE", "SIZE">>, "data") \/ SendFails(c, "close")
  /\ UNCHANGED <<serverVars, sent, s2c, left, broken>>

ClientSendData(c) ==
  /\ cpc[c] = "data"
  /\ \/ /\ Send(c, <<"DATA">>, IF sent[c] + 1 = Chunks THEN "write_resp" ELSE "data")
        /\ sent' = [sent EXCEPT ![c] = @ + 1]
     \/ SendFails(c, "close") /\ UNCHANGED sent
  /\ UNCHANGED <<serverVars, s2c, left, broken>>

(* client_close unmaps the source file whatever happens.                   *)
ClientClose(c) ==
  /\ cpc[c] = "close"
  /\ \/ Send(c, <<"CLOSE">>, "close_resp")
     \/ ~Up(c) /\ cpc' = [cpc EXCEPT ![c] = "shutdown"] /\ UNCHANGED <<ret, c2s>>
  /\ UNCHANGED <<serverVars, sent, s2c, left, broken>>

(* msg_get_resp: 0 only for a good response to cmd.  When the connection   *)
(* failed, the header examined is the request itself, or, for WRITE, an    *)
(* uninitialised one.                                                      *)
Good_AnyStatus(resp, cmd) == resp.cmd = cmd
Good(resp, cmd) == resp = [cmd |-> cmd, ok |-> TRUE]
Answers(c, cmd) ==
  IF s2c[c] # <<>> THEN {Good(Head(s2c[c]), cmd)}
  ELSE IF c \in broken THEN (IF cmd = "WRITE" THEN BOOLEAN ELSE {FALSE})
  ELSE IF <<"server", c>> \in left THEN {FALSE} ELSE {}

TakeResp(c) ==
  s2c' = [s2c EXCEPT ![c] = IF @ = <<>> THEN @ ELSE Tail(@)]

OpenResp(c, ok) ==
  /\ cpc' = [cpc EXCEPT ![c] = IF ok THEN "write" ELSE "shutdown"]
  /\ ret' = [ret EXCEPT ![c] = ok]
ClientOpened(c) ==
  /\ cpc[c] = "open_resp"
  /\ \E ok \in Answers(c, "OPEN") : OpenResp(c, ok)
  /\ TakeResp(c)
  /\ UNCHANGED <<serverVars, sent, c2s, left, broken>>

ClientWritten(c) ==
  /\ cpc[c] = "write_resp"
  /\ \E ok \in Answers(c, "WRITE") : ret' = [ret EXCEPT ![c] = ok]
  /\ cpc' = [cpc EXCEPT ![c] = "close"]
  /\ TakeResp(c)
  /\ UNCHANGED <<serverVars, sent, c2s, left, broken>>

ClientClosed(c) ==
  /\ cpc[c] = "close_resp" /\ Answers(c, "CLOSE") # {}
  /\ cpc' = [cpc EXCEPT ![c] = "shutdown"]
  /\ TakeResp(c)
  /\ UNCHANGED <<serverVars, sent, ret, c2s, left, broken>>

ClientEnds(c) ==
  /\ cpc[c] = "shutdown"
  /\ left' = left \cup {<<"client", c>>}
  /\ cpc' = [cpc EXCEPT ![c] = IF ret[c] THEN "ok" ELSE "failed"]
  /\ UNCHANGED <<serverVars, sent, ret, c2s, s2c, broken>>

Client(c) ==
  \/ Connect(c) \/ ClientOpen(c) \/ ClientOpened(c) \/ ClientStartWrite(c)
  \/ ClientSendData(c) \/ ClientWritten(c) \/ ClientClose(c)
  \/ ClientClosed(c) \/ ClientEnds(c)

-----------------------------------------------------------------------------
(* What was sent and not received may be lost with the sender or the       *)
(* connection.                                                             *)
LosesTail(c) == \E n \in 0 .. Len(c2s[c]) : c2s' = [c2s EXCEPT ![c] = SubSeq(@, 1, n)]

Crash(c) ==
  /\ "crash" \in Faults /\ cpc[c] \notin Ends \cup {"start", "gone"}
  /\ cpc' = [cpc EXCEPT ![c] = IF @ = "waiting" THEN "gone" ELSE "failed"]
  /\ left' = left \cup {<<"client", c>>}
  /\ LosesTail(c)
  /\ UNCHANGED <<serverVars, sent, ret, s2c, broken>>

Break(c) ==
  /\ "break" \in Faults /\ c = cur /\ c \notin broken
  /\ broken' = broken \cup {c}
  /\ LosesTail(c)
  /\ UNCHANGED <<serverVars, clientVars, s2c, left>>

(* The server never exits: it waits in raccept for a client.               *)
Idle == spc = "accept" /\ (\A c \in Clients : cpc[c] \in Ends) /\ UNCHANGED vars

Next ==
  \/ Server \/ Idle
  \/ \E c \in Clients : Client(c) \/ Crash(c) \/ Break(c)

Spec == Init /\ [][Next]_vars
FairSpec == Spec /\ WF_vars(Server) /\ \A c \in Clients : WF_vars(Client(c))
-----------------------------------------------------------------------------
(* Every variable has its type.                                            *)
TypeOK ==
  /\ spc \in {"accept", "hdr", "path", "size", "data", "end"}
  /\ cur \in Sockets \cup {Nobody} /\ msg \in Commands \cup {Null, Bad}
  /\ fd \in Files \cup {Null, Bad} /\ file_addr \in Files \cup {Null, Bad}
  /\ open_files \subseteq Files
  /\ file \in [Files -> SUBSET (1 .. Chunks)] /\ got \in 0 .. Chunks
  /\ cpc \in [Clients -> ClientPhases]
  /\ sent \in [Clients -> 0 .. Chunks] /\ ret \in [Clients -> BOOLEAN]
  /\ c2s \in [Sockets -> Seq(Items)] /\ s2c \in [Sockets -> Seq(Responses)]
  /\ left \subseteq {"server", "client"} \X Sockets /\ broken \subseteq Sockets

(* rcopy implements CopyService: whatever crashes or fails, and although   *)
(* a short receive makes server_write and server_open answer 0, a client   *)
(* reports success only when its whole file is at the server, and nobody   *)
(* touches a file outside of its own session or takes away what is stored. *)
(* (A client whose own connection failed may take the uninitialised header *)
(* of msg_get_resp for success.)  A server that runs on without a          *)
(* connection, because raccept failed, serves nobody.                      *)
Outcome(c) ==
  CASE cpc[c] = "ok" -> "ok"
    [] cpc[c] \in {"failed", "refused", "gone"} -> "failed"
    [] OTHER -> "pending"

Service == INSTANCE CopyService WITH
  Pieces <- Chunks, serving <- IF cur = Invalid THEN Nobody ELSE cur,
  lost <- broken \ {Invalid},
  stored <- [c \in Clients |-> file[c]],
  outcome <- [c \in Clients |-> Outcome(c)]
ImplementsCopyService == Service!Spec

(* The globals never lose track of an open file: whatever ends a session,  *)
(* also a connection that fails while stale headers are processed again,   *)
(* the only file open is the one in fd.                                    *)
OneFile == open_files \subseteq {fd}

(* A server that is waiting for a connection is in the way of the next     *)
(* client (EBUSY) only because of a client that did not succeed: it died   *)
(* before CLOSE, or its ftruncate or mmap failed; or because a connection  *)
(* or raccept failed and stale headers were processed.                     *)
BusyAfterFailure ==
  spc = "accept" /\ Busy =>
    IF fd \in Clients \ broken THEN cpc[fd] # "ok" ELSE broken # {}

(* The two ends agree where one message ends and the next begins: what     *)
(* the server receives next is what its handler expects, also after it     *)
(* refused a message without having received the rest of it.               *)
Expected(pc) ==
  CASE pc = "hdr" -> Commands [] pc = "path" -> {"PATH"}
    [] pc = "size" -> {"SIZE"} [] pc = "data" -> {"DATA"} [] OTHER -> Items
Framing == cur # Nobody /\ c2s[cur] # <<>> => Head(c2s[cur]) \in Expected(spc)

(* The server comes back for the next connection, also when its client     *)
(* died in the middle of a message or the file system failed; then nobody  *)
(* waits in the backlog for ever.  The only way not to come back is what   *)
(* _recv's len for an error makes of a CLOSE or a WRITE: without a working *)
(* connection, also without any, since the result of raccept is not looked *)
(* at, the same header is handled for ever.  A stale OPEN, or one that is  *)
(* no command, ends the session.                                           *)
Looping == cur \in broken /\ msg \in {"CLOSE", "WRITE"}
ServerReturns ==
  /\ []<>(spc = "accept") \/ <>[]Looping
  /\ []<>(spc = "accept") => \A c \in Clients : <>(cpc[c] \in Ends)
=============================================================================
