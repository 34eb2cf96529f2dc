--------------------------------- MODULE Apm ---------------------------------
(***************************************************************************)
(* apm: automatic path migration.  Client and server pick an alternate     *)
(* path, exchanging the LIDs of their alternate ports as private data of   *)
(* the connection, load it into their queue pairs, and send messages back  *)
(* and forth.  On the way the path may be migrated, by the client's -m or  *)
(* by the adapters when the cable of a port is pulled.  On each side the   *)
(* main thread runs next to a thread that takes asynchronous events.       *)
(***************************************************************************)
EXTENDS Integers, FiniteSets, FiniteSetsExt, MsgQp

CONSTANTS Ports,         \* port numbers of an adapter
          msg_count,     \* option -c
          MigrateAfter,  \* values of option -m
          Faults         \* what may go wrong, see FaultKinds

(* "cable": the experiment of the program, the cable of the original port  *)
(* of a host with another active port is pulled; "verbs": a call fails     *)
(* before the loop.                                                        *)
FaultKinds == {"cable", "verbs"}

ASSUME ApmAssumption ==
  /\ Ports \subseteq Nat \ {0} /\ IsFiniteSet(Ports) /\ Ports # {} /\ msg_count \in Nat
  /\ MigrateAfter \subseteq -1 .. msg_count /\ Faults \subseteq FaultKinds

VARIABLES
  cur_port,      \* node -> the port its queue pair is bound to
  active,        \* node -> its active ports
  given,         \* nodes whose command line has -d and -r
  migrate_after, \* option -m of the client, or -1
  alt_srcport, alt_dlid, my_alt_dlid,      \* node -> these fields of ctx
  pc, i, ret,    \* node -> where main is, its i and ret
  async,         \* node -> asynchronous events waiting
  athread,       \* node -> where async_event_thread is
  path, alt,     \* node -> the path its queue pair uses, the one loaded
  mig,           \* node -> its path migration state
  pulled         \* the LID cut off, and whether both were armed, or None

ctxVars   == <<cur_port, active, given, migrate_after, alt_srcport, alt_dlid, my_alt_dlid>>
mainVars  == <<pc, i, ret>>
asyncVars == <<async, athread>>
pathVars  == <<path, alt, mig, pulled>>
vars == <<ctxVars, mainVars, asyncVars, pathVars, qpVars>>

None == <<>>
Lid(n, p) == <<n, p>>
NoLid == <<"none", 0>>
Lids(n) == {Lid(n, p) : p \in Ports}
AllLids == UNION {Lids(n) : n \in Nodes}

Phases == {"start", "listening", "connecting", "accepting", "load", "recv",
           "repost", "send", "sending", "end", "disconnect", "out", "done"}

PrimaryPath(n) == [port |-> cur_port[n], dlid |-> Lid(Other(n), cur_port[Other(n)])]

Init ==
  /\ active \in [Nodes -> SUBSET Ports]
  /\ cur_port \in {f \in [Nodes -> Ports] : \A n \in Nodes : f[n] \in active[n]}
  /\ given \in SUBSET Nodes /\ migrate_after \in MigrateAfter
  /\ alt_srcport \in {f \in [Nodes -> Ports \cup {0}] :
                        \A n \in Nodes : f[n] # 0 <=> n \in given}
  /\ alt_dlid \in {f \in [Nodes -> AllLids \cup {NoLid}] :
       \A n \in Nodes : f[n] \in IF n \in given THEN Lids(Other(n)) ELSE {NoLid}}
  /\ my_alt_dlid = [n \in Nodes |-> NoLid]
  /\ pc = [n \in Nodes |-> IF n = "server" THEN "listening" ELSE "start"]
  /\ i = [n \in Nodes |-> 0] /\ ret = [n \in Nodes |-> 0]
  /\ async = [n \in Nodes |-> 0] /\ athread = [n \in Nodes |-> "none"]
  /\ path = [n \in Nodes |-> PrimaryPath(n)] /\ alt = [n \in Nodes |-> None]
  /\ mig = [n \in Nodes |-> "migrated"] /\ pulled = None
  /\ QpInit

Goto(n, phase) == pc' = [pc EXCEPT ![n] = phase]
Fails(n) == Goto(n, "out") /\ ret' = [ret EXCEPT ![n] = -1]

-----------------------------------------------------------------------------
(* Choosing the alternate path.                                            *)

(* get_alt_port_details: the first active port that is not the current     *)
(* one; without one, the loop is left with the current port.               *)
AltPort_NoBreak(n) == Max(active[n])
AltPort(n) ==
  LET others == active[n] \ {cur_port[n]}
  IN  IF others = {} THEN cur_port[n] ELSE Min(others)

(* The test that the path was not given, on the command line or, by then,  *)
(* in the private data.                                                    *)
PathUnset(n, dlid) == dlid = NoLid /\ alt_srcport[n] = 0

GetAltPortDetails(n, dlid) ==
  IF PathUnset(n, dlid)
  THEN /\ alt_srcport' = [alt_srcport EXCEPT ![n] = AltPort(n)]
       /\ my_alt_dlid' = [my_alt_dlid EXCEPT ![n] = Lid(n, AltPort(n))]
  ELSE UNCHANGED <<alt_srcport, my_alt_dlid>>

(* What get_alt_dlid_from_private_data makes of alt_dlid.                  *)
DlidFromPeer_Ignored(n) == alt_dlid[n]
DlidFromPeer(n) ==
  IF PathUnset(n, alt_dlid[n]) THEN my_alt_dlid[Other(n)] ELSE alt_dlid[n]

StartThread(n) == athread' = [athread EXCEPT ![n] = "get"] /\ UNCHANGED async

(* The client, up to where rdma_connect blocks.                            *)
ClientConnect ==
  /\ pc["client"] = "start" /\ Goto("client", "connecting")
  /\ GetAltPortDetails("client", alt_dlid["client"])
  /\ StartThread("client") /\ PostRecv("client")
  /\ UNCHANGED <<cur_port, active, given, migrate_after, alt_dlid, i, ret, pathVars>>

(* The server, from the connect request to where rdma_accept blocks.       *)
AcceptConnection ==
  /\ pc["server"] = "listening" /\ pc["client"] = "connecting"
  /\ Goto("server", "accepting")
  /\ alt_dlid' = [alt_dlid EXCEPT !["server"] = DlidFromPeer("server")]
  /\ GetAltPortDetails("server", DlidFromPeer("server"))
  /\ StartThread("server") /\ PostRecv("server")
  /\ UNCHANGED <<cur_port, active, given, migrate_after, i, ret, pathVars>>

(* rdma_connect returns; the client has a source port by now, so that it   *)
(* takes the server's LID only if it found no active port at all.          *)
ConnectReturns ==
  /\ pc["client"] = "connecting" /\ pc["server"] = "accepting"
  /\ Goto("client", "load")
  /\ alt_dlid' = [alt_dlid EXCEPT !["client"] = DlidFromPeer("client")]
  /\ UNCHANGED <<cur_port, active, given, migrate_after, alt_srcport, my_alt_dlid,
                 i, ret, asyncVars, pathVars, qpVars>>

AcceptReturns ==
  /\ pc["server"] = "accepting" /\ pc["client"] # "connecting"
  /\ Goto("server", "load")
  /\ UNCHANGED <<ctxVars, i, ret, asyncVars, pathVars, qpVars>>

(* A server that failed refuses the client.  What establish_connection     *)
(* returned is overwritten, but load_alt_path fails on a queue pair that   *)
(* is not connected.                                                       *)
ConnectFails ==
  /\ pc["client"] = "connecting" /\ pc["server"] \in {"out", "done"}
  /\ Fails("client")
  /\ UNCHANGED <<ctxVars, i, asyncVars, pathVars, qpVars>>

SetupFails(n) ==
  /\ "verbs" \in Faults /\ pc[n] \in {"start", "listening", "load"}
  /\ Fails(n)
  /\ UNCHANGED <<ctxVars, i, asyncVars, pathVars, qpVars>>

(* load_alt_path.  (It has no return on success; compiled as its header    *)
(* says it returns the 0 of ibv_modify_qp.)                                *)
LoadedPath_NoDefault(n) == [port |-> alt_srcport[n], dlid |-> path[n].dlid]
LoadedPath(n) ==
  [port |-> IF alt_srcport[n] # 0 THEN alt_srcport[n] ELSE path[n].port,
   dlid |-> IF alt_dlid[n] # NoLid THEN alt_dlid[n] ELSE path[n].dlid]

FirstPhase(n) == IF n = "server" THEN "recv" ELSE "send"
LoopHead(n, k) == IF k < msg_count THEN FirstPhase(n) ELSE "disconnect"

LoadAltPath(n) ==
  /\ pc[n] = "load" /\ Goto(n, LoopHead(n, 0))
  /\ alt' = [alt EXCEPT ![n] = LoadedPath(n)]
  /\ mig' = [mig EXCEPT ![n] = "rearm"]
  /\ UNCHANGED <<ctxVars, i, ret, asyncVars, path, pulled, qpVars>>

-----------------------------------------------------------------------------
(* The loop: the server receives and sends, the client sends and receives. *)
(* Nobody looks at the status of a completion.                             *)

AfterRecv_NoRepost(n) == IF n = "server" THEN "send" ELSE "end"
AfterRecv(n) == "repost"
GetRecv(n) ==
  /\ pc[n] = "recv" /\ Goto(n, AfterRecv(n))
  /\ GetRecvComp(n)
  /\ UNCHANGED <<ctxVars, i, ret, asyncVars, pathVars>>

(* There is room for one receive, and rdma_post_recv fails if it is taken; *)
(* the break leaves ret alone.                                             *)
max_recv_wr == 1
RepostRecv(n) ==
  /\ pc[n] = "repost"
  /\ IF recvs[n] < max_recv_wr
     THEN PostRecv(n) /\ Goto(n, IF n = "server" THEN "send" ELSE "end")
     ELSE Goto(n, "disconnect") /\ UNCHANGED qpVars
  /\ UNCHANGED <<ctxVars, i, ret, asyncVars, pathVars>>

SendMsg(n) ==
  /\ pc[n] = "send" /\ Goto(n, "sending")
  /\ PostSend(n, [msg |-> i[n]])
  /\ UNCHANGED <<ctxVars, i, ret, asyncVars, pathVars>>

AfterSend_NoRecv(n) == "end"
AfterSend(n) == IF n = "server" THEN "end" ELSE "recv"
GetSend(n) ==
  /\ pc[n] = "sending" /\ Goto(n, AfterSend(n))
  /\ GetSendComp(n)
  /\ UNCHANGED <<ctxVars, i, ret, asyncVars, pathVars>>

(* Moving a queue pair to its alternate path raises PATH_MIG.              *)
MigrateQp(n) ==
  /\ mig' = [mig EXCEPT ![n] = "migrated"]
  /\ path' = [path EXCEPT ![n] = alt[n]]
  /\ async' = [async EXCEPT ![n] = @ + 1]
  /\ UNCHANGED <<alt, pulled, athread>>

(* The end of an iteration, with the client's manual migration.  A queue   *)
(* pair that is armed can be migrated, one in error cannot be modified;    *)
(* what a migrated one makes of it depends on the adapter.                 *)
NextIteration(n) ==
  /\ i' = [i EXCEPT ![n] = @ + 1] /\ Goto(n, LoopHead(n, i[n] + 1))
  /\ UNCHANGED ret
MigratesNow_Early(n) == n = "client" /\ i[n] + 1 = migrate_after
MigratesNow(n) == n = "client" /\ i[n] = migrate_after
EndIteration(n) ==
  /\ pc[n] = "end"
  /\ \/ ~MigratesNow(n) /\ NextIteration(n) /\ UNCHANGED <<asyncVars, pathVars>>
     \/ /\ MigratesNow(n) /\ n \notin qp_error /\ mig[n] = "armed"
        /\ NextIteration(n) /\ MigrateQp(n)
     \/ /\ MigratesNow(n) /\ n \notin qp_error /\ mig[n] = "migrated"
        /\ NextIteration(n) /\ UNCHANGED <<asyncVars, pathVars>>
     \/ /\ MigratesNow(n) /\ (n \in qp_error \/ mig[n] # "armed")
        /\ Fails(n) /\ UNCHANGED <<i, asyncVars, pathVars>>
  /\ UNCHANGED <<ctxVars, qpVars>>

(* The queue pair is moved to the error state, or destroyed.               *)
Close(n) ==
  IF n \in qp_error THEN UNCHANGED qpVars ELSE Flush({n}, [m \in Nodes |-> 0])

RdmaDisconnect(n) ==
  /\ pc[n] = "disconnect" /\ Goto(n, "out")
  /\ Close(n)
  /\ UNCHANGED <<ctxVars, i, ret, asyncVars, pathVars>>

(* The end of main.  Destroying the queue pair waits until every event     *)
(* that was taken is acknowledged.                                         *)
Cleanup(n) ==
  /\ pc[n] = "out" /\ athread[n] # "ack"
  /\ Goto(n, "done") /\ Close(n)
  /\ UNCHANGED <<ctxVars, i, ret, asyncVars, pathVars>>

-----------------------------------------------------------------------------
(* async_event_thread, until the process returns.                          *)
GetEvent(n) ==
  /\ athread[n] = "get" /\ async[n] > 0 /\ pc[n] # "done"
  /\ athread' = [athread EXCEPT ![n] = "ack"]
  /\ async' = [async EXCEPT ![n] = @ - 1]
  /\ UNCHANGED <<ctxVars, mainVars, pathVars, qpVars>>

AckEvent(n) ==
  /\ athread[n] = "ack"
  /\ athread' = [athread EXCEPT ![n] = "get"]
  /\ UNCHANGED <<ctxVars, mainVars, async, pathVars, qpVars>>

-----------------------------------------------------------------------------
(* The adapters.  A packet needs both cables of its path, and a receiver   *)
(* with the same path; an armed receiver checks a packet of a queue pair   *)
(* that has migrated against its alternate path, and migrates too.         *)
Mirrors(n, p, q) == p.dlid = Lid(Other(n), q.port) /\ q.dlid = Lid(n, p.port)
Cut(n) == pulled # None /\ pulled.lid \in {Lid(n, path[n].port), path[n].dlid}
Follows(n) == mig[n] = "migrated" /\ mig[Other(n)] = "armed"
Arrives(n) ==
  /\ qp_error = {} /\ ~Cut(n)
  /\ Mirrors(n, path[n], IF Follows(n) THEN alt[Other(n)] ELSE path[Other(n)])

(* A packet and its acknowledgement between queue pairs that both have     *)
(* loaded an alternate path arm them.                                      *)
DeliverMsg(n) ==
  /\ Arrives(n) /\ Deliver(n)
  /\ IF Follows(n) THEN MigrateQp(Other(n))
     ELSE /\ mig' = IF \A m \in Nodes : mig[m] \in {"rearm", "armed"}
                    THEN [m \in Nodes |-> "armed"] ELSE mig
          /\ UNCHANGED <<path, alt, pulled, asyncVars>>
  /\ UNCHANGED <<ctxVars, mainVars>>

(* A send that was retried in vain migrates an armed queue pair; one that  *)
(* cannot migrate goes to the error state.                                 *)
RetriesExhausted(n) == wire[n] # <<>> /\ ~Arrives(n)

AutoMigrate(n) ==
  /\ RetriesExhausted(n) /\ mig[n] = "armed"
  /\ MigrateQp(n)
  /\ UNCHANGED <<ctxVars, mainVars, qpVars>>

SendFails(n) ==
  /\ RetriesExhausted(n) /\ mig[n] # "armed"
  /\ Close(n)
  /\ UNCHANGED <<ctxVars, mainVars, asyncVars, pathVars>>

PullCable(n) ==
  /\ "cable" \in Faults /\ pulled = None
  /\ active[n] # {cur_port[n]} /\ \A m \in Nodes : alt[m] # None
  /\ pulled' = [lid |-> Lid(n, cur_port[n]), armed |-> \A m \in Nodes : mig[m] = "armed"]
  /\ UNCHANGED <<ctxVars, mainVars, asyncVars, path, alt, mig, qpVars>>

Main(n) ==
  \/ n = "client" /\ (ClientConnect \/ ConnectReturns \/ ConnectFails)
  \/ n = "server" /\ (AcceptConnection \/ AcceptReturns)
  \/ LoadAltPath(n) \/ GetRecv(n) \/ RepostRecv(n) \/ SendMsg(n) \/ GetSend(n)
  \/ EndIteration(n) \/ RdmaDisconnect(n) \/ Cleanup(n)
AsyncEventThread(n) == GetEvent(n) \/ AckEvent(n)
Adapter(n) == DeliverMsg(n) \/ AutoMigrate(n) \/ SendFails(n)

(* Both programs have ended, or one waits for the other, which is gone.    *)
Over == (\E n \in Nodes : pc[n] = "done") /\ UNCHANGED vars

Next ==
  \/ \E n \in Nodes :
       Main(n) \/ SetupFails(n) \/ AsyncEventThread(n) \/ Adapter(n) \/ PullCable(n)
  \/ Over

Spec == Init /\ [][Next]_vars
FairSpec ==
  Spec /\ \A n \in Nodes : WF_vars(Main(n)) /\ WF_vars(AsyncEventThread(n)) /\ WF_vars(Adapter(n))
-----------------------------------------------------------------------------
(* Every variable has its type.                                            *)
Path == [port : Ports, dlid : AllLids]
TypeOK ==
  /\ active \in [Nodes -> SUBSET Ports] /\ cur_port \in [Nodes -> Ports]
  /\ given \subseteq Nodes /\ migrate_after \in MigrateAfter
  /\ alt_srcport \in [Nodes -> Ports \cup {0}]
  /\ {alt_dlid, my_alt_dlid} \subseteq [Nodes -> AllLids \cup {NoLid}]
  /\ pc \in [Nodes -> Phases] /\ i \in [Nodes -> 0 .. msg_count] /\ ret \in [Nodes -> {0, -1}]
  /\ async \in [Nodes -> Nat] /\ athread \in [Nodes -> {"none", "get", "ack"}]
  /\ path \in [Nodes -> Path] /\ alt \in [Nodes -> Path \cup {None}]
  /\ mig \in [Nodes -> {"migrated", "rearm", "armed"}]
  /\ pulled \in [lid : AllLids, armed : BOOLEAN] \cup {None}
  /\ QpTypeOK([msg : Nat])

(* "Set the alternate path details on each side of the connection": when   *)
(* both sides have loaded an alternate path they chose themselves, one is  *)
(* the other seen from the other end, whichever ports the hosts have, and  *)
(* it is another path exactly when the client's host has a second active   *)
(* port.  (A second port of the server's host is never used, although "at  *)
(* least one of these two hosts must have a IB card with two ports": the   *)
(* server takes the client's LID before it looks for a port of its own,    *)
(* and then does not look.)                                                *)
Chosen == given = {} /\ \A n \in Nodes : alt[n] # None
AlternatePaths ==
  Chosen =>
    /\ Mirrors("client", alt["client"], alt["server"])
    /\ \A n \in Nodes :
         alt[n] # PrimaryPath(n) <=> active["client"] # {cur_port["client"]}

(* Each side has room for one receive, and the number of retries without   *)
(* one is limited (rnr_retry_count): a message never comes before its      *)
(* receive, and no receive is posted while there is one.                   *)
ReceivePosted ==
  \A n \in Nodes :
    /\ recvs[n] <= max_recv_wr /\ (pc[n] = "repost" => recvs[n] = 0)
    /\ wire[Other(n)] # <<>> /\ n \notin qp_error => recvs[n] = 1

(* Client and server stay in step: until its own queue pair fails, the    *)
(* next message a side takes is the one whose number is the number of      *)
(* messages it took, in whatever phase of the loop it arrives.             *)
Taken(n) ==
  i[n] + (IF pc[n] \in {"repost", "end"} \/ (n = "server" /\ pc[n] \in {"send", "sending"})
          THEN 1 ELSE 0)
InStep ==
  \A n \in Nodes \ qp_error :
    recv_cq[n] # <<>> => recv_cq[n] = <<[msg |-> Taken(n)]>>

(* When the client migrates by hand, the server has loaded its alternate   *)
(* path and the adapters have armed: nobody waits for that, but an answer  *)
(* of the server has been received.                                        *)
ArmedBeforeMigrating ==
  pc["client"] = "end" /\ MigratesNow("client") /\ "client" \notin qp_error =>
    alt["server"] # None /\ mig["client"] # "rearm"

(* Nothing went wrong but what the alternate path is for: no call failed,  *)
(* and of the client's host the original port lost its cable when both     *)
(* sides were armed, without a migration by hand on top.                   *)
Survivable ==
  /\ given = {} /\ \A n \in Nodes : ret[n] = 0
  /\ pulled # None =>
       pulled.armed /\ pulled.lid \in Lids("client") /\ migrate_after = -1

(* "Complete sends using the alternate path": across a migration, by hand  *)
(* or because of the cable, no message is lost; a queue pair leaves its    *)
(* connection only after the loop.                                         *)
MigrationLossless ==
  Survivable => \A n \in qp_error : pc[n] \in {"out", "done"}

(* Then both sides exchange all their messages and return 0, the client    *)
(* over the alternate path if it was told to migrate during the loop; also *)
(* the event thread never keeps a process from ending.                     *)
Exchanged ==
  /\ \A n \in Nodes : pc[n] = "done" /\ i[n] = msg_count
  /\ migrate_after \in 0 .. msg_count - 1 => path["client"] = alt["client"]
BothEnd == []Survivable => <>Exchanged
=============================================================================
