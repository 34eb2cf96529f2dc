------------------------------ MODULE FcSession ------------------------------
(***************************************************************************)
(* A whole many-to-one session of rdma_fc: one server and several client   *)
(* processes.  Each client opens its connections, sends a FIN on each and  *)
(* waits for the server's FINs while the server reads its memory; the      *)
(* server waits for the connections it expects, reads (FcReads; here one   *)
(* read per connection and iteration), sends its FINs, waits for the       *)
(* clients' and disconnects.  Both roles run the same code, so the state   *)
(* of every process is a function over Procs.  Every process is a single   *)
(* thread; the connection manager and the adapters work between any two    *)
(* steps.                                                                  *)
(***************************************************************************)
EXTENDS Naturals, Sequences, FiniteSets, Functions

CONSTANTS Clients,            \* client processes
          ClientConnections,  \* client -> its option -n
          num_connections,    \* option -n of the server
          Transports,         \* values of option -x
          num_iterations,     \* option -i of the server
          rx_queue_len,       \* receives of every client
          tx_queue_len,       \* sends one queue pair has room for
          Faults              \* what may go wrong, see FaultKinds

(* "flush": a send still in its queue is lost when the queue pair is moved *)
(* to the error state or destroyed (without it, the adapter is assumed to  *)
(* be faster); "timewait": TIMEWAIT_EXIT events may come before the last   *)
(* disconnect; "crash": a process may die, or return an error, at any step.*)
FaultKinds == {"flush", "timewait", "crash"}

ASSUME SessionAssumption ==
  /\ IsFiniteSet(Clients) /\ "server" \notin Clients
  /\ ClientConnections \in [Clients -> Nat \ {0}]
  /\ num_connections \in Nat \ {0} /\ num_iterations \in Nat \ {0}
  /\ rx_queue_len \in Nat /\ tx_queue_len \in Nat \ {0} /\ Transports \subseteq {"rc", "dc"}
  /\ Faults \subseteq FaultKinds

Server == "server"
Procs  == Clients \cup {Server}
Conns  == UNION {{c} \X (1 .. ClientConnections[c]) : c \in Clients}
Peer(p, c) == IF p = Server THEN c[1] ELSE Server
ConnsOf(p) == IF p = Server THEN Conns ELSE {c \in Conns : c[1] = p}

VARIABLES
  transport,        \* option -x, the same for all
  pc,               \* see Phases
  conns,            \* g_test.conns: the connections added, in order
  num_established, num_fin_recvd, num_disconnect,
  mem,              \* processes whose buffers are registered
  rx,               \* receives left in the shared receive queue
  fins,             \* FIN receive completions waiting in the CQ
  events,           \* the rdma_cm event channel
  net,              \* connection manager messages under way
  unsent,           \* connections on which a FIN is posted, not delivered
  closed,           \* <<p, c>>: the queue pair of c at p is in error or gone
  reading,          \* connections with a read in flight
  read,             \* connections whose reads of this iteration are complete
  round             \* iterations the server has started

vars == <<transport, pc, conns, num_established, num_fin_recvd, num_disconnect,
          mem, rx, fins, events, net, unsent, closed, reading, read, round>>

counters == <<num_established, num_fin_recvd, num_disconnect>>
recvVars == <<mem, rx, fins>>
readVars == <<reading, read, round>>
linkVars == <<transport, unsent, closed, readVars>>

Ends   == {"ok", "failed"}
Phases == {"setup", "reading", "fin_wait", "disc_wait"} \cup Ends
Exited(p) == pc[p] \in Ends

SetupEvents == {"ADDR_RESOLVED", "ROUTE_RESOLVED", "CONNECT_REQUEST", "ESTABLISHED"}
EndEvents   == {"DISCONNECTED", "TIMEWAIT_EXIT", "REJECTED"}
Msg(p, ev, c) == [to |-> p, ev |-> ev, conn |-> c]
Messages == [to : Procs, ev : SetupEvents \cup EndEvents, conn : Conns]

num_conns(p) == Len(conns[p])

-----------------------------------------------------------------------------
(* The server listens; every client has called rdma_resolve_addr for all   *)
(* its connections.                                                        *)
Init ==
  /\ transport \in Transports
  /\ pc = [p \in Procs |-> "setup"]
  /\ conns = [p \in Procs |-> <<>>]
  /\ num_established = [p \in Procs |-> 0]
  /\ num_fin_recvd   = [p \in Procs |-> 0]
  /\ num_disconnect  = [p \in Procs |-> 0]
  /\ mem = {} /\ rx = [p \in Procs |-> 0] /\ fins = [p \in Procs |-> 0]
  /\ events = [p \in Procs |-> <<>>]
  /\ net = {Msg(c[1], "ADDR_RESOLVED", c) : c \in Conns}
  /\ unsent = [p \in Procs |-> {}]
  /\ closed = {} /\ reading = {} /\ read = {} /\ round = 0

-----------------------------------------------------------------------------
(* Pieces of the handlers.                                                 *)

(* The receive queue: run_server scales it for two control messages per    *)
(* connection, run_client does not.                                        *)
RxLen_Unscaled(p) == rx_queue_len
RxLen(p) ==
  IF p = Server /\ num_connections * 2 > rx_queue_len
  THEN num_connections * 2 ELSE rx_queue_len

(* init_transport: buffers are registered and receives posted once.        *)
InitTransport(p) ==
  /\ mem' = mem \cup {p}
  /\ rx' = [rx EXCEPT ![p] = IF p \in mem THEN @ ELSE RxLen(p)]

(* The event masks of the two event loops.                                 *)
Mask(p) ==
  IF pc[p] = "disc_wait" THEN {"DISCONNECTED"}
  ELSE IF p = Server THEN {"CONNECT_REQUEST", "ESTABLISHED", "DISCONNECTED"}
  ELSE {"ADDR_RESOLVED", "ROUTE_RESOLVED", "ESTABLISHED"}

(* The loops that wait_and_process_one_event is called from, and the       *)
(* conditions that end them.                                               *)
Expected(p) == IF p = Server THEN num_connections ELSE ClientConnections[p]
SetupDone(p) == num_established[p] >= Expected(p)
FinsDone_Skipped(p) == TRUE
FinsDone(p) == num_fin_recvd[p] >= num_conns(p)
DisconnectsDone(p) == num_disconnect[p] >= num_conns(p)

WaitsForEvent(p) ==
  \/ pc[p] = "setup" /\ ~SetupDone(p)
  \/ pc[p] = "disc_wait" /\ ~DisconnectsDone(p)

(* What the connection manager sends when p leaves connections cs: each    *)
(* side of a connection gets one DISCONNECTED, whoever is first.           *)
Disconnects(cs) ==
  LET first == {c \in cs : \A q \in Procs : <<q, c>> \notin closed}
      evs   == {"DISCONNECTED"} \cup
               (IF "timewait" \in Faults THEN {"TIMEWAIT_EXIT"} ELSE {})
  IN  UNION {{Msg(Server, ev, c), Msg(c[1], ev, c)} : ev \in evs, c \in first}

-----------------------------------------------------------------------------
(* wait_and_process_one_event                                              *)

TakeEvent(p) ==
  /\ WaitsForEvent(p) /\ events[p] # <<>>
  /\ Head(events[p]).ev \in Mask(p)
  /\ events' = [events EXCEPT ![p] = Tail(@)]

(* ADDR_RESOLVED: resolve the route.                                       *)
AddrResolved(p) ==
  LET e == Head(events[p]) IN
  /\ TakeEvent(p) /\ e.ev = "ADDR_RESOLVED"
  /\ net' = net \cup {Msg(p, "ROUTE_RESOLVED", e.conn)}
  /\ UNCHANGED <<pc, conns, counters, recvVars, linkVars>>

(* ROUTE_RESOLVED: prepare the transport, then send the connect request.   *)
RouteResolved(p) ==
  LET e == Head(events[p]) IN
  /\ TakeEvent(p) /\ e.ev = "ROUTE_RESOLVED"
  /\ InitTransport(p)
  /\ net' = net \cup {Msg(Server, "CONNECT_REQUEST", e.conn)}
  /\ UNCHANGED <<pc, conns, counters, fins, linkVars>>

(* add_connection: the next element of the array, whatever its size.       *)
AddConnection_NextIndex(s, e) == Append(s, <<e.conn[1], e.conn[2] + 1>>)
AddConnection(s, e) == Append(s, e.conn)

(* CONNECT_REQUEST: prepare the transport, add the connection, accept.  A  *)
(* DC connection is ready now.                                             *)
EstablishedOnRequest_Always == 1
EstablishedOnRequest == IF transport = "dc" THEN 1 ELSE 0
ConnectRequest(p) ==
  LET e == Head(events[p]) IN
  /\ TakeEvent(p) /\ e.ev = "CONNECT_REQUEST"
  /\ InitTransport(p)
  /\ conns' = [conns EXCEPT ![p] = AddConnection(@, e)]
  /\ num_established' = [num_established EXCEPT ![p] = @ + EstablishedOnRequest]
  /\ net' = net \cup {Msg(e.conn[1], "ESTABLISHED", e.conn)}
  /\ UNCHANGED <<pc, num_fin_recvd, num_disconnect, fins, linkVars>>

(* ESTABLISHED: the client adds the connection; both count it.             *)
AfterEstablished(p, e) ==
  IF p = Server THEN conns[p] ELSE AddConnection(conns[p], e)

Established(p) ==
  LET e == Head(events[p]) IN
  /\ TakeEvent(p) /\ e.ev = "ESTABLISHED"
  /\ conns' = [conns EXCEPT ![p] = AfterEstablished(p, e)]
  /\ num_established' = [num_established EXCEPT ![p] = @ + 1]
  /\ UNCHANGED <<pc, num_fin_recvd, num_disconnect, recvVars, net, linkVars>>

Disconnected(p) ==
  /\ TakeEvent(p) /\ Head(events[p]).ev = "DISCONNECTED"
  /\ num_disconnect' = [num_disconnect EXCEPT ![p] = @ + 1]
  /\ UNCHANGED <<pc, conns, num_established, num_fin_recvd, recvVars, net, linkVars>>

-----------------------------------------------------------------------------
(* A handshake message for a process that is gone is refused: the other    *)
(* side of a connect request, or of the reply to one, gets REJECTED.       *)
Refusal(m) ==
  CASE m.ev = "CONNECT_REQUEST" -> {Msg(m.conn[1], "REJECTED", m.conn)}
    [] m.ev = "ESTABLISHED" /\ m.to # Server /\ transport = "rc" ->
         {Msg(Server, "REJECTED", m.conn)}
    [] OTHER -> {}

(* Leaving: cleanup_test destroys the ids and deregisters the memory, also *)
(* after an error; what the process had not sent is lost.                  *)
Connected(p) ==
  Range(conns[p]) \cup {m.conn : m \in {n \in Range(events[p]) : n.ev = "ESTABLISHED"}}
Exit(p, end) ==
  /\ pc' = [pc EXCEPT ![p] = end]
  /\ mem' = mem \ {p}
  /\ closed' = closed \cup ({p} \X ConnsOf(p))
  /\ unsent' = [unsent EXCEPT ![p] = {}]
  /\ net' = {m \in net : m.to # p} \cup
       Disconnects(IF transport = "rc" THEN Connected(p) ELSE {}) \cup
       UNION {Refusal(m) : m \in {n \in net : n.to = p} \cup
                {n \in Range(events[p]) : n.ev = "CONNECT_REQUEST"}}
  /\ events' = [events EXCEPT ![p] = <<>>]
  /\ UNCHANGED <<transport, conns, counters, rx, fins, readVars>>

UnexpectedEvent(p) ==
  /\ WaitsForEvent(p) /\ events[p] # <<>>
  /\ Head(events[p]).ev \notin Mask(p)
  /\ Exit(p, "failed")

-----------------------------------------------------------------------------
(* do_rdma_reads, one read per connection (FcReads has the rest).          *)

StartReads ==
  /\ pc[Server] = "setup" /\ SetupDone(Server)
  /\ pc' = [pc EXCEPT ![Server] = "reading"] /\ round' = 1
  /\ UNCHANGED <<transport, conns, counters, recvVars, events, net, unsent, closed,
                 reading, read>>

PostRead(c) ==
  /\ pc[Server] = "reading" /\ c \in Range(conns[Server]) \ (reading \cup read)
  /\ reading' = reading \cup {c}
  /\ UNCHANGED <<transport, pc, conns, counters, recvVars, events, net, unsent,
                 closed, read, round>>

ReadDone(c) ==
  /\ pc[Server] = "reading" /\ c \in reading /\ c[1] \in mem
  /\ reading' = reading \ {c} /\ read' = read \cup {c}
  /\ UNCHANGED <<transport, pc, conns, counters, recvVars, events, net, unsent,
                 closed, round>>

(* The next iteration reads everything again.                              *)
ReadsDone_AnyRound == Range(conns[Server]) \subseteq read
ReadsDone == Range(conns[Server]) \subseteq read /\ round = num_iterations
NextIteration ==
  /\ pc[Server] = "reading" /\ Range(conns[Server]) \subseteq read
  /\ round < num_iterations
  /\ round' = round + 1 /\ read' = {}
  /\ UNCHANGED <<transport, pc, conns, counters, recvVars, events, net, unsent,
                 closed, reading>>

(* The client is gone: the read completes in error and the server returns. *)
ReadError(c) ==
  /\ pc[Server] = "reading" /\ c \in reading /\ c[1] \notin mem
  /\ Exit(Server, "failed")

-----------------------------------------------------------------------------
(* disconnect(): post a FIN on every connection; poll until as many came   *)
(* in; with RC, disconnect and wait for the events.                        *)

(* run_server makes the send queues large enough for a FIN on every        *)
(* connection, run_client does not.                                        *)
TxLen_Unscaled(p) == tx_queue_len
TxLen(p) ==
  IF p = Server /\ num_connections > tx_queue_len THEN num_connections ELSE tx_queue_len

(* Over RC every FIN has a queue pair of its own.  Over DC send_control    *)
(* picks an initiator at random for each, and asserts that it has room;    *)
(* nothing polls between two FINs, so that one may have to take them all.  *)
FinsFit(p) ==
  IF transport = "dc" /\ num_conns(p) > TxLen(p) THEN BOOLEAN ELSE {TRUE}

(* send_control posts a message and does not wait for it.                  *)
SendControl(p, cs) == unsent' = [unsent EXCEPT ![p] = @ \cup cs]

SendFins(p) ==
  /\ IF p = Server
     THEN pc[p] = "reading" /\ ReadsDone
     ELSE pc[p] = "setup" /\ SetupDone(p)
  /\ \E fit \in FinsFit(p) :
       IF fit
       THEN /\ pc' = [pc EXCEPT ![p] = "fin_wait"]
            /\ SendControl(p, Range(conns[p]))
            /\ UNCHANGED <<transport, conns, counters, recvVars, events, net, closed,
                           readVars>>
       ELSE Exit(p, "failed")

(* poll_cq of a FIN, also while the server is in do_rdma_reads.            *)
Polls(p) == pc[p] = "reading" \/ (pc[p] = "fin_wait" /\ ~FinsDone(p))
PollFin(p) ==
  /\ Polls(p) /\ fins[p] > 0
  /\ fins' = [fins EXCEPT ![p] = @ - 1]
  /\ num_fin_recvd' = [num_fin_recvd EXCEPT ![p] = @ + 1]
  /\ UNCHANGED <<pc, conns, num_established, num_disconnect, mem, rx, events,
                 net, linkVars>>

(* ibv_poll_cq does not block: a process that waits for a FIN spins.       *)
PollEmpty(p) == Polls(p) /\ fins[p] = 0 /\ UNCHANGED vars

(* A FIN that cannot be delivered any more completes in error.             *)
PollError(p) ==
  /\ Polls(p)
  /\ \E c \in unsent[p] : <<Peer(p, c), c>> \in closed
  /\ Exit(p, "failed")

(* Without the "flush" fault what was posted is on the wire by now.        *)
AllSent(p) == "flush" \in Faults \/ unsent[p] = {}

RdmaDisconnect(p) ==
  /\ pc[p] = "fin_wait" /\ FinsDone(p) /\ transport = "rc" /\ AllSent(p)
  /\ pc' = [pc EXCEPT ![p] = "disc_wait"]
  /\ net' = net \cup Disconnects(Range(conns[p]))
  /\ closed' = closed \cup ({p} \X Range(conns[p]))
  /\ unsent' = [unsent EXCEPT ![p] = {}]
  /\ UNCHANGED <<transport, conns, counters, recvVars, events, readVars>>

Return(p) ==
  /\ \/ pc[p] = "fin_wait" /\ FinsDone(p) /\ transport = "dc" /\ AllSent(p)
     \/ pc[p] = "disc_wait" /\ DisconnectsDone(p)
  /\ Exit(p, "ok")

Crash(p) == "crash" \in Faults /\ ~Exited(p) /\ Exit(p, "failed")

-----------------------------------------------------------------------------
(* The connection manager: messages of one connection to one process come  *)
(* in order (a disconnect after what precedes it, TIMEWAIT_EXIT last).     *)
Rank(ev) == CASE ev = "TIMEWAIT_EXIT" -> 2 [] ev = "DISCONNECTED" -> 1 [] OTHER -> 0

Deliver(m) ==
  /\ m \in net
  /\ \A n \in net : n.to = m.to /\ n.conn = m.conn => Rank(m.ev) <= Rank(n.ev)
  /\ IF Exited(m.to)
     THEN /\ net' = (net \ {m}) \cup Refusal(m)
          /\ UNCHANGED events
     ELSE /\ events' = [events EXCEPT ![m.to] = Append(@, m)]
          /\ net' = (net \ {m}) \cup
            (IF /\ m.ev = "ESTABLISHED" /\ m.to # Server /\ transport = "rc"
             THEN {Msg(Server, "ESTABLISHED", m.conn)} ELSE {})
  /\ UNCHANGED <<pc, conns, counters, recvVars, linkVars>>

(* The adapters: a FIN is delivered when the receiver has a receive left;  *)
(* otherwise it is retried for ever (rnr_retry = 7 is "infinite").         *)
DeliverFin(p, c) ==
  LET q == Peer(p, c) IN
  /\ c \in unsent[p] /\ <<q, c>> \notin closed /\ rx[q] > 0
  /\ unsent' = [unsent EXCEPT ![p] = @ \ {c}]
  /\ rx' = [rx EXCEPT ![q] = @ - 1]
  /\ fins' = [fins EXCEPT ![q] = @ + 1]
  /\ UNCHANGED <<transport, pc, conns, counters, mem, events, net, closed,
                 readVars>>

-----------------------------------------------------------------------------
ProcStep(p) ==
  \/ AddrResolved(p) \/ RouteResolved(p) \/ ConnectRequest(p)
  \/ Established(p) \/ Disconnected(p) \/ UnexpectedEvent(p)
  \/ SendFins(p) \/ PollFin(p) \/ PollEmpty(p) \/ PollError(p)
  \/ RdmaDisconnect(p) \/ Return(p)

ServerReads ==
  StartReads \/ NextIteration \/ \E c \in Conns : PostRead(c) \/ ReadDone(c) \/ ReadError(c)

Fabric ==
  \/ \E m \in net : Deliver(m)
  \/ \E p \in Procs : \E c \in unsent[p] : DeliverFin(p, c)

AllExited == (\A p \in Procs : Exited(p)) /\ net = {} /\ UNCHANGED vars

Next ==
  \/ \E p \in Procs : ProcStep(p) \/ Crash(p)
  \/ ServerReads
  \/ Fabric
  \/ AllExited

Spec == Init /\ [][Next]_vars

(* Every process runs, the server's reads complete, and the fabric         *)
(* delivers what it can.                                                   *)
FairSpec ==
  /\ Spec
  /\ \A p \in Procs : WF_vars(ProcStep(p))
  /\ WF_vars(ServerReads) /\ WF_vars(Fabric)
-----------------------------------------------------------------------------
(* Every variable has its type.                                            *)
TypeOK ==
  /\ transport \in Transports /\ pc \in [Procs -> Phases]
  /\ conns \in [Procs -> Seq(Conns)]
  /\ num_established \in [Procs -> Nat]
  /\ num_fin_recvd \in [Procs -> Nat] /\ num_disconnect \in [Procs -> Nat]
  /\ mem \subseteq Procs /\ rx \in [Procs -> Nat] /\ fins \in [Procs -> Nat]
  /\ events \in [Procs -> Seq(Messages)] /\ net \subseteq Messages
  /\ unsent \in [Procs -> SUBSET Conns] /\ closed \subseteq Procs \X Conns
  /\ reading \subseteq Conns /\ read \subseteq Conns /\ round \in 0 .. num_iterations

(* The FIN handshake protects the clients' memory: while the server still  *)
(* has something to read of a connection it accepted, in this iteration or *)
(* a later one, the client's buffer is registered, however far the client  *)
(* has come in its own disconnect().                                       *)
MemoryUntilRead ==
  pc[Server] \in {"setup", "reading"} =>
    \A c \in Range(conns[Server]) : c \notin read \/ round < num_iterations => c[1] \in mem

(* A client returns 0 only after the last iteration has read all of its    *)
(* memory, also when other processes crash or their sends are lost.        *)
ClientSuccess ==
  \A p \in Clients :
    pc[p] = "ok" => ConnsOf(p) \subseteq read /\ round = num_iterations

(* init_test: "Allocate array of connections": add_connection, which does  *)
(* not look at the size of the array, stays inside it.                     *)
ConnsInBounds ==
  \A p \in Procs : num_conns(p) <= Expected(p)

(* post_receives: "We post receives only once, should have enough to       *)
(* handle a control message for every connection (FIN)": every FIN on its  *)
(* way finds a receive.                                                    *)
FinsFor(p) == {c \in ConnsOf(p) : c \in unsent[Peer(p, c)]}
EnoughReceives == \A p \in Procs : Cardinality(FinsFor(p)) <= rx[p]

(* With RC the server reads only on connections whose handshake is over    *)
(* ("wait until all connections got ESTABLISHED event"): it counts events, *)
(* but uses every connection of the array.                                 *)
ReadsEstablished ==
  transport = "rc" =>
    \A c \in reading : \A p \in Procs :
      /\ Msg(p, "ESTABLISHED", c) \notin net
      /\ Msg(p, "ESTABLISHED", c) \notin Range(events[Server])

(* disconnect: "Wait for FIN messages on all connections", "Wait for       *)
(* rdma_cm disconnects on all connections": the waits end and every        *)
(* process returns 0, so that on the way no event meets a loop that does   *)
(* not expect it, no completion is in error and no assertion fails.        *)
EverybodyReturns == <>(\A p \in Procs : pc[p] = "ok")
=============================================================================
