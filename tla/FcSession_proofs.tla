--------------------------- MODULE FcSession_proofs ---------------------------
(***************************************************************************)
(* Theorems about a session of rdma_fc, for every number of clients,       *)
(* connections, iterations and queue entries.                              *)
(***************************************************************************)
EXTENDS FcSession, FiniteSetTheorems, SequenceTheorems, TLAPS

-----------------------------------------------------------------------------
(* The operators.                                                          *)

(* Every connection is one client's.                                       *)
LEMMA ConnFacts ==
  ASSUME NEW c \in Conns
  PROVE  /\ c[1] \in Clients /\ c[1] \in Procs /\ c[1] # Server
         /\ c \in ConnsOf(c[1]) /\ c \in ConnsOf(Server)
         /\ Peer(Server, c) = c[1] /\ Peer(c[1], c) = Server
BY SessionAssumption DEF Conns, ConnsOf, Peer, Procs, Server

LEMMA ProcFacts == Server \in Procs /\ Server \notin Clients /\ Clients \subseteq Procs
BY SessionAssumption DEF Procs, Server

(* A client has as many connections as its option says, and there are      *)
(* finitely many altogether.                                               *)
LEMMA ConnsOfClient ==
  ASSUME NEW p \in Clients
  PROVE  /\ IsFiniteSet(ConnsOf(p)) /\ Cardinality(ConnsOf(p)) = ClientConnections[p]
         /\ ConnsOf(p) \subseteq Conns
<1>1. ConnsOf(p) = {p} \X (1 .. ClientConnections[p])
  BY ProcFacts DEF ConnsOf, Conns
<1>2. ClientConnections[p] \in Nat \ {0}
  BY SessionAssumption
<1>3. IsFiniteSet({p}) /\ Cardinality({p}) = 1
  BY FS_Singleton
<1>4. IsFiniteSet(1 .. ClientConnections[p]) /\ Cardinality(1 .. ClientConnections[p]) = ClientConnections[p]
  BY <1>2, FS_Interval
<1>5. /\ IsFiniteSet({p} \X (1 .. ClientConnections[p]))
      /\ Cardinality({p} \X (1 .. ClientConnections[p])) = 1 * ClientConnections[p]
  BY <1>3, <1>4, FS_Product
<1>6. ConnsOf(p) \subseteq Conns
  BY ProcFacts DEF ConnsOf
<1>7. \A n \in Nat : 1 * n = n
  OBVIOUS
<1> QED
  BY <1>1, <1>2, <1>5, <1>6, <1>7

LEMMA ConnsFinite == IsFiniteSet(Conns)
<1> DEFINE Family == {{c} \X (1 .. ClientConnections[c]) : c \in Clients}
           f == [c \in Clients |-> {c} \X (1 .. ClientConnections[c])]
<1>1. f \in Surjection(Clients, Family)
  BY DEF Surjection
<1>2. IsFiniteSet(Family)
  BY <1>1, FS_Surjection, SessionAssumption
<1>3. \A s \in Family : IsFiniteSet(s)
  <2> SUFFICES ASSUME NEW c \in Clients PROVE IsFiniteSet({c} \X (1 .. ClientConnections[c]))
    OBVIOUS
  <2>1. ConnsOf(c) = {c} \X (1 .. ClientConnections[c])
    BY ProcFacts DEF ConnsOf, Conns
  <2> QED
    BY <2>1, ConnsOfClient
<1> QED
  BY <1>2, <1>3, FS_UNION DEF Conns

(* What a sequence holds, and how the queue operations change it.          *)
LEMMA RangeFacts ==
  ASSUME NEW T, NEW s \in Seq(T)
  PROVE  Range(s) \subseteq T /\ Range(s) = {s[i] : i \in 1 .. Len(s)}
BY DEF Range

LEMMA RangeAppend ==
  ASSUME NEW T, NEW s \in Seq(T), NEW e \in T
  PROVE  Range(Append(s, e)) = Range(s) \cup {e}
<1>1. /\ Append(s, e) \in Seq(T) /\ Len(Append(s, e)) = Len(s) + 1
      /\ \A i \in 1 .. Len(s) : Append(s, e)[i] = s[i]
      /\ Append(s, e)[Len(s) + 1] = e
  BY AppendProperties
<1>2. Range(Append(s, e)) = {Append(s, e)[i] : i \in 1 .. Len(s) + 1}
  BY <1>1, RangeFacts DEF Range
<1> QED
  BY <1>1, <1>2, RangeFacts

LEMMA RangeTail ==
  ASSUME NEW T, NEW s \in Seq(T), s # <<>>
  PROVE  /\ Tail(s) \in Seq(T) /\ Head(s) \in Range(s)
         /\ Range(Tail(s)) \subseteq Range(s)
         /\ Range(s) = {Head(s)} \cup Range(Tail(s))
<1>1. /\ Len(s) \in Nat /\ Len(s) >= 1 /\ Head(s) = s[1]
      /\ Tail(s) \in Seq(T) /\ Len(Tail(s)) = Len(s) - 1
      /\ \A i \in 1 .. Len(s) - 1 : Tail(s)[i] = s[i + 1]
  BY HeadTailProperties
<1>2. Range(s) = {s[i] : i \in 1 .. Len(s)}
  BY RangeFacts
<1>3. Range(Tail(s)) = {Tail(s)[i] : i \in 1 .. Len(s) - 1}
  BY <1>1, RangeFacts
<1>4. ASSUME NEW e \in Range(s) PROVE e = Head(s) \/ e \in Range(Tail(s))
  <2>1. PICK i \in 1 .. Len(s) : e = s[i]
    BY <1>2
  <2>2. CASE i = 1
    BY <1>1, <2>1, <2>2
  <2>3. CASE i # 1
    <3>1. i - 1 \in 1 .. Len(s) - 1 /\ (i - 1) + 1 = i
      BY <1>1, <2>3
    <3>2. Tail(s)[i - 1] = e
      BY <1>1, <2>1, <3>1
    <3> QED
      BY <1>3, <3>1, <3>2
  <2> QED
    BY <2>2, <2>3
<1>5. ASSUME NEW e \in Range(Tail(s)) PROVE e \in Range(s)
  <2>1. PICK i \in 1 .. Len(s) - 1 : e = Tail(s)[i]
    BY <1>3
  <2>2. i + 1 \in 1 .. Len(s) /\ e = s[i + 1]
    BY <1>1, <2>1
  <2> QED
    BY <1>2, <2>2
<1>6. Head(s) \in Range(s)
  <2>1. 1 \in 1 .. Len(s)
    BY <1>1
  <2> QED
    BY <1>1, <1>2, <2>1
<1> QED
  BY <1>1, <1>4, <1>5, <1>6

-----------------------------------------------------------------------------
(* Messages.                                                               *)

LEMMA MsgFacts ==
  ASSUME NEW p, NEW ev, NEW c
  PROVE  /\ Msg(p, ev, c).to = p /\ Msg(p, ev, c).ev = ev /\ Msg(p, ev, c).conn = c
         /\ p \in Procs /\ ev \in SetupEvents \cup EndEvents /\ c \in Conns =>
              Msg(p, ev, c) \in Messages
BY DEF Msg, Messages

LEMMA MsgIs ==
  ASSUME NEW m \in Messages
  PROVE  /\ m = Msg(m.to, m.ev, m.conn) /\ m.to \in Procs /\ m.conn \in Conns
         /\ m.ev \in SetupEvents \cup EndEvents
BY DEF Msg, Messages

(* What a process that leaves causes is about the end of connections, and  *)
(* goes to their two sides.                                                *)
Ending == {m \in Messages : m.ev \in EndEvents /\ m.to \in {Server, m.conn[1]}}

LEMMA DisconnectsEnd ==
  ASSUME NEW cs \in SUBSET Conns
  PROVE  Disconnects(cs) \subseteq Ending
<1> SUFFICES ASSUME NEW m \in Disconnects(cs) PROVE m \in Ending
  OBVIOUS
<1>1. PICK ev \in {"DISCONNECTED", "TIMEWAIT_EXIT"}, c \in cs :
        m \in {Msg(Server, ev, c), Msg(c[1], ev, c)}
  BY DEF Disconnects
<1>2. c \in Conns /\ c[1] \in Procs /\ Server \in Procs
  BY ConnFacts, ProcFacts
<1>3. ev \in EndEvents
  BY DEF EndEvents
<1> QED
  BY <1>1, <1>2, <1>3, MsgFacts DEF Ending

LEMMA RefusalEnd ==
  ASSUME NEW m \in Messages
  PROVE  Refusal(m) \subseteq Ending
<1>1. m.conn \in Conns /\ m.conn[1] \in Procs /\ Server \in Procs
  BY MsgIs, ConnFacts, ProcFacts
<1>2. "REJECTED" \in EndEvents
  BY DEF EndEvents
<1>3. Msg(m.conn[1], "REJECTED", m.conn) \in Ending /\ Msg(Server, "REJECTED", m.conn) \in Ending
  BY <1>1, <1>2, MsgFacts DEF Ending
<1> QED
  BY <1>3 DEF Refusal

-----------------------------------------------------------------------------
(* Types.                                                                  *)

(* What leaving does to the messages.                                      *)
LEMMA ExitNet ==
  ASSUME TypeOK, NEW p \in Procs, NEW end, Exit(p, end)
  PROVE  /\ net' \subseteq {m \in net : m.to # p} \cup Ending
         /\ {m \in net : m.to # p} \subseteq net'
<1>1. Range(conns[p]) \subseteq Conns
  BY RangeFacts DEF TypeOK
<1>2. Range(events[p]) \subseteq Messages
  BY RangeFacts DEF TypeOK
<1> DEFINE cs == IF transport = "rc" THEN Connected(p) ELSE {}
           ms == {n \in net : n.to = p} \cup
                   {n \in Range(events[p]) : n.ev = "CONNECT_REQUEST"}
<1>3. cs \in SUBSET Conns
  BY <1>1, <1>2, MsgIs DEF Connected
<1>4. ms \subseteq Messages
  BY <1>2 DEF TypeOK
<1>5. net' = {m \in net : m.to # p} \cup Disconnects(cs) \cup UNION {Refusal(m) : m \in ms}
  BY DEF Exit
<1>6. Disconnects(cs) \subseteq Ending
  BY <1>3, DisconnectsEnd
<1>7. UNION {Refusal(m) : m \in ms} \subseteq Ending
  BY <1>4, RefusalEnd
<1> QED
  BY <1>5, <1>6, <1>7

LEMMA ExitTypes ==
  ASSUME TypeOK, NEW p \in Procs, NEW end \in Ends, Exit(p, end)
  PROVE  TypeOK'
<1>1. net' \subseteq Messages
  BY ExitNet DEF Ending, TypeOK
<1>2. pc' \in [Procs -> Phases]
  BY DEF TypeOK, Exit, Phases
<1>3. closed' \subseteq Procs \X Conns
  BY DEF TypeOK, Exit, ConnsOf
<1>4. events' \in [Procs -> Seq(Messages)]
  <2>1. <<>> \in Seq(Messages)
    BY EmptySeq
  <2> QED
    BY <2>1 DEF TypeOK, Exit
<1>5. unsent' \in [Procs -> SUBSET Conns] /\ mem' \subseteq Procs
  BY DEF TypeOK, Exit
<1> QED
  BY <1>1, <1>2, <1>3, <1>4, <1>5 DEF TypeOK, Exit, counters, readVars

(* The event at the head of the channel, and the channel without it.       *)
LEMMA TakeEventTypes ==
  ASSUME TypeOK, NEW p \in Procs, TakeEvent(p)
  PROVE  /\ Head(events[p]) \in Messages /\ Head(events[p]) \in Range(events[p])
         /\ events' \in [Procs -> Seq(Messages)]
         /\ Head(events[p]).conn \in Conns /\ Head(events[p]).conn[1] \in Procs
<1>1. events[p] \in Seq(Messages) /\ events[p] # <<>>
  BY DEF TypeOK, TakeEvent
<1>2. /\ Head(events[p]) \in Messages /\ Tail(events[p]) \in Seq(Messages)
      /\ Head(events[p]) \in Range(events[p])
  BY <1>1, RangeTail, RangeFacts
<1>3. events' = [events EXCEPT ![p] = Tail(events[p])]
  BY DEF TakeEvent
<1> QED
  BY <1>2, <1>3, MsgIs, ConnFacts DEF TypeOK

LEMMA RxLenNat == \A p : RxLen(p) \in Nat
BY SessionAssumption DEF RxLen

LEMMA InitTypes == Init => TypeOK
<1> SUFFICES ASSUME Init PROVE TypeOK
  OBVIOUS
<1>1. \A c \in Conns : Msg(c[1], "ADDR_RESOLVED", c) \in Messages
  BY MsgFacts, ConnFacts DEF SetupEvents
<1>2. net \subseteq Messages
  BY <1>1 DEF Init
<1>3. conns \in [Procs -> Seq(Conns)] /\ events \in [Procs -> Seq(Messages)]
  BY EmptySeq DEF Init
<1>4. round \in 0 .. num_iterations
  BY SessionAssumption DEF Init
<1> QED
  BY <1>2, <1>3, <1>4 DEF Init, TypeOK, Phases

LEMMA EventTypes ==
  ASSUME TypeOK, NEW p \in Procs,
         \/ AddrResolved(p) \/ RouteResolved(p) \/ ConnectRequest(p)
         \/ Established(p) \/ Disconnected(p)
  PROVE  TypeOK'
<1> DEFINE e == Head(events[p])
<1>1. TakeEvent(p)
  BY DEF AddrResolved, RouteResolved, ConnectRequest, Established, Disconnected
<1>2. /\ e.conn \in Conns /\ e.conn[1] \in Procs
      /\ events' \in [Procs -> Seq(Messages)]
  BY <1>1, TakeEventTypes
<1> HIDE DEF e
<1>3. \A ev \in SetupEvents : Msg(p, ev, e.conn) \in Messages /\ Msg(Server, ev, e.conn) \in Messages
                              /\ Msg(e.conn[1], ev, e.conn) \in Messages
  BY <1>2, MsgFacts, ProcFacts
<1>4. \A s \in Seq(Conns) : Append(s, e.conn) \in Seq(Conns)
  BY <1>2, AppendProperties
<1>5. RxLen(p) \in Nat
  BY RxLenNat
<1>6. CASE AddrResolved(p)
  BY <1>2, <1>3, <1>6 DEF AddrResolved, TypeOK, SetupEvents, counters, recvVars, linkVars, readVars, e
<1>7. CASE RouteResolved(p)
  BY <1>2, <1>3, <1>5, <1>7
  DEF RouteResolved, InitTransport, TypeOK, SetupEvents, counters, linkVars, readVars, e
<1>8. CASE ConnectRequest(p)
  <2>1. conns' = [conns EXCEPT ![p] = Append(conns[p], e.conn)]
    BY <1>8 DEF ConnectRequest, AddConnection, e
  <2>2. conns' \in [Procs -> Seq(Conns)]
    BY <1>4, <2>1 DEF TypeOK
  <2> QED
    <3>1. num_established' \in [Procs -> Nat] /\ rx' \in [Procs -> Nat] /\ mem' \subseteq Procs
      BY <1>5, <1>8 DEF ConnectRequest, InitTransport, EstablishedOnRequest, TypeOK
    <3>2. net' \subseteq Messages
      BY <1>3, <1>8 DEF ConnectRequest, TypeOK, SetupEvents, e
    <3> QED
      BY <1>2, <1>8, <2>2, <3>1, <3>2 DEF ConnectRequest, TypeOK, linkVars, readVars
<1>9. CASE Established(p)
  <2>1. conns' \in [Procs -> Seq(Conns)]
    BY <1>4, <1>9 DEF Established, AfterEstablished, AddConnection, TypeOK, e
  <2> QED
    <3>1. num_established' \in [Procs -> Nat]
      BY <1>9 DEF Established, TypeOK
    <3> QED
      BY <1>2, <1>9, <2>1, <3>1 DEF Established, TypeOK, recvVars, linkVars, readVars
<1>10. CASE Disconnected(p)
  <2>1. num_disconnect' \in [Procs -> Nat]
    BY <1>10 DEF Disconnected, TypeOK
  <2> QED
    BY <1>2, <1>10, <2>1 DEF Disconnected, TypeOK, recvVars, linkVars, readVars
<1> QED
  BY <1>6, <1>7, <1>8, <1>9, <1>10

LEMMA ProcTypes ==
  ASSUME TypeOK, NEW p \in Procs, ProcStep(p) \/ Crash(p)
  PROVE  TypeOK'
<1>1. CASE \E end \in Ends : Exit(p, end)
  BY <1>1, ExitTypes
<1>2. CASE \/ AddrResolved(p) \/ RouteResolved(p) \/ ConnectRequest(p)
           \/ Established(p) \/ Disconnected(p)
  BY <1>2, EventTypes
<1>3. Range(conns[p]) \subseteq Conns
  BY RangeFacts DEF TypeOK
<1>4. CASE SendFins(p) /\ ~\E end \in Ends : Exit(p, end)
  <2>1. /\ pc' = [pc EXCEPT ![p] = "fin_wait"]
        /\ SendControl(p, Range(conns[p]))
        /\ UNCHANGED <<transport, conns, counters, recvVars, events, net, closed, readVars>>
    BY <1>4 DEF SendFins, Ends
  <2> QED
    BY <1>3, <2>1 DEF SendControl, TypeOK, Phases, counters, recvVars, readVars
<1>5. CASE PollFin(p)
  <2>1. fins[p] \in Nat /\ fins[p] > 0 => fins[p] - 1 \in Nat
    OBVIOUS
  <2>2. num_fin_recvd[p] + 1 \in Nat /\ fins[p] - 1 \in Nat
    BY <1>5, <2>1 DEF PollFin, TypeOK
  <2> QED
    BY <1>5, <2>2 DEF PollFin, TypeOK, linkVars, readVars
<1>6. CASE PollEmpty(p)
  BY <1>6 DEF PollEmpty, vars, counters, TypeOK
<1>7. CASE RdmaDisconnect(p)
  <2>1. net' \subseteq Messages
    BY <1>3, <1>7, DisconnectsEnd DEF RdmaDisconnect, TypeOK, Ending
  <2> QED
    BY <1>3, <1>7, <2>1 DEF RdmaDisconnect, TypeOK, Phases, counters, recvVars, readVars
<1> QED
  BY <1>1, <1>2, <1>4, <1>5, <1>6, <1>7
  DEF ProcStep, Crash, UnexpectedEvent, SendFins, PollError, Return, Ends

LEMMA ReadTypes ==
  ASSUME TypeOK, ServerReads
  PROVE  TypeOK'
<1>1. CASE StartReads
  <2>1. pc' \in [Procs -> Phases]
    BY <1>1 DEF StartReads, TypeOK, Phases
  <2>2. round' \in 0 .. num_iterations
    <3>1. num_iterations \in Nat \ {0}
      BY SessionAssumption
    <3> QED
      BY <1>1, <3>1 DEF StartReads
  <2> QED
    BY <1>1, <2>1, <2>2 DEF StartReads, TypeOK, counters, recvVars
<1>2. CASE NextIteration
  <2>1. round' \in 0 .. num_iterations
    BY <1>2, SessionAssumption DEF NextIteration, TypeOK
  <2> QED
    BY <1>2, <2>1 DEF NextIteration, TypeOK, counters, recvVars
<1>3. ASSUME NEW c \in Conns, PostRead(c) PROVE TypeOK'
  BY <1>3 DEF PostRead, TypeOK, counters, recvVars
<1>4. ASSUME NEW c \in Conns, ReadDone(c) PROVE TypeOK'
  BY <1>4 DEF ReadDone, TypeOK, counters, recvVars
<1>5. ASSUME NEW c \in Conns, ReadError(c) PROVE TypeOK'
  BY <1>5, ExitTypes, ProcFacts DEF ReadError, Ends
<1> QED
  BY <1>1, <1>2, <1>3, <1>4, <1>5 DEF ServerReads

LEMMA FabricTypes ==
  ASSUME TypeOK, Fabric
  PROVE  TypeOK'
<1>1. ASSUME NEW m \in net, Deliver(m) PROVE TypeOK'
  <2>1. /\ m \in Messages /\ m.to \in Procs /\ m.conn \in Conns
        /\ Msg(Server, "ESTABLISHED", m.conn) \in Messages
    BY MsgIs, MsgFacts, ProcFacts DEF TypeOK, SetupEvents
  <2>2. Refusal(m) \subseteq Messages
    BY <2>1, RefusalEnd DEF Ending
  <2>3. net' \subseteq Messages
    BY <1>1, <2>1, <2>2 DEF Deliver, TypeOK
  <2>4. Append(events[m.to], m) \in Seq(Messages)
    BY <2>1, AppendProperties DEF TypeOK
  <2>5. events' \in [Procs -> Seq(Messages)]
    BY <1>1, <2>1, <2>4 DEF Deliver, TypeOK
  <2> QED
    BY <1>1, <2>3, <2>5 DEF Deliver, TypeOK, counters, recvVars, linkVars, readVars
<1>2. ASSUME NEW p \in Procs, NEW c \in unsent[p], DeliverFin(p, c) PROVE TypeOK'
  <2> DEFINE q == Peer(p, c)
  <2>1. q \in Procs
    BY ConnFacts, ProcFacts DEF Peer, TypeOK
  <2>2. rx[q] - 1 \in Nat /\ fins[q] + 1 \in Nat
    <3>1. rx[q] \in Nat /\ rx[q] > 0 /\ fins[q] \in Nat
      BY <1>2, <2>1 DEF DeliverFin, TypeOK
    <3> HIDE DEF q
    <3>2. \A n \in Nat : n > 0 => n - 1 \in Nat
      OBVIOUS
    <3> QED
      BY <3>1, <3>2
  <2>3. rx' = [rx EXCEPT ![q] = rx[q] - 1] /\ fins' = [fins EXCEPT ![q] = fins[q] + 1]
    BY <1>2 DEF DeliverFin
  <2> QED
    <3>1. rx' \in [Procs -> Nat] /\ fins' \in [Procs -> Nat]
      BY <2>1, <2>2, <2>3 DEF TypeOK
    <3>2. unsent' \in [Procs -> SUBSET Conns]
      BY <1>2 DEF DeliverFin, TypeOK
    <3> QED
      BY <1>2, <3>1, <3>2 DEF DeliverFin, TypeOK, counters, readVars
<1> QED
  BY <1>1, <1>2 DEF Fabric

LEMMA NextTypes == TypeOK /\ [Next]_vars => TypeOK'
<1> SUFFICES ASSUME TypeOK, [Next]_vars PROVE TypeOK'
  OBVIOUS
<1>1. CASE UNCHANGED vars
  BY <1>1 DEF vars, counters, TypeOK
<1>2. CASE AllExited
  BY <1>1, <1>2 DEF AllExited
<1> QED
  BY <1>1, <1>2, ProcTypes, ReadTypes, FabricTypes DEF Next

(* Every variable keeps its type.                                          *)
THEOREM TypeCorrect == Spec => []TypeOK
<1>1. Init => TypeOK
  BY InitTypes
<1>2. TypeOK /\ [Next]_vars => TypeOK'
  BY NextTypes
<1> QED
  BY <1>1, <1>2, PTL DEF Spec

-----------------------------------------------------------------------------
(* Opening a connection.  One message at a time opens it, until its client *)
(* has it: ADDR_RESOLVED, ROUTE_RESOLVED, CONNECT_REQUEST and the client's *)
(* ESTABLISHED, wherever the message is.                                   *)
Pending == net \cup UNION {Range(events[q]) : q \in Procs}

Opening(m) ==
  \/ m.ev \in {"ADDR_RESOLVED", "ROUTE_RESOLVED", "CONNECT_REQUEST"}
  \/ m.ev = "ESTABLISHED" /\ m.to # Server

RightSide(m) ==
  /\ m.ev \in {"ADDR_RESOLVED", "ROUTE_RESOLVED"} => m.to = m.conn[1]
  /\ m.ev = "CONNECT_REQUEST" => m.to = Server
  /\ m.to \in {Server, m.conn[1]}

Addressed ==
  /\ \A m \in Pending : RightSide(m)
  /\ \A q \in Procs : \A m \in Range(events[q]) : m.to = q

Openings == {m \in Messages : Opening(m)}

(* The members of K are in the sequence at most once.                      *)
Distinct(K, s) ==
  \A i, j \in 1 .. Len(s) : s[i] \in K /\ s[i] = s[j] => i = j

OneOpening ==
  /\ \A m, n \in Pending : Opening(m) /\ Opening(n) /\ m.conn = n.conn => m = n
  /\ \A m \in net : Opening(m) => m \notin Range(events[m.to])
  /\ \A q \in Procs : Distinct(Openings, events[q])
  /\ \A m \in Pending : Opening(m) => m.conn \notin Range(conns[m.conn[1]])

LEMMA DistinctTail ==
  ASSUME NEW T, NEW K, NEW s \in Seq(T), s # <<>>, Distinct(K, s)
  PROVE  Distinct(K, Tail(s)) /\ (Head(s) \in K => Head(s) \notin Range(Tail(s)))
<1>1. /\ Len(s) \in Nat /\ Len(s) >= 1 /\ Head(s) = s[1]
      /\ Tail(s) \in Seq(T) /\ Len(Tail(s)) = Len(s) - 1
      /\ \A i \in 1 .. Len(s) - 1 : Tail(s)[i] = s[i + 1]
  BY HeadTailProperties
<1>2. \A i \in 1 .. Len(s) - 1 : i \in Nat /\ i + 1 \in 1 .. Len(s) /\ i + 1 # 1
  BY <1>1
<1>3. 1 \in 1 .. Len(s)
  BY <1>1
<1>4. Range(Tail(s)) = {Tail(s)[i] : i \in 1 .. Len(s) - 1}
  BY <1>1, RangeFacts
<1>5. ASSUME Head(s) \in K, Head(s) \in Range(Tail(s)) PROVE FALSE
  <2>1. PICK i \in 1 .. Len(s) - 1 : Head(s) = Tail(s)[i]
    BY <1>4, <1>5
  <2>2. s[1] = s[i + 1] /\ s[1] \in K
    BY <1>1, <1>5, <2>1
  <2> QED
    BY <1>2, <1>3, <2>2 DEF Distinct
<1>6. ASSUME NEW i \in 1 .. Len(s) - 1, NEW j \in 1 .. Len(s) - 1,
             Tail(s)[i] \in K, Tail(s)[i] = Tail(s)[j]
      PROVE  i = j
  <2>1. i + 1 \in 1 .. Len(s) /\ j + 1 \in 1 .. Len(s) /\ i \in Nat /\ j \in Nat
    BY <1>2
  <2>2. s[i + 1] = s[j + 1] /\ s[i + 1] \in K
    BY <1>1, <1>6
  <2>3. i + 1 = j + 1
    BY <2>1, <2>2 DEF Distinct
  <2> QED
    BY <2>1, <2>3
<1>7. Distinct(K, Tail(s))
  BY <1>1, <1>6 DEF Distinct
<1> QED
  BY <1>5, <1>7

LEMMA DistinctAppend ==
  ASSUME NEW T, NEW K, NEW s \in Seq(T), NEW e \in T, Distinct(K, s), e \in K => e \notin Range(s)
  PROVE  Distinct(K, Append(s, e))
<1>1. /\ Append(s, e) \in Seq(T) /\ Len(Append(s, e)) = Len(s) + 1 /\ Len(s) \in Nat
      /\ \A i \in 1 .. Len(s) : Append(s, e)[i] = s[i] /\ s[i] \in Range(s)
      /\ Append(s, e)[Len(s) + 1] = e
  BY AppendProperties, RangeFacts
<1>2. \A i \in 1 .. Len(s) + 1 : i \in 1 .. Len(s) \/ i = Len(s) + 1
  BY <1>1
<1> SUFFICES ASSUME NEW i \in 1 .. Len(s) + 1, NEW j \in 1 .. Len(s) + 1,
                    Append(s, e)[i] \in K, Append(s, e)[i] = Append(s, e)[j]
             PROVE  i = j
  BY <1>1 DEF Distinct
<1>3. CASE i \in 1 .. Len(s) /\ j \in 1 .. Len(s)
  BY <1>1, <1>3 DEF Distinct
<1>4. CASE i = Len(s) + 1 /\ j \in 1 .. Len(s)
  BY <1>1, <1>4
<1>5. CASE i \in 1 .. Len(s) /\ j = Len(s) + 1
  BY <1>1, <1>5
<1> QED
  BY <1>2, <1>3, <1>4, <1>5

(* A step either leaves connections, events and messages alone, or handles *)
(* an event, or is a process that leaves, or delivers a message.           *)
Handles(p) ==
  AddrResolved(p) \/ RouteResolved(p) \/ ConnectRequest(p) \/ Established(p) \/ Disconnected(p)

Leaves(p) ==
  /\ UNCHANGED conns /\ events' \in {events, [events EXCEPT ![p] = <<>>]}
  /\ net' \subseteq net \cup Ending

LEMMA MessageSteps ==
  ASSUME TypeOK, [Next]_vars
  PROVE  \/ UNCHANGED <<conns, events, net>>
         \/ \E p \in Procs : Handles(p)
         \/ \E p \in Procs : Leaves(p)
         \/ \E m \in net : Deliver(m)
<1>1. ASSUME NEW p \in Procs, NEW end, Exit(p, end) PROVE Leaves(p)
  BY <1>1, ExitNet DEF Leaves, Exit
<1>2. ASSUME NEW p \in Procs, ProcStep(p) \/ Crash(p)
      PROVE  UNCHANGED <<conns, events, net>> \/ Handles(p) \/ Leaves(p)
  <2>1. CASE SendFins(p)
    BY <1>1, <2>1 DEF SendFins
  <2>2. CASE PollFin(p)
    BY <2>2 DEF PollFin
  <2>3. CASE PollEmpty(p)
    BY <2>3 DEF PollEmpty, vars
  <2>4. CASE RdmaDisconnect(p)
    <3>1. Range(conns[p]) \subseteq Conns
      BY RangeFacts DEF TypeOK
    <3>2. Disconnects(Range(conns[p])) \subseteq Ending
      BY <3>1, DisconnectsEnd
    <3> QED
      BY <2>4, <3>2 DEF RdmaDisconnect, Leaves
  <2> QED
    BY <1>1, <1>2, <2>1, <2>2, <2>3, <2>4
    DEF ProcStep, Crash, UnexpectedEvent, PollError, Return, Handles
<1>3. ASSUME ServerReads PROVE UNCHANGED <<conns, events, net>> \/ Leaves(Server)
  BY <1>1, <1>3, ProcFacts
  DEF ServerReads, StartReads, NextIteration, PostRead, ReadDone, ReadError
<1>4. ASSUME Fabric PROVE UNCHANGED <<conns, events, net>> \/ \E m \in net : Deliver(m)
  BY <1>4 DEF Fabric, DeliverFin
<1>5. AllExited => UNCHANGED <<conns, events, net>>
  BY DEF AllExited, vars
<1>6. UNCHANGED vars => UNCHANGED <<conns, events, net>>
  BY DEF vars
<1> QED
  BY <1>2, <1>3, <1>4, <1>5, <1>6, ProcFacts DEF Next

(* Taking an event: it is gone, unless another like it is pending.         *)
LEMMA TakeFacts ==
  ASSUME TypeOK, Addressed, OneOpening, NEW p \in Procs, TakeEvent(p)
  PROVE  /\ Head(events[p]) \in Pending /\ Head(events[p]).to = p
         /\ RightSide(Head(events[p]))
         /\ \A q \in Procs : Range(events'[q]) \subseteq Range(events[q]) /\ Distinct(Openings, events'[q])
         /\ Opening(Head(events[p])) =>
              /\ Head(events[p]) \notin net
              /\ \A q \in Procs : Head(events[p]) \notin Range(events'[q])
<1>1. events[p] \in Seq(Messages) /\ events[p] # <<>>
  BY DEF TypeOK, TakeEvent
<1>2. /\ Head(events[p]) \in Range(events[p])
      /\ Range(Tail(events[p])) \subseteq Range(events[p])
  BY <1>1, RangeTail
<1>3. Distinct(Openings, Tail(events[p])) /\ (Opening(Head(events[p])) => Head(events[p]) \notin Range(Tail(events[p])))
  BY <1>1, DistinctTail, RangeTail, RangeFacts DEF OneOpening, Openings
<1>4. \A q \in Procs : events'[q] = IF q = p THEN Tail(events[p]) ELSE events[q]
  BY DEF TakeEvent, TypeOK
<1>5. Head(events[p]) \in Pending /\ Head(events[p]).to = p
  BY <1>2 DEF Pending, Addressed
<1>6. \A q \in Procs : Range(events'[q]) \subseteq Range(events[q]) /\ Distinct(Openings, events'[q])
  BY <1>2, <1>3, <1>4 DEF OneOpening
<1>7. ASSUME Opening(Head(events[p])) PROVE Head(events[p]) \notin net
  BY <1>2, <1>5, <1>7 DEF OneOpening
<1>8. ASSUME Opening(Head(events[p])), NEW q \in Procs PROVE Head(events[p]) \notin Range(events'[q])
  <2>1. CASE q = p
    BY <1>3, <1>4, <1>8, <2>1
  <2>2. CASE q # p
    <3>1. events'[q] = events[q]
      BY <1>4, <2>2
    <3> QED
      BY <1>5, <2>2, <3>1 DEF Addressed
  <2> QED
    BY <2>1, <2>2
<1> QED
  BY <1>5, <1>6, <1>7, <1>8 DEF Addressed

(* Handling an event keeps the handshake in order, when the connection     *)
(* manager only continues it.                                              *)
LEMMA OpeningTake ==
  ASSUME TypeOK, Addressed, OneOpening, NEW p \in Procs, TakeEvent(p),
         NEW new \in SUBSET Messages, net' = net \cup new,
         \A n \in new : /\ RightSide(n) /\ Opening(Head(events[p]))
                        /\ n.conn = Head(events[p]).conn,
         \A m, n \in new : m = n,
         \A q \in Clients : \A c \in Range(conns'[q]) :
           \/ c \in Range(conns[q])
           \/ new = {} /\ Opening(Head(events[p])) /\ c = Head(events[p]).conn
  PROVE  Addressed' /\ OneOpening'
<1> DEFINE e == Head(events[p])
<1>1. /\ e \in Pending
      /\ \A q \in Procs : Range(events'[q]) \subseteq Range(events[q]) /\ Distinct(Openings, events'[q])
      /\ Opening(e) => e \notin net /\ \A q \in Procs : e \notin Range(events'[q])
  BY TakeFacts
<1>2. \A n \in new : RightSide(n) /\ Opening(e) /\ n.conn = e.conn
  OBVIOUS
<1>3. \A q \in Clients : \A c \in Range(conns'[q]) :
        c \in Range(conns[q]) \/ (new = {} /\ Opening(e) /\ c = e.conn)
  OBVIOUS
<1> HIDE DEF e, Opening, RightSide
<1>4. \A m \in Pending' : m \in new \/ (m \in Pending /\ (Opening(e) => m # e))
  BY <1>1 DEF Pending
<1>5. Pending \subseteq Messages
  BY RangeFacts DEF Pending, TypeOK
<1>6. Addressed'
  BY <1>1, <1>2, <1>4 DEF Addressed
<1>7. ASSUME NEW m \in Pending', NEW n \in Pending', Opening(m), Opening(n), m.conn = n.conn
      PROVE  m = n
  <2>1. CASE m \in new /\ n \in new
    BY <2>1
  <2>2. CASE m \in new /\ n \notin new
    BY <1>1, <1>2, <1>4, <1>7, <2>2 DEF OneOpening
  <2>3. CASE m \notin new /\ n \in new
    BY <1>1, <1>2, <1>4, <1>7, <2>3 DEF OneOpening
  <2>4. CASE m \notin new /\ n \notin new
    BY <1>4, <1>7, <2>4 DEF OneOpening
  <2> QED
    BY <2>1, <2>2, <2>3, <2>4
<1>8. ASSUME NEW m \in net', Opening(m) PROVE m \notin Range(events'[m.to])
  <2>1. m \in Messages /\ m.to \in Procs
    BY MsgIs DEF TypeOK
  <2>2. CASE m \in net
    BY <1>1, <1>8, <2>1, <2>2 DEF OneOpening
  <2>3. CASE m \in new
    <3> SUFFICES ASSUME m \in Range(events'[m.to]) PROVE FALSE
      OBVIOUS
    <3>1. m \in Range(events[m.to]) /\ m \in Pending
      BY <1>1, <2>1 DEF Pending
    <3>2. m = e
      BY <1>1, <1>2, <1>8, <2>3, <3>1 DEF OneOpening
    <3> QED
      BY <1>1, <1>2, <2>1, <2>3, <3>2
  <2> QED
    BY <2>2, <2>3
<1>9. ASSUME NEW m \in Pending', Opening(m) PROVE m.conn \notin Range(conns'[m.conn[1]])
  <2>1. m \in Messages /\ m.conn[1] \in Clients
    BY <1>4, <1>5, MsgIs, ConnFacts
  <2>2. CASE m \in new
    BY <1>1, <1>2, <1>3, <2>1, <2>2 DEF OneOpening
  <2>3. CASE m \notin new
    BY <1>1, <1>3, <1>4, <1>9, <2>1, <2>3 DEF OneOpening
  <2> QED
    BY <2>2, <2>3
<1> QED
  BY <1>1, <1>6, <1>7, <1>8, <1>9 DEF OneOpening

LEMMA EndingFacts == \A m \in Ending : RightSide(m) /\ ~Opening(m) /\ m \in Messages
BY DEF Ending, RightSide, Opening, EndEvents

LEMMA OpeningLeave ==
  ASSUME TypeOK, Addressed, OneOpening, NEW p \in Procs, Leaves(p)
  PROVE  Addressed' /\ OneOpening'
<1>1. Range(<<>>) = {}
  BY DEF Range
<1>2. \A q \in Procs : events'[q] \in {events[q], <<>>}
  BY DEF Leaves, TypeOK
<1>3. \A q \in Procs : Range(events'[q]) \subseteq Range(events[q])
  BY <1>1, <1>2
<1>4. Distinct(Openings, <<>>)
  BY DEF Distinct
<1>5. \A q \in Procs : Distinct(Openings, events'[q])
  BY <1>2, <1>4 DEF OneOpening
<1>6. \A m \in Pending' : m \in Pending \/ m \in Ending
  BY <1>3 DEF Pending, Leaves
<1>7. \A m \in net' : m \in net \/ m \in Ending
  BY DEF Leaves
<1>8. net \subseteq Messages
  BY DEF TypeOK
<1> HIDE DEF Opening, RightSide
<1>9. \A m \in net' : Opening(m) => m \in net /\ m.to \in Procs
  BY <1>7, <1>8, EndingFacts, MsgIs
<1>10. Addressed'
  BY <1>3, <1>6, EndingFacts DEF Addressed
<1>11. conns' = conns
  BY DEF Leaves
<1>12. \A m \in Pending' : Opening(m) => m \in Pending
  BY <1>6, EndingFacts
<1>13. \A m \in net' : Opening(m) => m \notin Range(events'[m.to])
  BY <1>3, <1>9 DEF OneOpening
<1> QED
  BY <1>5, <1>10, <1>11, <1>12, <1>13 DEF OneOpening

(* A delivered message is no longer under way; an accepting ESTABLISHED    *)
(* may cause the server's, which is about a connection that is open.       *)
LEMMA DeliverFacts ==
  ASSUME TypeOK, NEW m \in net, Deliver(m)
  PROVE  /\ m \in Messages /\ m.to \in Procs
         /\ \/ events' = events
            \/ \A q \in Procs : events'[q] = IF q = m.to THEN Append(events[q], m) ELSE events[q]
         /\ \A q \in Procs : \A n \in Range(events'[q]) :
              n \in Range(events[q]) \/ (q = m.to /\ n = m)
         /\ \A n \in net' : \/ n \in net /\ n # m
                            \/ n \in Ending
                            \/ /\ n = Msg(Server, "ESTABLISHED", m.conn)
                               /\ m.ev = "ESTABLISHED" /\ m.to # Server
<1>1. m \in Messages /\ m.to \in Procs /\ m.conn \in Conns
  BY MsgIs DEF TypeOK
<1>2. Refusal(m) \subseteq Ending
  BY <1>1, RefusalEnd
<1>3. \A n \in net' : \/ n \in net /\ n # m
                      \/ n \in Ending
                      \/ /\ n = Msg(Server, "ESTABLISHED", m.conn)
                         /\ m.ev = "ESTABLISHED" /\ m.to # Server
  BY <1>2 DEF Deliver
<1>4. CASE Exited(m.to)
  BY <1>1, <1>3, <1>4 DEF Deliver
<1>5. CASE ~Exited(m.to)
  <2>1. events' = [events EXCEPT ![m.to] = Append(events[m.to], m)]
    BY <1>5 DEF Deliver
  <2>2. \A q \in Procs : events'[q] = IF q = m.to THEN Append(events[q], m) ELSE events[q]
    BY <2>1 DEF TypeOK
  <2>3. Range(Append(events[m.to], m)) = Range(events[m.to]) \cup {m}
    BY <1>1, RangeAppend DEF TypeOK
  <2> QED
    BY <1>1, <1>3, <2>2, <2>3
<1> QED
  BY <1>4, <1>5

LEMMA OpeningDeliver ==
  ASSUME TypeOK, Addressed, OneOpening, NEW m \in net, Deliver(m)
  PROVE  Addressed' /\ OneOpening'
<1> DEFINE est == Msg(Server, "ESTABLISHED", m.conn)
<1>1. /\ m \in Messages /\ m.to \in Procs /\ m \in Pending
      /\ \/ events' = events
         \/ \A q \in Procs : events'[q] = IF q = m.to THEN Append(events[q], m) ELSE events[q]
      /\ \A q \in Procs : \A n \in Range(events'[q]) :
           n \in Range(events[q]) \/ (q = m.to /\ n = m)
      /\ \A n \in net' : (n \in net /\ n # m) \/ n \in Ending \/ n = est
  BY DeliverFacts DEF Pending
<1>2. RightSide(est) /\ ~Opening(est)
  BY MsgFacts DEF RightSide, Opening
<1> HIDE DEF est, Opening, RightSide
<1>3. \A n \in Pending' : n \in Pending \/ n \in Ending \/ n = est
  BY <1>1 DEF Pending
<1>4. Addressed'
  BY <1>1, <1>2, <1>3, EndingFacts DEF Addressed
<1>5. \A n \in Pending' : Opening(n) => n \in Pending
  BY <1>2, <1>3, EndingFacts
<1>6. \A n \in net' : Opening(n) => n \in net /\ n # m /\ n.to \in Procs
  BY <1>1, <1>2, EndingFacts, MsgIs DEF TypeOK
<1>7. \A n \in net' : Opening(n) => n \notin Range(events'[n.to])
  BY <1>1, <1>6 DEF OneOpening
<1>8. ASSUME NEW q \in Procs PROVE Distinct(Openings, events'[q])
  <2>1. CASE events'[q] = events[q]
    BY <2>1 DEF OneOpening
  <2>2. CASE events'[q] = Append(events[q], m) /\ q = m.to
    <3>1. Opening(m) => m \notin Range(events[q])
      BY <2>2 DEF OneOpening
    <3>2. events[q] \in Seq(Messages) /\ Distinct(Openings, events[q]) /\ (m \in Openings => Opening(m))
      BY DEF TypeOK, OneOpening, Openings
    <3> QED
      BY <1>1, <2>2, <3>1, <3>2, DistinctAppend
  <2> QED
    BY <1>1, <2>1, <2>2
<1>9. conns' = conns
  BY DEF Deliver
<1> QED
  BY <1>4, <1>5, <1>7, <1>8, <1>9 DEF OneOpening

(* The connections after each kind of event.                               *)
LEMMA HandleConns ==
  ASSUME TypeOK, Addressed, OneOpening, NEW p \in Procs, Handles(p)
  PROVE  /\ TakeEvent(p) /\ Head(events[p]).conn \in Conns
         /\ \/ UNCHANGED conns /\ ~ConnectRequest(p) /\ (p \in Clients => ~Established(p))
            \/ /\ p = Server /\ ConnectRequest(p) /\ Head(events[p]).ev = "CONNECT_REQUEST"
               /\ conns' = [conns EXCEPT ![p] = Append(@, Head(events[p]).conn)]
            \/ /\ p \in Clients /\ Established(p) /\ Head(events[p]).ev = "ESTABLISHED"
               /\ Opening(Head(events[p])) /\ Head(events[p]).conn[1] = p
               /\ conns' = [conns EXCEPT ![p] = Append(@, Head(events[p]).conn)]
               /\ net' = net
<1>1. TakeEvent(p)
  BY DEF Handles, AddrResolved, RouteResolved, ConnectRequest, Established, Disconnected
<1>2. Head(events[p]).conn \in Conns /\ Head(events[p]).to = p /\ RightSide(Head(events[p]))
  BY <1>1, TakeEventTypes, TakeFacts
<1>3. CASE AddrResolved(p)
  BY <1>1, <1>2, <1>3 DEF AddrResolved, ConnectRequest, Established
<1>4. CASE RouteResolved(p)
  BY <1>1, <1>2, <1>4 DEF RouteResolved, ConnectRequest, Established
<1>5. CASE ConnectRequest(p)
  BY <1>1, <1>2, <1>5 DEF ConnectRequest, AddConnection, RightSide
<1>6. CASE Established(p)
  <2>1. CASE p = Server
    BY <1>1, <1>2, <1>6, <2>1, ProcFacts DEF Established, AfterEstablished, ConnectRequest, TypeOK
  <2>2. CASE p \in Clients
    <3>1. p # Server
      BY <2>2, ProcFacts
    <3>2. Head(events[p]).ev = "ESTABLISHED" /\ net' = net
          /\ conns' = [conns EXCEPT ![p] = Append(conns[p], Head(events[p]).conn)]
      BY <1>6, <3>1 DEF Established, AfterEstablished, AddConnection
    <3>3. Opening(Head(events[p])) /\ Head(events[p]).conn[1] = p
      BY <1>2, <3>1, <3>2 DEF Opening, RightSide
    <3> QED
      BY <1>1, <1>2, <1>6, <2>2, <3>2, <3>3
  <2> QED
    BY <2>1, <2>2 DEF Procs
<1>7. CASE Disconnected(p)
  BY <1>1, <1>2, <1>7 DEF Disconnected, ConnectRequest, Established
<1> QED
  BY <1>3, <1>4, <1>5, <1>6, <1>7 DEF Handles

LEMMA OpeningHandles ==
  ASSUME TypeOK, Addressed, OneOpening, NEW p \in Procs, Handles(p)
  PROVE  Addressed' /\ OneOpening'
<1> DEFINE e == Head(events[p])
<1>1. TakeEvent(p) /\ e.conn \in Conns
  BY HandleConns
<1>2. e.to = p /\ RightSide(e) /\ e.conn[1] \in Procs /\ Server \in Procs
  BY <1>1, TakeFacts, ConnFacts, ProcFacts
<1>3. \A ev \in SetupEvents, q \in Procs : Msg(q, ev, e.conn) \in Messages
  BY <1>1, MsgFacts
<1>4. e.ev = "CONNECT_REQUEST" => p = Server
  BY <1>2 DEF RightSide
<1>5. CASE AddrResolved(p)
  <2> DEFINE new == {Msg(p, "ROUTE_RESOLVED", e.conn)}
  <2>1. new \subseteq Messages /\ net' = net \cup new /\ conns' = conns
    BY <1>3, <1>5 DEF AddrResolved, SetupEvents
  <2>2. \A n \in new : RightSide(n) /\ Opening(e) /\ n.conn = e.conn
    BY <1>2, <1>5, MsgFacts DEF AddrResolved, RightSide, Opening
  <2> HIDE DEF new
  <2>3. \A m, n \in new : m = n
    BY DEF new
  <2> QED
    BY <1>1, <2>1, <2>2, <2>3, OpeningTake
<1>6. CASE RouteResolved(p)
  <2> DEFINE new == {Msg(Server, "CONNECT_REQUEST", e.conn)}
  <2>1. new \subseteq Messages /\ net' = net \cup new /\ conns' = conns
    BY <1>2, <1>3, <1>6 DEF RouteResolved, SetupEvents
  <2>2. \A n \in new : RightSide(n) /\ Opening(e) /\ n.conn = e.conn
    BY <1>2, <1>6, MsgFacts DEF RouteResolved, RightSide, Opening
  <2> HIDE DEF new
  <2>3. \A m, n \in new : m = n
    BY DEF new
  <2> QED
    BY <1>1, <2>1, <2>2, <2>3, OpeningTake
<1>7. CASE ConnectRequest(p)
  <2> DEFINE new == {Msg(e.conn[1], "ESTABLISHED", e.conn)}
  <2>1. new \subseteq Messages /\ net' = net \cup new
    BY <1>2, <1>3, <1>7 DEF ConnectRequest, SetupEvents
  <2>2. \A n \in new : RightSide(n) /\ Opening(e) /\ n.conn = e.conn
    BY <1>7, MsgFacts DEF ConnectRequest, RightSide, Opening
  <2>3. \A q \in Clients : conns'[q] = conns[q]
    <3>1. p = Server /\ conns' = [conns EXCEPT ![p] = AddConnection(@, e)]
      BY <1>4, <1>7 DEF ConnectRequest
    <3> QED
      BY <3>1, ProcFacts DEF TypeOK
  <2> HIDE DEF new
  <2>4. \A m, n \in new : m = n
    BY DEF new
  <2> QED
    BY <1>1, <2>1, <2>2, <2>3, <2>4, OpeningTake
<1>8. CASE Established(p) \/ Disconnected(p)
  <2> DEFINE new == {}
  <2>1. new = {} /\ new \in SUBSET Messages /\ net' = net \cup new
    BY <1>8 DEF Established, Disconnected
  <2>2. ASSUME NEW q \in Clients, NEW c \in Range(conns'[q])
        PROVE  c \in Range(conns[q]) \/ (Opening(e) /\ c = e.conn)
    <3>1. CASE UNCHANGED conns
      BY <2>2, <3>1
    <3>2. CASE p = Server /\ conns' = [conns EXCEPT ![p] = Append(@, e.conn)]
      BY <2>2, <3>2, ProcFacts DEF TypeOK
    <3>3. CASE Opening(e) /\ conns' = [conns EXCEPT ![p] = Append(@, e.conn)]
      <4>1. CASE q = p
        <5>1. conns'[q] = Append(conns[p], e.conn)
          BY <3>3, <4>1 DEF TypeOK
        <5>2. Range(Append(conns[p], e.conn)) = Range(conns[p]) \cup {e.conn}
          BY <1>1, RangeAppend DEF TypeOK
        <5> QED
          BY <2>2, <3>3, <4>1, <5>1, <5>2
      <4>2. CASE q # p
        BY <2>2, <3>3, <4>2, ProcFacts DEF TypeOK
      <4> QED
        BY <4>1, <4>2
    <3> QED
      BY <3>1, <3>2, <3>3, HandleConns
  <2> HIDE DEF new, e
  <2>3. /\ \A n \in new : RightSide(n) /\ Opening(e) /\ n.conn = e.conn
        /\ \A m, n \in new : m = n
    BY <2>1
  <2> USE DEF e
  <2> QED
    BY <1>1, <2>1, <2>2, <2>3, OpeningTake
<1> QED
  BY <1>5, <1>6, <1>7, <1>8 DEF Handles

LEMMA OpeningNext ==
  ASSUME TypeOK, Addressed, OneOpening, [Next]_vars
  PROVE  Addressed' /\ OneOpening'
<1>1. CASE UNCHANGED <<conns, events, net>>
  BY <1>1 DEF Addressed, OneOpening, Pending
<1> QED
  BY <1>1, MessageSteps, OpeningHandles, OpeningLeave, OpeningDeliver

LEMMA OpeningInit ==
  ASSUME Init
  PROVE  Addressed /\ OneOpening
<1>1. \A q \in Procs : Range(events[q]) = {} /\ Range(conns[q]) = {} /\ Len(events[q]) = 0
  BY DEF Init, Range
<1>2. Pending = {Msg(c[1], "ADDR_RESOLVED", c) : c \in Conns} /\ net = Pending
  BY <1>1 DEF Pending, Init
<1>3. \A m \in Pending : \E c \in Conns : m = Msg(c[1], "ADDR_RESOLVED", c) /\ m.conn = c
                                          /\ m.to = c[1] /\ m.ev = "ADDR_RESOLVED"
  BY <1>2, MsgFacts
<1>4. \A m \in Pending : RightSide(m)
  BY <1>3 DEF RightSide
<1>5. \A m \in Pending : m.to \in Procs /\ m.conn[1] \in Procs
  BY <1>3, ConnFacts
<1>6. \A m, n \in Pending : m.conn = n.conn => m = n
  BY <1>3
<1>7. \A q \in Procs : Distinct(Openings, events[q])
  BY <1>1 DEF Distinct
<1> QED
  BY <1>1, <1>2, <1>4, <1>5, <1>6, <1>7 DEF Addressed, OneOpening

-----------------------------------------------------------------------------
(* Connections.  A client has an established connection only after the     *)
(* server has added it, and has it once.                                   *)
Accepted ==
  /\ \A m \in Pending : m.ev = "ESTABLISHED" => m.conn \in Range(conns[Server])
  /\ \A p \in Clients : Range(conns[p]) \subseteq ConnsOf(p) \cap Range(conns[Server])
  /\ \A p \in Clients : \A i, j \in 1 .. Len(conns[p]) : conns[p][i] = conns[p][j] => i = j

LEMMA InjectiveAppend ==
  ASSUME NEW T, NEW s \in Seq(T), NEW e \in T, e \notin Range(s),
         \A i, j \in 1 .. Len(s) : s[i] = s[j] => i = j
  PROVE  \A i, j \in 1 .. Len(Append(s, e)) : Append(s, e)[i] = Append(s, e)[j] => i = j
<1>1. /\ Len(Append(s, e)) = Len(s) + 1 /\ Len(s) \in Nat
      /\ \A i \in 1 .. Len(s) : Append(s, e)[i] = s[i] /\ s[i] \in Range(s)
      /\ Append(s, e)[Len(s) + 1] = e
  BY AppendProperties, RangeFacts
<1>2. \A i \in 1 .. Len(s) + 1 : i \in 1 .. Len(s) \/ i = Len(s) + 1
  BY <1>1
<1> QED
  BY <1>1, <1>2

LEMMA AcceptedNext ==
  ASSUME TypeOK, Addressed, OneOpening, Accepted, [Next]_vars
  PROVE  Accepted'
<1>1. CASE UNCHANGED <<conns, events, net>>
  BY <1>1 DEF Accepted, Pending
<1>2. ASSUME NEW p \in Procs, Leaves(p) PROVE Accepted'
  <2>1. Range(<<>>) = {}
    BY DEF Range
  <2>2. \A q \in Procs : Range(events'[q]) \subseteq Range(events[q])
    BY <1>2, <2>1 DEF Leaves, TypeOK
  <2>3. \A m \in Pending' : m \in Pending \/ m \in Ending
    BY <1>2, <2>2 DEF Pending, Leaves
  <2>4. \A m \in Ending : m.ev # "ESTABLISHED"
    BY DEF Ending, EndEvents
  <2> QED
    BY <1>2, <2>3, <2>4 DEF Accepted, Leaves
<1>3. ASSUME NEW m \in net, Deliver(m) PROVE Accepted'
  <2>1. \A n \in Pending' : \/ n \in Pending \/ n \in Ending
                            \/ n.conn = m.conn /\ m.ev = "ESTABLISHED"
    BY <1>3, DeliverFacts, MsgFacts DEF Pending
  <2>2. \A n \in Ending : n.ev # "ESTABLISHED"
    BY DEF Ending, EndEvents
  <2>3. m \in Pending
    BY DEF Pending
  <2> QED
    BY <1>3, <2>1, <2>2, <2>3 DEF Accepted, Deliver
<1>4. ASSUME NEW p \in Procs, Handles(p) PROVE Accepted'
  <2> DEFINE e == Head(events[p])
  <2>1. TakeEvent(p) /\ e.conn \in Conns
    BY <1>4, HandleConns
  <2>2. /\ e \in Pending /\ (Opening(e) => e.conn \notin Range(conns[e.conn[1]]))
        /\ \A q \in Procs : Range(events'[q]) \subseteq Range(events[q])
    BY <2>1, TakeFacts DEF OneOpening
  <2>3. \A q \in Procs : conns[q] \in Seq(Conns)
    BY DEF TypeOK
  <2>4. \A q \in Procs : Range(Append(conns[q], e.conn)) = Range(conns[q]) \cup {e.conn}
    BY <2>1, <2>3, RangeAppend
  <2>5. \A m \in net' : m \in net \/ m.ev # "ESTABLISHED" \/ (ConnectRequest(p) /\ m.conn = e.conn)
    BY <1>4, MsgFacts
    DEF Handles, AddrResolved, RouteResolved, ConnectRequest, Established, Disconnected
  <2>6. \A m \in Pending' : m \in Pending \/ m.ev # "ESTABLISHED" \/ (ConnectRequest(p) /\ m.conn = e.conn)
    BY <2>2, <2>5 DEF Pending
  <2>7. CASE UNCHANGED conns /\ ~ConnectRequest(p)
    BY <2>6, <2>7 DEF Accepted
  <2>8. CASE p = Server /\ ConnectRequest(p) /\ conns' = [conns EXCEPT ![p] = Append(@, e.conn)]
    <3>1. conns'[Server] = Append(conns[Server], e.conn) /\ \A q \in Clients : conns'[q] = conns[q]
      BY <2>8, ProcFacts DEF TypeOK
    <3>2. Range(conns'[Server]) = Range(conns[Server]) \cup {e.conn}
      BY <2>4, <3>1, ProcFacts
    <3> HIDE DEF e
    <3> QED
      BY <2>6, <3>1, <3>2 DEF Accepted
  <2>9. CASE /\ p \in Clients /\ Opening(e) /\ e.conn[1] = p /\ e.ev = "ESTABLISHED"
             /\ net' = net /\ conns' = [conns EXCEPT ![p] = Append(@, e.conn)]
    <3>1. /\ conns'[p] = Append(conns[p], e.conn)
          /\ \A q \in Procs : q # p => conns'[q] = conns[q]
          /\ p # Server
      BY <2>9, ProcFacts DEF TypeOK
    <3>2. Range(conns'[p]) = Range(conns[p]) \cup {e.conn}
      BY <2>4, <3>1, ProcFacts
    <3>3. e.conn \in Range(conns[Server]) /\ e.conn \in ConnsOf(p)
      BY <2>1, <2>2, <2>9, ConnFacts DEF Accepted
    <3>4. \A i, j \in 1 .. Len(conns'[p]) : conns'[p][i] = conns'[p][j] => i = j
      <4>1. e.conn \notin Range(conns[p])
        BY <2>2, <2>9
      <4>2. \A i, j \in 1 .. Len(conns[p]) : conns[p][i] = conns[p][j] => i = j
        BY <2>9 DEF Accepted
      <4> HIDE DEF e
      <4> QED
        BY <2>1, <2>3, <3>1, <4>1, <4>2, InjectiveAppend
    <3>5. \A m \in Pending' : m \in Pending
      BY <2>2, <2>9 DEF Pending
    <3> HIDE DEF e
    <3> QED
      BY <3>1, <3>2, <3>3, <3>4, <3>5, ProcFacts DEF Accepted
  <2> QED
    BY <1>4, <2>7, <2>8, <2>9, HandleConns
<1> QED
  BY <1>1, <1>2, <1>3, <1>4, MessageSteps

LEMMA AcceptedInit ==
  ASSUME Init
  PROVE  Accepted
<1>1. \A q \in Procs : Range(events[q]) = {} /\ Range(conns[q]) = {} /\ Len(conns[q]) = 0
  BY DEF Init, Range
<1>2. \A m \in Pending : m.ev = "ADDR_RESOLVED"
  BY <1>1, MsgFacts DEF Pending, Init
<1> QED
  BY <1>1, <1>2, ProcFacts DEF Accepted

(* When a client has as many connections as it opens, it has all of them.  *)
LEMMA AllConnections ==
  ASSUME TypeOK, Accepted, NEW p \in Clients, Len(conns[p]) = ClientConnections[p]
  PROVE  Range(conns[p]) = ConnsOf(p)
<1> DEFINE S == 1 .. Len(conns[p])
<1>1. conns[p] \in Seq(Conns) /\ Len(conns[p]) \in Nat /\ Range(conns[p]) = {conns[p][i] : i \in S}
      /\ conns[p] \in [S -> Conns]
  <2>1. conns[p] \in Seq(Conns)
    BY ProcFacts DEF TypeOK
  <2> QED
    BY <2>1, RangeFacts, LenProperties
<1>2. conns[p] \in Injection(S, ConnsOf(p))
  BY <1>1 DEF Accepted, Injection, IsInjective
<1>3. Cardinality(S) = Len(conns[p])
  BY <1>1, FS_Interval
<1>4. conns[p] \in Surjection(S, ConnsOf(p))
  BY <1>2, <1>3, FS_Injection, ConnsOfClient
<1> QED
  BY <1>1, <1>4 DEF Surjection, Accepted

-----------------------------------------------------------------------------
(* The order of a client's phases: it sends its FINs when all connections  *)
(* are established, and leaves with success when all FINs are here.        *)
ClientPhases ==
  \A p \in Clients :
    /\ num_established[p] = Len(conns[p]) /\ num_established[p] <= ClientConnections[p]
    /\ pc[p] # "reading"
    /\ pc[p] \in {"fin_wait", "disc_wait", "ok"} => num_established[p] >= ClientConnections[p]
    /\ pc[p] \in {"disc_wait", "ok"} => num_fin_recvd[p] >= Len(conns[p])

LEMMA ClientPhasesHandles ==
  ASSUME TypeOK, Addressed, OneOpening, ClientPhases, NEW p \in Procs, Handles(p)
  PROVE  ClientPhases'
<1>1. UNCHANGED <<pc, num_fin_recvd>>
  BY DEF Handles, AddrResolved, RouteResolved, ConnectRequest, Established, Disconnected, counters
<1>2. CASE ConnectRequest(p)
  <2>1. p = Server
    <3>1. TakeEvent(p) /\ Head(events[p]).ev = "CONNECT_REQUEST"
      BY <1>2 DEF ConnectRequest
    <3> QED
      BY <3>1, TakeFacts DEF RightSide
  <2>2. \A q \in Clients : conns'[q] = conns[q] /\ num_established'[q] = num_established[q]
    BY <1>2, <2>1, ProcFacts DEF ConnectRequest, TypeOK
  <2> QED
    BY <1>1, <2>2 DEF ClientPhases
<1>3. CASE p \in Clients /\ Established(p)
  <2>1. p # Server /\ p \in Procs
    BY <1>3, ProcFacts
  <2>2. /\ conns' = [conns EXCEPT ![p] = Append(@, Head(events[p]).conn)]
        /\ Head(events[p]).conn \in Conns
    BY <1>3, HandleConns, <2>1 DEF Established, AfterEstablished, AddConnection
  <2>3. Len(conns'[p]) = Len(conns[p]) + 1
    BY <2>2, AppendProperties DEF TypeOK
  <2>4. num_established' = [num_established EXCEPT ![p] = num_established[p] + 1]
    BY <1>3 DEF Established
  <2>5. pc[p] = "setup" /\ ~(num_established[p] >= ClientConnections[p])
    <3>1. TakeEvent(p) /\ Head(events[p]).ev = "ESTABLISHED"
      BY <1>3 DEF Established
    <3>2. pc[p] # "disc_wait"
      BY <3>1 DEF TakeEvent, Mask
    <3> QED
      BY <2>1, <3>1, <3>2 DEF TakeEvent, WaitsForEvent, SetupDone, Expected
  <2>6. /\ \A q \in Clients : q # p =>
             conns'[q] = conns[q] /\ num_established'[q] = num_established[q]
        /\ num_established'[p] = num_established[p] + 1
    BY <2>2, <2>4, ProcFacts DEF TypeOK
  <2>7. num_established[p] \in Nat /\ ClientConnections[p] \in Nat
    BY <1>3, ProcFacts, SessionAssumption DEF TypeOK
  <2>8. num_established[p] + 1 <= ClientConnections[p]
    BY <2>5, <2>7
  <2> QED
    BY <1>1, <2>3, <2>5, <2>6, <2>8 DEF ClientPhases
<1>4. CASE UNCHANGED conns /\ ~ConnectRequest(p) /\ (p \in Clients => ~Established(p))
  <2>1. \A q \in Clients : num_established'[q] = num_established[q]
    BY <1>4, ProcFacts
    DEF Handles, AddrResolved, RouteResolved, ConnectRequest, Established, Disconnected, counters, TypeOK, Procs
  <2> QED
    BY <1>1, <1>4, <2>1 DEF ClientPhases
<1> QED
  BY <1>2, <1>3, <1>4, HandleConns

LEMMA ClientPhasesExit ==
  ASSUME TypeOK, ClientPhases, NEW p \in Procs, NEW end \in Ends, Exit(p, end),
         end = "ok" => (pc[p] = "fin_wait" /\ FinsDone(p)) \/ pc[p] = "disc_wait"
  PROVE  ClientPhases'
<1>1. UNCHANGED <<conns, num_established, num_fin_recvd>>
  BY DEF Exit, counters
<1>2. \A q \in Procs : pc'[q] = IF q = p THEN end ELSE pc[q]
  BY DEF Exit, TypeOK
<1>3. \A q \in Clients : pc'[q] = pc[q] \/ pc'[q] = "failed"
                         \/ /\ pc'[q] = "ok" /\ pc[q] \in {"fin_wait", "disc_wait"}
                            /\ num_fin_recvd[q] >= Len(conns[q])
  BY <1>2, ProcFacts DEF Ends, FinsDone, num_conns, ClientPhases
<1> QED
  BY <1>1, <1>3 DEF ClientPhases

LEMMA ClientPhasesNext ==
  ASSUME TypeOK, Addressed, OneOpening, ClientPhases, [Next]_vars
  PROVE  ClientPhases'
<1>1. CASE UNCHANGED <<pc, conns, num_established, num_fin_recvd>>
  BY <1>1 DEF ClientPhases
<1>2. ASSUME NEW p \in Procs, ProcStep(p) \/ Crash(p) PROVE ClientPhases'
  <2>1. CASE Handles(p)
    BY <2>1, ClientPhasesHandles
  <2>2. CASE Exit(p, "failed")
    BY <2>2, ClientPhasesExit DEF Ends
  <2>3. CASE SendFins(p) /\ ~Exit(p, "failed")
    <3>1. /\ pc' = [pc EXCEPT ![p] = "fin_wait"]
          /\ UNCHANGED <<conns, num_established, num_fin_recvd>>
          /\ p # Server => SetupDone(p)
      BY <2>3 DEF SendFins, counters
    <3>2. \A q \in Clients : pc'[q] = pc[q] \/ (pc'[q] = "fin_wait" /\ num_established[q] >= ClientConnections[q])
      BY <3>1, ProcFacts DEF SetupDone, Expected, TypeOK
    <3> QED
      BY <3>1, <3>2 DEF ClientPhases
  <2>4. CASE PollFin(p)
    <3>1. /\ UNCHANGED <<pc, conns, num_established>>
          /\ num_fin_recvd' = [num_fin_recvd EXCEPT ![p] = num_fin_recvd[p] + 1]
      BY <2>4 DEF PollFin
    <3>2. \A q \in Clients : num_fin_recvd[q] \in Nat /\ Len(conns[q]) \in Nat
      BY ProcFacts DEF TypeOK
    <3>3. \A a, b \in Nat : a >= b => a + 1 >= b
      OBVIOUS
    <3>4. \A q \in Clients : num_fin_recvd[q] >= Len(conns[q]) => num_fin_recvd'[q] >= Len(conns[q])
      BY <3>1, <3>2, <3>3, ProcFacts DEF TypeOK
    <3> QED
      BY <3>1, <3>4 DEF ClientPhases
  <2>5. CASE RdmaDisconnect(p)
    <3>1. /\ pc' = [pc EXCEPT ![p] = "disc_wait"] /\ pc[p] = "fin_wait"
          /\ num_fin_recvd[p] >= Len(conns[p])
          /\ UNCHANGED <<conns, num_established, num_fin_recvd>>
      BY <2>5 DEF RdmaDisconnect, FinsDone, num_conns, counters
    <3> QED
      BY <3>1, ProcFacts DEF ClientPhases, TypeOK
  <2>6. CASE Return(p)
    BY <2>6, ClientPhasesExit DEF Return, Ends
  <2>7. CASE PollEmpty(p)
    BY <1>1, <2>7 DEF PollEmpty, vars, counters
  <2> QED
    BY <1>2, <2>1, <2>2, <2>3, <2>4, <2>5, <2>6, <2>7
    DEF ProcStep, Crash, UnexpectedEvent, PollError, Handles
<1>3. ASSUME ServerReads PROVE ClientPhases'
  <2>1. CASE Exit(Server, "failed")
    BY <2>1, ClientPhasesExit, ProcFacts DEF Ends
  <2>2. CASE ~Exit(Server, "failed")
    <3>1. /\ UNCHANGED <<conns, num_established, num_fin_recvd>>
          /\ pc' = pc \/ pc' = [pc EXCEPT ![Server] = "reading"]
      BY <1>3, <2>2 DEF ServerReads, StartReads, NextIteration, PostRead, ReadDone, ReadError, counters
    <3>2. \A q \in Clients : pc'[q] = pc[q]
      BY <3>1, ProcFacts DEF TypeOK
    <3> QED
      BY <3>1, <3>2 DEF ClientPhases
  <2> QED
    BY <2>1, <2>2
<1>4. Fabric => UNCHANGED <<pc, conns, num_established, num_fin_recvd>>
  BY DEF Fabric, Deliver, DeliverFin, counters
<1>5. AllExited \/ UNCHANGED vars => UNCHANGED <<pc, conns, num_established, num_fin_recvd>>
  BY DEF AllExited, vars, counters
<1> QED
  BY <1>1, <1>2, <1>3, <1>4, <1>5 DEF Next

-----------------------------------------------------------------------------
(* A FIN of the server means that everything has been read.                *)
FullyRead ==
  /\ pc[Server] \notin {"setup", "reading"}
  /\ Range(conns[Server]) \subseteq read /\ round = num_iterations

FinOfServer ==
  unsent[Server] # {} \/ \E q \in Clients : fins[q] > 0 \/ num_fin_recvd[q] > 0

FinMeansRead == FinOfServer => FullyRead

LEMMA EventPhase ==
  ASSUME NEW p \in Procs, TakeEvent(p), Head(events[p]).ev # "DISCONNECTED"
  PROVE  pc[p] = "setup" /\ ~SetupDone(p)
BY DEF TakeEvent, Mask, WaitsForEvent

(* Once the server has left its reads, nothing takes this back.            *)
LEMMA FullyReadStable ==
  ASSUME TypeOK, FullyRead, [Next]_vars
  PROVE  FullyRead'
<1>1. ASSUME NEW p \in Procs, Handles(p) PROVE FullyRead'
  <2>1. UNCHANGED <<pc, read, round>>
    BY <1>1
    DEF Handles, AddrResolved, RouteResolved, ConnectRequest, Established, Disconnected, linkVars, readVars
  <2>2. CASE UNCHANGED conns
    BY <2>1, <2>2 DEF FullyRead
  <2>3. CASE ConnectRequest(p) \/ Established(p)
    <3>1. TakeEvent(p) /\ Head(events[p]).ev # "DISCONNECTED"
      BY <2>3 DEF ConnectRequest, Established
    <3>2. p # Server
      BY <3>1, EventPhase DEF FullyRead
    <3>3. conns' = [conns EXCEPT ![p] = conns'[p]]
      BY <2>3 DEF ConnectRequest, Established, TypeOK
    <3>4. conns'[Server] = conns[Server]
      BY <3>2, <3>3, ProcFacts DEF TypeOK
    <3> QED
      BY <2>1, <3>4 DEF FullyRead
  <2> QED
    BY <1>1, <2>2, <2>3 DEF Handles, AddrResolved, RouteResolved, Disconnected
<1>2. ASSUME NEW p \in Procs, NEW end \in Ends, Exit(p, end) PROVE FullyRead'
  <2>1. pc' = [pc EXCEPT ![p] = end] /\ UNCHANGED <<conns, read, round>>
    BY <1>2 DEF Exit, readVars
  <2>2. pc'[Server] \in {pc[Server], end}
    BY <2>1, ProcFacts DEF TypeOK
  <2> QED
    BY <2>1, <2>2 DEF FullyRead, Ends
<1>3. ASSUME NEW p \in Procs, SendFins(p), ~Exit(p, "failed") PROVE FullyRead'
  <2>1. pc' = [pc EXCEPT ![p] = "fin_wait"] /\ UNCHANGED <<conns, read, round>>
    BY <1>3 DEF SendFins, readVars
  <2>2. pc'[Server] \in {pc[Server], "fin_wait"}
    BY <2>1, ProcFacts DEF TypeOK
  <2> QED
    BY <2>1, <2>2 DEF FullyRead
<1>4. ASSUME NEW p \in Procs, RdmaDisconnect(p) PROVE FullyRead'
  <2>1. pc' = [pc EXCEPT ![p] = "disc_wait"] /\ UNCHANGED <<conns, read, round>>
    BY <1>4 DEF RdmaDisconnect, readVars
  <2>2. pc'[Server] \in {pc[Server], "disc_wait"}
    BY <2>1, ProcFacts DEF TypeOK
  <2> QED
    BY <2>1, <2>2 DEF FullyRead
<1>5. ASSUME NEW p \in Procs, PollFin(p) PROVE FullyRead'
  BY <1>5 DEF PollFin, FullyRead, linkVars, readVars
<1>6. ~ServerReads
  BY DEF ServerReads, StartReads, PostRead, ReadDone, NextIteration, ReadError, FullyRead
<1>7. Fabric => FullyRead'
  BY DEF Fabric, Deliver, DeliverFin, FullyRead, linkVars, readVars
<1>8. (\E p \in Procs : PollEmpty(p)) \/ AllExited \/ UNCHANGED vars => FullyRead'
  BY DEF PollEmpty, AllExited, vars, readVars, FullyRead
<1> QED
  BY <1>1, <1>2, <1>3, <1>4, <1>5, <1>6, <1>7, <1>8
  DEF Next, ProcStep, Crash, UnexpectedEvent, PollError, Return, Handles, Ends

LEMMA FinMeansReadNext ==
  ASSUME TypeOK, FinMeansRead, [Next]_vars
  PROVE  FinMeansRead'
<1> SUFFICES ASSUME FinOfServer', ~FinOfServer PROVE FullyRead'
  BY FullyReadStable DEF FinMeansRead
<1>1. CASE UNCHANGED <<unsent, fins, num_fin_recvd>>
  BY <1>1 DEF FinOfServer
<1>2. ASSUME NEW p \in Procs, Handles(p) PROVE FALSE
  BY <1>1, <1>2
  DEF Handles, AddrResolved, RouteResolved, ConnectRequest, Established, Disconnected,
      linkVars, counters, recvVars, FinOfServer
<1>3. ASSUME NEW p \in Procs,
             \/ \E end : Exit(p, end)
             \/ RdmaDisconnect(p)
      PROVE  FALSE
  <2>1. unsent' = [unsent EXCEPT ![p] = {}] /\ UNCHANGED <<fins, num_fin_recvd>>
    BY <1>3 DEF Exit, RdmaDisconnect, counters, recvVars
  <2> QED
    BY <2>1, ProcFacts DEF FinOfServer, TypeOK
<1>4. ASSUME NEW p \in Procs, SendFins(p), ~Exit(p, "failed") PROVE FullyRead'
  <2>1. /\ pc' = [pc EXCEPT ![p] = "fin_wait"]
        /\ unsent' = [unsent EXCEPT ![p] = @ \cup Range(conns[p])]
        /\ UNCHANGED <<fins, num_fin_recvd, conns, read, round>>
        /\ p = Server => ReadsDone
    BY <1>4 DEF SendFins, SendControl, counters, recvVars, readVars
  <2>2. p = Server
    BY <2>1 DEF FinOfServer, TypeOK
  <2> QED
    BY <2>1, <2>2, ProcFacts DEF FullyRead, ReadsDone, TypeOK
<1>5. ASSUME NEW p \in Procs, PollFin(p) PROVE FALSE
  <2>1. /\ fins[p] > 0 /\ unsent' = unsent
        /\ fins' = [fins EXCEPT ![p] = @ - 1]
        /\ num_fin_recvd' = [num_fin_recvd EXCEPT ![p] = @ + 1]
    BY <1>5 DEF PollFin, linkVars
  <2>2. p \notin Clients
    BY <2>1 DEF FinOfServer
  <2>3. \A q \in Clients : fins'[q] = fins[q] /\ num_fin_recvd'[q] = num_fin_recvd[q]
    BY <2>1, <2>2, ProcFacts DEF TypeOK
  <2> QED
    BY <2>1, <2>3 DEF FinOfServer
<1>6. ASSUME ServerReads, ~Exit(Server, "failed") PROVE FALSE
  BY <1>1, <1>6 DEF ServerReads, StartReads, PostRead, ReadDone, NextIteration, ReadError,
     counters, recvVars, FinOfServer
<1>7. ASSUME NEW m \in net, Deliver(m) PROVE FALSE
  BY <1>7 DEF Deliver, FinOfServer, linkVars, counters, recvVars
<1>8. ASSUME NEW p \in Procs, NEW c \in unsent[p], DeliverFin(p, c) PROVE FALSE
  <2>1. p # Server
    BY DEF FinOfServer
  <2>2. Peer(p, c) = Server
    BY <2>1 DEF Peer
  <2>3. /\ unsent' = [unsent EXCEPT ![p] = @ \ {c}] /\ num_fin_recvd' = num_fin_recvd
        /\ fins' = [fins EXCEPT ![Server] = @ + 1]
    BY <1>8, <2>2 DEF DeliverFin, counters
  <2> QED
    BY <2>1, <2>3, ProcFacts DEF FinOfServer, TypeOK
<1>9. (\E p \in Procs : PollEmpty(p)) \/ AllExited \/ UNCHANGED vars => FALSE
  BY <1>1 DEF PollEmpty, AllExited, vars, counters, FinOfServer
<1> QED
  BY <1>2, <1>3, <1>4, <1>5, <1>6, <1>7, <1>8, <1>9, ProcFacts
  DEF Next, ProcStep, Crash, UnexpectedEvent, PollError, Return, Handles, Fabric

(* The invariant behind the success of a client: with TypeOK, the messages *)
(* that open a connection, who has which connection, the clients' phases,  *)
(* and what a FIN of the server means.                                     *)
SessionInv == TypeOK /\ Addressed /\ OneOpening /\ Accepted /\ ClientPhases /\ FinMeansRead

LEMMA SessionInvInit == Init => SessionInv
<1> SUFFICES ASSUME Init PROVE SessionInv
  OBVIOUS
<1>1. ClientPhases
  BY ProcFacts, SessionAssumption DEF Init, ClientPhases
<1>2. FinMeansRead
  BY ProcFacts DEF Init, FinMeansRead, FinOfServer
<1> QED
  BY <1>1, <1>2, InitTypes, OpeningInit, AcceptedInit DEF SessionInv

LEMMA SessionInvNext == SessionInv /\ [Next]_vars => SessionInv'
BY NextTypes, OpeningNext, AcceptedNext, ClientPhasesNext, FinMeansReadNext DEF SessionInv

(* The session's invariant, whatever faults happen.                        *)
THEOREM SessionInvariant == Spec => []SessionInv
BY SessionInvInit, SessionInvNext, PTL DEF Spec

LEMMA SuccessIsReal ==
  ASSUME SessionInv
  PROVE  ClientSuccess
<1> SUFFICES ASSUME NEW p \in Clients, pc[p] = "ok"
             PROVE  ConnsOf(p) \subseteq read /\ round = num_iterations
  BY DEF ClientSuccess
<1>1. /\ num_established[p] = Len(conns[p]) /\ num_established[p] <= ClientConnections[p]
      /\ num_established[p] >= ClientConnections[p] /\ num_fin_recvd[p] >= Len(conns[p])
  BY DEF SessionInv, ClientPhases
<1>2. num_established[p] \in Nat /\ num_fin_recvd[p] \in Nat /\ ClientConnections[p] \in Nat \ {0}
  BY ProcFacts, SessionAssumption DEF SessionInv, TypeOK
<1>3. \A a, b, e, n \in Nat : n # 0 /\ a = b /\ a <= n /\ a >= n /\ e >= b => b = n /\ e > 0
  OBVIOUS
<1>4. Len(conns[p]) = ClientConnections[p] /\ num_fin_recvd[p] > 0
  BY <1>1, <1>2, <1>3
<1>5. FullyRead
  BY <1>4 DEF SessionInv, FinMeansRead, FinOfServer
<1>6. Range(conns[p]) = ConnsOf(p)
  BY <1>4, AllConnections DEF SessionInv
<1>7. Range(conns[p]) \subseteq Range(conns[Server])
  BY DEF SessionInv, Accepted
<1> QED
  BY <1>5, <1>6, <1>7 DEF FullyRead

(* A client returns 0 only after the last iteration has read all of its    *)
(* connections, also when processes crash, sends are lost and              *)
(* TIMEWAIT_EXIT events come early (disconnect, run_client).               *)
THEOREM ClientSuccessHolds == Spec => []ClientSuccess
BY SessionInvariant, SuccessIsReal, PTL

-----------------------------------------------------------------------------
(* While the server sets up and reads, and no process crashes, nobody      *)
(* leaves: the clients stay where they are until a FIN of the server       *)
(* comes, and the buffers of those it accepted stay registered.            *)
Early(p) == pc[p] \in {"setup", "reading"}

NobodyLeaves ==
  Early(Server) =>
    /\ \A q \in Clients : pc[q] \in {"setup", "fin_wait"}
    /\ closed = {}
    /\ \A m \in Pending : m.ev \in SetupEvents
    /\ \A m \in Pending : m.ev = "CONNECT_REQUEST" => m.conn[1] \in mem
    /\ \A c \in Range(conns[Server]) : c[1] \in mem

(* No crash is injected, and with DC a client's FINs fit in a send queue.  *)
NoFailures ==
  /\ "crash" \notin Faults
  /\ "dc" \in Transports => \A c \in Clients : ClientConnections[c] <= tx_queue_len

LEMMA StaysOut ==
  ASSUME TypeOK, [Next]_vars, Early(Server)'
  PROVE  Early(Server)
<1>1. ASSUME NEW p \in Procs, ProcStep(p) \/ Crash(p) PROVE Early(Server)
  <2>1. pc' = pc \/ \E ph \in Phases \ {"setup", "reading"} : pc' = [pc EXCEPT ![p] = ph]
    BY <1>1 DEF ProcStep, Crash, AddrResolved, RouteResolved, ConnectRequest, Established,
       Disconnected, UnexpectedEvent, SendFins, PollFin, PollEmpty, PollError, RdmaDisconnect,
       Return, Exit, Phases, Ends, vars
  <2> QED
    BY <2>1, ProcFacts DEF TypeOK, Early
<1>2. ServerReads => Early(Server)
  BY DEF ServerReads, StartReads, NextIteration, PostRead, ReadDone, ReadError, Early
<1>3. Fabric \/ AllExited \/ UNCHANGED vars => pc' = pc
  BY DEF Fabric, Deliver, DeliverFin, AllExited, vars
<1> QED
  BY <1>1, <1>2, <1>3 DEF Next, Early

(* A client whose FINs are out has none of the server's yet.               *)
LEMMA ClientWaits ==
  ASSUME SessionInv, Early(Server), NEW q \in Clients, pc[q] = "fin_wait"
  PROVE  ~FinsDone(q)
<1>1. num_fin_recvd[q] = 0
  <2>1. ~FinOfServer
    BY DEF SessionInv, FinMeansRead, FullyRead, Early
  <2>2. ~(num_fin_recvd[q] > 0) /\ num_fin_recvd[q] \in Nat
    BY <2>1, ProcFacts DEF FinOfServer, SessionInv, TypeOK
  <2> QED
    BY <2>2
<1>2. Len(conns[q]) = num_established[q] /\ num_established[q] >= ClientConnections[q]
  BY DEF SessionInv, ClientPhases
<1>3. ClientConnections[q] \in Nat \ {0} /\ num_established[q] \in Nat
  BY SessionAssumption, ProcFacts DEF SessionInv, TypeOK
<1>4. \A a, b \in Nat : b # 0 /\ a >= b => ~(0 >= a)
  OBVIOUS
<1> QED
  BY <1>1, <1>2, <1>3, <1>4 DEF FinsDone, num_conns

(* So it does not leave.                                                   *)
LEMMA ClientStays ==
  ASSUME NoFailures, SessionInv, NobodyLeaves, Early(Server), NEW q \in Clients
  PROVE  /\ ~UnexpectedEvent(q) /\ ~PollError(q) /\ ~RdmaDisconnect(q) /\ ~Return(q) /\ ~Crash(q)
         /\ SendFins(q) => /\ pc' = [pc EXCEPT ![q] = "fin_wait"]
                           /\ UNCHANGED <<conns, events, net, closed, mem>>
<1>1. q # Server /\ q \in Procs
  BY ProcFacts
<1>2. pc[q] \in {"setup", "fin_wait"}
  BY DEF NobodyLeaves
<1>3. ~UnexpectedEvent(q)
  <2> SUFFICES ASSUME events[q] # <<>>, pc[q] = "setup" PROVE Head(events[q]).ev \in Mask(q)
    BY <1>2 DEF UnexpectedEvent, WaitsForEvent
  <2>1. Head(events[q]) \in Range(events[q])
    BY <1>1, RangeTail DEF SessionInv, TypeOK
  <2>2. Head(events[q]) \in Pending /\ Head(events[q]).to = q /\ RightSide(Head(events[q]))
    BY <1>1, <2>1 DEF SessionInv, Addressed, Pending
  <2>3. Head(events[q]).ev \in SetupEvents /\ Head(events[q]).ev # "CONNECT_REQUEST"
    BY <1>1, <2>2 DEF NobodyLeaves, RightSide
  <2> QED
    BY <1>1, <2>3 DEF SetupEvents, Mask
<1>4. ~PollError(q)
  BY DEF NobodyLeaves, PollError
<1>5. ~RdmaDisconnect(q) /\ ~Return(q)
  BY <1>2, ClientWaits DEF RdmaDisconnect, Return
<1>6. ~Crash(q)
  BY DEF NoFailures, Crash
<1>7. ASSUME SendFins(q) PROVE FinsFit(q) = {TRUE}
  <2>1. num_conns(q) <= ClientConnections[q]
    BY DEF num_conns, SessionInv, ClientPhases
  <2>2. CASE transport = "dc"
    <3>1. ClientConnections[q] <= tx_queue_len
      BY <2>2 DEF NoFailures, SessionInv, TypeOK
    <3>2. /\ ClientConnections[q] \in Nat /\ tx_queue_len \in Nat /\ num_conns(q) \in Nat
      BY <1>1, SessionAssumption DEF SessionInv, TypeOK, num_conns
    <3>3. \A a, b, d \in Nat : a <= b /\ b <= d => ~(a > d)
      OBVIOUS
    <3> QED
      BY <1>1, <2>1, <3>1, <3>2, <3>3 DEF FinsFit, TxLen
  <2> QED
    BY <2>2 DEF FinsFit
<1> QED
  BY <1>3, <1>4, <1>5, <1>6, <1>7 DEF SendFins, recvVars

LEMMA NobodyLeavesHandles ==
  ASSUME SessionInv, NobodyLeaves, Early(Server), NEW p \in Procs, Handles(p)
  PROVE  NobodyLeaves'
<1> DEFINE e == Head(events[p])
<1> USE DEF SessionInv
<1>1. TakeEvent(p) /\ e.conn \in Conns
  BY HandleConns
<1>2. /\ e \in Pending /\ e.to = p /\ RightSide(e)
      /\ \A q \in Procs : Range(events'[q]) \subseteq Range(events[q])
  BY <1>1, TakeFacts
<1>3. UNCHANGED <<pc, closed>> /\ mem \subseteq mem'
  BY DEF Handles, AddrResolved, RouteResolved, ConnectRequest, Established, Disconnected,
     InitTransport, linkVars, recvVars
<1>4. \A n \in net' : \/ n \in net
                      \/ n.ev \in SetupEvents /\ n.ev # "CONNECT_REQUEST"
                      \/ n.ev = "CONNECT_REQUEST" /\ n.conn[1] \in mem'
  <2>1. CASE AddrResolved(p)
    BY <2>1, MsgFacts DEF AddrResolved, SetupEvents
  <2>2. CASE RouteResolved(p)
    <3>1. e.conn[1] = p /\ p \in mem' /\ net' = net \cup {Msg(Server, "CONNECT_REQUEST", e.conn)}
      BY <1>2, <2>2 DEF RouteResolved, RightSide, InitTransport
    <3> QED
      BY <3>1, MsgFacts
  <2>3. CASE ConnectRequest(p)
    BY <2>3, MsgFacts DEF ConnectRequest, SetupEvents
  <2>4. CASE Established(p) \/ Disconnected(p)
    BY <2>4 DEF Established, Disconnected
  <2> QED
    BY <2>1, <2>2, <2>3, <2>4 DEF Handles
<1>5. \A n \in Pending' : \/ n \in Pending
                          \/ n.ev \in SetupEvents /\ n.ev # "CONNECT_REQUEST"
                          \/ n.ev = "CONNECT_REQUEST" /\ n.conn[1] \in mem'
  BY <1>2, <1>4 DEF Pending
<1>6. \A c \in Range(conns'[Server]) : c \in Range(conns[Server]) \/ c[1] \in mem
  <2>1. CASE conns'[Server] = conns[Server]
    BY <2>1
  <2>2. CASE p = Server /\ e.ev = "CONNECT_REQUEST" /\ conns' = [conns EXCEPT ![p] = Append(@, e.conn)]
    <3>1. conns'[Server] = Append(conns[Server], e.conn)
      BY <2>2 DEF TypeOK
    <3>2. Range(Append(conns[Server], e.conn)) = Range(conns[Server]) \cup {e.conn}
      BY <1>1, RangeAppend, ProcFacts DEF TypeOK
    <3>3. e.conn[1] \in mem
      BY <1>2, <2>2 DEF NobodyLeaves
    <3> QED
      BY <3>1, <3>2, <3>3
  <2>3. CASE p \in Clients /\ conns' = [conns EXCEPT ![p] = Append(@, e.conn)]
    BY <2>1, <2>3, ProcFacts DEF TypeOK
  <2> QED
    BY <2>1, <2>2, <2>3, HandleConns
<1> HIDE DEF e, SessionInv
<1>7. \A m \in Pending' : m.ev \in SetupEvents /\ (m.ev = "CONNECT_REQUEST" => m.conn[1] \in mem')
  BY <1>3, <1>5 DEF NobodyLeaves, SetupEvents
<1> QED
  BY <1>3, <1>6, <1>7 DEF NobodyLeaves

LEMMA NobodyLeavesNext ==
  ASSUME NoFailures, SessionInv, NobodyLeaves, [Next]_vars
  PROVE  NobodyLeaves'
<1> SUFFICES ASSUME Early(Server)' PROVE NobodyLeaves'
  BY DEF NobodyLeaves
<1>1. Early(Server) /\ TypeOK
  BY StaysOut DEF SessionInv
<1>2. ASSUME NEW end \in Ends, Exit(Server, end) PROVE FALSE
  BY <1>1, <1>2, ProcFacts DEF Exit, Early, TypeOK, Ends
<1>3. CASE /\ UNCHANGED <<conns, events, net, closed, mem>>
           /\ \A q \in Clients : pc'[q] = pc[q] \/ pc'[q] = "fin_wait"
  BY <1>1, <1>3 DEF NobodyLeaves, Pending
<1>4. ASSUME NEW p \in Procs, ProcStep(p) \/ Crash(p) PROVE NobodyLeaves'
  <2>1. CASE Handles(p)
    BY <1>1, <2>1, NobodyLeavesHandles
  <2>2. CASE PollFin(p) \/ PollEmpty(p)
    BY <1>3, <2>2 DEF PollFin, PollEmpty, vars, linkVars, recvVars
  <2>3. CASE p = Server /\ ~Handles(p) /\ ~PollFin(p) /\ ~PollEmpty(p)
    <3>1. SendFins(p) => Exit(p, "failed") \/ pc' = [pc EXCEPT ![p] = "fin_wait"]
      BY DEF SendFins
    <3>2. RdmaDisconnect(p) => pc[p] = "fin_wait"
      BY DEF RdmaDisconnect
    <3> QED
      BY <1>1, <1>2, <1>4, <2>3, <3>1, <3>2, ProcFacts
      DEF ProcStep, Crash, UnexpectedEvent, PollError, Return, Handles, Ends, Early, TypeOK
  <2>4. CASE p \in Clients /\ ~Handles(p) /\ ~PollFin(p) /\ ~PollEmpty(p)
    <3>1. SendFins(p) /\ pc' = [pc EXCEPT ![p] = "fin_wait"] /\ UNCHANGED <<conns, events, net, closed, mem>>
      BY <1>1, <1>4, <2>4, ClientStays DEF ProcStep, Handles
    <3>2. \A q \in Clients : pc'[q] = pc[q] \/ pc'[q] = "fin_wait"
      BY <3>1, ProcFacts DEF TypeOK
    <3> QED
      BY <1>3, <3>1, <3>2
  <2> QED
    BY <2>1, <2>2, <2>3, <2>4 DEF Procs
<1>5. ASSUME ServerReads PROVE NobodyLeaves'
  <2>1. CASE Exit(Server, "failed")
    BY <1>2, <2>1 DEF Ends
  <2>2. CASE ~Exit(Server, "failed")
    <3>1. /\ UNCHANGED <<conns, events, net, closed, mem>>
          /\ pc' = pc \/ pc' = [pc EXCEPT ![Server] = "reading"]
      BY <1>5, <2>2 DEF ServerReads, StartReads, NextIteration, PostRead, ReadDone, ReadError, recvVars
    <3>2. \A q \in Clients : pc'[q] = pc[q]
      BY <1>1, <3>1, ProcFacts DEF TypeOK
    <3> QED
      BY <1>3, <3>1, <3>2
  <2> QED
    BY <2>1, <2>2
<1>6. ASSUME NEW m \in net, Deliver(m) PROVE NobodyLeaves'
  <2>1. m \in Pending /\ m \in Messages /\ m.to \in Procs
    BY <1>1, MsgIs DEF Pending, TypeOK
  <2>2. ~Exited(m.to)
    BY <1>1, <2>1 DEF NobodyLeaves, Exited, Ends, Early, Procs
  <2>3. \A n \in net' : n \in net \/ n.ev = "ESTABLISHED"
    BY <1>6, <2>2, MsgFacts DEF Deliver
  <2>4. \A n \in Pending' : n \in Pending \/ n.ev = "ESTABLISHED"
    BY <1>1, <1>6, <2>1, <2>3, DeliverFacts DEF Pending
  <2>5. UNCHANGED <<pc, conns, closed, mem>>
    BY <1>6 DEF Deliver, linkVars, recvVars
  <2> QED
    BY <1>1, <2>4, <2>5 DEF NobodyLeaves, SetupEvents
<1>7. (\E p \in Procs : \E c \in unsent[p] : DeliverFin(p, c)) \/ AllExited \/ UNCHANGED vars => NobodyLeaves'
  BY <1>3 DEF DeliverFin, AllExited, vars, recvVars
<1> QED
  BY <1>4, <1>5, <1>6, <1>7 DEF Next, Fabric

(* The memory the server still has to read is registered, as long as no    *)
(* process crashes and, with DC, every client's FINs fit in a send queue:  *)
(* the FIN handshake of disconnect() protects it.                          *)
THEOREM MemoryKept ==
  ASSUME NoFailures
  PROVE  Spec => []MemoryUntilRead
<1>1. Init => NobodyLeaves
  <2> SUFFICES ASSUME Init PROVE NobodyLeaves
    OBVIOUS
  <2>1. \A q \in Procs : Range(events[q]) = {} /\ Range(conns[q]) = {}
    BY DEF Init, Range
  <2>2. \A m \in Pending : m.ev = "ADDR_RESOLVED"
    BY <2>1, MsgFacts DEF Pending, Init
  <2> QED
    BY <2>1, <2>2, ProcFacts DEF Init, NobodyLeaves, SetupEvents
<1>2. SessionInv /\ NobodyLeaves /\ [Next]_vars => NobodyLeaves'
  BY NobodyLeavesNext
<1>3. NobodyLeaves => MemoryUntilRead
  BY DEF NobodyLeaves, MemoryUntilRead, Early
<1> QED
  BY <1>1, <1>2, <1>3, SessionInvariant, PTL DEF Spec

-----------------------------------------------------------------------------
(* The server's ESTABLISHED.  It comes once, after everything else that    *)
(* opens the connection.                                                   *)
Asking(m)   == m.ev \in {"ADDR_RESOLVED", "ROUTE_RESOLVED", "CONNECT_REQUEST"}
ToServer(m) == m.ev = "ESTABLISHED" /\ m.to = Server
Reports     == {m \in Messages : ToServer(m)}

OneReport ==
  /\ \A m \in Pending : ToServer(m) =>
       /\ \A n \in Pending : n.conn = m.conn => ~Asking(n)
       /\ \A n \in net : n.conn = m.conn => ~Opening(n)
  /\ \A m \in net : ToServer(m) => m \notin Range(events[Server])
  /\ Distinct(Reports, events[Server])

(* Connections for which that message is still to come or to be handled,   *)
(* and the others, of which the server has counted no more than there are. *)
Awaited(c) ==
  \/ \E m \in Pending : m.conn = c /\ (Asking(m) \/ ToServer(m))
  \/ \E m \in net : m.conn = c /\ m.ev = "ESTABLISHED"
Settled == {c \in Conns : ~Awaited(c)}

CountedOnce == transport = "rc" => num_established[Server] <= Cardinality(Settled)

ReadsAfterSetup == pc[Server] = "reading" \/ reading # {} => SetupDone(Server)

LEMMA HandleNet ==
  ASSUME TypeOK, Addressed, OneOpening, NEW p \in Procs, Handles(p)
  PROVE  /\ TakeEvent(p) /\ Head(events[p]) \in Pending
         /\ \A q \in Procs : Range(events'[q]) \subseteq Range(events[q])
         /\ \A n \in net' : \/ n \in net
                            \/ /\ n.conn = Head(events[p]).conn /\ ~ToServer(n)
                               /\ Asking(Head(events[p]))
<1> DEFINE e == Head(events[p])
<1>1. TakeEvent(p) /\ e.conn \in Conns
  BY HandleConns
<1>2. e \in Pending /\ \A q \in Procs : Range(events'[q]) \subseteq Range(events[q])
  BY <1>1, TakeFacts
<1>3. e.conn[1] # Server
  BY <1>1, ConnFacts
<1>4. CASE AddrResolved(p)
  BY <1>1, <1>2, <1>4, MsgFacts DEF AddrResolved, ToServer, Asking
<1>5. CASE RouteResolved(p)
  BY <1>1, <1>2, <1>5, MsgFacts DEF RouteResolved, ToServer, Asking
<1>6. CASE ConnectRequest(p)
  BY <1>1, <1>2, <1>3, <1>6, MsgFacts DEF ConnectRequest, ToServer, Asking
<1>7. CASE Established(p) \/ Disconnected(p)
  BY <1>1, <1>2, <1>7 DEF Established, Disconnected
<1> QED
  BY <1>4, <1>5, <1>6, <1>7 DEF Handles

LEMMA ReportKinds ==
  ASSUME NEW m
  PROVE  /\ ToServer(m) => m.ev = "ESTABLISHED" /\ ~Opening(m) /\ ~Asking(m)
         /\ Asking(m) => Opening(m)
         /\ m \in Ending => ~Asking(m) /\ ~ToServer(m) /\ ~Opening(m) /\ m.ev # "ESTABLISHED"
BY DEF ToServer, Asking, Opening, Ending, EndEvents

LEMMA OneReportHandles ==
  ASSUME TypeOK, Addressed, OneOpening, OneReport, NEW p \in Procs, Handles(p)
  PROVE  OneReport'
<1> DEFINE e == Head(events[p])
<1>1. /\ TakeEvent(p) /\ e \in Pending
      /\ \A q \in Procs : Range(events'[q]) \subseteq Range(events[q])
      /\ \A n \in net' : n \in net \/ (n.conn = e.conn /\ ~ToServer(n) /\ Asking(e))
  BY HandleNet
<1>2. Distinct(Reports, events'[Server])
  <2>1. CASE p = Server
    <3>1. events'[Server] = Tail(events[Server]) /\ events[Server] \in Seq(Messages) /\ events[Server] # <<>>
      BY <1>1, <2>1 DEF TakeEvent, TypeOK
    <3> QED
      BY <3>1, DistinctTail DEF OneReport
  <2>2. CASE p # Server
    BY <1>1, <2>2, ProcFacts DEF TakeEvent, OneReport, TypeOK
  <2> QED
    BY <2>1, <2>2
<1> HIDE DEF e, ToServer, Asking, Opening
<1>3. \A n \in Pending' : n \in Pending \/ (n.conn = e.conn /\ ~ToServer(n) /\ Asking(e))
  BY <1>1 DEF Pending
<1>4. ASSUME NEW m \in Pending', ToServer(m)
      PROVE  /\ \A n \in Pending' : n.conn = m.conn => ~Asking(n)
             /\ \A n \in net' : n.conn = m.conn => ~Opening(n)
  <2>1. m \in Pending
    BY <1>3, <1>4
  <2> QED
    BY <1>1, <1>3, <1>4, <2>1 DEF OneReport
<1>5. ASSUME NEW m \in net', ToServer(m) PROVE m \notin Range(events'[Server])
  BY <1>1, <1>5, ProcFacts DEF OneReport
<1> QED
  BY <1>2, <1>4, <1>5 DEF OneReport

LEMMA OneReportDeliver ==
  ASSUME TypeOK, Addressed, OneOpening, OneReport, NEW m \in net, Deliver(m)
  PROVE  OneReport'
<1> DEFINE est == Msg(Server, "ESTABLISHED", m.conn)
<1>1. /\ m \in Messages /\ m.to \in Procs /\ m \in Pending
      /\ \/ events' = events
         \/ \A q \in Procs : events'[q] = IF q = m.to THEN Append(events[q], m) ELSE events[q]
      /\ \A q \in Procs : \A n \in Range(events'[q]) :
           n \in Range(events[q]) \/ (q = m.to /\ n = m)
      /\ \A n \in net' : \/ n \in net /\ n # m
                         \/ n \in Ending
                         \/ n = est /\ m.ev = "ESTABLISHED" /\ Opening(m)
  BY DeliverFacts DEF Pending, Opening
<1>2. ToServer(est) /\ est.conn = m.conn
  BY MsgFacts DEF ToServer
<1> HIDE DEF est
<1>3. m.ev = "ESTABLISHED" => ~Asking(m)
  BY DEF Asking
<1> HIDE DEF ToServer, Asking, Opening
<1>4. \A n \in Pending' : \/ n \in Pending
                          \/ n \in Ending
                          \/ n = est /\ m.ev = "ESTABLISHED" /\ Opening(m)
  BY <1>1 DEF Pending
<1>5. ASSUME NEW r \in Pending', ToServer(r)
      PROVE  /\ \A n \in Pending' : n.conn = r.conn => ~Asking(n)
             /\ \A n \in net' : n.conn = r.conn => ~Opening(n)
  <2>1. CASE r \in Pending
    BY <1>1, <1>2, <1>4, <1>5, <2>1, ReportKinds DEF OneReport
  <2>2. CASE r = est /\ m.ev = "ESTABLISHED" /\ Opening(m)
    <3>1. ASSUME NEW n \in Pending, n.conn = r.conn, Opening(n) PROVE n = m
      BY <1>1, <1>2, <2>2, <3>1 DEF OneOpening
    <3>2. \A n \in Pending : n.conn = r.conn /\ Asking(n) => FALSE
      BY <1>3, <2>2, <3>1, ReportKinds
    <3>3. \A n \in net : n.conn = r.conn /\ Opening(n) => n = m
      BY <3>1 DEF Pending
    <3> QED
      BY <1>1, <1>2, <1>4, <2>2, <3>2, <3>3, ReportKinds
  <2> QED
    BY <1>4, <1>5, <2>1, <2>2, ReportKinds
<1>6. ASSUME NEW r \in net', ToServer(r) PROVE r \notin Range(events'[Server])
  <2>1. CASE r \in net /\ r # m
    BY <1>1, <1>6, <2>1, ProcFacts DEF OneReport
  <2>2. CASE r = est /\ Opening(m)
    <3>1. r \notin Pending
      BY <1>2, <2>2 DEF OneReport
    <3>2. r \notin Range(events[Server]) /\ r # m
      BY <1>1, <3>1, ProcFacts DEF Pending
    <3> QED
      BY <1>1, <3>2, ProcFacts
  <2> QED
    BY <1>1, <1>6, <2>1, <2>2, ReportKinds
<1>7. Distinct(Reports, events'[Server])
  <2>1. CASE events'[Server] = events[Server]
    BY <2>1 DEF OneReport
  <2>2. CASE events'[Server] = Append(events[Server], m)
    <3>1. m \in Reports => m \notin Range(events[Server])
      BY DEF OneReport, Reports
    <3> QED
      BY <1>1, <2>2, <3>1, DistinctAppend, ProcFacts DEF OneReport, TypeOK
  <2> QED
    BY <1>1, <2>1, <2>2, ProcFacts
<1> QED
  BY <1>5, <1>6, <1>7 DEF OneReport

LEMMA LeavesFacts ==
  ASSUME TypeOK, NEW p \in Procs, Leaves(p)
  PROVE  /\ \A q \in Procs : events'[q] \in {events[q], <<>>}
         /\ \A q \in Procs : Range(events'[q]) \subseteq Range(events[q])
         /\ \A m \in net' : m \in net \/ m \in Ending
         /\ \A m \in Pending' : m \in Pending \/ m \in Ending
         /\ conns' = conns
<1>1. Range(<<>>) = {}
  BY DEF Range
<1>2. \A q \in Procs : events'[q] \in {events[q], <<>>}
  BY DEF Leaves, TypeOK
<1>3. \A q \in Procs : Range(events'[q]) \subseteq Range(events[q])
  BY <1>1, <1>2
<1> QED
  BY <1>2, <1>3 DEF Pending, Leaves

LEMMA OneReportNext ==
  ASSUME TypeOK, Addressed, OneOpening, OneReport, [Next]_vars
  PROVE  OneReport'
<1>1. CASE UNCHANGED <<conns, events, net>>
  BY <1>1 DEF OneReport, Pending
<1>2. ASSUME NEW p \in Procs, Leaves(p) PROVE OneReport'
  <2>1. /\ events'[Server] \in {events[Server], <<>>}
        /\ Range(events'[Server]) \subseteq Range(events[Server])
        /\ \A m \in net' : m \in net \/ m \in Ending
        /\ \A m \in Pending' : m \in Pending \/ m \in Ending
    BY <1>2, LeavesFacts, ProcFacts
  <2>2. Distinct(Reports, <<>>)
    BY DEF Distinct
  <2> HIDE DEF ToServer, Asking, Opening
  <2> QED
    BY <2>1, <2>2, ReportKinds DEF OneReport
<1> QED
  BY <1>1, <1>2, MessageSteps, OneReportHandles, OneReportDeliver

(* A connection that is settled stays settled.                             *)
LEMMA SettledStays ==
  ASSUME TypeOK, Addressed, OneOpening, [Next]_vars
  PROVE  Settled \subseteq Settled'
<1> SUFFICES ASSUME NEW c \in Conns, Awaited(c)' PROVE Awaited(c)
  BY DEF Settled
<1> HIDE DEF ToServer, Asking, Opening
<1>1. CASE UNCHANGED <<conns, events, net>>
  BY <1>1 DEF Awaited, Pending
<1>2. ASSUME NEW p \in Procs, Leaves(p) PROVE Awaited(c)
  BY <1>2, LeavesFacts, ReportKinds DEF Awaited
<1>3. ASSUME NEW p \in Procs, Handles(p) PROVE Awaited(c)
  <2> DEFINE e == Head(events[p])
  <2>1. /\ e \in Pending
        /\ \A q \in Procs : Range(events'[q]) \subseteq Range(events[q])
        /\ \A n \in net' : n \in net \/ (n.conn = e.conn /\ Asking(e))
    BY <1>3, HandleNet
  <2> HIDE DEF e
  <2>2. \A n \in Pending' : n \in Pending \/ (n.conn = e.conn /\ Asking(e))
    BY <2>1 DEF Pending
  <2> QED
    BY <2>1, <2>2 DEF Awaited
<1>4. ASSUME NEW m \in net, Deliver(m) PROVE Awaited(c)
  <2>1. /\ m \in Pending
        /\ \A n \in net' : n \in net \/ n \in Ending \/ (n.conn = m.conn /\ m.ev = "ESTABLISHED")
        /\ \A n \in Pending' : n \in Pending \/ n \in Ending \/ (n.conn = m.conn /\ m.ev = "ESTABLISHED")
    BY <1>4, DeliverFacts, MsgFacts DEF Pending
  <2> QED
    BY <2>1, ReportKinds DEF Awaited
<1> QED
  BY <1>1, <1>2, <1>3, <1>4, MessageSteps

LEMMA SettledFinite == IsFiniteSet(Settled) /\ Cardinality(Settled) \in Nat
BY ConnsFinite, FS_Subset, FS_CardinalityType DEF Settled

(* The server's ESTABLISHED settles a connection.                          *)
LEMMA EstablishedSettles ==
  ASSUME TypeOK, Addressed, OneOpening, OneReport, Established(Server)
  PROVE  /\ Head(events[Server]).conn \in Settled' \ Settled
         /\ Head(events[Server]).conn \in Conns
<1> DEFINE e == Head(events[Server])
<1>1. TakeEvent(Server) /\ e.ev = "ESTABLISHED" /\ net' = net
  BY DEF Established
<1>2. /\ e \in Pending /\ e.to = Server /\ e \in Range(events[Server]) /\ e \in Messages
      /\ \A q \in Procs : Range(events'[q]) \subseteq Range(events[q])
      /\ e.conn \in Conns
  BY <1>1, TakeFacts, TakeEventTypes, ProcFacts
<1>0. PICK c \in Conns : c = e.conn
  BY <1>2
<1>3. ToServer(e) /\ e \in Reports
  BY <1>1, <1>2 DEF ToServer, Reports
<1>4. Awaited(c)
  BY <1>0, <1>2, <1>3 DEF Awaited
<1>5. e \notin net
  BY <1>2, <1>3 DEF OneReport
<1>6. e \notin Range(events'[Server])
  <2>1. events'[Server] = Tail(events[Server]) /\ events[Server] \in Seq(Messages) /\ events[Server] # <<>>
    BY <1>1, ProcFacts DEF TakeEvent, TypeOK
  <2> QED
    BY <1>3, <2>1, DistinctTail DEF OneReport
<1>7. e \notin Pending'
  <2>1. \A q \in Procs : e \in Range(events'[q]) => q = Server
    BY <1>2 DEF Addressed
  <2> QED
    BY <1>1, <1>5, <1>6, <2>1 DEF Pending
<1>8. Pending' \subseteq Pending /\ Pending \subseteq Messages
  <2>1. \A q \in Procs : Range(events[q]) \subseteq Messages
    BY RangeFacts DEF TypeOK
  <2> QED
    BY <1>1, <1>2, <2>1 DEF Pending, TypeOK
<1>9. \A m \in Messages : m.conn = c /\ ToServer(m) => m = e
  BY <1>0, <1>1, <1>2, MsgIs DEF ToServer
<1>10. \A m \in Pending' : m.conn = c => ~Asking(m) /\ ~ToServer(m)
  <2> HIDE DEF e
  <2> QED
    BY <1>0, <1>2, <1>3, <1>7, <1>8, <1>9 DEF OneReport
<1>11. \A m \in net' : m.conn = c => m.ev # "ESTABLISHED"
  <2>1. \A m \in net : m.conn = c => ~Opening(m) /\ ~ToServer(m)
    BY <1>0, <1>2, <1>3, <1>5, <1>9 DEF OneReport, TypeOK
  <2> QED
    BY <1>1, <2>1 DEF Opening, ToServer
<1>12. ~Awaited(c)'
  BY <1>10, <1>11 DEF Awaited
<1> QED
  BY <1>0, <1>4, <1>12 DEF Settled

LEMMA ServerCounts ==
  ASSUME TypeOK, [Next]_vars
  PROVE  /\ transport' = transport
         /\ \/ num_established'[Server] = num_established[Server]
            \/ num_established'[Server] = num_established[Server] + 1 /\ Established(Server)
            \/ num_established'[Server] = num_established[Server] + EstablishedOnRequest
<1>1. ASSUME NEW p \in Procs, Handles(p)
      PROVE  \/ UNCHANGED num_established
             \/ num_established' = [num_established EXCEPT ![p] = @ + 1] /\ Established(p)
             \/ num_established' = [num_established EXCEPT ![p] = @ + EstablishedOnRequest]
  BY <1>1 DEF Handles, AddrResolved, RouteResolved, ConnectRequest, Established, Disconnected, counters
<1>2. ASSUME NEW p \in Procs, Handles(p) PROVE transport' = transport
  BY <1>2 DEF Handles, AddrResolved, RouteResolved, ConnectRequest, Established, Disconnected, linkVars
<1>3. ASSUME NEW p \in Procs, Handles(p)
      PROVE  \/ num_established'[Server] = num_established[Server]
             \/ num_established'[Server] = num_established[Server] + 1 /\ Established(Server)
             \/ num_established'[Server] = num_established[Server] + EstablishedOnRequest
  <2>1. CASE p = Server
    BY <1>1, <1>3, <2>1, ProcFacts DEF TypeOK
  <2>2. CASE p # Server
    BY <1>1, <1>3, <2>2, ProcFacts DEF TypeOK
  <2> QED
    BY <2>1, <2>2
<1>4. \A p \in Procs, end \in Ends : Exit(p, end) => UNCHANGED <<transport, num_established>>
  BY DEF Exit, counters
<1>5. ASSUME NEW p \in Procs, ProcStep(p) \/ Crash(p), ~Handles(p)
      PROVE  UNCHANGED <<transport, num_established>>
  BY <1>4, <1>5 DEF ProcStep, Crash, UnexpectedEvent, SendFins, PollFin, PollEmpty, PollError,
     RdmaDisconnect, Return, Handles, Ends, vars, counters, linkVars
<1>6. ServerReads => UNCHANGED <<transport, num_established>>
  BY <1>4, ProcFacts DEF ServerReads, StartReads, NextIteration, PostRead, ReadDone, ReadError, Ends, counters
<1>7. Fabric \/ AllExited \/ UNCHANGED vars => UNCHANGED <<transport, num_established>>
  BY DEF Fabric, Deliver, DeliverFin, AllExited, vars, counters, linkVars
<1> QED
  BY <1>2, <1>3, <1>5, <1>6, <1>7 DEF Next

LEMMA CountedOnceNext ==
  ASSUME TypeOK, Addressed, OneOpening, OneReport, CountedOnce, [Next]_vars
  PROVE  CountedOnce'
<1> SUFFICES ASSUME transport = "rc"
             PROVE  num_established'[Server] <= Cardinality(Settled')
  BY ServerCounts DEF CountedOnce
<1>1. IsFiniteSet(Settled') /\ Cardinality(Settled') \in Nat
  BY ConnsFinite, FS_Subset, FS_CardinalityType DEF Settled
<1>2. Cardinality(Settled) <= Cardinality(Settled') /\ Cardinality(Settled) \in Nat
  BY <1>1, SettledStays, SettledFinite, FS_Subset
<1>3. num_established[Server] \in Nat /\ num_established[Server] <= Cardinality(Settled)
  BY ProcFacts DEF CountedOnce, TypeOK
<1>4. CASE num_established'[Server] = num_established[Server]
  BY <1>1, <1>2, <1>3, <1>4
<1>5. CASE num_established'[Server] = num_established[Server] + EstablishedOnRequest
  <2>1. EstablishedOnRequest = 0
    BY DEF EstablishedOnRequest
  <2>2. num_established'[Server] = num_established[Server]
    BY <1>3, <1>5, <2>1
  <2> QED
    BY <1>4, <2>2
<1>6. CASE num_established'[Server] = num_established[Server] + 1 /\ Established(Server)
  <2> DEFINE c == Head(events[Server]).conn
  <2>1. c \in Settled' /\ c \notin Settled
    BY <1>6, EstablishedSettles
  <2> HIDE DEF c
  <2>2. Settled \cup {c} \subseteq Settled'
    BY <2>1, SettledStays
  <2>3. Cardinality(Settled \cup {c}) = Cardinality(Settled) + 1 /\ IsFiniteSet(Settled \cup {c})
    BY <2>1, SettledFinite, FS_AddElement
  <2>4. Cardinality(Settled \cup {c}) <= Cardinality(Settled')
    BY <1>1, <2>2, FS_Subset
  <2>5. \A a, b, d \in Nat : a <= b /\ b + 1 <= d => a + 1 <= d
    OBVIOUS
  <2> QED
    BY <1>1, <1>2, <1>3, <1>6, <2>3, <2>4, <2>5
<1> QED
  BY <1>4, <1>5, <1>6, ServerCounts

LEMMA ReadsAfterSetupNext ==
  ASSUME TypeOK, ReadsAfterSetup, [Next]_vars
  PROVE  ReadsAfterSetup'
<1>1. num_established[Server] \in Nat /\ Expected(Server) \in Nat /\ Expected(Server)' = Expected(Server)
  BY ProcFacts, SessionAssumption DEF TypeOK, Expected
<1>2. SetupDone(Server) => SetupDone(Server)'
  <2>1. num_established'[Server] \in {num_established[Server], num_established[Server] + 1}
    BY <1>1, ServerCounts DEF EstablishedOnRequest
  <2>2. \A a, b \in Nat : a >= b => a + 1 >= b
    OBVIOUS
  <2> QED
    BY <1>1, <2>1, <2>2 DEF SetupDone
<1>3. ASSUME NEW p \in Procs, ProcStep(p) \/ Crash(p)
      PROVE  reading' = reading /\ (pc'[Server] = "reading" => pc[Server] = "reading")
  <2>1. reading' = reading
    BY <1>3 DEF ProcStep, Crash, AddrResolved, RouteResolved, ConnectRequest, Established,
       Disconnected, UnexpectedEvent, SendFins, PollFin, PollEmpty, PollError, RdmaDisconnect,
       Return, Exit, vars, linkVars, readVars
  <2>2. pc' = pc \/ \E ph \in Phases \ {"setup", "reading"} : pc' = [pc EXCEPT ![p] = ph]
    BY <1>3 DEF ProcStep, Crash, AddrResolved, RouteResolved, ConnectRequest, Established,
       Disconnected, UnexpectedEvent, SendFins, PollFin, PollEmpty, PollError, RdmaDisconnect,
       Return, Exit, Phases, Ends, vars
  <2> QED
    BY <2>1, <2>2, ProcFacts DEF TypeOK
<1>4. ASSUME ServerReads PROVE SetupDone(Server)
  BY <1>4 DEF ServerReads, StartReads, NextIteration, PostRead, ReadDone, ReadError, ReadsAfterSetup
<1>5. Fabric \/ AllExited \/ UNCHANGED vars => UNCHANGED <<pc, reading>>
  BY DEF Fabric, Deliver, DeliverFin, AllExited, vars, linkVars, readVars
<1> QED
  BY <1>2, <1>3, <1>4, <1>5 DEF Next, ReadsAfterSetup

(* With RC, and no more clients' connections than the server expects, the  *)
(* server reads only on connections whose handshake is over ("wait until   *)
(* all connections got ESTABLISHED event" in run_server): its counter      *)
(* reaches the number of connections only with the last of the events.     *)
THEOREM ReadsOnlyEstablished ==
  ASSUME Cardinality(Conns) <= num_connections
  PROVE  Spec => []ReadsEstablished
<1> DEFINE Inv == OneReport /\ CountedOnce /\ ReadsAfterSetup
<1>1. Init => Inv
  <2> SUFFICES ASSUME Init PROVE Inv
    OBVIOUS
  <2>1. \A q \in Procs : Range(events[q]) = {} /\ Len(events[q]) = 0
    BY DEF Init, Range
  <2>2. \A m \in Pending : m.ev = "ADDR_RESOLVED"
    BY <2>1, MsgFacts DEF Pending, Init
  <2>3. net \subseteq Pending
    BY DEF Pending
  <2>4. OneReport
    BY <2>1, <2>2, <2>3, ProcFacts DEF OneReport, ToServer, Distinct
  <2>5. CountedOnce
    BY SettledFinite, ProcFacts DEF CountedOnce, Init
  <2>6. ReadsAfterSetup
    BY ProcFacts DEF ReadsAfterSetup, Init
  <2> QED
    BY <2>4, <2>5, <2>6
<1>2. SessionInv /\ Inv /\ [Next]_vars => Inv'
  BY OneReportNext, CountedOnceNext, ReadsAfterSetupNext DEF SessionInv
<1>3. SessionInv /\ Inv => ReadsEstablished
  <2> SUFFICES ASSUME SessionInv, Inv, transport = "rc", NEW c \in reading, NEW p \in Procs
               PROVE  /\ Msg(p, "ESTABLISHED", c) \notin net
                      /\ Msg(p, "ESTABLISHED", c) \notin Range(events[Server])
    BY DEF ReadsEstablished
  <2>1. c \in Conns
    BY DEF SessionInv, TypeOK
  <2>2. num_connections <= num_established[Server]
    <3>1. num_established[Server] >= num_connections
      BY DEF ReadsAfterSetup, SetupDone, Expected
    <3> QED
      BY <3>1, SessionAssumption, ProcFacts DEF SessionInv, TypeOK
  <2>3. Settled = Conns
    <3>1. Settled \subseteq Conns
      BY DEF Settled
    <3>2. Cardinality(Settled) <= Cardinality(Conns) /\ Cardinality(Conns) \in Nat
      BY <3>1, ConnsFinite, FS_Subset, FS_CardinalityType
    <3>3. num_established[Server] <= Cardinality(Settled)
      BY DEF CountedOnce
    <3>4. num_established[Server] \in Nat /\ num_connections \in Nat /\ Cardinality(Settled) \in Nat
      BY SettledFinite, SessionAssumption, ProcFacts DEF SessionInv, TypeOK
    <3>5. \A s, m, n, e \in Nat : s <= m /\ m <= n /\ n <= e /\ e <= s => m = s
      OBVIOUS
    <3>6. Cardinality(Conns) = Cardinality(Settled)
      BY <2>2, <3>2, <3>3, <3>4, <3>5
    <3> QED
      BY <3>1, <3>6, ConnsFinite, FS_Subset
  <2>4. ~Awaited(c)
    BY <2>1, <2>3 DEF Settled
  <2>5. Msg(p, "ESTABLISHED", c) \notin net
    BY <2>4, MsgFacts DEF Awaited
  <2>6. ASSUME Msg(p, "ESTABLISHED", c) \in Range(events[Server]) PROVE FALSE
    <3>1. Msg(p, "ESTABLISHED", c) \in Pending
      BY <2>6, ProcFacts DEF Pending
    <3>2. p = Server
      BY <2>6, MsgFacts, ProcFacts DEF SessionInv, Addressed
    <3> QED
      BY <2>4, <3>1, <3>2, MsgFacts DEF Awaited, ToServer
  <2> QED
    BY <2>5, <2>6
<1> HIDE DEF Inv
<1> QED
  BY <1>1, <1>2, <1>3, SessionInvariant, PTL DEF Spec

-----------------------------------------------------------------------------
(* The receives of a process: those left and those used are all of them    *)
(* once its transport is prepared, and it is when one of its connections   *)
(* is requested or, at the server, added.                                  *)
Received(p) == fins[p] + num_fin_recvd[p]
AllPosted(p) == rx[p] + Received(p) = RxLen(p)

Receives ==
  \A p \in Procs :
    /\ p \in mem => AllPosted(p)
    /\ ~Exited(p) /\ p \notin mem => rx[p] = 0 /\ fins[p] = 0 /\ num_fin_recvd[p] = 0

PreparedFirst ==
  /\ \A m \in Pending : m.ev = "CONNECT_REQUEST" => AllPosted(m.conn[1])
  /\ \A c \in Range(conns[Server]) : AllPosted(c[1]) /\ AllPosted(Server)
  /\ \A p \in Procs : unsent[p] \subseteq Range(conns[p])

LEMMA QueueTypes ==
  ASSUME TypeOK, NEW p \in Procs
  PROVE  rx[p] \in Nat /\ fins[p] \in Nat /\ num_fin_recvd[p] \in Nat /\ RxLen(p) \in Nat
BY RxLenNat DEF TypeOK

LEMMA MoveReceive ==
  \A a, b, d \in Nat :
    /\ a > 0 => (a - 1) + ((b + 1) + d) = a + (b + d)
    /\ b > 0 => (b - 1) + (d + 1) = b + d
OBVIOUS

LEMMA ReceivesHandles ==
  ASSUME TypeOK, Receives, NEW p \in Procs, Handles(p)
  PROVE  /\ Receives' /\ \A q \in Procs : AllPosted(q) => AllPosted(q)'
         /\ RouteResolved(p) \/ ConnectRequest(p) => AllPosted(p)'
         /\ unsent' = unsent
<1>1. UNCHANGED <<pc, fins, num_fin_recvd, unsent>>
  BY DEF Handles, AddrResolved, RouteResolved, ConnectRequest, Established, Disconnected,
     linkVars, counters, recvVars
<1>2. RxLen(p) \in Nat /\ \A q \in Procs : RxLen(q)' = RxLen(q)
  BY RxLenNat DEF RxLen
<1>3. CASE UNCHANGED <<rx, mem>> /\ ~RouteResolved(p) /\ ~ConnectRequest(p)
  BY <1>1, <1>2, <1>3 DEF Receives, AllPosted, Received, Exited
<1>4. CASE RouteResolved(p) \/ ConnectRequest(p)
  <2>1. TakeEvent(p) /\ InitTransport(p)
    BY <1>4 DEF RouteResolved, ConnectRequest
  <2>2. ~Exited(p)
    BY <2>1 DEF TakeEvent, WaitsForEvent, Exited, Ends
  <2>3. mem' = mem \cup {p} /\ \A q \in Procs : q # p => rx'[q] = rx[q]
    BY <2>1 DEF InitTransport, TypeOK
  <2>4. rx'[p] = IF p \in mem THEN rx[p] ELSE RxLen(p)
    BY <2>1 DEF InitTransport, TypeOK
  <2>5. AllPosted(p)'
    <3>1. CASE p \in mem
      BY <1>1, <1>2, <2>4, <3>1 DEF Receives, AllPosted, Received
    <3>2. CASE p \notin mem
      <4>1. fins[p] = 0 /\ num_fin_recvd[p] = 0
        BY <2>2, <3>2 DEF Receives
      <4>2. \A n \in Nat : n + (0 + 0) = n
        OBVIOUS
      <4> QED
        BY <1>1, <1>2, <2>4, <3>2, <4>1, <4>2 DEF AllPosted, Received
    <3> QED
      BY <3>1, <3>2
  <2>6. \A q \in Procs : q # p => (AllPosted(q)' <=> AllPosted(q))
    BY <1>1, <1>2, <2>3 DEF AllPosted, Received
  <2>7. Receives'
    BY <1>1, <2>3, <2>5, <2>6 DEF Receives, Exited
  <2> QED
    BY <1>1, <2>5, <2>6, <2>7
<1> QED
  BY <1>3, <1>4 DEF Handles, AddrResolved, Established, Disconnected, recvVars, RouteResolved, ConnectRequest

(* The other steps, by what they change.                                   *)
LEMMA ReceivesSame ==
  ASSUME TypeOK, Receives, UNCHANGED <<rx, fins, num_fin_recvd>>, mem' \subseteq mem,
         \A p \in Procs : /\ Exited(p) => Exited(p)'
                          /\ p \in mem \ mem' => Exited(p)'
  PROVE  Receives' /\ \A q \in Procs : AllPosted(q) => AllPosted(q)'
<1>1. \A q \in Procs : AllPosted(q) <=> AllPosted(q)'
  BY DEF AllPosted, Received, RxLen
<1> QED
  BY <1>1 DEF Receives

LEMMA ReceivesExit ==
  ASSUME TypeOK, Receives, NEW p \in Procs, NEW end \in Ends, Exit(p, end)
  PROVE  /\ Receives' /\ \A q \in Procs : AllPosted(q) => AllPosted(q)'
<1>1. UNCHANGED <<rx, fins, num_fin_recvd>> /\ mem' = mem \ {p}
  BY DEF Exit, counters
<1>2. \A q \in Procs : pc'[q] = IF q = p THEN end ELSE pc[q]
  BY DEF Exit, TypeOK
<1> QED
  BY <1>1, <1>2, ReceivesSame DEF Exited

LEMMA ReceivesPollFin ==
  ASSUME TypeOK, Receives, NEW p \in Procs, PollFin(p)
  PROVE  /\ Receives' /\ \A q \in Procs : AllPosted(q) => AllPosted(q)'
         /\ \A q \in Procs : Received(q)' = Received(q)
<1>1. /\ fins[p] > 0 /\ ~Exited(p) /\ UNCHANGED <<pc, mem, rx>>
      /\ fins' = [fins EXCEPT ![p] = @ - 1]
      /\ num_fin_recvd' = [num_fin_recvd EXCEPT ![p] = @ + 1]
  BY DEF PollFin, Polls, linkVars, Exited, Ends
<1>2. /\ fins'[p] = fins[p] - 1 /\ num_fin_recvd'[p] = num_fin_recvd[p] + 1
      /\ \A q \in Procs : q # p => fins'[q] = fins[q] /\ num_fin_recvd'[q] = num_fin_recvd[q]
  BY <1>1 DEF TypeOK
<1>3. Received(p)' = Received(p)
  BY <1>1, <1>2, QueueTypes, MoveReceive DEF Received
<1>4. \A q \in Procs : Received(q)' = Received(q)
  BY <1>2, <1>3 DEF Received
<1>5. \A q \in Procs : AllPosted(q)' <=> AllPosted(q)
  BY <1>1, <1>4 DEF AllPosted, RxLen
<1>6. p \in mem
  <2>1. fins[p] # 0
    BY <1>1
  <2> QED
    BY <1>1, <2>1 DEF Receives
<1>7. Receives'
  BY <1>1, <1>2, <1>5, <1>6 DEF Receives, Exited
<1> QED
  BY <1>4, <1>5, <1>7

LEMMA ReceivesDeliverFin ==
  ASSUME TypeOK, Receives, NEW p \in Procs, NEW c \in unsent[p], DeliverFin(p, c)
  PROVE  /\ Receives' /\ \A q \in Procs : AllPosted(q) => AllPosted(q)'
         /\ Received(Peer(p, c))' = Received(Peer(p, c)) + 1 /\ Peer(p, c) \in Procs
         /\ \A q \in Procs : q # Peer(p, c) => Received(q)' = Received(q)
<1>1. PICK r \in Procs : r = Peer(p, c)
  BY ConnFacts, ProcFacts DEF Peer, TypeOK
<1>2. /\ rx[r] > 0 /\ UNCHANGED <<pc, mem, num_fin_recvd>>
      /\ rx' = [rx EXCEPT ![r] = @ - 1] /\ fins' = [fins EXCEPT ![r] = @ + 1]
  BY <1>1 DEF DeliverFin, counters
<1>3. /\ rx'[r] = rx[r] - 1 /\ fins'[r] = fins[r] + 1
      /\ \A q \in Procs : q # r => fins'[q] = fins[q] /\ rx'[q] = rx[q]
  BY <1>2 DEF TypeOK
<1>4. rx'[r] + Received(r)' = rx[r] + Received(r)
  BY <1>2, <1>3, QueueTypes, MoveReceive DEF Received
<1>5. Received(r)' = Received(r) + 1
  <2>1. \A a, b \in Nat : (a + 1) + b = (a + b) + 1
    OBVIOUS
  <2> QED
    BY <1>2, <1>3, <2>1, QueueTypes DEF Received
<1>6. \A q \in Procs : q # r => Received(q)' = Received(q)
  BY <1>2, <1>3 DEF Received
<1>7. \A q \in Procs : AllPosted(q)' <=> AllPosted(q)
  BY <1>3, <1>4, <1>6 DEF AllPosted, RxLen
<1>8. rx[r] # 0
  BY <1>2
<1>9. Receives'
  BY <1>2, <1>3, <1>7, <1>8 DEF Receives, Exited
<1>10. Peer(p, c)' = r
  BY <1>1 DEF Peer
<1> QED
  BY <1>1, <1>5, <1>6, <1>7, <1>9, <1>10

(* The steps that touch receives, FINs or registrations.                   *)
FinsSent(p) ==
  /\ pc[p] = IF p = Server THEN "reading" ELSE "setup"
  /\ pc' = [pc EXCEPT ![p] = "fin_wait"]
  /\ unsent' = [unsent EXCEPT ![p] = @ \cup Range(conns[p])]
  /\ UNCHANGED <<conns, rx, fins, num_fin_recvd, mem>>

LEMMA FinSteps ==
  ASSUME TypeOK, [Next]_vars
  PROVE  \/ \E p \in Procs : Handles(p)
         \/ \E p \in Procs, end \in Ends : Exit(p, end)
         \/ \E p \in Procs : FinsSent(p) \/ PollFin(p) \/ RdmaDisconnect(p)
         \/ \E p \in Procs : \E c \in unsent[p] : DeliverFin(p, c)
         \/ /\ UNCHANGED <<rx, fins, num_fin_recvd, mem, unsent>>
            /\ pc' = pc \/ (pc[Server] = "setup" /\ pc' = [pc EXCEPT ![Server] = "reading"])
<1>1. ASSUME NEW p \in Procs, SendFins(p), ~Exit(p, "failed") PROVE FinsSent(p)
  BY <1>1 DEF SendFins, SendControl, FinsSent, counters, recvVars
<1>2. ASSUME NEW p \in Procs, ProcStep(p) \/ Crash(p)
      PROVE  \/ Handles(p) \/ FinsSent(p) \/ PollFin(p) \/ RdmaDisconnect(p)
             \/ \E end \in Ends : Exit(p, end)
             \/ UNCHANGED <<rx, fins, num_fin_recvd, mem, unsent, pc>>
  <2>1. PollEmpty(p) => UNCHANGED <<rx, fins, num_fin_recvd, mem, unsent, pc>>
    BY DEF PollEmpty, vars, counters
  <2> QED
    BY <1>1, <1>2, <2>1
    DEF ProcStep, Crash, UnexpectedEvent, PollError, Return, Handles, Ends
<1>3. ASSUME ServerReads, ~Exit(Server, "failed")
      PROVE  /\ UNCHANGED <<rx, fins, num_fin_recvd, mem, unsent>>
             /\ pc' = pc \/ (pc[Server] = "setup" /\ pc' = [pc EXCEPT ![Server] = "reading"])
  BY <1>3 DEF ServerReads, StartReads, NextIteration, PostRead, ReadDone, ReadError, counters, recvVars
<1>4. (\E m \in net : Deliver(m)) \/ AllExited \/ UNCHANGED vars =>
         UNCHANGED <<rx, fins, num_fin_recvd, mem, unsent, pc>>
  BY DEF Deliver, AllExited, vars, linkVars, counters, recvVars
<1> QED
  BY <1>2, <1>3, <1>4, ProcFacts DEF Next, Fabric, Ends

LEMMA RequestSteps ==
  ASSUME TypeOK, [Next]_vars
  PROVE  \/ \E p \in Procs : Handles(p)
         \/ UNCHANGED conns /\ \A m \in Pending' : m \in Pending \/ m.ev # "CONNECT_REQUEST"
<1>1. CASE UNCHANGED <<conns, events, net>>
  BY <1>1 DEF Pending
<1>2. ASSUME NEW p \in Procs, Leaves(p)
      PROVE  UNCHANGED conns /\ \A m \in Pending' : m \in Pending \/ m.ev # "CONNECT_REQUEST"
  BY <1>2, LeavesFacts DEF Ending, EndEvents
<1>3. ASSUME NEW m \in net, Deliver(m)
      PROVE  UNCHANGED conns /\ \A n \in Pending' : n \in Pending \/ n.ev # "CONNECT_REQUEST"
  <2>1. \A n \in net' : n \in net \/ n.ev # "CONNECT_REQUEST"
    BY <1>3, DeliverFacts, MsgFacts DEF Ending, EndEvents
  <2>2. \A n \in Pending' : n \in Pending \/ n.ev # "CONNECT_REQUEST"
    BY <1>3, <2>1, DeliverFacts DEF Pending
  <2> QED
    BY <1>3, <2>2 DEF Deliver
<1> QED
  BY <1>1, <1>2, <1>3, MessageSteps

(* Connections are only added.                                             *)
LEMMA ConnsGrow ==
  ASSUME TypeOK, Addressed, OneOpening, NEW p \in Procs, Handles(p), NEW q \in Procs
  PROVE  Range(conns[q]) \subseteq Range(conns'[q])
<1>1. /\ Head(events[p]).conn \in Conns
      /\ UNCHANGED conns \/ conns' = [conns EXCEPT ![p] = Append(@, Head(events[p]).conn)]
  BY HandleConns
<1>2. CASE UNCHANGED conns
  BY <1>2
<1>3. CASE conns' = [conns EXCEPT ![p] = Append(@, Head(events[p]).conn)]
  <2>1. conns'[q] = IF q = p THEN Append(conns[p], Head(events[p]).conn) ELSE conns[q]
    BY <1>3 DEF TypeOK
  <2>2. Range(Append(conns[p], Head(events[p]).conn)) = Range(conns[p]) \cup {Head(events[p]).conn}
    BY <1>1, RangeAppend DEF TypeOK
  <2> QED
    BY <2>1, <2>2
<1> QED
  BY <1>1, <1>2, <1>3

LEMMA PreparedHandles ==
  ASSUME TypeOK, Addressed, OneOpening, Receives, PreparedFirst, NEW p \in Procs, Handles(p)
  PROVE  PreparedFirst'
<1> DEFINE e == Head(events[p])
<1>1. /\ TakeEvent(p) /\ e \in Pending /\ e.to = p /\ RightSide(e) /\ e.conn \in Conns
      /\ \A q \in Procs : Range(events'[q]) \subseteq Range(events[q])
  BY HandleConns, TakeFacts
<1>2. /\ \A q \in Procs : AllPosted(q) => AllPosted(q)'
      /\ RouteResolved(p) \/ ConnectRequest(p) => AllPosted(p)'
      /\ unsent' = unsent
  BY ReceivesHandles
<1>3. PICK c \in Conns : c = e.conn
  BY <1>1
<1>4. \A n \in net' : \/ n \in net \/ n.ev # "CONNECT_REQUEST"
                      \/ RouteResolved(p) /\ n.conn = c /\ c[1] = p
  <2>1. CASE RouteResolved(p)
    BY <1>1, <1>3, <2>1, MsgFacts DEF RouteResolved, RightSide
  <2>2. CASE AddrResolved(p) \/ ConnectRequest(p)
    BY <2>2, MsgFacts DEF AddrResolved, ConnectRequest
  <2>3. CASE Established(p) \/ Disconnected(p)
    BY <2>3 DEF Established, Disconnected
  <2> QED
    BY <2>1, <2>2, <2>3 DEF Handles
<1>5. \A n \in Pending' : \/ n \in Pending \/ n.ev # "CONNECT_REQUEST"
                          \/ RouteResolved(p) /\ n.conn = c /\ c[1] = p
  BY <1>1, <1>4 DEF Pending
<1>6. \A n \in Pending : n.conn[1] \in Procs
  <2>1. Pending \subseteq Messages
    BY RangeFacts DEF Pending, TypeOK
  <2> QED
    BY <2>1, MsgIs, ConnFacts
<1>7. ASSUME NEW n \in Pending', n.ev = "CONNECT_REQUEST" PROVE AllPosted(n.conn[1])'
  <2>1. CASE n \in Pending
    BY <1>2, <1>6, <1>7, <2>1 DEF PreparedFirst
  <2>2. CASE RouteResolved(p) /\ n.conn = c /\ c[1] = p
    BY <1>2, <2>2
  <2> QED
    BY <1>5, <1>7, <2>1, <2>2
<1>8. ASSUME NEW d \in Range(conns'[Server]) PROVE AllPosted(d[1])' /\ AllPosted(Server)'
  <2>1. Range(conns[Server]) \subseteq Conns
    BY RangeFacts, ProcFacts DEF TypeOK
  <2>2. CASE d \in Range(conns[Server])
    BY <1>2, <2>1, <2>2, ConnFacts, ProcFacts DEF PreparedFirst
  <2>3. CASE p = Server /\ ConnectRequest(p) /\ e.ev = "CONNECT_REQUEST" /\ d = c
    <3>1. AllPosted(c[1]) /\ c[1] \in Procs
      BY <1>1, <1>3, <2>3, ConnFacts DEF PreparedFirst
    <3> QED
      BY <1>2, <2>3, <3>1
  <2>4. d \in Range(conns[Server]) \/ (p = Server /\ ConnectRequest(p) /\ e.ev = "CONNECT_REQUEST" /\ d = c)
    <3>1. CASE conns'[Server] = conns[Server]
      BY <1>8, <3>1
    <3>2. CASE /\ p = Server /\ ConnectRequest(p) /\ e.ev = "CONNECT_REQUEST"
               /\ conns' = [conns EXCEPT ![p] = Append(@, e.conn)]
      <4>1. conns'[Server] = Append(conns[Server], c)
        BY <1>3, <3>2 DEF TypeOK
      <4>2. Range(Append(conns[Server], c)) = Range(conns[Server]) \cup {c}
        BY RangeAppend, ProcFacts DEF TypeOK
      <4> QED
        BY <1>8, <3>2, <4>1, <4>2
    <3>3. CASE p \in Clients /\ conns' = [conns EXCEPT ![p] = Append(@, e.conn)]
      BY <3>1, <3>3, ProcFacts DEF TypeOK
    <3> QED
      BY <3>1, <3>2, <3>3, HandleConns, ProcFacts
  <2> QED
    BY <2>2, <2>3, <2>4
<1>9. \A q \in Procs : unsent'[q] \subseteq Range(conns'[q])
  BY <1>2, ConnsGrow DEF PreparedFirst
<1> QED
  BY <1>7, <1>8, <1>9 DEF PreparedFirst

LEMMA PreparedRest ==
  ASSUME TypeOK, PreparedFirst, UNCHANGED conns,
         \A m \in Pending' : m \in Pending \/ m.ev # "CONNECT_REQUEST",
         \A p \in Procs : AllPosted(p) => AllPosted(p)',
         \A p \in Procs : unsent'[p] \subseteq unsent[p] \cup Range(conns[p])
  PROVE  PreparedFirst'
<1>1. Pending \subseteq Messages
  BY RangeFacts DEF Pending, TypeOK
<1>2. Range(conns[Server]) \subseteq Conns
  BY RangeFacts, ProcFacts DEF TypeOK
<1>3. \A m \in Pending' : m.ev = "CONNECT_REQUEST" => AllPosted(m.conn[1])'
  <2> SUFFICES ASSUME NEW m \in Pending', m.ev = "CONNECT_REQUEST" PROVE AllPosted(m.conn[1])'
    OBVIOUS
  <2>1. m \in Pending /\ m.conn[1] \in Procs
    BY <1>1, MsgIs, ConnFacts
  <2> QED
    BY <2>1 DEF PreparedFirst
<1>4. \A c \in Range(conns'[Server]) : AllPosted(c[1])' /\ AllPosted(Server)'
  <2> SUFFICES ASSUME NEW c \in Range(conns[Server]) PROVE AllPosted(c[1])' /\ AllPosted(Server)'
    OBVIOUS
  <2>1. c[1] \in Procs
    BY <1>2, ConnFacts
  <2> QED
    BY <2>1, ProcFacts DEF PreparedFirst
<1> QED
  BY <1>3, <1>4 DEF PreparedFirst

LEMMA ReceivesNext ==
  ASSUME TypeOK, Addressed, OneOpening, Receives, PreparedFirst, [Next]_vars
  PROVE  Receives' /\ PreparedFirst'
<1>1. CASE \E p \in Procs : Handles(p)
  BY <1>1, ReceivesHandles, PreparedHandles
<1>2. CASE ~ \E p \in Procs : Handles(p)
  <2>1. UNCHANGED conns /\ \A m \in Pending' : m \in Pending \/ m.ev # "CONNECT_REQUEST"
    BY <1>2, RequestSteps
  <2>2. ASSUME NEW p \in Procs, NEW end \in Ends, Exit(p, end) PROVE Receives' /\ PreparedFirst'
    <3>1. \A q \in Procs : unsent'[q] \subseteq unsent[q]
      BY <2>2 DEF Exit, TypeOK
    <3> QED
      BY <2>1, <2>2, <3>1, ReceivesExit, PreparedRest
  <2>3. ASSUME NEW p \in Procs, FinsSent(p) PROVE Receives' /\ PreparedFirst'
    <3>1. \A q \in Procs : unsent'[q] \subseteq unsent[q] \cup Range(conns[q])
      BY <2>3 DEF FinsSent, TypeOK
    <3>2. \A q \in Procs : Exited(q) => Exited(q)'
      BY <2>3 DEF FinsSent, TypeOK, Exited, Ends
    <3>3. Receives' /\ \A q \in Procs : AllPosted(q) => AllPosted(q)'
      BY <2>3, <3>2, ReceivesSame DEF FinsSent
    <3> QED
      BY <2>1, <3>1, <3>3, PreparedRest
  <2>4. ASSUME NEW p \in Procs, PollFin(p) PROVE Receives' /\ PreparedFirst'
    <3>1. unsent' = unsent
      BY <2>4 DEF PollFin, linkVars
    <3> QED
      BY <2>1, <2>4, <3>1, ReceivesPollFin, PreparedRest
  <2>5. ASSUME NEW p \in Procs, RdmaDisconnect(p) PROVE Receives' /\ PreparedFirst'
    <3>1. /\ pc' = [pc EXCEPT ![p] = "disc_wait"] /\ pc[p] = "fin_wait"
          /\ unsent' = [unsent EXCEPT ![p] = {}]
          /\ UNCHANGED <<rx, fins, num_fin_recvd, mem>>
      BY <2>5 DEF RdmaDisconnect, counters, recvVars
    <3>2. \A q \in Procs : Exited(q) => Exited(q)'
      BY <3>1 DEF TypeOK, Exited, Ends
    <3>3. Receives' /\ \A q \in Procs : AllPosted(q) => AllPosted(q)'
      BY <3>1, <3>2, ReceivesSame
    <3>4. \A q \in Procs : unsent'[q] \subseteq unsent[q]
      BY <3>1 DEF TypeOK
    <3> QED
      BY <2>1, <3>3, <3>4, PreparedRest
  <2>6. ASSUME NEW p \in Procs, NEW c \in unsent[p], DeliverFin(p, c) PROVE Receives' /\ PreparedFirst'
    <3>1. \A q \in Procs : unsent'[q] \subseteq unsent[q]
      BY <2>6 DEF DeliverFin, TypeOK
    <3> QED
      BY <2>1, <2>6, <3>1, ReceivesDeliverFin, PreparedRest
  <2>7. CASE /\ UNCHANGED <<rx, fins, num_fin_recvd, mem, unsent>>
             /\ pc' = pc \/ (pc[Server] = "setup" /\ pc' = [pc EXCEPT ![Server] = "reading"])
    <3>1. \A q \in Procs : Exited(q) => Exited(q)'
      BY <2>7 DEF TypeOK, Exited, Ends
    <3>2. Receives' /\ \A q \in Procs : AllPosted(q) => AllPosted(q)'
      BY <2>7, <3>1, ReceivesSame
    <3> QED
      BY <2>1, <2>7, <3>2, PreparedRest
  <2> QED
    BY <1>2, <2>2, <2>3, <2>4, <2>5, <2>6, <2>7, FinSteps
<1> QED
  BY <1>1, <1>2

-----------------------------------------------------------------------------
(* How many FINs a process gets: from the server one on each connection,   *)
(* and the server one on each connection of the clients that sent theirs.  *)
Sent == {c \in Conns : pc[c[1]] # "setup"}

FinBounds ==
  /\ \A p \in Clients : Received(p) + Cardinality(FinsFor(p)) <= ClientConnections[p]
  /\ Received(Server) + Cardinality(FinsFor(Server)) <= Cardinality(Sent)

LEMMA FinSets ==
  /\ \A p \in Procs : FinsFor(p) \subseteq ConnsOf(p) /\ IsFiniteSet(FinsFor(p))
                      /\ Cardinality(FinsFor(p)) \in Nat
  /\ IsFiniteSet(Sent) /\ Cardinality(Sent) \in Nat /\ Cardinality(Sent) <= Cardinality(Conns)
<1>1. \A p \in Procs : ConnsOf(p) \subseteq Conns
  BY DEF ConnsOf
<1>2. \A p \in Procs : FinsFor(p) \subseteq ConnsOf(p)
  BY DEF FinsFor
<1>3. \A p \in Procs : FinsFor(p) \subseteq Conns
  BY <1>1, <1>2
<1>4. \A p \in Procs : IsFiniteSet(FinsFor(p)) /\ Cardinality(FinsFor(p)) \in Nat
  BY <1>3, ConnsFinite, FS_Subset, FS_CardinalityType
<1>5. Sent \subseteq Conns
  BY DEF Sent
<1> QED
  BY <1>2, <1>4, <1>5, ConnsFinite, FS_Subset, FS_CardinalityType

(* The same of the next state.                                             *)
LEMMA FinSetsNext ==
  /\ \A p \in Procs : FinsFor(p)' \subseteq ConnsOf(p) /\ IsFiniteSet(FinsFor(p)')
                      /\ Cardinality(FinsFor(p)') \in Nat
  /\ IsFiniteSet(Sent') /\ Cardinality(Sent') \in Nat
<1>1. \A p \in Procs : ConnsOf(p) \subseteq Conns
  BY DEF ConnsOf
<1>2. \A p \in Procs : FinsFor(p)' \subseteq ConnsOf(p)
  BY DEF FinsFor
<1>3. \A p \in Procs : FinsFor(p)' \subseteq Conns
  BY <1>1, <1>2
<1>4. \A p \in Procs : IsFiniteSet(FinsFor(p)') /\ Cardinality(FinsFor(p)') \in Nat
  BY <1>3, ConnsFinite, FS_Subset, FS_CardinalityType
<1>5. Sent' \subseteq Conns
  BY DEF Sent
<1> QED
  BY <1>2, <1>4, <1>5, ConnsFinite, FS_Subset, FS_CardinalityType

LEMMA ReceivedNat ==
  ASSUME TypeOK
  PROVE  \A p \in Procs : Received(p) \in Nat
BY DEF TypeOK, Received

(* No step but the sending of FINs adds to what a process gets.            *)
LEMMA FewerFins ==
  ASSUME TypeOK, FinBounds,
         \A p \in Procs : Received(p)' = Received(p) /\ unsent'[p] \subseteq unsent[p],
         Sent \subseteq Sent'
  PROVE  FinBounds'
<1>1. \A p \in Procs : FinsFor(p)' \subseteq FinsFor(p)
  <2> SUFFICES ASSUME NEW p \in Procs, NEW c \in ConnsOf(p), c \in unsent'[Peer(p, c)]
               PROVE  c \in unsent[Peer(p, c)]
    BY DEF FinsFor
  <2>1. Peer(p, c) \in Procs
    BY ConnFacts, ProcFacts DEF Peer, ConnsOf
  <2> QED
    BY <2>1
<1>2. \A p \in Procs : Cardinality(FinsFor(p)') <= Cardinality(FinsFor(p))
  BY <1>1, FinSets, FS_Subset
<1>3. Cardinality(Sent) <= Cardinality(Sent')
  BY FinSetsNext, FS_Subset
<1>4. \A r, n, m, b, d \in Nat : r + n <= b /\ m <= n /\ b <= d => r + m <= d
  OBVIOUS
<1>5. \A p \in Clients : ClientConnections[p] \in Nat /\ p \in Procs
  BY SessionAssumption, ProcFacts
<1>6. \A p \in Clients : Received(p)' + Cardinality(FinsFor(p)') <= ClientConnections[p]
  <2> SUFFICES ASSUME NEW p \in Clients
               PROVE  Received(p)' + Cardinality(FinsFor(p)') <= ClientConnections[p]
    OBVIOUS
  <2>1. /\ Received(p) \in Nat /\ Cardinality(FinsFor(p)) \in Nat
        /\ Cardinality(FinsFor(p)') \in Nat /\ ClientConnections[p] \in Nat
        /\ Cardinality(FinsFor(p)') <= Cardinality(FinsFor(p)) /\ Received(p)' = Received(p)
    BY <1>2, <1>5, FinSets, FinSetsNext, ReceivedNat
  <2>2. Received(p) + Cardinality(FinsFor(p)) <= ClientConnections[p]
    BY DEF FinBounds
  <2> QED
    BY <1>4, <2>1, <2>2
<1>7. Received(Server)' + Cardinality(FinsFor(Server)') <= Cardinality(Sent')
  <2>1. /\ Received(Server) \in Nat /\ Cardinality(FinsFor(Server)) \in Nat
        /\ Cardinality(FinsFor(Server)') \in Nat /\ Cardinality(Sent) \in Nat /\ Cardinality(Sent') \in Nat
        /\ Cardinality(FinsFor(Server)') <= Cardinality(FinsFor(Server)) /\ Received(Server)' = Received(Server)
    BY <1>2, ProcFacts, FinSets, FinSetsNext, ReceivedNat
  <2>2. Received(Server) + Cardinality(FinsFor(Server)) <= Cardinality(Sent)
    BY DEF FinBounds
  <2> QED
    BY <1>3, <1>4, <2>1, <2>2
<1> QED
  BY <1>6, <1>7 DEF FinBounds

(* The server's FINs: before them, the clients got none.                   *)
LEMMA ServerFins ==
  ASSUME SessionInv, FinBounds, FinsSent(Server)
  PROVE  FinBounds'
<1>1. TypeOK /\ pc[Server] = "reading" /\ UNCHANGED <<fins, num_fin_recvd>>
  BY DEF SessionInv, FinsSent
<1>2. \A p \in Procs : Received(p)' = Received(p)
  BY <1>1 DEF Received
<1>3. ~FinOfServer
  BY <1>1 DEF SessionInv, FinMeansRead, FullyRead
<1>4. ASSUME NEW p \in Clients PROVE Received(p) = 0
  <2>1. fins[p] \in Nat /\ num_fin_recvd[p] \in Nat /\ ~(fins[p] > 0) /\ ~(num_fin_recvd[p] > 0)
    BY <1>1, <1>3, <1>4, QueueTypes, ProcFacts DEF FinOfServer
  <2>2. fins[p] = 0 /\ num_fin_recvd[p] = 0
    BY <2>1
  <2> QED
    BY <2>2 DEF Received
<1>5. ASSUME NEW p \in Clients
      PROVE  Received(p)' + Cardinality(FinsFor(p)') <= ClientConnections[p]
  <2>1. Cardinality(FinsFor(p)') <= ClientConnections[p]
    BY <1>5, FinSetsNext, ProcFacts, ConnsOfClient, FS_Subset
  <2>2. Cardinality(FinsFor(p)') \in Nat /\ ClientConnections[p] \in Nat /\ Received(p)' = 0
    BY <1>2, <1>4, <1>5, FinSetsNext, ProcFacts, SessionAssumption
  <2>3. \A n \in Nat : 0 + n = n
    OBVIOUS
  <2> QED
    BY <2>1, <2>2, <2>3
<1>6. FinsFor(Server)' = FinsFor(Server)
  <2>1. \A q \in Clients : unsent'[q] = unsent[q]
    BY <1>1, ProcFacts DEF FinsSent, TypeOK
  <2>2. \A c \in ConnsOf(Server) : Peer(Server, c) \in Clients
    BY ConnFacts DEF ConnsOf
  <2> QED
    BY <2>1, <2>2 DEF FinsFor
<1>7. Sent' = Sent
  <2>1. \A q \in Clients : pc'[q] = pc[q]
    BY <1>1, ProcFacts DEF FinsSent, TypeOK
  <2> QED
    BY <2>1, ConnFacts DEF Sent
<1> QED
  BY <1>2, <1>5, <1>6, <1>7, ProcFacts DEF FinBounds

(* A client's FINs: one on each connection that is its own.                *)
LEMMA ClientFins ==
  ASSUME SessionInv, FinBounds, NEW p \in Clients, FinsSent(p)
  PROVE  FinBounds'
<1>1. /\ TypeOK /\ p # Server /\ p \in Procs /\ pc[p] = "setup"
      /\ UNCHANGED <<fins, num_fin_recvd>>
  BY ProcFacts DEF SessionInv, FinsSent
<1>2. \A q \in Procs : Received(q)' = Received(q)
  BY <1>1 DEF Received
<1>3. \A q \in Procs : unsent'[q] = IF q = p THEN unsent[p] \cup Range(conns[p]) ELSE unsent[q]
  BY <1>1 DEF FinsSent, TypeOK
<1>4. \A q \in Procs : pc'[q] = IF q = p THEN "fin_wait" ELSE pc[q]
  BY <1>1 DEF FinsSent, TypeOK
<1>5. \A q \in Clients : FinsFor(q)' = FinsFor(q)
  <2>1. \A q \in Clients : \A c \in ConnsOf(q) : Peer(q, c) = Server
    BY ProcFacts DEF Peer
  <2> QED
    BY <1>1, <1>3, <2>1, ProcFacts DEF FinsFor
<1>6. Range(conns[p]) \subseteq ConnsOf(p)
  BY DEF SessionInv, Accepted
<1>7. FinsFor(Server)' \subseteq FinsFor(Server) \cup ConnsOf(p)
  <2> SUFFICES ASSUME NEW c \in Conns, c \in unsent'[c[1]], c \notin ConnsOf(p)
               PROVE  c \in unsent[c[1]]
    BY ConnFacts DEF FinsFor, ConnsOf
  <2>1. c[1] # p /\ c[1] \in Procs
    BY <1>1, ConnFacts
  <2> QED
    BY <1>3, <2>1
<1>8. Sent' = Sent \cup ConnsOf(p) /\ Sent \cap ConnsOf(p) = {}
  <2>1. \A c \in Conns : c[1] \in Procs /\ (c \in ConnsOf(p) <=> c[1] = p)
    BY <1>1, ConnFacts DEF ConnsOf
  <2>2. ConnsOf(p) \subseteq Conns
    BY ConnsOfClient
  <2> QED
    BY <1>1, <1>4, <2>1, <2>2 DEF Sent
<1>9. /\ IsFiniteSet(ConnsOf(p)) /\ Cardinality(ConnsOf(p)) \in Nat
      /\ IsFiniteSet(FinsFor(Server)) /\ IsFiniteSet(Sent)
  BY ConnsOfClient, FinSets, ProcFacts, FS_CardinalityType
<1>10. Cardinality(Sent') = Cardinality(Sent) + Cardinality(ConnsOf(p))
  <2>1. Cardinality(Sent \cap ConnsOf(p)) = 0
    BY <1>8, FS_EmptySet
  <2>2. Cardinality(Sent \cup ConnsOf(p)) = Cardinality(Sent) + Cardinality(ConnsOf(p)) - Cardinality(Sent \cap ConnsOf(p))
    BY <1>9, FS_Union
  <2>3. Cardinality(Sent) \in Nat
    BY FinSets
  <2> QED
    BY <1>8, <1>9, <2>1, <2>2, <2>3
<1>11. Cardinality(FinsFor(Server)') <= Cardinality(FinsFor(Server)) + Cardinality(ConnsOf(p))
  <2> DEFINE U == FinsFor(Server) \cup ConnsOf(p)
             I == FinsFor(Server) \cap ConnsOf(p)
  <2>1. IsFiniteSet(U) /\ Cardinality(U) = Cardinality(FinsFor(Server)) + Cardinality(ConnsOf(p)) - Cardinality(I)
    BY <1>9, FS_Union
  <2>2. Cardinality(FinsFor(Server)') <= Cardinality(U) /\ Cardinality(U) \in Nat
    BY <1>7, <2>1, FS_Subset, FS_CardinalityType
  <2>3. IsFiniteSet(I) /\ Cardinality(I) \in Nat
    BY <1>9, FS_Subset, FS_CardinalityType
  <2>4. Cardinality(FinsFor(Server)') \in Nat /\ Cardinality(FinsFor(Server)) \in Nat
    BY FinSets, FinSetsNext, ProcFacts
  <2> HIDE DEF U, I
  <2>5. \A f, u, a, b, i \in Nat : u = a + b - i /\ f <= u => f <= a + b
    OBVIOUS
  <2> QED
    BY <1>9, <2>1, <2>2, <2>3, <2>4, <2>5
<1>12. Received(Server)' + Cardinality(FinsFor(Server)') <= Cardinality(Sent')
  <2>1. \A r, f, g, k, s \in Nat : r + f <= s /\ g <= f + k => r + g <= s + k
    OBVIOUS
  <2>2. Received(Server) + Cardinality(FinsFor(Server)) <= Cardinality(Sent)
    BY DEF FinBounds
  <2>3. /\ Received(Server) \in Nat /\ Cardinality(FinsFor(Server)) \in Nat
        /\ Cardinality(FinsFor(Server)') \in Nat /\ Cardinality(Sent) \in Nat
        /\ Received(Server)' = Received(Server)
    BY <1>1, <1>2, FinSets, FinSetsNext, ProcFacts, ReceivedNat
  <2>4. Received(Server) + Cardinality(FinsFor(Server)') <= Cardinality(Sent) + Cardinality(ConnsOf(p))
    BY <1>9, <1>11, <2>1, <2>2, <2>3
  <2> QED
    BY <1>10, <2>3, <2>4
<1> QED
  BY <1>2, <1>5, <1>12, ProcFacts DEF FinBounds

(* The delivery of a FIN: one more received, one less to come.             *)
LEMMA FinDelivered ==
  ASSUME SessionInv, Receives, PreparedFirst, FinBounds,
         NEW p \in Procs, NEW c \in unsent[p], DeliverFin(p, c)
  PROVE  FinBounds'
<1>1. TypeOK /\ c \in Conns /\ c \in Range(conns[p])
  BY DEF SessionInv, TypeOK, PreparedFirst
<1>2. PICK r \in Procs : r = Peer(p, c)
  BY <1>1, ConnFacts, ProcFacts DEF Peer
<1>3. c \in ConnsOf(r) /\ Peer(r, c) = p
  <2>1. CASE p = Server
    BY <1>1, <1>2, <2>1, ConnFacts DEF Peer
  <2>2. CASE p \in Clients
    <3>1. c[1] = p
      BY <1>1, <2>2, ProcFacts DEF SessionInv, Accepted, ConnsOf
    <3> QED
      BY <1>1, <1>2, <3>1, ConnFacts
  <2> QED
    BY <2>1, <2>2 DEF Procs
<1>4. \A q \in Procs : unsent'[q] = IF q = p THEN unsent[p] \ {c} ELSE unsent[q]
  BY <1>1 DEF DeliverFin, TypeOK
<1>5. /\ Received(r)' = Received(r) + 1
      /\ \A q \in Procs : q # r => Received(q)' = Received(q)
  BY <1>1, <1>2, ReceivesDeliverFin
<1>6. \A q \in Procs : FinsFor(q)' \subseteq FinsFor(q)
  <2> SUFFICES ASSUME NEW q \in Procs, NEW d \in ConnsOf(q), d \in unsent'[Peer(q, d)]
               PROVE  d \in unsent[Peer(q, d)]
    BY DEF FinsFor
  <2>1. Peer(q, d) \in Procs
    BY ConnFacts, ProcFacts DEF Peer, ConnsOf
  <2> QED
    BY <1>4, <2>1
<1>7. \A q \in Procs : Cardinality(FinsFor(q)') <= Cardinality(FinsFor(q))
  BY <1>6, FinSets, FS_Subset
<1>8. Cardinality(FinsFor(r)') + 1 <= Cardinality(FinsFor(r))
  <2>1. c \in FinsFor(r) /\ c \notin FinsFor(r)'
    BY <1>3, <1>4 DEF FinsFor
  <2>2. FinsFor(r)' \cup {c} \subseteq FinsFor(r)
    BY <1>6, <2>1
  <2>3. Cardinality(FinsFor(r)' \cup {c}) = Cardinality(FinsFor(r)') + 1
    BY <2>1, FinSetsNext, FS_AddElement
  <2>4. Cardinality(FinsFor(r)' \cup {c}) <= Cardinality(FinsFor(r))
    BY <2>2, FinSets, FS_Subset
  <2> QED
    BY <2>3, <2>4
<1>9. Sent' = Sent
  BY DEF DeliverFin, Sent
<1>10. ASSUME NEW q \in Procs, NEW b \in Nat, Received(q) + Cardinality(FinsFor(q)) <= b
       PROVE  Received(q)' + Cardinality(FinsFor(q)') <= b
  <2>1. /\ Received(q) \in Nat /\ Cardinality(FinsFor(q)) \in Nat /\ Cardinality(FinsFor(q)') \in Nat
    BY <1>1, FinSets, FinSetsNext, ReceivedNat
  <2>2. CASE q = r
    <3>1. \A x, f, g \in Nat : x + f <= b /\ g + 1 <= f => (x + 1) + g <= b
      OBVIOUS
    <3> QED
      BY <1>5, <1>8, <1>10, <2>1, <2>2, <3>1
  <2>3. CASE q # r
    <3>1. \A x, f, g \in Nat : x + f <= b /\ g <= f => x + g <= b
      OBVIOUS
    <3> QED
      BY <1>5, <1>7, <1>10, <2>1, <2>3, <3>1
  <2> QED
    BY <2>2, <2>3
<1>11. \A q \in Clients : ClientConnections[q] \in Nat
  BY SessionAssumption
<1> QED
  BY <1>9, <1>10, <1>11, FinSets, ProcFacts DEF FinBounds

LEMMA FinBoundsNext ==
  ASSUME SessionInv, Receives, PreparedFirst, FinBounds, [Next]_vars
  PROVE  FinBounds'
<1>1. TypeOK
  BY DEF SessionInv
<1>2. ASSUME NEW p \in Procs, Handles(p) PROVE FinBounds'
  <2>1. UNCHANGED <<pc, fins, num_fin_recvd, unsent>>
    BY <1>2 DEF Handles, AddrResolved, RouteResolved, ConnectRequest, Established, Disconnected,
       linkVars, counters, recvVars
  <2>2. \A q \in Procs : Received(q)' = Received(q) /\ unsent'[q] \subseteq unsent[q]
    BY <2>1 DEF Received
  <2>3. Sent' = Sent
    BY <2>1 DEF Sent
  <2> QED
    BY <1>1, <2>2, <2>3, FewerFins
<1>3. ASSUME NEW p \in Procs, NEW ph, ph # "setup", pc' = [pc EXCEPT ![p] = ph],
             UNCHANGED <<fins, num_fin_recvd>>, unsent' = [unsent EXCEPT ![p] = {}]
      PROVE  FinBounds'
  <2>1. \A q \in Procs : Received(q)' = Received(q) /\ unsent'[q] \subseteq unsent[q]
    BY <1>1, <1>3 DEF Received, TypeOK
  <2>2. \A q \in Procs : pc[q] # "setup" => pc'[q] # "setup"
    BY <1>1, <1>3 DEF TypeOK
  <2>3. Sent \subseteq Sent'
    BY <2>2, ConnFacts DEF Sent
  <2> QED
    BY <1>1, <2>1, <2>3, FewerFins
<1>4. ASSUME NEW p \in Procs, NEW end \in Ends, Exit(p, end) PROVE FinBounds'
  BY <1>3, <1>4 DEF Exit, Ends, counters
<1>5. ASSUME NEW p \in Procs, RdmaDisconnect(p) PROVE FinBounds'
  BY <1>3, <1>5 DEF RdmaDisconnect, counters, recvVars
<1>6. ASSUME NEW p \in Procs, PollFin(p) PROVE FinBounds'
  <2>1. UNCHANGED <<pc, unsent>>
    BY <1>6 DEF PollFin, linkVars
  <2>2. \A q \in Procs : Received(q)' = Received(q) /\ unsent'[q] \subseteq unsent[q]
    BY <1>1, <1>6, <2>1, ReceivesPollFin
  <2>3. Sent' = Sent
    BY <2>1 DEF Sent
  <2> QED
    BY <1>1, <2>2, <2>3, FewerFins
<1>7. ASSUME NEW p \in Procs, FinsSent(p) PROVE FinBounds'
  BY <1>7, ServerFins, ClientFins DEF Procs
<1>8. CASE /\ UNCHANGED <<rx, fins, num_fin_recvd, mem, unsent>>
           /\ pc' = pc \/ (pc[Server] = "setup" /\ pc' = [pc EXCEPT ![Server] = "reading"])
  <2>1. \A q \in Procs : Received(q)' = Received(q) /\ unsent'[q] \subseteq unsent[q]
    BY <1>8 DEF Received
  <2>2. \A q \in Clients : pc'[q] = pc[q]
    BY <1>1, <1>8, ProcFacts DEF TypeOK
  <2>3. Sent' = Sent
    BY <2>2, ConnFacts DEF Sent
  <2> QED
    BY <1>1, <2>1, <2>3, FewerFins
<1> QED
  BY <1>1, <1>2, <1>4, <1>5, <1>6, <1>7, <1>8, FinDelivered, FinSteps

(* Receives for the FINs of all connections: a client's shared receive     *)
(* queue is as long as its option -n, and the server's, which run_server   *)
(* scales to twice its own, as long as the clients' together.              *)
EnoughRoom ==
  /\ \A c \in Clients : ClientConnections[c] <= rx_queue_len
  /\ Cardinality(Conns) <= RxLen(Server)

LEMMA EnoughLeft ==
  ASSUME EnoughRoom, SessionInv, Receives, PreparedFirst, FinBounds
  PROVE  EnoughReceives
<1> SUFFICES ASSUME NEW p \in Procs PROVE Cardinality(FinsFor(p)) <= rx[p]
  BY DEF EnoughReceives
<1>1. TypeOK
  BY DEF SessionInv
<1>2. rx[p] \in Nat /\ Received(p) \in Nat /\ Cardinality(FinsFor(p)) \in Nat /\ RxLen(p) \in Nat
  BY <1>1, QueueTypes, ReceivedNat, FinSets
<1>3. CASE FinsFor(p) = {}
  <2>1. Cardinality(FinsFor(p)) = 0
    BY <1>3, FS_EmptySet
  <2> QED
    BY <1>2, <2>1
<1>4. CASE FinsFor(p) # {}
  <2>1. PICK c \in ConnsOf(p) : c \in unsent[Peer(p, c)]
    BY <1>4 DEF FinsFor
  <2>2. c \in Conns
    BY DEF ConnsOf
  <2>3. c \in Range(conns[Server])
    <3>1. CASE p = Server
      <4>1. c \in Range(conns[c[1]]) /\ c[1] \in Clients
        BY <2>1, <2>2, <3>1, ConnFacts DEF PreparedFirst
      <4> QED
        BY <4>1 DEF SessionInv, Accepted
    <3>2. CASE p \in Clients
      <4>1. Peer(p, c) = Server
        BY <3>2, ProcFacts DEF Peer
      <4> QED
        BY <2>1, <4>1, ProcFacts DEF PreparedFirst
    <3> QED
      BY <3>1, <3>2 DEF Procs
  <2>4. AllPosted(p)
    <3>1. CASE p = Server
      BY <2>3, <3>1 DEF PreparedFirst
    <3>2. CASE p \in Clients
      <4>1. c[1] = p
        BY <3>2, ProcFacts DEF ConnsOf
      <4> QED
        BY <2>3, <4>1 DEF PreparedFirst
    <3> QED
      BY <3>1, <3>2 DEF Procs
  <2>5. Received(p) + Cardinality(FinsFor(p)) <= RxLen(p)
    <3>1. CASE p = Server
      <4>1. Received(Server) + Cardinality(FinsFor(Server)) <= Cardinality(Sent)
        BY DEF FinBounds
      <4>2. Cardinality(Sent) \in Nat /\ Cardinality(Sent) <= Cardinality(Conns) /\ Cardinality(Conns) \in Nat
        BY FinSets, ConnsFinite, FS_CardinalityType
      <4>3. \A x, f, s, n, l \in Nat : x + f <= s /\ s <= n /\ n <= l => x + f <= l
        OBVIOUS
      <4> QED
        BY <1>2, <3>1, <4>1, <4>2, <4>3 DEF EnoughRoom
    <3>2. CASE p \in Clients
      <4>1. Received(p) + Cardinality(FinsFor(p)) <= ClientConnections[p]
        BY <3>2 DEF FinBounds
      <4>2. ClientConnections[p] \in Nat /\ ClientConnections[p] <= RxLen(p)
        <5>1. RxLen(p) = rx_queue_len
          BY <3>2, ProcFacts DEF RxLen
        <5> QED
          BY <3>2, <5>1, SessionAssumption DEF EnoughRoom
      <4>3. \A x, f, s, l \in Nat : x + f <= s /\ s <= l => x + f <= l
        OBVIOUS
      <4> QED
        BY <1>2, <4>1, <4>2, <4>3
    <3> QED
      BY <3>1, <3>2 DEF Procs
  <2>6. rx[p] + Received(p) = RxLen(p)
    BY <2>4 DEF AllPosted
  <2>7. \A x, r, f, l \in Nat : r + f <= l /\ x + r = l => f <= x
    OBVIOUS
  <2> QED
    BY <1>2, <2>5, <2>6, <2>7
<1> QED
  BY <1>3, <1>4

(* "We post receives only once, should have enough to handle a control     *)
(* message for every connection (FIN)" (post_receives): whatever the order *)
(* of events and faults, every FIN on its way finds a receive, if the      *)
(* queues are as long as the options say they should be.                   *)
THEOREM ReceivesSuffice ==
  ASSUME EnoughRoom
  PROVE  Spec => []EnoughReceives
<1> DEFINE Inv == Receives /\ PreparedFirst /\ FinBounds
<1>1. Init => Inv
  <2> SUFFICES ASSUME Init PROVE Inv
    OBVIOUS
  <2>1. \A q \in Procs : Range(events[q]) = {} /\ Range(conns[q]) = {}
    BY DEF Init, Range
  <2>2. \A m \in Pending : m.ev = "ADDR_RESOLVED"
    BY <2>1, MsgFacts DEF Pending, Init
  <2>3. Receives
    BY DEF Init, Receives
  <2>4. PreparedFirst
    BY <2>1, <2>2, ProcFacts DEF PreparedFirst, Init
  <2>5. \A q \in Procs : FinsFor(q) = {} /\ Received(q) = 0
    <3>1. \A q \in Procs : \A c \in ConnsOf(q) : unsent[Peer(q, c)] = {}
      BY ConnFacts, ProcFacts DEF Init, Peer, ConnsOf
    <3>2. \A q \in Procs : fins[q] = 0 /\ num_fin_recvd[q] = 0
      BY DEF Init
    <3>3. \A q \in Procs : Received(q) = 0
      BY <3>2 DEF Received
    <3> QED
      BY <3>1, <3>3 DEF FinsFor
  <2>6. \A q \in Procs : Received(q) + Cardinality(FinsFor(q)) = 0
    BY <2>5, FS_EmptySet
  <2>7. FinBounds
    <3>1. \A q \in Clients : ClientConnections[q] \in Nat
      BY SessionAssumption
    <3>2. \A n \in Nat : 0 <= n
      OBVIOUS
    <3> QED
      BY <2>6, <3>1, <3>2, FinSets, ProcFacts DEF FinBounds
  <2> QED
    BY <2>3, <2>4, <2>7
<1>2. SessionInv /\ Inv /\ [Next]_vars => Inv'
  BY ReceivesNext, FinBoundsNext DEF SessionInv
<1>3. SessionInv /\ Inv => EnoughReceives
  BY EnoughLeft
<1> HIDE DEF Inv
<1> QED
  BY <1>1, <1>2, <1>3, SessionInvariant, PTL DEF Spec
=============================================================================
