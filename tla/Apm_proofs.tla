------------------------------ MODULE Apm_proofs ------------------------------
(***************************************************************************)
(* Theorems about apm, for every set of ports, number of messages and time *)
(* of the migration, with every fault.                                     *)
(***************************************************************************)
EXTENDS Apm, MsgQp_proofs, FiniteSetTheorems, WellFoundedInduction

-----------------------------------------------------------------------------
(* The inductive invariant.                                                *)

Early == {"start", "listening", "connecting", "accepting", "load"}
Loop  == {"recv", "repost", "send", "sending", "end"}

(* Where each program can be, and what it has loaded and counted there.    *)
PhaseOK ==
  /\ pc["server"] \notin {"start", "connecting"} /\ pc["client"] \notin {"listening", "accepting"}
  /\ \A n \in Nodes :
       /\ cur_port[n] \in active[n]
       /\ pc[n] \in Early => alt[n] = None
       /\ pc[n] \in Loop => i[n] < msg_count /\ alt[n] # None
       /\ pc[n] = "disconnect" => i[n] = msg_count /\ alt[n] # None
       /\ alt[n] = None => i[n] = 0 /\ mig[n] = "migrated"
       /\ pc[n] = "done" => n \in qp_error
       /\ pc[n] = "out" /\ n \notin qp_error =>
            ret[n] = -1 /\ (alt[n] # None => i[n] < msg_count)
  /\ pc["server"] = "out" /\ "server" \notin qp_error => alt["server"] = None

(* The thread for events is started, with the first receive posted, when   *)
(* the connection is set up.                                               *)
ThreadOK ==
  /\ pc["client"] = "connecting" => athread["client"] # "none"
  /\ pc["server"] = "accepting" => athread["server"] # "none"
  /\ athread["server"] # "none" => athread["client"] # "none"
  /\ \A n \in Nodes : /\ pc[n] \in {"start", "listening"} => athread[n] = "none"
                      /\ pc[n] = "load" \/ alt[n] # None => athread["server"] # "none"

(* One receive is posted or completed, but for the moment of reposting it. *)
QueueOK ==
  \A n \in Nodes :
    /\ RecvsOf(n) = (IF athread[n] = "none" \/ pc[n] = "repost" THEN 0 ELSE 1)
    /\ n \in qp_error => wire[n] = <<>> /\ recvs[n] = 0
    /\ wire[n] # <<>> => alt[n] # None

(* The client whose migration by hand failed has left in the middle of an  *)
(* iteration.  What a side has sent and taken so far.                      *)
Left(n) == pc[n] = "out" /\ n \notin qp_error /\ alt[n] # None
Sends(n) ==
  i[n] + (IF pc[n] \in {"sending", "end"} \/ (n = "client" /\ pc[n] \in {"recv", "repost"}) \/ Left(n)
          THEN 1 ELSE 0)
Takes(n) == Taken(n) + (IF Left(n) THEN 1 ELSE 0)
Flow ==
  qp_error = {} => \A n \in Nodes : Flight(n) + Takes(Other(n)) = Sends(n)

(* What is on its way to a side is its next message.                       *)
NextMsg(n) == [msg |-> Taken(n)]
StepOK ==
  /\ \A n \in Nodes \ qp_error :
       recv_cq[n] \in Seq({NextMsg(n)}) /\ wire[Other(n)] \in Seq({NextMsg(n)})
  /\ "client" \notin qp_error /\ (pc["client"] \in {"repost", "end"} \/ Left("client")) =>
       recv_cq["client"] = <<>>

(* The migration states of the two sides, and the paths they imply.        *)
MigOK ==
  /\ \A n \in Nodes :
       /\ path[n] = (IF mig[n] = "migrated" /\ alt[n] # None THEN alt[n] ELSE PrimaryPath(n))
       /\ mig[n] = "rearm" /\ alt[Other(n)] # None => mig[Other(n)] = "rearm"
       /\ alt[n] # None /\ alt[Other(n)] = None => mig[n] = "rearm"
       /\ pulled # None => alt[n] # None /\ (pulled.armed => mig[n] # "rearm")
  /\ pulled # None =>
       \E m \in Nodes : pulled.lid = Lid(m, cur_port[m]) /\ active[m] # {cur_port[m]}

(* An answer of the server that the client has, or has taken, armed both.  *)
HeardOK ==
  "client" \notin qp_error /\ (recv_cq["client"] # <<>> \/ Takes("client") >= 1) =>
    (\A n \in Nodes : alt[n] # None) /\ mig["client"] # "rearm"

(* The choice of the alternate path when none is given: the client's port  *)
(* is chosen by the client, and told to the server.                        *)
AltOf(n) ==
  IF n = "client" THEN [port |-> AltPort("client"), dlid |-> Lid("server", cur_port["server"])]
                  ELSE [port |-> cur_port["server"], dlid |-> Lid("client", AltPort("client"))]
ChosenOK ==
  given = {} =>
    /\ alt_dlid["client"] = NoLid
    /\ alt_srcport["client"] = (IF athread["client"] = "none" THEN 0 ELSE AltPort("client"))
    /\ athread["client"] # "none" => my_alt_dlid["client"] = Lid("client", AltPort("client"))
    /\ alt_srcport["server"] = 0
    /\ alt_dlid["server"] =
         (IF athread["server"] = "none" THEN NoLid ELSE Lid("client", AltPort("client")))
    /\ \A n \in Nodes : alt[n] # None => alt[n] = AltOf(n)

(* As long as nothing else goes wrong, a queue pair closes only when all   *)
(* messages of both sides were received.                                   *)
DoneOK ==
  Survivable =>
    /\ \A n \in qp_error : pc[n] \in {"out", "done"}
    /\ qp_error # {} => \A n \in Nodes : Sends(n) = msg_count /\ wire[n] = <<>>

ApmInv ==
  /\ TypeOK /\ PhaseOK /\ ThreadOK /\ QueueOK /\ Flow
  /\ StepOK /\ MigOK /\ HeardOK /\ ChosenOK /\ DoneOK

-----------------------------------------------------------------------------
(* Ports and local identifiers.                                            *)

LEMMA LowestNumber ==
  ASSUME NEW B, B \subseteq Nat, B # {}
  PROVE  \E d \in B : \A e \in B : d <= e
<1>1. PICK m \in B : m \in Nat
  OBVIOUS
<1> DEFINE S == 0 .. m
           L == {e \in B : e <= m}
           T == {0 .. d : d \in L}
<1>2. IsWellFoundedOn(StrictSubsetOrdering(S), FiniteSubsetsOf(S))
  <2>1. IsFiniteSet(S)
    BY <1>1, FS_Interval
  <2> QED
    BY <2>1, FS_StrictSubsetOrderingWellFounded
<1>3. m \in L /\ \A d \in L : d \in Nat /\ d \in B /\ d <= m /\ 0 .. d \in SUBSET S
  BY <1>1
<1>4. \A d \in L : IsFiniteSet(0 .. d)
  BY <1>3, FS_Interval
<1>5. T \subseteq FiniteSubsetsOf(S) /\ T # {}
  BY <1>3, <1>4 DEF FiniteSubsetsOf
<1>6. PICK x \in T : \A y \in T : <<y, x>> \notin StrictSubsetOrdering(S)
  BY <1>2, <1>5, WFMin
<1>7. PICK d \in L : x = 0 .. d
  BY <1>6
<1>8. ASSUME NEW e \in B PROVE d <= e
  <2> SUFFICES ASSUME e < d PROVE FALSE
    BY <1>3
  <2>1. e \in L /\ e \in Nat /\ d \in Nat
    BY <1>1, <1>3
  <2>2. (0 .. e) \subseteq (0 .. d) /\ 0 .. e # 0 .. d /\ (0 .. e) \subseteq S
    BY <1>3, <2>1
  <2>3. <<0 .. e, 0 .. d>> \in StrictSubsetOrdering(S)
    BY <1>3, <2>2 DEF StrictSubsetOrdering
  <2> QED
    BY <1>6, <1>7, <2>1, <2>3
<1> QED
  BY <1>3, <1>8

(* The port that is chosen is a port, and another one than the current one *)
(* exactly when there is another active one.                               *)
LEMMA AltPortFacts ==
  ASSUME TypeOK, PhaseOK, NEW n \in Nodes
  PROVE  /\ AltPort(n) \in Ports /\ AltPort(n) # 0 /\ cur_port[n] \in Ports
         /\ AltPort(n) = cur_port[n] <=> active[n] = {cur_port[n]}
<1> DEFINE others == active[n] \ {cur_port[n]}
<1>1. active[n] \subseteq Ports /\ cur_port[n] \in Ports /\ cur_port[n] \in active[n]
  BY DEF TypeOK, PhaseOK
<1>2. Ports \subseteq Nat /\ 0 \notin Ports
  BY ApmAssumption
<1>3. CASE others = {}
  <2>1. AltPort(n) = cur_port[n]
    BY <1>3 DEF AltPort
  <2> QED
    BY <1>1, <1>2, <1>3, <2>1
<1>4. CASE others # {}
  <2>1. AltPort(n) = Min(others)
    BY <1>4 DEF AltPort
  <2>2. \E d \in others : \A e \in others : d <= e
    <3>1. others \subseteq Nat
      BY <1>1, <1>2
    <3> HIDE DEF others
    <3> QED
      BY <1>4, <3>1, LowestNumber
  <2>3. Min(others) \in others
    BY <2>2 DEF Min
  <2> QED
    BY <1>1, <1>2, <1>4, <2>1, <2>3
<1> QED
  BY <1>3, <1>4

LEMMA LidFacts ==
  /\ \A n \in Nodes, p \in Ports : Lid(n, p) \in AllLids
  /\ \A n, m, p, q : Lid(n, p) = Lid(m, q) <=> n = m /\ p = q
  /\ \A n \in Nodes : \A p : Lid(n, p) # NoLid
<1>1. \A n, m, p, q : Lid(n, p) = Lid(m, q) <=> n = m /\ p = q
  BY DEF Lid
<1>2. \A n \in Nodes : \A p : Lid(n, p) # NoLid
  BY NodesFacts DEF Lid, NoLid
<1>3. ASSUME NEW n \in Nodes, NEW p \in Ports PROVE Lid(n, p) \in AllLids
  <2>1. Lid(n, p) \in Lids(n)
    BY DEF Lids
  <2> QED
    BY <2>1 DEF AllLids
<1> QED
  BY <1>1, <1>2, <1>3

LEMMA PathFacts ==
  /\ \A q \in Path : q # None
  /\ TypeOK => \A n \in Nodes : PrimaryPath(n) \in Path
<1>1. \A q \in Path : q # None
  <2> SUFFICES ASSUME NEW q \in Path PROVE q # None
    OBVIOUS
  <2>1. DOMAIN q = {"port", "dlid"}
    BY DEF Path
  <2>2. DOMAIN None = {}
    BY DEF None
  <2> QED
    BY <2>1, <2>2
<1>2. TypeOK => \A n \in Nodes : PrimaryPath(n) \in Path
  <2> SUFFICES ASSUME TypeOK, NEW n \in Nodes PROVE PrimaryPath(n) \in Path
    OBVIOUS
  <2>1. cur_port[n] \in Ports /\ cur_port[Other(n)] \in Ports /\ Other(n) \in Nodes
    BY NodesFacts DEF TypeOK
  <2>2. Lid(Other(n), cur_port[Other(n)]) \in AllLids
    BY <2>1, LidFacts
  <2> QED
    BY <2>1, <2>2 DEF PrimaryPath, Path
<1> QED
  BY <1>1, <1>2

-----------------------------------------------------------------------------
(* Counting.                                                               *)

Msgs == [msg : Nat]

LEMMA CountTyped ==
  ASSUME TypeOK, NEW n \in Nodes
  PROVE  /\ i[n] \in Nat /\ i[n] \in 0 .. msg_count /\ msg_count \in Nat /\ pc[n] \in Phases
         /\ Taken(n) \in Nat /\ Takes(n) \in Nat /\ Sends(n) \in Nat
<1>1. i[n] \in Nat /\ i[n] \in 0 .. msg_count /\ msg_count \in Nat /\ pc[n] \in Phases
  BY ApmAssumption DEF TypeOK
<1>2. Taken(n) \in Nat
  BY <1>1 DEF Taken
<1>3. Takes(n) \in Nat
  BY <1>2 DEF Takes
<1>4. Sends(n) \in Nat
  BY <1>1 DEF Sends
<1> QED
  BY <1>1, <1>2, <1>3, <1>4

LEMMA QueuesTyped ==
  ASSUME TypeOK, NEW n \in Nodes
  PROVE  /\ QpTypeOK(Msgs)
         /\ wire[n] \in Seq(Msgs) /\ recv_cq[n] \in Seq(Msgs \cup {Flushed})
         /\ Len(wire[n]) \in Nat /\ Len(recv_cq[n]) \in Nat /\ recvs[n] \in Nat
         /\ Flight(n) \in Nat /\ RecvsOf(n) \in Nat
<1>1. QpTypeOK(Msgs)
  BY DEF TypeOK, Msgs
<1> QED
  BY <1>1, QpTyped, FlightTyped

(* Within an iteration the server takes before it sends, and the client    *)
(* sends before it takes.                                                  *)
LEMMA CountPhases ==
  ASSUME TypeOK, PhaseOK
  PROVE  /\ ~Left("server") /\ Takes("server") = Taken("server")
         /\ Takes("server") = Sends("server") + (IF pc["server"] \in {"repost", "send"} THEN 1 ELSE 0)
         /\ Sends("client") = Takes("client") + (IF pc["client"] \in {"sending", "recv"} THEN 1 ELSE 0)
<1>1. i["server"] \in Nat /\ i["client"] \in Nat
  BY CountTyped, NodesFacts
<1>2. ~Left("server")
  BY DEF PhaseOK, Left
<1>3. Takes("server") = Taken("server")
  <2>1. Taken("server") \in Nat
    BY CountTyped, NodesFacts
  <2> QED
    BY <1>2, <2>1 DEF Takes
<1>4. Taken("server") = Sends("server") + (IF pc["server"] \in {"repost", "send"} THEN 1 ELSE 0)
  BY <1>1, <1>2 DEF Taken, Sends
<1>5. Sends("client") = Takes("client") + (IF pc["client"] \in {"sending", "recv"} THEN 1 ELSE 0)
  <2>1. CASE Left("client")
    BY <1>1, <2>1 DEF Taken, Takes, Sends, Left
  <2>2. CASE ~Left("client")
    BY <1>1, <2>2 DEF Taken, Takes, Sends
  <2> QED
    BY <2>1, <2>2
<1> QED
  BY <1>2, <1>3, <1>4, <1>5

(* Together they have one message on its way or to be answered, while the  *)
(* client waits, and otherwise none.                                       *)
LEMMA OneInFlight ==
  ASSUME TypeOK, PhaseOK, Flow, qp_error = {}
  PROVE  /\ Flight("client") + Flight("server") + (IF pc["server"] \in {"repost", "send"} THEN 1 ELSE 0)
              = (IF pc["client"] \in {"sending", "recv"} THEN 1 ELSE 0)
         /\ Flight("client") \in Nat /\ Flight("server") \in Nat
<1> DEFINE x == IF pc["server"] \in {"repost", "send"} THEN 1 ELSE 0
           y == IF pc["client"] \in {"sending", "recv"} THEN 1 ELSE 0
<1>1. Flight("client") \in Nat /\ Flight("server") \in Nat
  BY QueuesTyped, NodesFacts
<1>2. /\ Takes("server") \in Nat /\ Sends("server") \in Nat
      /\ Takes("client") \in Nat /\ Sends("client") \in Nat /\ x \in Nat /\ y \in Nat
  BY CountTyped, NodesFacts
<1>3. /\ Flight("client") + Takes("server") = Sends("client")
      /\ Flight("server") + Takes("client") = Sends("server")
  BY NodesFacts DEF Flow
<1>4. Takes("server") = Sends("server") + x /\ Sends("client") = Takes("client") + y
  BY CountPhases
<1> HIDE DEF x, y
<1>5. \A fc, fs, ts, tc \in Nat : \A sc, ss, u, v \in Nat :
        fc + ts = sc /\ fs + tc = ss /\ ts = ss + u /\ sc = tc + v => fc + fs + u = v
  OBVIOUS
<1>6. Flight("client") + Flight("server") + x = y
  BY <1>1, <1>2, <1>3, <1>4, <1>5
<1> QED
  BY <1>1, <1>6 DEF x, y

LEMMA SendsBound ==
  ASSUME TypeOK, PhaseOK, NEW n \in Nodes
  PROVE  Sends(n) <= msg_count
<1>1. i[n] \in 0 .. msg_count /\ msg_count \in Nat
  BY CountTyped
<1>2. pc[n] \in {"sending", "end", "recv", "repost"} \/ Left(n) => i[n] < msg_count
  BY DEF PhaseOK, Loop, Left
<1> QED
  BY <1>1, <1>2 DEF Sends

(* A side that has a message, or is not waiting for one, has nothing more  *)
(* on its way to it.                                                       *)
LEMMA QuietWire ==
  ASSUME TypeOK, PhaseOK, QueueOK, Flow, NEW n \in Nodes, n \notin qp_error,
         \/ recv_cq[n] # <<>>
         \/ n = "client" /\ pc[n] \notin {"sending", "recv"}
         \/ n = "server" /\ pc[n] \in {"repost", "send"}
  PROVE  wire[Other(n)] = <<>>
<1>0. (n = "server" /\ Other(n) = "client") \/ (n = "client" /\ Other(n) = "server")
  BY NodesFacts
<1>1. CASE Other(n) \in qp_error
  BY <1>1, NodesFacts DEF QueueOK
<1>2. CASE Other(n) \notin qp_error
  <2>1. qp_error = {}
    <3>1. qp_error \subseteq Nodes
      BY DEF TypeOK, QpTypeOK
    <3> QED
      BY <1>0, <1>2, <3>1, NodesFacts
  <2>2. /\ Len(wire[Other(n)]) \in Nat /\ Len(recv_cq[n]) \in Nat /\ Flight(Other(n)) \in Nat
        /\ wire[Other(n)] \in Seq(Msgs) /\ recv_cq[n] \in Seq(Msgs \cup {Flushed})
    BY QueuesTyped, NodesFacts
  <2>3. Flight(Other(n)) = Len(wire[Other(n)]) + Len(recv_cq[n])
    BY NodesFacts DEF Flight
  <2>4. Flight(Other(n)) <= 1 /\ (recv_cq[n] = <<>> => Flight(Other(n)) = 0)
    <3>1. Flight("client") <= 1 /\ Flight("server") <= 1
      BY <2>1, OneInFlight
    <3>2. n = "client" /\ pc[n] \notin {"sending", "recv"} => Flight("server") = 0
      BY <2>1, OneInFlight
    <3>3. n = "server" /\ pc[n] \in {"repost", "send"} => Flight("client") = 0
      BY <2>1, OneInFlight
    <3> QED
      BY <1>0, <3>1, <3>2, <3>3
  <2>5. recv_cq[n] # <<>> => Len(recv_cq[n]) >= 1
    BY <2>2, EmptySeq
  <2>6. \A a, b \in Nat : (a + b <= 1 /\ b >= 1 => a = 0) /\ (a + b = 0 => a = 0)
    OBVIOUS
  <2>7. Len(wire[Other(n)]) = 0
    BY <2>2, <2>3, <2>4, <2>5, <2>6
  <2> QED
    BY <2>2, <2>7, EmptySeq
<1> QED
  BY <1>1, <1>2

-----------------------------------------------------------------------------
(* What does not change.                                                   *)

CtxTyped ==
  /\ active \in [Nodes -> SUBSET Ports] /\ cur_port \in [Nodes -> Ports]
  /\ given \subseteq Nodes /\ migrate_after \in MigrateAfter
  /\ alt_srcport \in [Nodes -> Ports \cup {0}]
  /\ {alt_dlid, my_alt_dlid} \subseteq [Nodes -> AllLids \cup {NoLid}]
MainTyped ==
  pc \in [Nodes -> Phases] /\ i \in [Nodes -> 0 .. msg_count] /\ ret \in [Nodes -> {0, -1}]
AsyncTyped == async \in [Nodes -> Nat] /\ athread \in [Nodes -> {"none", "get", "ack"}]
PathTyped ==
  /\ path \in [Nodes -> Path] /\ alt \in [Nodes -> Path \cup {None}]
  /\ mig \in [Nodes -> {"migrated", "rearm", "armed"}]
  /\ pulled \in [lid : AllLids, armed : BOOLEAN] \cup {None}

LEMMA TypeParts == TypeOK => CtxTyped /\ MainTyped /\ AsyncTyped /\ PathTyped /\ QpTypeOK(Msgs)
BY DEF TypeOK, CtxTyped, MainTyped, AsyncTyped, PathTyped, Msgs

LEMMA StaticSame ==
  ASSUME cur_port' = cur_port, active' = active
  PROVE  \A n \in Nodes : /\ PrimaryPath(n)' = PrimaryPath(n) /\ AltPort(n)' = AltPort(n)
                          /\ AltOf(n)' = AltOf(n)
<1>1. \A n : AltPort(n)' = AltPort(n)
  BY DEF AltPort
<1>2. \A n : PrimaryPath(n)' = PrimaryPath(n)
  BY DEF PrimaryPath
<1> QED
  BY <1>1, <1>2 DEF AltOf

LEMMA ChosenSame ==
  ASSUME ChosenOK, UNCHANGED ctxVars, alt' = alt,
         \A n \in Nodes : athread'[n] = "none" <=> athread[n] = "none"
  PROVE  ChosenOK'
<1>1. /\ cur_port' = cur_port /\ active' = active /\ given' = given
      /\ alt_srcport' = alt_srcport /\ alt_dlid' = alt_dlid /\ my_alt_dlid' = my_alt_dlid
  BY DEF ctxVars
<1>2. /\ AltPort("client")' = AltPort("client")
      /\ \A n \in Nodes : AltOf(n)' = AltOf(n)
  BY <1>1, StaticSame, NodesFacts
<1>3. /\ athread'["client"] = "none" <=> athread["client"] = "none"
      /\ athread'["server"] = "none" <=> athread["server"] = "none"
  BY NodesFacts
<1> QED
  BY <1>1, <1>2, <1>3 DEF ChosenOK

LEMMA MigSame ==
  ASSUME MigOK, cur_port' = cur_port, active' = active, UNCHANGED pathVars
  PROVE  MigOK'
<1>1. path' = path /\ alt' = alt /\ mig' = mig /\ pulled' = pulled
  BY DEF pathVars
<1>2. \A n \in Nodes : PrimaryPath(n)' = PrimaryPath(n)
  BY <1>1, StaticSame
<1> QED
  BY <1>1, <1>2 DEF MigOK

LEMMA CountsSame ==
  ASSUME NEW n \in Nodes, pc'[n] = pc[n], i'[n] = i[n], alt'[n] = alt[n],
         n \in qp_error' <=> n \in qp_error
  PROVE  /\ Left(n)' = Left(n) /\ Taken(n)' = Taken(n) /\ Takes(n)' = Takes(n)
         /\ Sends(n)' = Sends(n)
<1>1. Left(n)' = Left(n)
  BY DEF Left
<1>2. Taken(n)' = Taken(n)
  BY DEF Taken
<1> QED
  BY <1>1, <1>2 DEF Takes, Sends

(* A queue pair that migrates, if it is armed, or none.                    *)
LEMMA PathStep ==
  ASSUME TypeOK, PhaseOK, MigOK, UNCHANGED ctxVars, NEW n \in Nodes,
         \/ UNCHANGED <<asyncVars, pathVars>>
         \/ mig[n] = "armed" /\ MigrateQp(n)
  PROVE  /\ AsyncTyped' /\ PathTyped' /\ MigOK'
         /\ alt' = alt /\ pulled' = pulled /\ athread' = athread
         /\ \A m \in Nodes : /\ mig'[m] = "rearm" <=> mig[m] = "rearm"
                             /\ mig[m] = "migrated" => mig'[m] = "migrated"
<1>0. AsyncTyped /\ PathTyped
  BY TypeParts
<1>1. CASE UNCHANGED <<asyncVars, pathVars>>
  <2>1. MigOK'
    BY <1>1, MigSame DEF ctxVars
  <2> QED
    BY <1>0, <1>1, <2>1 DEF asyncVars, pathVars, AsyncTyped, PathTyped
<1>2. CASE mig[n] = "armed" /\ MigrateQp(n)
  <2>1. /\ mig' = [mig EXCEPT ![n] = "migrated"] /\ path' = [path EXCEPT ![n] = alt[n]]
        /\ async' = [async EXCEPT ![n] = @ + 1]
        /\ alt' = alt /\ pulled' = pulled /\ athread' = athread
    BY <1>2 DEF MigrateQp
  <2>2. alt[n] # None /\ alt[n] \in Path
    BY <1>0, <1>2 DEF PhaseOK, PathTyped
  <2>3. AsyncTyped'
    <3>1. async[n] + 1 \in Nat
      BY <1>0 DEF AsyncTyped
    <3> QED
      BY <1>0, <2>1, <3>1 DEF AsyncTyped
  <2>4. PathTyped'
    BY <1>0, <2>1, <2>2 DEF PathTyped
  <2>5. /\ mig'[n] = "migrated" /\ path'[n] = alt[n]
        /\ \A m \in Nodes : m # n => mig'[m] = mig[m] /\ path'[m] = path[m]
    BY <1>0, <2>1 DEF PathTyped
  <2>6. \A m \in Nodes : PrimaryPath(m)' = PrimaryPath(m)
    BY StaticSame DEF ctxVars
  <2>7. Other(n) \in Nodes /\ Other(n) # n /\ \A m \in Nodes : m = n \/ m = Other(n)
    BY NodesFacts
  <2>8. Other(Other(n)) = n
    BY NodesFacts
  <2>9. alt[Other(n)] # None /\ mig[Other(n)] # "rearm"
    BY <1>2, <2>2, <2>7, <2>8 DEF MigOK
  <2>10. cur_port' = cur_port /\ active' = active
    BY DEF ctxVars
  <2>11. MigOK'
    BY <1>2, <2>1, <2>2, <2>5, <2>6, <2>7, <2>8, <2>9, <2>10 DEF MigOK
  <2> QED
    BY <1>2, <2>1, <2>3, <2>4, <2>5, <2>11
<1> QED
  BY <1>1, <1>2

(* A queue pair that closes, or is closed already.                         *)
LEMMA CloseFacts ==
  ASSUME TypeOK, QueueOK, NEW n \in Nodes, Close(n)
  PROVE  /\ QpTypeOK(Msgs)' /\ qp_error' = qp_error \cup {n}
         /\ wire'[n] = <<>> /\ recvs'[n] = 0 /\ wire'[Other(n)] = wire[Other(n)]
         /\ recvs'[Other(n)] = recvs[Other(n)] /\ recv_cq'[Other(n)] = recv_cq[Other(n)]
         /\ \A m \in Nodes : RecvsOf(m)' = RecvsOf(m)
<1>1. QpTypeOK(Msgs) /\ Other(n) \in Nodes /\ Other(n) # n
  BY QueuesTyped, NodesFacts
<1>2. CASE n \in qp_error
  <2>1. UNCHANGED qpVars
    BY <1>2 DEF Close
  <2>2. wire[n] = <<>> /\ recvs[n] = 0
    BY <1>2 DEF QueueOK
  <2> QED
    BY <1>1, <1>2, <2>1, <2>2 DEF qpVars, QpTypeOK, RecvsOf
<1>3. CASE n \notin qp_error
  <2> DEFINE ns == {n}
             extra == [m \in Nodes |-> 0]
  <2>1. Flush(ns, extra)
    BY <1>3 DEF Close
  <2>2. extra \in [Nodes -> Nat] /\ ns \in SUBSET Nodes /\ n \in ns
        /\ Other(n) \in Nodes \ ns /\ \A m \in Nodes : m \in ns => m = n
    BY <1>1
  <2>3. ns = {n}
    OBVIOUS
  <2> HIDE DEF ns, extra
  <2>4. /\ QpTypeOK(Msgs)'
        /\ ns \cap qp_error = {} /\ qp_error' = qp_error \cup ns
        /\ \A m \in ns : /\ SendsOf(m)' = SendsOf(m) + extra[m]
                         /\ wire'[m] = <<>> /\ recvs'[m] = 0
        /\ \A m \in Nodes \ ns : /\ SendsOf(m)' = SendsOf(m) /\ wire'[m] = wire[m]
                                 /\ recvs'[m] = recvs[m] /\ recv_cq'[m] = recv_cq[m]
                                 /\ send_cq'[m] = send_cq[m]
        /\ \A m \in Nodes : /\ RecvsOf(m)' = RecvsOf(m)
                            /\ \A k \in 1 .. Len(recv_cq[m]) : recv_cq'[m][k] = recv_cq[m][k]
                            /\ Len(recv_cq'[m]) >= Len(recv_cq[m])
    <3>1. QpTypeOK(Msgs)
      BY <1>1
    <3> QED
      BY <2>1, <2>2, <3>1, FlushFacts, ZenonT(60)
  <2> QED
    BY <2>2, <2>3, <2>4
<1> QED
  BY <1>2, <1>3

-----------------------------------------------------------------------------
(* The parts of the invariant that most steps leave alone.                 *)

(* A step of main of n that only touches the queue pair.                   *)
LEMMA MainStep ==
  ASSUME ApmInv, NEW n \in Nodes, NEW ph \in Phases, Goto(n, ph), QpTypeOK(Msgs)',
         UNCHANGED <<ctxVars, i, ret, asyncVars, pathVars>>
  PROVE  /\ TypeOK' /\ MigOK' /\ ChosenOK' /\ (Survivable' <=> Survivable)
         /\ pc'[n] = ph /\ \A m \in Nodes : m # n => pc'[m] = pc[m]
         /\ i' = i /\ ret' = ret /\ alt' = alt /\ mig' = mig /\ pulled' = pulled
         /\ athread' = athread /\ cur_port' = cur_port /\ active' = active
<1>1. TypeOK /\ MigOK /\ ChosenOK
  BY DEF ApmInv
<1>2. CtxTyped /\ MainTyped /\ AsyncTyped /\ PathTyped
  BY <1>1, TypeParts
<1>3. /\ i' = i /\ ret' = ret /\ path' = path /\ alt' = alt /\ mig' = mig /\ pulled' = pulled
      /\ athread' = athread /\ async' = async /\ cur_port' = cur_port /\ active' = active
      /\ given' = given /\ migrate_after' = migrate_after
      /\ alt_srcport' = alt_srcport /\ alt_dlid' = alt_dlid /\ my_alt_dlid' = my_alt_dlid
  BY DEF ctxVars, asyncVars, pathVars
<1>4. pc' = [pc EXCEPT ![n] = ph]
  BY DEF Goto
<1>5. pc \in [Nodes -> Phases]
  BY <1>2 DEF MainTyped
<1>6. MainTyped'
  BY <1>2, <1>3, <1>4 DEF MainTyped
<1>7. CtxTyped' /\ AsyncTyped' /\ PathTyped'
  BY <1>2, <1>3 DEF CtxTyped, AsyncTyped, PathTyped
<1>8. TypeOK'
  BY <1>6, <1>7 DEF TypeOK, CtxTyped, MainTyped, AsyncTyped, PathTyped, Msgs
<1>9. MigOK'
  BY <1>1, <1>3, MigSame DEF pathVars
<1>10. ChosenOK'
  BY <1>1, <1>3, ChosenSame DEF ctxVars
<1>11. Survivable' <=> Survivable
  BY <1>3 DEF Survivable
<1> QED
  BY <1>3, <1>4, <1>5, <1>8, <1>9, <1>10, <1>11

(* A step that neither sends nor takes, and leaves the queues alone.       *)
LEMMA FlowSame ==
  ASSUME Flow, StepOK, wire' = wire, recv_cq' = recv_cq, qp_error' = qp_error,
         \A m \in Nodes : Takes(m)' = Takes(m) /\ Sends(m)' = Sends(m) /\ Taken(m)' = Taken(m),
         pc'["client"] \in {"repost", "end"} \/ Left("client")' =>
           pc["client"] \in {"repost", "end"} \/ Left("client")
  PROVE  Flow' /\ StepOK'
<1>1. \A m \in Nodes : Flight(m)' = Flight(m)
  BY DEF Flight
<1>2. Flow'
  BY <1>1, NodesFacts DEF Flow
<1>3. \A m \in Nodes : NextMsg(m)' = NextMsg(m)
  BY DEF NextMsg
<1>4. StepOK'
  <2>1. ASSUME NEW m \in Nodes \ qp_error'
        PROVE  recv_cq'[m] \in Seq({NextMsg(m)'}) /\ wire'[Other(m)] \in Seq({NextMsg(m)'})
    BY <1>3 DEF StepOK
  <2>2. "client" \notin qp_error' /\ (pc'["client"] \in {"repost", "end"} \/ Left("client")') =>
          recv_cq'["client"] = <<>>
    BY DEF StepOK
  <2> QED
    BY <2>1, <2>2 DEF StepOK
<1> QED
  BY <1>2, <1>4

-----------------------------------------------------------------------------
(* The loop.                                                               *)

(* A step within an iteration.                                             *)
LEMMA LoopStep ==
  ASSUME ApmInv, NEW n \in Nodes, NEW ph \in Loop, pc[n] \in Loop, Goto(n, ph), QpTypeOK(Msgs)',
         qp_error' = qp_error, UNCHANGED <<ctxVars, i, ret, asyncVars, pathVars>>
  PROVE  /\ TypeOK' /\ PhaseOK' /\ ThreadOK' /\ MigOK' /\ ChosenOK' /\ (Survivable' <=> Survivable)
         /\ pc'[n] = ph /\ \A m \in Nodes : m # n => pc'[m] = pc[m]
         /\ i' = i /\ alt' = alt /\ mig' = mig /\ athread' = athread
         /\ i[n] \in Nat /\ i[n] < msg_count /\ alt[n] # None /\ athread[n] # "none"
         /\ ~Left(n) /\ ~Left(n)'
         /\ Left(Other(n))' = Left(Other(n)) /\ Taken(Other(n))' = Taken(Other(n))
         /\ Takes(Other(n))' = Takes(Other(n)) /\ Sends(Other(n))' = Sends(Other(n))
<1>0. TypeOK /\ PhaseOK /\ ThreadOK
  BY DEF ApmInv
<1>1. Other(n) \in Nodes /\ Other(n) # n /\ n \in {"server", "client"}
  BY NodesFacts
<1>2. ph \in Phases
  BY DEF Loop, Phases
<1>3. /\ TypeOK' /\ MigOK' /\ ChosenOK' /\ (Survivable' <=> Survivable)
      /\ pc'[n] = ph /\ \A m \in Nodes : m # n => pc'[m] = pc[m]
      /\ i' = i /\ ret' = ret /\ alt' = alt /\ mig' = mig /\ athread' = athread
      /\ cur_port' = cur_port /\ active' = active
  BY <1>2, MainStep
<1>4. /\ pc["server"] \notin {"start", "connecting"} /\ pc["client"] \notin {"listening", "accepting"}
      /\ i[n] < msg_count /\ alt[n] # None /\ i[n] \in Nat
  BY <1>0, CountTyped DEF PhaseOK
<1>5. PhaseOK'
  BY <1>0, <1>3, <1>4, NodesFacts DEF PhaseOK, Early, Loop
<1>6. ThreadOK'
  BY <1>0, <1>3, <1>4, NodesFacts DEF ThreadOK, Loop
<1>7. athread[n] # "none"
  BY <1>0, <1>1, <1>4 DEF ThreadOK
<1>8. ~Left(n) /\ ~Left(n)'
  BY <1>3 DEF Left, Loop
<1>9. /\ Left(Other(n))' = Left(Other(n)) /\ Taken(Other(n))' = Taken(Other(n))
      /\ Takes(Other(n))' = Takes(Other(n)) /\ Sends(Other(n))' = Sends(Other(n))
  BY <1>1, <1>3, CountsSame
<1> QED
  BY <1>3, <1>4, <1>5, <1>6, <1>7, <1>8, <1>9

LEMMA GetRecvStep ==
  ASSUME ApmInv, NEW n \in Nodes, GetRecv(n)
  PROVE  ApmInv'
<1> DEFINE o == Other(n)
<1>0. /\ TypeOK /\ PhaseOK /\ ThreadOK /\ QueueOK /\ Flow /\ StepOK /\ MigOK /\ HeardOK /\ ChosenOK
      /\ DoneOK
  BY DEF ApmInv
<1>n. o \in Nodes /\ o # n /\ Other(o) = n /\ (\A m \in Nodes : m = n \/ m = o)
      /\ ((n = "server" /\ o = "client") \/ (n = "client" /\ o = "server"))
  BY NodesFacts
<1>1. /\ pc[n] = "recv" /\ Goto(n, "repost") /\ GetRecvComp(n)
      /\ UNCHANGED <<ctxVars, i, ret, asyncVars, pathVars>>
  BY DEF GetRecv, AfterRecv
<1>2. /\ QpTypeOK(Msgs)' /\ recv_cq[n] # <<>> /\ recv_cq' = [recv_cq EXCEPT ![n] = Tail(@)]
      /\ RecvsOf(n) >= 1 /\ RecvsOf(n)' = RecvsOf(n) - 1
      /\ \A m \in Nodes : m # n => RecvsOf(m)' = RecvsOf(m)
      /\ wire' = wire /\ recvs' = recvs /\ qp_error' = qp_error
  BY <1>0, <1>1, QueuesTyped, GetRecvCompFacts
<1>3. /\ TypeOK' /\ PhaseOK' /\ ThreadOK' /\ MigOK' /\ ChosenOK' /\ (Survivable' <=> Survivable)
      /\ pc'[n] = "repost" /\ \A m \in Nodes : m # n => pc'[m] = pc[m]
      /\ i' = i /\ alt' = alt /\ mig' = mig /\ athread' = athread /\ i[n] \in Nat
      /\ ~Left(n) /\ ~Left(n)'
      /\ Left(o)' = Left(o) /\ Taken(o)' = Taken(o) /\ Takes(o)' = Takes(o) /\ Sends(o)' = Sends(o)
  BY <1>1, <1>2, LoopStep DEF Loop
<1>6. RecvsOf(n) = 1 /\ RecvsOf(n)' = 0
  <2>1. RecvsOf(n) \in {0, 1}
    BY <1>0 DEF QueueOK
  <2> QED
    BY <1>2, <2>1
<1>7. QueueOK'
  BY <1>0, <1>2, <1>3, <1>6, <1>n DEF QueueOK
<1>8. recv_cq'[n] = <<>> /\ recv_cq'[o] = recv_cq[o]
  <2>1. /\ recv_cq'[n] \in Seq(Msgs \cup {Flushed}) /\ recv_cq \in [Nodes -> Seq(Msgs \cup {Flushed})]
        /\ recvs'[n] \in Nat
    BY <1>0, <1>2, QueuesTyped DEF QpTypeOK
  <2>2. Len(recv_cq'[n]) \in Nat
    BY <2>1
  <2>3. recvs'[n] + Len(recv_cq'[n]) = 0
    BY <1>6 DEF RecvsOf
  <2>4. Len(recv_cq'[n]) = 0
    BY <2>1, <2>2, <2>3
  <2> QED
    BY <1>2, <1>n, <2>1, <2>4, EmptySeq
<1>9. /\ Taken(n) = i[n] /\ Taken(n)' = i[n] + 1
      /\ Takes(n) = i[n] /\ Takes(n)' = i[n] + 1 /\ Sends(n)' = Sends(n)
  <2>1. Taken(n) = i[n] /\ Taken(n)' = i[n] + 1
    BY <1>1, <1>3 DEF Taken
  <2>2. Sends(n)' = Sends(n)
    BY <1>1, <1>3 DEF Sends
  <2> QED
    BY <1>3, <2>1, <2>2 DEF Takes
<1>11. Flow'
  <2> SUFFICES ASSUME qp_error = {}
               PROVE  Flight(n)' + Takes(o)' = Sends(n)' /\ Flight(o)' + Takes(n)' = Sends(o)'
    BY <1>2, <1>n DEF Flow
  <2>1. Flight(n) + Takes(o) = Sends(n) /\ Flight(o) + Takes(n) = Sends(o)
    BY <1>0, <1>n DEF Flow
  <2>2. /\ Flight(o) >= 1 /\ Flight(o) \in Nat /\ Flight(o)' = Flight(o) - 1
        /\ Flight(n)' = Flight(n)
    BY <1>0, <1>1, QueuesTyped, GetRecvCompFlight
  <2>3. \A a, b \in Nat : (a - 1) + (b + 1) = a + b
    OBVIOUS
  <2> QED
    BY <1>3, <1>9, <2>1, <2>2, <2>3
<1>12. StepOK'
  <2>1. n \notin qp_error => wire[o] = <<>>
    BY <1>0, <1>2, QuietWire
  <2>2. n \notin qp_error' => recv_cq'[n] \in Seq({NextMsg(n)'}) /\ wire'[o] \in Seq({NextMsg(n)'})
    BY <1>2, <1>8, <2>1, EmptySeq
  <2>3. o \notin qp_error' => recv_cq'[o] \in Seq({NextMsg(o)'}) /\ wire'[n] \in Seq({NextMsg(o)'})
    BY <1>0, <1>2, <1>3, <1>8, <1>n DEF StepOK, NextMsg
  <2>4. "client" \notin qp_error' /\ (pc'["client"] \in {"repost", "end"} \/ Left("client")') =>
          recv_cq'["client"] = <<>>
    BY <1>0, <1>2, <1>3, <1>8, <1>n DEF StepOK
  <2> QED
    BY <1>n, <2>2, <2>3, <2>4 DEF StepOK
<1>13. HeardOK'
  <2>1. CASE n = "client"
    BY <1>0, <1>2, <1>3, <2>1 DEF HeardOK
  <2>2. CASE o = "client"
    BY <1>0, <1>2, <1>3, <1>8, <2>2 DEF HeardOK
  <2> QED
    BY <1>n, <2>1, <2>2
<1>14. DoneOK'
  <2> SUFFICES ASSUME Survivable
               PROVE  /\ \A m \in qp_error : pc'[m] \in {"out", "done"}
                      /\ qp_error # {} => \A m \in Nodes : Sends(m)' = msg_count /\ wire'[m] = <<>>
    BY <1>2, <1>3 DEF DoneOK
  <2>1. n \notin qp_error /\ qp_error \subseteq Nodes
    BY <1>0, <1>1, QueuesTyped DEF DoneOK, QpTypeOK
  <2> QED
    BY <1>0, <1>2, <1>3, <1>9, <1>n, <2>1 DEF DoneOK
<1> QED
  BY <1>3, <1>7, <1>11, <1>12, <1>13, <1>14 DEF ApmInv

LEMMA RepostRecvStep ==
  ASSUME ApmInv, NEW n \in Nodes, RepostRecv(n)
  PROVE  ApmInv'
<1> DEFINE o == Other(n)
           ph == IF n = "server" THEN "send" ELSE "end"
<1>0. /\ TypeOK /\ PhaseOK /\ ThreadOK /\ QueueOK /\ Flow /\ StepOK /\ MigOK /\ HeardOK /\ ChosenOK
      /\ DoneOK
  BY DEF ApmInv
<1>n. o \in Nodes /\ o # n /\ Other(o) = n /\ (\A m \in Nodes : m = n \/ m = o)
      /\ ((n = "server" /\ o = "client") \/ (n = "client" /\ o = "server"))
  BY NodesFacts
<1>1. pc[n] = "repost" /\ UNCHANGED <<ctxVars, i, ret, asyncVars, pathVars>>
  BY DEF RepostRecv
<1>2. RecvsOf(n) = 0 /\ recvs[n] = 0
  <2>1. RecvsOf(n) = 0
    BY <1>0, <1>1 DEF QueueOK
  <2>2. recvs[n] \in Nat /\ Len(recv_cq[n]) \in Nat
    BY <1>0, QueuesTyped
  <2> QED
    BY <2>1, <2>2 DEF RecvsOf
<1>3. PostRecv(n) /\ Goto(n, ph)
  BY <1>2 DEF RepostRecv, max_recv_wr
<1>4. /\ QpTypeOK(Msgs)' /\ RecvsOf(n)' = 1
      /\ \A m \in Nodes : m # n => RecvsOf(m)' = RecvsOf(m)
      /\ n \notin qp_error => recv_cq' = recv_cq
      /\ n \in qp_error => recvs' = recvs /\ recv_cq' = [recv_cq EXCEPT ![n] = Append(@, Flushed)]
      /\ wire' = wire /\ qp_error' = qp_error
  BY <1>0, <1>2, <1>3, QueuesTyped, PostRecvFacts
<1>5. \A m \in Nodes : m # n => recv_cq'[m] = recv_cq[m] /\ recvs'[m] = recvs[m]
  BY <1>0, <1>3, QueuesTyped DEF PostRecv, QpTypeOK
<1>6. /\ TypeOK' /\ PhaseOK' /\ ThreadOK' /\ MigOK' /\ ChosenOK' /\ (Survivable' <=> Survivable)
      /\ pc'[n] = ph /\ \A m \in Nodes : m # n => pc'[m] = pc[m]
      /\ i' = i /\ alt' = alt /\ mig' = mig /\ athread' = athread /\ i[n] \in Nat
      /\ athread[n] # "none" /\ ~Left(n) /\ ~Left(n)'
      /\ Left(o)' = Left(o) /\ Taken(o)' = Taken(o) /\ Takes(o)' = Takes(o) /\ Sends(o)' = Sends(o)
  <2>1. ph \in Loop /\ pc[n] \in Loop
    BY <1>1 DEF Loop
  <2> QED
    BY <1>1, <1>3, <1>4, <2>1, LoopStep
<1>7. QueueOK'
  BY <1>0, <1>4, <1>5, <1>6, <1>n DEF QueueOK
<1>8. Taken(n)' = Taken(n) /\ Takes(n)' = Takes(n) /\ Sends(n)' = Sends(n)
  <2>1. Taken(n)' = Taken(n)
    BY <1>1, <1>6, <1>n DEF Taken
  <2>2. Sends(n)' = Sends(n)
    BY <1>1, <1>6, <1>n DEF Sends
  <2> QED
    BY <1>6, <2>1, <2>2 DEF Takes
<1>9. ASSUME n \notin qp_error PROVE Flow' /\ StepOK' /\ HeardOK'
  <2>1. Flow' /\ StepOK'
    <3>1. \A m \in Nodes : Takes(m)' = Takes(m) /\ Sends(m)' = Sends(m) /\ Taken(m)' = Taken(m)
      BY <1>6, <1>8, <1>n
    <3>2. pc'["client"] \in {"repost", "end"} \/ Left("client")' =>
            pc["client"] \in {"repost", "end"} \/ Left("client")
      BY <1>1, <1>6, <1>n
    <3> QED
      BY <1>0, <1>4, <1>9, <3>1, <3>2, FlowSame
  <2>2. HeardOK'
    BY <1>0, <1>4, <1>6, <1>8, <1>9, <1>n DEF HeardOK
  <2> QED
    BY <2>1, <2>2
<1>10. ASSUME n \in qp_error PROVE Flow' /\ StepOK' /\ HeardOK'
  <2>1. Flow'
    BY <1>4, <1>10 DEF Flow
  <2>2. StepOK'
    <3>1. o \notin qp_error' => recv_cq'[o] \in Seq({NextMsg(o)'}) /\ wire'[n] \in Seq({NextMsg(o)'})
      BY <1>0, <1>4, <1>5, <1>6, <1>n DEF StepOK, NextMsg
    <3>2. "client" \notin qp_error' /\ (pc'["client"] \in {"repost", "end"} \/ Left("client")') =>
            recv_cq'["client"] = <<>>
      BY <1>0, <1>4, <1>5, <1>6, <1>10, <1>n DEF StepOK
    <3> QED
      BY <1>4, <1>10, <1>n, <3>1, <3>2 DEF StepOK
  <2>3. HeardOK'
    BY <1>0, <1>4, <1>5, <1>6, <1>10, <1>n DEF HeardOK
  <2> QED
    BY <2>1, <2>2, <2>3
<1>11. DoneOK'
  BY <1>0, <1>1, <1>4, <1>6, <1>8, <1>n, QueuesTyped DEF DoneOK, QpTypeOK
<1> QED
  BY <1>6, <1>7, <1>9, <1>10, <1>11 DEF ApmInv

LEMMA SendMsgStep ==
  ASSUME ApmInv, NEW n \in Nodes, SendMsg(n)
  PROVE  ApmInv'
<1> DEFINE o == Other(n)
           m0 == [msg |-> i[n]]
<1>0. /\ TypeOK /\ PhaseOK /\ ThreadOK /\ QueueOK /\ Flow /\ StepOK /\ MigOK /\ HeardOK /\ ChosenOK
      /\ DoneOK
  BY DEF ApmInv
<1>n. o \in Nodes /\ o # n /\ Other(o) = n /\ (\A m \in Nodes : m = n \/ m = o)
      /\ ((n = "server" /\ o = "client") \/ (n = "client" /\ o = "server"))
  BY NodesFacts
<1>1. /\ pc[n] = "send" /\ Goto(n, "sending") /\ PostSend(n, m0)
      /\ UNCHANGED <<ctxVars, i, ret, asyncVars, pathVars>>
  BY DEF SendMsg
<1>2. /\ QpTypeOK(Msgs)'
      /\ n \notin qp_error => wire' = [wire EXCEPT ![n] = Append(@, m0)]
      /\ n \in qp_error => wire' = wire
      /\ \A m \in Nodes : RecvsOf(m)' = RecvsOf(m)
      /\ recvs' = recvs /\ recv_cq' = recv_cq /\ qp_error' = qp_error
  <2>1. m0 \in Msgs
    BY <1>0, CountTyped DEF Msgs
  <2>2. QpTypeOK(Msgs)
    BY <1>0, QueuesTyped
  <2> HIDE DEF m0
  <2> QED
    BY <1>1, <2>1, <2>2, PostSendFacts
<1>3. /\ TypeOK' /\ PhaseOK' /\ ThreadOK' /\ MigOK' /\ ChosenOK' /\ (Survivable' <=> Survivable)
      /\ pc'[n] = "sending" /\ \A m \in Nodes : m # n => pc'[m] = pc[m]
      /\ i' = i /\ alt' = alt /\ mig' = mig /\ athread' = athread /\ i[n] \in Nat
      /\ i[n] < msg_count /\ alt[n] # None /\ ~Left(n) /\ ~Left(n)'
      /\ Left(o)' = Left(o) /\ Taken(o)' = Taken(o) /\ Takes(o)' = Takes(o) /\ Sends(o)' = Sends(o)
  BY <1>1, <1>2, LoopStep DEF Loop
<1>4. wire'[o] = wire[o]
  BY <1>0, <1>2, <1>n, QueuesTyped DEF QpTypeOK
<1>5. QueueOK'
  BY <1>0, <1>1, <1>2, <1>3, <1>4, <1>n DEF QueueOK
<1>6. /\ Taken(n)' = Taken(n) /\ Takes(n)' = Takes(n)
      /\ Sends(n) = i[n] /\ Sends(n)' = i[n] + 1
  <2>1. Taken(n)' = Taken(n)
    BY <1>1, <1>3, <1>n DEF Taken
  <2>2. Sends(n) = i[n] /\ Sends(n)' = i[n] + 1
    BY <1>1, <1>3, <1>n DEF Sends
  <2> QED
    BY <1>3, <2>1, <2>2 DEF Takes
<1>7. ASSUME qp_error = {} PROVE Flow' /\ StepOK' /\ DoneOK'
  <2>1. Flight(n)' = Flight(n) + 1 /\ Flight(o)' = Flight(o)
    <3>1. m0 \in Msgs
      BY <1>0, CountTyped DEF Msgs
    <3>2. QpTypeOK(Msgs) /\ n \notin qp_error
      BY <1>0, <1>7, QueuesTyped
    <3> HIDE DEF m0
    <3> QED
      BY <1>1, <1>n, <3>1, <3>2, PostSendFlight
  <2>2. Flight(n) + Takes(o) = Sends(n) /\ Flight(o) + Takes(n) = Sends(o)
    BY <1>0, <1>7, <1>n DEF Flow
  <2>3. Flight(n) \in Nat /\ Takes(o) \in Nat /\ Taken(o) \in Nat
    BY <1>0, <1>n, QueuesTyped, CountTyped
  <2>4. Flow'
    <3>1. \A a, b \in Nat : (a + 1) + b = (a + b) + 1
      OBVIOUS
    <3>2. Flight(n)' + Takes(o)' = Sends(n)' /\ Flight(o)' + Takes(n)' = Sends(o)'
      BY <1>3, <1>6, <2>1, <2>2, <2>3, <3>1
    <3> QED
      BY <1>n, <3>2 DEF Flow
  <2>5. Flight(n) = 0 /\ ~Left(o)
    <3>1. ~Left("server")
      BY <1>0, CountPhases
    <3>2. CASE n = "client"
      <4>1. Flight("client") = 0
        BY <1>0, <1>1, <1>7, <3>2, OneInFlight
      <4> QED
        BY <1>n, <3>1, <3>2, <4>1
    <3>3. CASE n = "server"
      <4>1. Flight("server") = 0 /\ pc["client"] \in {"sending", "recv"}
        BY <1>0, <1>1, <1>7, <3>3, OneInFlight
      <4> QED
        BY <1>n, <3>3, <4>1 DEF Left
    <3> QED
      BY <1>n, <3>2, <3>3
  <2>6. Taken(o) = i[n] /\ wire[n] = <<>>
    <3>1. wire[n] = <<>>
      BY <1>0, <2>5, QueuesTyped, FlightTyped
    <3>2. Takes(o) = Taken(o)
      BY <2>3, <2>5 DEF Takes
    <3> QED
      BY <1>6, <2>2, <2>3, <2>5, <3>1, <3>2
  <2>7. StepOK'
    <3>1. NextMsg(o)' = m0 /\ NextMsg(o) = m0 /\ NextMsg(n)' = NextMsg(n)
      BY <1>3, <1>6, <2>6 DEF NextMsg
    <3>2. wire'[n] = Append(<<>>, m0)
      BY <1>0, <1>2, <1>7, <2>6, QueuesTyped DEF QpTypeOK
    <3>3. wire'[n] \in Seq({m0})
      BY <3>2, EmptySeq, AppendProperties
    <3>4. /\ recv_cq'[o] \in Seq({NextMsg(o)'}) /\ wire'[n] \in Seq({NextMsg(o)'})
          /\ recv_cq'[n] \in Seq({NextMsg(n)'}) /\ wire'[o] \in Seq({NextMsg(n)'})
      BY <1>0, <1>2, <1>4, <1>7, <1>n, <3>1, <3>3 DEF StepOK
    <3>5. pc'["client"] \in {"repost", "end"} \/ Left("client")' => recv_cq'["client"] = <<>>
      BY <1>0, <1>2, <1>3, <1>7, <1>n DEF StepOK
    <3> QED
      BY <1>n, <3>4, <3>5 DEF StepOK
  <2>8. DoneOK'
    BY <1>2, <1>7 DEF DoneOK
  <2> QED
    BY <2>4, <2>7, <2>8
<1>8. ASSUME qp_error # {} PROVE Flow' /\ StepOK' /\ DoneOK'
  <2>1. Flow'
    BY <1>2, <1>8 DEF Flow
  <2>2. StepOK'
    <3>1. n \notin qp_error => o \in qp_error
      BY <1>0, <1>8, <1>n, QueuesTyped DEF QpTypeOK
    <3>2. n \in qp_error => wire' = wire
      BY <1>2
    <3>3. \A m \in Nodes : NextMsg(m)' = NextMsg(m)
      BY <1>3, <1>6, <1>n DEF NextMsg
    <3>4. n \notin qp_error' => recv_cq'[n] \in Seq({NextMsg(n)'}) /\ wire'[o] \in Seq({NextMsg(n)'})
      BY <1>0, <1>2, <1>4, <3>3 DEF StepOK
    <3>5. o \notin qp_error' => recv_cq'[o] \in Seq({NextMsg(o)'}) /\ wire'[n] \in Seq({NextMsg(o)'})
      BY <1>0, <1>2, <1>n, <3>1, <3>2, <3>3 DEF StepOK
    <3>6. "client" \notin qp_error' /\ (pc'["client"] \in {"repost", "end"} \/ Left("client")') =>
            recv_cq'["client"] = <<>>
      BY <1>0, <1>2, <1>3, <1>n DEF StepOK
    <3> QED
      BY <1>n, <3>4, <3>5, <3>6 DEF StepOK
  <2>3. DoneOK'
    <3>1. ~Survivable
      <4> SUFFICES ASSUME Survivable PROVE FALSE
        OBVIOUS
      <4>1. Sends(n) = msg_count
        BY <1>0, <1>8 DEF DoneOK
      <4>2. i[n] \in Nat /\ msg_count \in Nat
        BY <1>0, CountTyped
      <4> QED
        BY <1>3, <1>6, <4>1, <4>2
    <3> QED
      BY <1>3, <3>1 DEF DoneOK
  <2> QED
    BY <2>1, <2>2, <2>3
<1>9. HeardOK'
  BY <1>0, <1>2, <1>3, <1>6, <1>n DEF HeardOK
<1> QED
  BY <1>3, <1>5, <1>7, <1>8, <1>9 DEF ApmInv

LEMMA GetSendStep ==
  ASSUME ApmInv, NEW n \in Nodes, GetSend(n)
  PROVE  ApmInv'
<1> DEFINE o == Other(n)
           ph == IF n = "server" THEN "end" ELSE "recv"
<1>0. /\ TypeOK /\ PhaseOK /\ ThreadOK /\ QueueOK /\ Flow /\ StepOK /\ MigOK /\ HeardOK /\ ChosenOK
      /\ DoneOK
  BY DEF ApmInv
<1>n. o \in Nodes /\ o # n /\ Other(o) = n /\ (\A m \in Nodes : m = n \/ m = o)
      /\ ((n = "server" /\ o = "client") \/ (n = "client" /\ o = "server"))
  BY NodesFacts
<1>1. /\ pc[n] = "sending" /\ Goto(n, ph) /\ GetSendComp(n)
      /\ UNCHANGED <<ctxVars, i, ret, asyncVars, pathVars>>
  BY DEF GetSend, AfterSend
<1>2. /\ QpTypeOK(Msgs)' /\ (\A m \in Nodes : RecvsOf(m)' = RecvsOf(m))
      /\ wire' = wire /\ recvs' = recvs /\ recv_cq' = recv_cq /\ qp_error' = qp_error
  BY <1>0, <1>1, QueuesTyped, GetSendCompFacts
<1>3. /\ TypeOK' /\ PhaseOK' /\ ThreadOK' /\ MigOK' /\ ChosenOK' /\ (Survivable' <=> Survivable)
      /\ pc'[n] = ph /\ \A m \in Nodes : m # n => pc'[m] = pc[m]
      /\ i' = i /\ alt' = alt /\ mig' = mig /\ athread' = athread /\ i[n] \in Nat
      /\ ~Left(n) /\ ~Left(n)'
      /\ Left(o)' = Left(o) /\ Taken(o)' = Taken(o) /\ Takes(o)' = Takes(o) /\ Sends(o)' = Sends(o)
  <2>1. ph \in Loop /\ pc[n] \in Loop
    BY <1>1 DEF Loop
  <2> QED
    BY <1>1, <1>2, <2>1, LoopStep
<1>4. QueueOK'
  BY <1>0, <1>1, <1>2, <1>3, <1>n DEF QueueOK
<1>5. Taken(n)' = Taken(n) /\ Takes(n)' = Takes(n) /\ Sends(n)' = Sends(n)
  <2>1. Taken(n)' = Taken(n)
    BY <1>1, <1>3, <1>n DEF Taken
  <2>2. Sends(n)' = Sends(n)
    BY <1>1, <1>3, <1>n DEF Sends
  <2> QED
    BY <1>3, <2>1, <2>2 DEF Takes
<1>6. Flow' /\ StepOK'
  <2>1. \A m \in Nodes : Takes(m)' = Takes(m) /\ Sends(m)' = Sends(m) /\ Taken(m)' = Taken(m)
    BY <1>3, <1>5, <1>n
  <2>2. pc'["client"] \in {"repost", "end"} \/ Left("client")' =>
          pc["client"] \in {"repost", "end"} \/ Left("client")
    BY <1>1, <1>3, <1>n
  <2> QED
    BY <1>0, <1>2, <2>1, <2>2, FlowSame
<1>7. HeardOK'
  BY <1>0, <1>2, <1>3, <1>5, <1>n DEF HeardOK
<1>8. DoneOK'
  BY <1>0, <1>1, <1>2, <1>3, <1>5, <1>n, QueuesTyped DEF DoneOK, QpTypeOK
<1> QED
  BY <1>3, <1>4, <1>6, <1>7, <1>8 DEF ApmInv

(* The end of an iteration, with a migration by hand or without.           *)
LEMMA NextIterationStep ==
  ASSUME ApmInv, NEW n \in Nodes, pc[n] = "end", NextIteration(n), UNCHANGED <<ctxVars, qpVars>>,
         \/ UNCHANGED <<asyncVars, pathVars>>
         \/ mig[n] = "armed" /\ MigrateQp(n)
  PROVE  ApmInv'
<1> DEFINE o == Other(n)
           ph == LoopHead(n, i[n] + 1)
<1>0. /\ TypeOK /\ PhaseOK /\ ThreadOK /\ QueueOK /\ Flow /\ StepOK /\ MigOK /\ HeardOK /\ ChosenOK
      /\ DoneOK
  BY DEF ApmInv
<1>n. o \in Nodes /\ o # n /\ Other(o) = n /\ (\A m \in Nodes : m = n \/ m = o)
      /\ ((n = "server" /\ o = "client") \/ (n = "client" /\ o = "server"))
  BY NodesFacts
<1>t. CtxTyped /\ MainTyped /\ AsyncTyped /\ PathTyped /\ QpTypeOK(Msgs)
  BY <1>0, TypeParts
<1>1. /\ i' = [i EXCEPT ![n] = @ + 1] /\ pc' = [pc EXCEPT ![n] = ph] /\ ret' = ret
      /\ wire' = wire /\ recvs' = recvs /\ recv_cq' = recv_cq /\ send_cq' = send_cq
      /\ qp_error' = qp_error /\ cur_port' = cur_port /\ active' = active
      /\ given' = given /\ migrate_after' = migrate_after
      /\ alt_srcport' = alt_srcport /\ alt_dlid' = alt_dlid /\ my_alt_dlid' = my_alt_dlid
  BY DEF NextIteration, Goto, qpVars, ctxVars
<1>2. /\ AsyncTyped' /\ PathTyped' /\ MigOK'
      /\ alt' = alt /\ pulled' = pulled /\ athread' = athread
      /\ \A m \in Nodes : /\ mig'[m] = "rearm" <=> mig[m] = "rearm"
                          /\ mig[m] = "migrated" => mig'[m] = "migrated"
  <2>1. UNCHANGED ctxVars
    OBVIOUS
  <2> QED
    BY <1>0, <2>1, PathStep
<1>3. /\ i[n] \in Nat /\ msg_count \in Nat /\ i[n] < msg_count /\ alt[n] # None
      /\ i[n] + 1 \in 0 .. msg_count
  <2>1. i[n] \in Nat /\ msg_count \in Nat
    BY <1>0, CountTyped
  <2>2. i[n] < msg_count /\ alt[n] # None
    BY <1>0 DEF PhaseOK, Loop
  <2> QED
    BY <2>1, <2>2
<1>4. \/ i[n] + 1 < msg_count /\ ph \in {"recv", "send"}
      \/ i[n] + 1 = msg_count /\ ph = "disconnect"
  BY <1>3 DEF LoopHead, FirstPhase
<1>5. /\ i'[n] = i[n] + 1 /\ pc'[n] = ph
      /\ \A m \in Nodes : m # n => i'[m] = i[m] /\ pc'[m] = pc[m]
  BY <1>t, <1>1 DEF MainTyped
<1>6. TypeOK'
  <2>1. ph \in Phases
    BY <1>4 DEF Phases
  <2>2. MainTyped'
    <3> HIDE DEF ph
    <3> QED
      BY <1>t, <1>1, <1>3, <2>1 DEF MainTyped
  <2>3. CtxTyped' /\ QpTypeOK(Msgs)'
    BY <1>t, <1>1 DEF CtxTyped, QpTypeOK
  <2> QED
    BY <1>2, <2>2, <2>3 DEF TypeOK, CtxTyped, MainTyped, AsyncTyped, PathTyped, Msgs
<1>7. ph \in {"recv", "send", "disconnect"}
  BY <1>4
<1>8. PhaseOK'
  <2>1. \/ i'[n] < msg_count /\ ph \in {"recv", "send"}
        \/ i'[n] = msg_count /\ ph = "disconnect"
    BY <1>4, <1>5
  <2> HIDE DEF ph
  <2> QED
    BY <1>0, <1>1, <1>2, <1>3, <1>5, <1>7, <1>n, <2>1 DEF PhaseOK, Early, Loop
<1>9. ThreadOK' /\ QueueOK'
  <2> HIDE DEF ph
  <2>1. ThreadOK'
    BY <1>0, <1>2, <1>3, <1>5, <1>7, <1>n DEF ThreadOK
  <2>2. \A m \in Nodes : RecvsOf(m)' = RecvsOf(m)
    BY <1>1 DEF RecvsOf
  <2>3. QueueOK'
    BY <1>0, <1>1, <1>2, <1>3, <1>5, <1>7, <1>n, <2>2 DEF QueueOK
  <2> QED
    BY <2>1, <2>3
<1>10. \A m \in Nodes : Takes(m)' = Takes(m) /\ Sends(m)' = Sends(m) /\ Taken(m)' = Taken(m)
  <2>1. ~Left(n) /\ ~Left(n)'
    BY <1>5, <1>7 DEF Left
  <2>2. Taken(n) = i[n] + 1
    BY DEF Taken
  <2>3. Taken(n)' = i[n] + 1
    <3>1. ~(pc'[n] \in {"repost", "end"} \/ (n = "server" /\ pc'[n] \in {"send", "sending"}))
      BY <1>4, <1>5, <1>n DEF LoopHead, FirstPhase
    <3>2. i[n] + 1 \in Nat
      BY <1>3
    <3> QED
      BY <1>5, <3>1, <3>2 DEF Taken
  <2>4. Sends(n) = i[n] + 1
    BY DEF Sends
  <2>5. Sends(n)' = i[n] + 1
    <3>1. ~(pc'[n] \in {"sending", "end"} \/ (n = "client" /\ pc'[n] \in {"recv", "repost"}))
      BY <1>4, <1>5, <1>n DEF LoopHead, FirstPhase
    <3>2. i[n] + 1 \in Nat
      BY <1>3
    <3> QED
      BY <1>5, <2>1, <3>1, <3>2 DEF Sends
  <2>6. Takes(o)' = Takes(o) /\ Sends(o)' = Sends(o) /\ Taken(o)' = Taken(o)
    BY <1>1, <1>2, <1>5, <1>n, CountsSame
  <2> QED
    BY <1>n, <2>1, <2>2, <2>3, <2>4, <2>5, <2>6 DEF Takes
<1>11. Flow' /\ StepOK'
  <2>1. Left("client")' => Left("client")
    <3> HIDE DEF ph
    <3> QED
      BY <1>1, <1>2, <1>5, <1>7, <1>n DEF Left
  <2>2. pc'["client"] \in {"repost", "end"} => pc["client"] \in {"repost", "end"}
    <3> HIDE DEF ph
    <3> QED
      BY <1>5, <1>7, <1>n
  <2> QED
    BY <1>0, <1>1, <1>10, <2>1, <2>2, FlowSame
<1>12. HeardOK'
  BY <1>0, <1>1, <1>2, <1>10, NodesFacts DEF HeardOK
<1>13. ChosenOK'
  BY <1>0, <1>2, ChosenSame
<1>14. DoneOK'
  <2>1. Survivable' <=> Survivable
    BY <1>1, <1>2 DEF Survivable
  <2>2. Survivable => n \notin qp_error
    BY <1>0 DEF DoneOK
  <2>3. qp_error \subseteq Nodes
    BY <1>t DEF QpTypeOK
  <2> QED
    BY <1>0, <1>1, <1>5, <1>10, <2>1, <2>2, <2>3 DEF DoneOK
<1> QED
  BY <1>2, <1>6, <1>8, <1>9, <1>11, <1>12, <1>13, <1>14 DEF ApmInv

(* The client leaves when the migration by hand is refused.                *)
LEMMA RefusedStep ==
  ASSUME ApmInv, pc["client"] = "end", Fails("client"),
         UNCHANGED <<ctxVars, qpVars, i, asyncVars, pathVars>>
  PROVE  ApmInv'
<1>0. /\ TypeOK /\ PhaseOK /\ ThreadOK /\ QueueOK /\ Flow /\ StepOK /\ MigOK /\ HeardOK /\ ChosenOK
  BY DEF ApmInv
<1>n. /\ "client" \in Nodes /\ "server" \in Nodes /\ "client" # "server" /\ Other("client") = "server"
      /\ Other("server") = "client" /\ \A m \in Nodes : m = "client" \/ m = "server"
  BY NodesFacts
<1>t. CtxTyped /\ MainTyped /\ AsyncTyped /\ PathTyped /\ QpTypeOK(Msgs)
  BY <1>0, TypeParts
<1>1. /\ pc' = [pc EXCEPT !["client"] = "out"] /\ ret' = [ret EXCEPT !["client"] = -1] /\ i' = i
      /\ wire' = wire /\ recvs' = recvs /\ recv_cq' = recv_cq /\ send_cq' = send_cq
      /\ qp_error' = qp_error /\ cur_port' = cur_port /\ active' = active
      /\ given' = given /\ migrate_after' = migrate_after
      /\ alt_srcport' = alt_srcport /\ alt_dlid' = alt_dlid /\ my_alt_dlid' = my_alt_dlid
      /\ async' = async /\ athread' = athread
      /\ path' = path /\ alt' = alt /\ mig' = mig /\ pulled' = pulled
  BY DEF Fails, Goto, qpVars, ctxVars, asyncVars, pathVars
<1>2. /\ pc'["client"] = "out" /\ pc'["server"] = pc["server"] /\ ret'["client"] = -1
      /\ ret'["server"] = ret["server"]
  BY <1>t, <1>1, <1>n DEF MainTyped
<1>3. i["client"] \in Nat /\ i["client"] < msg_count /\ alt["client"] # None
  BY <1>0, <1>n, CountTyped DEF PhaseOK, Loop
<1>4. TypeOK'
  <2>1. MainTyped'
    BY <1>t, <1>1 DEF MainTyped, Phases
  <2>2. CtxTyped' /\ QpTypeOK(Msgs)' /\ AsyncTyped' /\ PathTyped'
    BY <1>t, <1>1 DEF CtxTyped, QpTypeOK, AsyncTyped, PathTyped
  <2> QED
    BY <2>1, <2>2 DEF TypeOK, CtxTyped, MainTyped, AsyncTyped, PathTyped, Msgs
<1>5. PhaseOK'
  BY <1>0, <1>1, <1>2, <1>3, <1>n DEF PhaseOK, Early, Loop
<1>6. ThreadOK'
  BY <1>0, <1>1, <1>2, <1>n DEF ThreadOK
<1>7. QueueOK'
  <2>1. \A m \in Nodes : RecvsOf(m)' = RecvsOf(m)
    BY <1>1 DEF RecvsOf
  <2> QED
    BY <1>0, <1>1, <1>2, <1>n, <2>1 DEF QueueOK
<1>8. /\ Takes("server")' = Takes("server") /\ Sends("server")' = Sends("server")
      /\ Taken("server")' = Taken("server")
  BY <1>1, <1>2, <1>n, CountsSame
<1>9. ASSUME "client" \notin qp_error
      PROVE  /\ Takes("client")' = Takes("client") /\ Sends("client")' = Sends("client")
             /\ Taken("client")' = i["client"]
  <2>1. ~Left("client") /\ Left("client")'
    BY <1>1, <1>2, <1>3, <1>9 DEF Left
  <2>2. Taken("client") = i["client"] + 1 /\ Taken("client")' = i["client"]
    BY <1>1, <1>2, <1>3 DEF Taken
  <2>3. Sends("client") = i["client"] + 1 /\ Sends("client")' = i["client"] + 1
    BY <1>1, <1>2, <2>1 DEF Sends
  <2> QED
    BY <1>3, <2>1, <2>2, <2>3 DEF Takes
<1>10. Flow'
  <2>1. \A m \in Nodes : Flight(m)' = Flight(m)
    BY <1>1 DEF Flight
  <2> QED
    BY <1>0, <1>1, <1>8, <1>9, <1>n, <2>1 DEF Flow
<1>11. "client" \notin qp_error => recv_cq["client"] = <<>> /\ wire["server"] = <<>>
  <2>1. "client" \notin qp_error => recv_cq["client"] = <<>>
    BY <1>0 DEF StepOK
  <2>2. "client" \notin qp_error => wire[Other("client")] = <<>>
    BY <1>0, <1>n, QuietWire
  <2> QED
    BY <1>n, <2>1, <2>2
<1>12. StepOK'
  <2>1. "client" \notin qp_error =>
          recv_cq'["client"] \in Seq({NextMsg("client")'}) /\ wire'["server"] \in Seq({NextMsg("client")'})
    BY <1>1, <1>11, EmptySeq
  <2>2. "server" \notin qp_error =>
          recv_cq'["server"] \in Seq({NextMsg("server")'}) /\ wire'["client"] \in Seq({NextMsg("server")'})
    BY <1>0, <1>1, <1>8, <1>n DEF StepOK, NextMsg
  <2> QED
    BY <1>1, <1>11, <1>n, <2>1, <2>2 DEF StepOK
<1>13. HeardOK'
  BY <1>0, <1>1, <1>9 DEF HeardOK
<1>14. MigOK' /\ ChosenOK'
  <2>1. UNCHANGED ctxVars /\ UNCHANGED pathVars /\ \A m \in Nodes : athread'[m] = "none" <=> athread[m] = "none"
    BY <1>1
  <2> QED
    BY <1>0, <1>1, <2>1, MigSame, ChosenSame
<1>15. DoneOK'
  <2>1. ~Survivable'
    BY <1>2, <1>n DEF Survivable
  <2> QED
    BY <2>1 DEF DoneOK
<1> QED
  BY <1>4, <1>5, <1>6, <1>7, <1>10, <1>12, <1>13, <1>14, <1>15 DEF ApmInv

LEMMA EndIterationStep ==
  ASSUME ApmInv, NEW n \in Nodes, EndIteration(n)
  PROVE  ApmInv'
<1>1. pc[n] = "end" /\ UNCHANGED <<ctxVars, qpVars>>
  BY DEF EndIteration
<1>2. CASE /\ NextIteration(n)
           /\ \/ UNCHANGED <<asyncVars, pathVars>>
              \/ mig[n] = "armed" /\ MigrateQp(n)
  BY <1>1, <1>2, NextIterationStep
<1>3. CASE MigratesNow(n) /\ Fails(n) /\ UNCHANGED <<i, asyncVars, pathVars>>
  <2>1. n = "client"
    BY <1>3 DEF MigratesNow
  <2> QED
    BY <1>1, <1>3, <2>1, RefusedStep
<1> QED
  BY <1>2, <1>3 DEF EndIteration

-----------------------------------------------------------------------------
(* A queue pair closes.                                                    *)

LEMMA CloseStep ==
  ASSUME ApmInv, NEW n \in Nodes, Close(n), NEW ph, pc' = [pc EXCEPT ![n] = ph],
         ph = pc[n] \/ (pc[n] \in {"disconnect", "out"} /\ ph \in {"out", "done"}),
         UNCHANGED <<ctxVars, i, ret, asyncVars, pathVars>>
  PROVE  /\ TypeOK' /\ PhaseOK' /\ ThreadOK' /\ QueueOK' /\ Flow' /\ StepOK' /\ MigOK' /\ HeardOK'
         /\ ChosenOK' /\ (Survivable' <=> Survivable)
         /\ pc'[n] = ph /\ pc'[Other(n)] = pc[Other(n)] /\ i' = i /\ alt' = alt
         /\ Sends(Other(n))' = Sends(Other(n)) /\ ~Left(n)'
         /\ qp_error' = qp_error \cup {n} /\ wire'[n] = <<>> /\ wire'[Other(n)] = wire[Other(n)]
<1> DEFINE o == Other(n)
<1>0. /\ TypeOK /\ PhaseOK /\ ThreadOK /\ QueueOK /\ Flow /\ StepOK /\ MigOK /\ HeardOK /\ ChosenOK
  BY DEF ApmInv
<1>n. o \in Nodes /\ o # n /\ Other(o) = n /\ (\A m \in Nodes : m = n \/ m = o)
      /\ ((n = "server" /\ o = "client") \/ (n = "client" /\ o = "server"))
  BY NodesFacts
<1>t. CtxTyped /\ MainTyped /\ AsyncTyped /\ PathTyped /\ QpTypeOK(Msgs)
  BY <1>0, TypeParts
<1>1. /\ QpTypeOK(Msgs)' /\ qp_error' = qp_error \cup {n}
      /\ wire'[n] = <<>> /\ recvs'[n] = 0 /\ wire'[o] = wire[o]
      /\ recvs'[o] = recvs[o] /\ recv_cq'[o] = recv_cq[o]
      /\ \A m \in Nodes : RecvsOf(m)' = RecvsOf(m)
  BY <1>0, CloseFacts
<1>2. pc[n] \in Phases /\ ph \in Phases
  BY <1>t DEF MainTyped, Phases
<1>3. /\ TypeOK' /\ MigOK' /\ ChosenOK' /\ (Survivable' <=> Survivable)
      /\ pc'[n] = ph /\ \A m \in Nodes : m # n => pc'[m] = pc[m]
      /\ i' = i /\ ret' = ret /\ alt' = alt /\ mig' = mig
      /\ athread' = athread /\ cur_port' = cur_port /\ active' = active
  <2>1. Goto(n, ph)
    BY DEF Goto
  <2> QED
    BY <1>1, <1>2, <2>1, MainStep
<1>4. n \in qp_error' /\ (o \in qp_error' <=> o \in qp_error)
  BY <1>1, <1>n
<1>5. PhaseOK'
  BY <1>0, <1>3, <1>4, <1>n DEF PhaseOK, Early, Loop
<1>6. ThreadOK'
  BY <1>0, <1>3, <1>n DEF ThreadOK
<1>7. QueueOK'
  BY <1>0, <1>1, <1>3, <1>4, <1>n DEF QueueOK
<1>8. Flow'
  BY <1>4 DEF Flow
<1>9. /\ Left(o)' = Left(o) /\ Taken(o)' = Taken(o) /\ Takes(o)' = Takes(o)
      /\ Sends(o)' = Sends(o)
  BY <1>3, <1>4, <1>n, CountsSame
<1>10. ~Left(n)'
  BY <1>4 DEF Left
<1>11. StepOK'
  <2>1. o \notin qp_error' => recv_cq'[o] \in Seq({NextMsg(o)'}) /\ wire'[n] \in Seq({NextMsg(o)'})
    BY <1>0, <1>1, <1>4, <1>9, <1>n, EmptySeq DEF StepOK, NextMsg
  <2>2. "client" \notin qp_error' /\ (pc'["client"] \in {"repost", "end"} \/ Left("client")') =>
          recv_cq'["client"] = <<>>
    BY <1>0, <1>1, <1>3, <1>4, <1>9, <1>n DEF StepOK
  <2> QED
    BY <1>4, <1>n, <2>1, <2>2 DEF StepOK
<1>12. HeardOK'
  BY <1>0, <1>1, <1>3, <1>4, <1>9, <1>n DEF HeardOK
<1> QED
  BY <1>1, <1>3, <1>5, <1>6, <1>7, <1>8, <1>9, <1>10, <1>11, <1>12, <1>n

LEMMA RdmaDisconnectStep ==
  ASSUME ApmInv, NEW n \in Nodes, RdmaDisconnect(n)
  PROVE  ApmInv'
<1> DEFINE o == Other(n)
<1>0. TypeOK /\ PhaseOK /\ QueueOK /\ Flow /\ DoneOK
  BY DEF ApmInv
<1>n. o \in Nodes /\ o # n /\ Other(o) = n /\ (\A m \in Nodes : m = n \/ m = o)
      /\ ((n = "server" /\ o = "client") \/ (n = "client" /\ o = "server"))
  BY NodesFacts
<1>1. /\ pc[n] = "disconnect" /\ pc' = [pc EXCEPT ![n] = "out"] /\ Close(n)
      /\ UNCHANGED <<ctxVars, i, ret, asyncVars, pathVars>>
  BY DEF RdmaDisconnect, Goto
<1>2. /\ TypeOK' /\ PhaseOK' /\ ThreadOK' /\ QueueOK' /\ Flow' /\ StepOK' /\ MigOK' /\ HeardOK'
      /\ ChosenOK' /\ (Survivable' <=> Survivable)
      /\ pc'[n] = "out" /\ pc'[o] = pc[o] /\ i' = i /\ alt' = alt
      /\ Sends(o)' = Sends(o) /\ ~Left(n)'
      /\ qp_error' = qp_error \cup {n} /\ wire'[n] = <<>> /\ wire'[o] = wire[o]
  BY <1>1, CloseStep
<1>3. i[n] = msg_count /\ i[n] \in Nat /\ msg_count \in Nat
  BY <1>0, <1>1, CountTyped DEF PhaseOK
<1>4. Sends(n)' = msg_count /\ Sends(n) = msg_count
  <2>1. ~Left(n)
    BY <1>1 DEF Left
  <2> QED
    BY <1>1, <1>2, <1>3, <2>1 DEF Sends
<1>5. ASSUME qp_error = {} PROVE Sends(o) = msg_count /\ wire[o] = <<>>
  <2>1. /\ Flight("client") + Takes("server") = Sends("client")
        /\ Flight("server") + Takes("client") = Sends("server")
    BY <1>0, <1>5, NodesFacts DEF Flow
  <2>2. /\ Flight("client") \in Nat /\ Flight("server") \in Nat
        /\ Takes("client") \in Nat /\ Takes("server") \in Nat
        /\ Sends("client") \in Nat /\ Sends("server") \in Nat
    BY <1>0, NodesFacts, QueuesTyped, CountTyped
  <2>3. CASE n = "client"
    <3>1. Flight("server") = 0 /\ Flight("client") = 0
      <4>1. Flight("client") + Flight("server") + (IF pc["server"] \in {"repost", "send"} THEN 1 ELSE 0) = 0
        BY <1>0, <1>1, <1>5, <2>3, OneInFlight
      <4> QED
        BY <2>2, <4>1
    <3>2. Sends("client") = Takes("client")
      <4>1. Sends("client") = Takes("client") + 0
        BY <1>0, <1>1, <2>3, CountPhases
      <4> QED
        BY <2>2, <4>1
    <3>3. Sends("server") = msg_count
      BY <1>4, <2>1, <2>2, <2>3, <3>1, <3>2
    <3>4. wire["server"] = <<>>
      BY <1>0, <3>1, NodesFacts, QueuesTyped, FlightTyped
    <3> QED
      BY <1>n, <2>3, <3>3, <3>4
  <2>4. CASE n = "server"
    <3>1. Takes("server") = msg_count
      <4>1. Takes("server") = Sends("server") + 0
        BY <1>0, <1>1, <2>4, CountPhases
      <4> QED
        BY <1>4, <2>2, <2>4, <4>1
    <3>2. Sends("client") <= msg_count
      BY <1>0, NodesFacts, SendsBound
    <3>3. Flight("client") = 0 /\ Sends("client") = msg_count
      BY <1>3, <2>1, <2>2, <3>1, <3>2
    <3>4. wire["client"] = <<>>
      BY <1>0, <3>3, NodesFacts, QueuesTyped, FlightTyped
    <3> QED
      BY <1>n, <2>4, <3>3, <3>4
  <2> QED
    BY <1>n, <2>3, <2>4
<1>6. DoneOK'
  <2> SUFFICES ASSUME Survivable
               PROVE  /\ \A m \in qp_error' : pc'[m] \in {"out", "done"}
                      /\ \A m \in Nodes : Sends(m)' = msg_count /\ wire'[m] = <<>>
    BY <1>2 DEF DoneOK
  <2>1. qp_error \subseteq Nodes
    BY <1>0, QueuesTyped DEF QpTypeOK
  <2>2. \A m \in qp_error' : pc'[m] \in {"out", "done"}
    BY <1>0, <1>2, <1>n, <2>1 DEF DoneOK
  <2>3. Sends(o) = msg_count /\ wire[o] = <<>>
    BY <1>0, <1>5, <1>n DEF DoneOK
  <2> QED
    BY <1>2, <1>4, <1>n, <2>2, <2>3
<1> QED
  BY <1>2, <1>6 DEF ApmInv

LEMMA CleanupStep ==
  ASSUME ApmInv, NEW n \in Nodes, Cleanup(n)
  PROVE  ApmInv'
<1> DEFINE o == Other(n)
<1>0. TypeOK /\ PhaseOK /\ QueueOK /\ DoneOK
  BY DEF ApmInv
<1>n. o \in Nodes /\ o # n /\ Other(o) = n /\ (\A m \in Nodes : m = n \/ m = o)
  BY NodesFacts
<1>1. /\ pc[n] = "out" /\ pc' = [pc EXCEPT ![n] = "done"] /\ Close(n)
      /\ UNCHANGED <<ctxVars, i, ret, asyncVars, pathVars>>
  BY DEF Cleanup, Goto
<1>2. /\ TypeOK' /\ PhaseOK' /\ ThreadOK' /\ QueueOK' /\ Flow' /\ StepOK' /\ MigOK' /\ HeardOK'
      /\ ChosenOK' /\ (Survivable' <=> Survivable)
      /\ pc'[n] = "done" /\ pc'[o] = pc[o] /\ i' = i /\ alt' = alt
      /\ Sends(o)' = Sends(o) /\ ~Left(n)'
      /\ qp_error' = qp_error \cup {n} /\ wire'[n] = <<>> /\ wire'[o] = wire[o]
  BY <1>1, CloseStep
<1>3. DoneOK'
  <2> SUFFICES ASSUME Survivable
               PROVE  /\ \A m \in qp_error' : pc'[m] \in {"out", "done"}
                      /\ \A m \in Nodes : Sends(m)' = msg_count /\ wire'[m] = <<>>
    BY <1>2 DEF DoneOK
  <2>1. n \in qp_error /\ qp_error \subseteq Nodes
    <3>1. ret[n] = 0
      BY DEF Survivable
    <3>2. n \notin qp_error => ret[n] = -1
      BY <1>0, <1>1 DEF PhaseOK
    <3> QED
      BY <1>0, <3>1, <3>2, QueuesTyped DEF QpTypeOK
  <2>2. \A m \in Nodes : Sends(m) = msg_count /\ wire[m] = <<>>
    BY <1>0, <2>1 DEF DoneOK
  <2>3. Sends(n)' = Sends(n)
    <3>1. ~Left(n)
      BY <2>1 DEF Left
    <3> QED
      BY <1>1, <1>2, <3>1 DEF Sends
  <2>4. \A m \in qp_error' : pc'[m] \in {"out", "done"}
    BY <1>0, <1>2, <1>n, <2>1 DEF DoneOK
  <2> QED
    BY <1>2, <1>n, <2>2, <2>3, <2>4
<1> QED
  BY <1>2, <1>3 DEF ApmInv

-----------------------------------------------------------------------------
(* The adapters.                                                           *)

(* As long as only the original path of the client's host was cut, while   *)
(* both sides were armed, a message that is on its way arrives, or its     *)
(* queue pair can still migrate.                                           *)
LEMMA PathWorks ==
  ASSUME ApmInv, NEW n \in Nodes, wire[n] # <<>>, mig[n] # "armed", Survivable
  PROVE  Arrives(n)
<1> DEFINE o == Other(n)
<1>0. TypeOK /\ PhaseOK /\ QueueOK /\ MigOK /\ ChosenOK /\ DoneOK
  BY DEF ApmInv
<1>n. o \in Nodes /\ o # n /\ Other(o) = n
      /\ ((n = "server" /\ o = "client") \/ (n = "client" /\ o = "server"))
  BY NodesFacts
<1>1. qp_error = {}
  BY <1>0 DEF DoneOK
<1>2. given = {} /\ (pulled # None => pulled.armed /\ pulled.lid \in Lids("client"))
  BY DEF Survivable
<1>3. alt[n] # None
  BY <1>0 DEF QueueOK
<1>4. mig[n] \in {"migrated", "rearm"} /\ mig[o] \in {"migrated", "rearm", "armed"}
  BY <1>0, <1>n DEF TypeOK
<1>5. CASE mig[n] = "rearm"
  <2>1. path[n] = PrimaryPath(n)
    BY <1>0, <1>5 DEF MigOK
  <2>2. path[o] = PrimaryPath(o)
    <3>1. mig[o] = "rearm" \/ alt[o] = None
      BY <1>0, <1>5 DEF MigOK
    <3> QED
      BY <1>0, <1>n, <3>1 DEF MigOK
  <2>3. Mirrors(n, path[n], path[o])
    BY <1>n, <2>1, <2>2 DEF Mirrors, PrimaryPath
  <2>4. ~Cut(n)
    BY <1>0, <1>2, <1>5 DEF Cut, MigOK
  <2>5. ~Follows(n)
    BY <1>5 DEF Follows
  <2> QED
    BY <1>1, <2>3, <2>4, <2>5 DEF Arrives
<1>6. CASE mig[n] = "migrated"
  <2>1. alt[o] # None
    BY <1>0, <1>3, <1>6 DEF MigOK
  <2>2. mig[o] \in {"migrated", "armed"}
    BY <1>0, <1>3, <1>4, <1>6, <1>n DEF MigOK
  <2>3. path[n] = AltOf(n) /\ alt[o] = AltOf(o) /\ alt[n] = AltOf(n)
    BY <1>0, <1>2, <1>3, <1>6, <1>n, <2>1 DEF MigOK, ChosenOK
  <2>4. (IF Follows(n) THEN alt[o] ELSE path[o]) = AltOf(o)
    <3>1. mig[o] = "armed" => Follows(n)
      BY <1>6 DEF Follows
    <3>2. mig[o] = "migrated" => path[o] = AltOf(o)
      BY <1>0, <1>n, <2>1, <2>3 DEF MigOK
    <3> QED
      BY <2>2, <2>3, <3>1, <3>2
  <2>5. Mirrors(n, AltOf(n), AltOf(o))
    BY <1>n DEF Mirrors, AltOf
  <2>6. ~Cut(n)
    <3> SUFFICES ASSUME pulled # None, pulled.lid \in {Lid(n, path[n].port), path[n].dlid}
                 PROVE  FALSE
      BY DEF Cut
    <3>1. PICK m \in Nodes : pulled.lid = Lid(m, cur_port[m]) /\ active[m] # {cur_port[m]}
      BY <1>0 DEF MigOK
    <3>2. pulled.lid \in Lids("client")
      BY <1>2
    <3>3. PICK p \in Ports : pulled.lid = Lid("client", p)
      BY <3>2 DEF Lids
    <3>4. m = "client"
      <4>1. Lid(m, cur_port[m]) = Lid("client", p)
        BY <3>1, <3>3
      <4> QED
        BY <4>1 DEF Lid
    <3>5. AltPort("client") # cur_port["client"]
      BY <1>0, <3>1, <3>4, AltPortFacts
    <3>6. pulled.lid \in {Lid("client", AltPort("client")), Lid("server", cur_port["server"])}
      BY <1>n, <2>3 DEF AltOf
    <3>7. pulled.lid # Lid("client", AltPort("client"))
      BY <3>1, <3>4, <3>5, LidFacts
    <3>8. pulled.lid # Lid("server", cur_port["server"])
      BY <3>1, <3>4, LidFacts, NodesFacts
    <3> QED
      BY <3>6, <3>7, <3>8
  <2> QED
    BY <1>1, <2>3, <2>4, <2>5, <2>6 DEF Arrives
<1> QED
  BY <1>4, <1>5, <1>6

LEMMA SendFailsStep ==
  ASSUME ApmInv, NEW n \in Nodes, SendFails(n)
  PROVE  ApmInv'
<1>1. /\ wire[n] # <<>> /\ ~Arrives(n) /\ mig[n] # "armed" /\ Close(n)
      /\ UNCHANGED <<ctxVars, mainVars, asyncVars, pathVars>>
  BY DEF SendFails, RetriesExhausted
<1>2. pc' = [pc EXCEPT ![n] = pc[n]] /\ UNCHANGED <<ctxVars, i, ret, asyncVars, pathVars>>
  <2>1. pc' = pc /\ UNCHANGED <<ctxVars, i, ret, asyncVars, pathVars>>
    BY <1>1 DEF mainVars
  <2>2. pc \in [Nodes -> Phases]
    BY DEF ApmInv, TypeOK
  <2> QED
    BY <2>1, <2>2
<1>3. /\ TypeOK' /\ PhaseOK' /\ ThreadOK' /\ QueueOK' /\ Flow' /\ StepOK' /\ MigOK' /\ HeardOK'
      /\ ChosenOK' /\ (Survivable' <=> Survivable)
  <2> DEFINE ph == pc[n]
  <2>1. ph = pc[n]
    OBVIOUS
  <2>2. pc' = [pc EXCEPT ![n] = ph]
    BY <1>2
  <2> HIDE DEF ph
  <2> QED
    BY <1>1, <1>2, <2>1, <2>2, CloseStep
<1>4. ~Survivable
  BY <1>1, PathWorks
<1> QED
  BY <1>3, <1>4 DEF ApmInv, DoneOK

(* Steps that leave main and the queues alone.                             *)
LEMMA QuietStep ==
  ASSUME ApmInv, UNCHANGED <<ctxVars, mainVars, qpVars>>, alt' = alt,
         \A m \in Nodes : athread'[m] = "none" <=> athread[m] = "none",
         AsyncTyped', PathTyped', MigOK', Survivable' => Survivable,
         \A m \in Nodes : /\ mig'[m] = "rearm" <=> mig[m] = "rearm"
                          /\ mig[m] = "migrated" => mig'[m] = "migrated"
  PROVE  ApmInv'
<1>0. /\ TypeOK /\ PhaseOK /\ ThreadOK /\ QueueOK /\ Flow /\ StepOK /\ MigOK /\ HeardOK /\ ChosenOK
      /\ DoneOK
  BY DEF ApmInv
<1>t. CtxTyped /\ MainTyped /\ QpTypeOK(Msgs)
  BY <1>0, TypeParts
<1>1. /\ pc' = pc /\ i' = i /\ ret' = ret
      /\ wire' = wire /\ recvs' = recvs /\ recv_cq' = recv_cq /\ send_cq' = send_cq
      /\ qp_error' = qp_error /\ cur_port' = cur_port /\ active' = active
      /\ given' = given /\ migrate_after' = migrate_after
      /\ alt_srcport' = alt_srcport /\ alt_dlid' = alt_dlid /\ my_alt_dlid' = my_alt_dlid
  BY DEF ctxVars, mainVars, qpVars
<1>2. TypeOK'
  <2>1. CtxTyped' /\ MainTyped' /\ QpTypeOK(Msgs)'
    BY <1>t, <1>1 DEF CtxTyped, MainTyped, QpTypeOK
  <2> QED
    BY <2>1 DEF TypeOK, CtxTyped, MainTyped, AsyncTyped, PathTyped, Msgs
<1>3. PhaseOK'
  BY <1>0, <1>1 DEF PhaseOK
<1>4. ThreadOK'
  BY <1>0, <1>1, NodesFacts DEF ThreadOK
<1>5. QueueOK'
  <2>1. \A m \in Nodes : RecvsOf(m)' = RecvsOf(m)
    BY <1>1 DEF RecvsOf
  <2> QED
    BY <1>0, <1>1, <2>1 DEF QueueOK
<1>6. \A m \in Nodes : /\ Takes(m)' = Takes(m) /\ Sends(m)' = Sends(m) /\ Taken(m)' = Taken(m)
                       /\ Left(m)' = Left(m)
  BY <1>1, CountsSame
<1>7. Flow' /\ StepOK'
  BY <1>0, <1>1, <1>6, NodesFacts, FlowSame
<1>8. HeardOK'
  BY <1>0, <1>1, <1>6, NodesFacts DEF HeardOK
<1>9. ChosenOK'
  BY <1>0, ChosenSame
<1>10. DoneOK'
  BY <1>0, <1>1, <1>6 DEF DoneOK
<1> QED
  BY <1>2, <1>3, <1>4, <1>5, <1>7, <1>8, <1>9, <1>10 DEF ApmInv

LEMMA AutoMigrateStep ==
  ASSUME ApmInv, NEW n \in Nodes, AutoMigrate(n)
  PROVE  ApmInv'
<1>0. TypeOK /\ PhaseOK /\ MigOK
  BY DEF ApmInv
<1>1. mig[n] = "armed" /\ MigrateQp(n) /\ UNCHANGED ctxVars /\ UNCHANGED <<ctxVars, mainVars, qpVars>>
  BY DEF AutoMigrate
<1>2. /\ AsyncTyped' /\ PathTyped' /\ MigOK'
      /\ alt' = alt /\ pulled' = pulled /\ athread' = athread
      /\ \A m \in Nodes : /\ mig'[m] = "rearm" <=> mig[m] = "rearm"
                          /\ mig[m] = "migrated" => mig'[m] = "migrated"
  BY <1>0, <1>1, PathStep
<1>3. Survivable' => Survivable
  BY <1>1, <1>2 DEF Survivable, ctxVars, mainVars
<1> QED
  BY <1>1, <1>2, <1>3, QuietStep

LEMMA PullCableStep ==
  ASSUME ApmInv, NEW n \in Nodes, PullCable(n)
  PROVE  ApmInv'
<1>0. TypeOK /\ PhaseOK /\ MigOK
  BY DEF ApmInv
<1>t. AsyncTyped /\ PathTyped /\ CtxTyped
  BY <1>0, TypeParts
<1>1. /\ pulled = None /\ active[n] # {cur_port[n]} /\ \A m \in Nodes : alt[m] # None
      /\ pulled' = [lid |-> Lid(n, cur_port[n]), armed |-> \A m \in Nodes : mig[m] = "armed"]
      /\ UNCHANGED <<ctxVars, mainVars, qpVars>> /\ UNCHANGED <<ctxVars, mainVars, asyncVars, path, alt, mig>>
  BY DEF PullCable
<1>2. /\ athread' = athread /\ async' = async /\ path' = path /\ alt' = alt /\ mig' = mig
      /\ cur_port' = cur_port /\ active' = active /\ given' = given /\ ret' = ret
      /\ migrate_after' = migrate_after
  BY <1>1 DEF asyncVars, ctxVars, mainVars
<1>3. AsyncTyped'
  BY <1>t, <1>2 DEF AsyncTyped
<1>4. PathTyped'
  <2>1. Lid(n, cur_port[n]) \in AllLids
    BY <1>t, LidFacts DEF CtxTyped
  <2>2. (\A m \in Nodes : mig[m] = "armed") \in BOOLEAN
    OBVIOUS
  <2>3. pulled' \in [lid : AllLids, armed : BOOLEAN]
    BY <1>1, <2>1, <2>2, Zenon
  <2> QED
    BY <1>t, <1>2, <2>3 DEF PathTyped
<1>5. MigOK'
  <2>1. \A m \in Nodes : PrimaryPath(m)' = PrimaryPath(m)
    BY <1>2, StaticSame
  <2>2. pulled'.lid = Lid(n, cur_port[n]) /\ (pulled'.armed => \A m \in Nodes : mig[m] = "armed")
    BY <1>1
  <2>3. pulled' # None => \E m \in Nodes : pulled'.lid = Lid(m, cur_port'[m]) /\ active'[m] # {cur_port'[m]}
    BY <1>1, <1>2, <2>2
  <2>4. \A m \in Nodes :
          /\ path'[m] = (IF mig'[m] = "migrated" /\ alt'[m] # None THEN alt'[m] ELSE PrimaryPath(m)')
          /\ mig'[m] = "rearm" /\ alt'[Other(m)] # None => mig'[Other(m)] = "rearm"
          /\ alt'[m] # None /\ alt'[Other(m)] = None => mig'[m] = "rearm"
    BY <1>0, <1>2, <2>1 DEF MigOK
  <2>5. \A m \in Nodes : pulled' # None => alt'[m] # None /\ (pulled'.armed => mig'[m] # "rearm")
    BY <1>1, <1>2, <2>2
  <2> QED
    BY <2>3, <2>4, <2>5 DEF MigOK
<1>6. Survivable' => Survivable
  BY <1>1, <1>2 DEF Survivable
<1> QED
  BY <1>1, <1>2, <1>3, <1>4, <1>5, <1>6, QuietStep

LEMMA ThreadSteps ==
  ASSUME ApmInv, NEW n \in Nodes, AsyncEventThread(n)
  PROVE  ApmInv'
<1>0. TypeOK /\ MigOK
  BY DEF ApmInv
<1>t. AsyncTyped /\ PathTyped
  BY <1>0, TypeParts
<1>1. UNCHANGED <<ctxVars, mainVars, qpVars>> /\ UNCHANGED <<ctxVars, mainVars, pathVars, qpVars>>
  BY DEF AsyncEventThread, GetEvent, AckEvent
<1>2. /\ path' = path /\ alt' = alt /\ mig' = mig /\ pulled' = pulled /\ cur_port' = cur_port
      /\ active' = active /\ given' = given /\ ret' = ret /\ migrate_after' = migrate_after
  BY <1>1 DEF pathVars, ctxVars, mainVars
<1>3. AsyncTyped' /\ \A m \in Nodes : athread'[m] = "none" <=> athread[m] = "none"
  <2>1. CASE GetEvent(n)
    <3>1. /\ athread[n] = "get" /\ athread' = [athread EXCEPT ![n] = "ack"]
          /\ async[n] > 0 /\ async' = [async EXCEPT ![n] = @ - 1]
      BY <2>1 DEF GetEvent
    <3>2. async[n] \in Nat /\ async[n] - 1 \in Nat
      BY <1>t, <3>1 DEF AsyncTyped
    <3>3. AsyncTyped'
      BY <1>t, <3>1, <3>2 DEF AsyncTyped
    <3>4. \A m \in Nodes : athread'[m] = "none" <=> athread[m] = "none"
      BY <1>t, <3>1 DEF AsyncTyped
    <3> QED
      BY <3>3, <3>4
  <2>2. CASE AckEvent(n)
    <3>1. athread[n] = "ack" /\ athread' = [athread EXCEPT ![n] = "get"] /\ async' = async
      BY <2>2 DEF AckEvent
    <3> QED
      BY <1>t, <3>1 DEF AsyncTyped
  <2> QED
    BY <2>1, <2>2 DEF AsyncEventThread
<1>4. PathTyped' /\ MigOK'
  <2>1. UNCHANGED pathVars
    BY <1>1
  <2> QED
    BY <1>0, <1>t, <1>2, <2>1, MigSame DEF PathTyped
<1>5. Survivable' => Survivable
  BY <1>2 DEF Survivable
<1> QED
  BY <1>1, <1>2, <1>3, <1>4, <1>5, QuietStep

LEMMA DeliverMsgStep ==
  ASSUME ApmInv, NEW n \in Nodes, DeliverMsg(n)
  PROVE  ApmInv'
<1> DEFINE o == Other(n)
           q == Head(wire[n])
<1>0. /\ TypeOK /\ PhaseOK /\ ThreadOK /\ QueueOK /\ Flow /\ StepOK /\ MigOK /\ HeardOK /\ ChosenOK
      /\ DoneOK
  BY DEF ApmInv
<1>n. o \in Nodes /\ o # n /\ Other(o) = n /\ (\A m \in Nodes : m = n \/ m = o)
      /\ ((n = "server" /\ o = "client") \/ (n = "client" /\ o = "server"))
  BY NodesFacts
<1>t. CtxTyped /\ MainTyped /\ AsyncTyped /\ PathTyped /\ QpTypeOK(Msgs)
  BY <1>0, TypeParts
<1>1. /\ Deliver(n) /\ UNCHANGED ctxVars /\ UNCHANGED <<ctxVars, mainVars>>
      /\ IF Follows(n) THEN MigrateQp(o)
         ELSE /\ mig' = (IF \A m \in Nodes : mig[m] \in {"rearm", "armed"}
                         THEN [m \in Nodes |-> "armed"] ELSE mig)
              /\ UNCHANGED <<path, alt, pulled, asyncVars>>
  BY DEF DeliverMsg
<1>2. /\ QpTypeOK(Msgs)' /\ qp_error = {} /\ qp_error' = {} /\ wire[n] # <<>>
      /\ wire' = [wire EXCEPT ![n] = Tail(@)]
      /\ recv_cq' = [recv_cq EXCEPT ![o] = Append(@, q)]
      /\ \A m \in Nodes : RecvsOf(m)' = RecvsOf(m)
  BY <1>t, <1>1, DeliverFacts
<1>3. /\ cur_port' = cur_port /\ active' = active /\ given' = given /\ migrate_after' = migrate_after
      /\ alt_srcport' = alt_srcport /\ alt_dlid' = alt_dlid /\ my_alt_dlid' = my_alt_dlid
      /\ pc' = pc /\ i' = i /\ ret' = ret
  BY <1>1 DEF ctxVars, mainVars
<1>4. alt[n] # None
  BY <1>0, <1>2 DEF QueueOK
<1>5. /\ AsyncTyped' /\ PathTyped' /\ MigOK' /\ alt' = alt /\ pulled' = pulled /\ athread' = athread
      /\ \A m \in Nodes : /\ mig'[m] = "rearm" => mig[m] = "rearm"
                          /\ alt[m] = None => mig'[m] = "migrated"
      /\ alt[o] # None => mig'[o] # "rearm"
  <2>1. CASE Follows(n)
    <3>1. mig[o] = "armed" /\ mig[n] = "migrated" /\ MigrateQp(o)
      BY <1>1, <2>1 DEF Follows
    <3>2. /\ AsyncTyped' /\ PathTyped' /\ MigOK'
          /\ alt' = alt /\ pulled' = pulled /\ athread' = athread
          /\ \A m \in Nodes : /\ mig'[m] = "rearm" <=> mig[m] = "rearm"
                              /\ mig[m] = "migrated" => mig'[m] = "migrated"
      BY <1>0, <1>1, <1>n, <3>1, PathStep
    <3> QED
      BY <1>0, <1>n, <3>1, <3>2 DEF PhaseOK
  <2>2. CASE ~Follows(n) /\ \A m \in Nodes : mig[m] \in {"rearm", "armed"}
    <3>1. /\ mig' = [m \in Nodes |-> "armed"] /\ path' = path /\ alt' = alt /\ pulled' = pulled
          /\ athread' = athread /\ async' = async
      BY <1>1, <2>2 DEF asyncVars
    <3>2. \A m \in Nodes : alt[m] # None /\ mig[m] # "migrated" /\ mig'[m] = "armed"
      BY <1>0, <2>2, <3>1 DEF PhaseOK
    <3>3. AsyncTyped' /\ PathTyped'
      BY <1>t, <3>1 DEF AsyncTyped, PathTyped
    <3>4. \A m \in Nodes : PrimaryPath(m)' = PrimaryPath(m)
      BY <1>3, StaticSame
    <3>5. MigOK'
      BY <1>0, <1>3, <3>1, <3>2, <3>4, NodesFacts DEF MigOK
    <3> QED
      BY <1>n, <3>1, <3>2, <3>3, <3>5
  <2>3. CASE ~Follows(n) /\ ~\A m \in Nodes : mig[m] \in {"rearm", "armed"}
    <3>1. mig' = mig /\ path' = path /\ alt' = alt /\ pulled' = pulled /\ UNCHANGED asyncVars
      BY <1>1, <2>3
    <3>2. AsyncTyped' /\ PathTyped'
      BY <1>t, <3>1 DEF AsyncTyped, PathTyped, asyncVars
    <3>3. MigOK'
      BY <1>0, <1>3, <3>1, MigSame DEF pathVars
    <3>4. alt[o] # None => mig[o] # "rearm"
      BY <1>0, <1>4, <1>n, <2>3 DEF MigOK
    <3> QED
      BY <1>0, <1>n, <3>1, <3>2, <3>3, <3>4 DEF PhaseOK, asyncVars
  <2> QED
    BY <2>1, <2>2, <2>3
<1>6. TypeOK'
  <2>1. CtxTyped' /\ MainTyped'
    BY <1>t, <1>3 DEF CtxTyped, MainTyped
  <2> QED
    BY <1>2, <1>5, <2>1 DEF TypeOK, CtxTyped, MainTyped, AsyncTyped, PathTyped, Msgs
<1>7. PhaseOK'
  BY <1>0, <1>2, <1>3, <1>5 DEF PhaseOK
<1>8. ThreadOK'
  BY <1>0, <1>3, <1>5, NodesFacts DEF ThreadOK
<1>9. /\ wire'[n] = Tail(wire[n]) /\ wire'[o] = wire[o]
      /\ recv_cq'[o] = Append(recv_cq[o], q) /\ recv_cq'[n] = recv_cq[n]
  BY <1>t, <1>2, <1>n DEF QpTypeOK
<1>10. QueueOK'
  BY <1>0, <1>2, <1>3, <1>4, <1>5, <1>9, <1>n DEF QueueOK
<1>11. \A m \in Nodes : /\ Takes(m)' = Takes(m) /\ Sends(m)' = Sends(m) /\ Taken(m)' = Taken(m)
                        /\ Left(m)' = Left(m)
  BY <1>2, <1>3, <1>5, CountsSame
<1>12. Flow'
  <2>1. Flight(n)' = Flight(n) /\ Flight(o)' = Flight(o)
    BY <1>t, <1>1, DeliverFlight
  <2>2. Flight(n) + Takes(o) = Sends(n) /\ Flight(o) + Takes(n) = Sends(o)
    BY <1>0, <1>2, <1>n DEF Flow
  <2>3. Flight(n)' + Takes(o)' = Sends(n)' /\ Flight(o)' + Takes(n)' = Sends(o)'
    BY <1>11, <1>n, <2>1, <2>2
  <2> QED
    BY <1>n, <2>3 DEF Flow
<1>13. o = "client" => pc["client"] \in {"sending", "recv"} /\ ~Left("client")
  <2>1. o = "client" => pc["client"] \in {"sending", "recv"}
    <3> SUFFICES ASSUME o = "client", pc["client"] \notin {"sending", "recv"} PROVE FALSE
      OBVIOUS
    <3>1. wire[Other(o)] = <<>>
      BY <1>0, <1>2, <1>n, QuietWire
    <3> QED
      BY <1>2, <1>n, <3>1
  <2> QED
    BY <2>1 DEF Left
<1>14. StepOK'
  <2>1. \A m \in Nodes : NextMsg(m)' = NextMsg(m)
    BY <1>11 DEF NextMsg
  <2>2. wire[n] \in Seq({NextMsg(o)}) /\ recv_cq[o] \in Seq({NextMsg(o)})
        /\ wire[o] \in Seq({NextMsg(n)}) /\ recv_cq[n] \in Seq({NextMsg(n)})
    BY <1>0, <1>2, <1>n DEF StepOK
  <2>3. q \in {NextMsg(o)} /\ Tail(wire[n]) \in Seq({NextMsg(o)})
    <3>1. wire[n] \in Seq({NextMsg(o)}) /\ wire[n] # <<>>
      BY <1>2, <2>2
    <3> QED
      BY <3>1, HeadTailProperties
  <2>4. Append(recv_cq[o], q) \in Seq({NextMsg(o)})
    <3> HIDE DEF q
    <3> QED
      BY <2>2, <2>3, AppendProperties
  <2>5. /\ recv_cq'[o] \in Seq({NextMsg(o)'}) /\ wire'[n] \in Seq({NextMsg(o)'})
        /\ recv_cq'[n] \in Seq({NextMsg(n)'}) /\ wire'[o] \in Seq({NextMsg(n)'})
    BY <1>9, <1>n, <2>1, <2>2, <2>3, <2>4
  <2>6. pc'["client"] \in {"repost", "end"} \/ Left("client")' => recv_cq'["client"] = <<>>
    BY <1>0, <1>2, <1>3, <1>9, <1>11, <1>13, <1>n DEF StepOK
  <2> QED
    BY <1>n, <2>5, <2>6 DEF StepOK
<1>15. HeardOK'
  <2>1. CASE o = "client"
    <3>1. alt["client"] # None
      BY <1>0, <1>13, <1>n, <2>1 DEF PhaseOK, Loop
    <3>2. (\A m \in Nodes : alt[m] # None) /\ mig'["client"] # "rearm"
      BY <1>4, <1>5, <1>n, <2>1, <3>1
    <3> QED
      BY <1>5, <3>2 DEF HeardOK
  <2>2. CASE n = "client"
    BY <1>0, <1>2, <1>5, <1>9, <1>11, <2>2, NodesFacts DEF HeardOK
  <2> QED
    BY <1>n, <2>1, <2>2
<1>16. ChosenOK'
  BY <1>0, <1>1, <1>5, ChosenSame
<1>17. DoneOK'
  BY <1>2 DEF DoneOK
<1> QED
  BY <1>5, <1>6, <1>7, <1>8, <1>10, <1>12, <1>14, <1>15, <1>16, <1>17 DEF ApmInv

-----------------------------------------------------------------------------
(* Setting up the connection.                                              *)

(* A step of main of n before the loop that loads no path.                 *)
LEMMA SetupStep ==
  ASSUME ApmInv, NEW n \in Nodes, pc[n] \in Early, NEW ph, pc' = [pc EXCEPT ![n] = ph],
         ph \in (IF n = "server" THEN {"accepting", "load", "out"} ELSE {"connecting", "load", "out"}),
         i' = i, UNCHANGED pathVars, cur_port' = cur_port, active' = active,
         ph = "out" => ret'[n] = -1, \A m \in Nodes : m # n => ret'[m] = ret[m],
         wire' = wire, qp_error' = qp_error, n \notin qp_error => recv_cq' = recv_cq,
         \A m \in Nodes : m # n => recv_cq'[m] = recv_cq[m],
         Survivable' => Survivable
  PROVE  /\ PhaseOK' /\ Flow' /\ StepOK' /\ MigOK' /\ HeardOK' /\ DoneOK'
         /\ pc'[n] = ph /\ pc'[Other(n)] = pc[Other(n)] /\ alt' = alt /\ ph \in Phases /\ alt[n] = None
<1> DEFINE o == Other(n)
<1>0. /\ TypeOK /\ PhaseOK /\ Flow /\ StepOK /\ MigOK /\ HeardOK /\ DoneOK
  BY DEF ApmInv
<1>n. o \in Nodes /\ o # n /\ Other(o) = n /\ (\A m \in Nodes : m = n \/ m = o)
      /\ ((n = "server" /\ o = "client") \/ (n = "client" /\ o = "server"))
  BY NodesFacts
<1>1. pc'[n] = ph /\ pc'[o] = pc[o]
  BY <1>0, <1>n DEF TypeOK
<1>2. path' = path /\ alt' = alt /\ mig' = mig /\ pulled' = pulled
  BY DEF pathVars
<1>3. ph \in Phases /\ alt[n] = None /\ ph \in {"connecting", "accepting", "load", "out"}
  BY <1>0 DEF Phases, PhaseOK
<1>4. PhaseOK'
  BY <1>0, <1>1, <1>2, <1>3, <1>n DEF PhaseOK, Early, Loop
<1>5. \A m \in Nodes : /\ Takes(m)' = Takes(m) /\ Sends(m)' = Sends(m) /\ Taken(m)' = Taken(m)
                       /\ Left(m)' = Left(m)
  <2>1. ~Left(n) /\ ~Left(n)'
    BY <1>2, <1>3 DEF Left
  <2>2. Taken(n)' = Taken(n)
    BY <1>1, <1>3 DEF Taken, Early
  <2>3. Sends(n)' = Sends(n)
    BY <1>1, <1>3, <2>1 DEF Sends, Early
  <2>4. /\ Takes(o)' = Takes(o) /\ Sends(o)' = Sends(o) /\ Taken(o)' = Taken(o)
        /\ Left(o)' = Left(o)
    BY <1>1, <1>2, <1>n, CountsSame
  <2>5. Takes(n)' = Takes(n)
    BY <2>1, <2>2 DEF Takes
  <2>6. Left(n)' = Left(n)
    BY <2>1 DEF Left
  <2> QED
    BY <1>n, <2>2, <2>3, <2>4, <2>5, <2>6
<1>6. Flow'
  <2> SUFFICES ASSUME qp_error = {}
               PROVE  \A m \in Nodes : Flight(m)' + Takes(Other(m))' = Sends(m)'
    BY DEF Flow
  <2>1. \A m \in Nodes : Flight(m)' = Flight(m)
    BY DEF Flight
  <2> QED
    BY <1>0, <1>5, <2>1, NodesFacts DEF Flow
<1>7. StepOK'
  <2>1. \A m \in Nodes : NextMsg(m)' = NextMsg(m)
    BY <1>5 DEF NextMsg
  <2>2. \A m \in Nodes \ qp_error : recv_cq'[m] = recv_cq[m]
    BY <1>n
  <2>3. ASSUME NEW m \in Nodes \ qp_error'
        PROVE  recv_cq'[m] \in Seq({NextMsg(m)'}) /\ wire'[Other(m)] \in Seq({NextMsg(m)'})
    BY <1>0, <2>1, <2>2 DEF StepOK
  <2>4. pc'["client"] \in {"repost", "end"} => pc["client"] \in {"repost", "end"}
    BY <1>1, <1>3, <1>n
  <2>5. "client" \notin qp_error' /\ (pc'["client"] \in {"repost", "end"} \/ Left("client")') =>
          recv_cq'["client"] = <<>>
    BY <1>0, <1>5, <2>2, <2>4, NodesFacts DEF StepOK
  <2> QED
    BY <2>3, <2>5 DEF StepOK
<1>8. HeardOK'
  <2>1. "client" \notin qp_error => recv_cq'["client"] = recv_cq["client"]
    BY <1>n
  <2> QED
    BY <1>0, <1>2, <1>5, <2>1, NodesFacts DEF HeardOK
<1>9. MigOK'
  BY <1>0, MigSame
<1>10. DoneOK'
  <2> SUFFICES ASSUME Survivable
               PROVE  /\ \A m \in qp_error : pc'[m] \in {"out", "done"}
                      /\ qp_error # {} => \A m \in Nodes : Sends(m)' = msg_count /\ wire'[m] = <<>>
    BY DEF DoneOK
  <2>1. n \notin qp_error /\ qp_error \subseteq Nodes
    BY <1>0, QueuesTyped DEF DoneOK, QpTypeOK, Early
  <2> QED
    BY <1>0, <1>1, <1>5, <1>n, <2>1 DEF DoneOK
<1> QED
  BY <1>1, <1>2, <1>3, <1>4, <1>6, <1>7, <1>8, <1>9, <1>10

(* A side posts its first receive and starts its thread for events.        *)
LEMMA FirstReceive ==
  ASSUME ApmInv, NEW n \in Nodes, pc[n] \in {"start", "listening"}, PostRecv(n), StartThread(n),
         NEW ph, ph # "repost", pc' = [pc EXCEPT ![n] = ph], alt' = alt
  PROVE  /\ QpTypeOK(Msgs)' /\ AsyncTyped' /\ QueueOK'
         /\ athread[n] = "none" /\ athread'[n] = "get" /\ \A m \in Nodes : m # n => athread'[m] = athread[m]
         /\ wire' = wire /\ qp_error' = qp_error /\ (n \notin qp_error => recv_cq' = recv_cq)
         /\ \A m \in Nodes : m # n => recv_cq'[m] = recv_cq[m]
<1>0. TypeOK /\ ThreadOK /\ QueueOK
  BY DEF ApmInv
<1>t. MainTyped /\ AsyncTyped /\ QpTypeOK(Msgs)
  BY <1>0, TypeParts
<1>1. athread[n] = "none" /\ pc[n] # "repost" /\ RecvsOf(n) = 0
  BY <1>0 DEF ThreadOK, QueueOK
<1>2. /\ QpTypeOK(Msgs)' /\ RecvsOf(n)' = 1
      /\ \A m \in Nodes : m # n => RecvsOf(m)' = RecvsOf(m)
      /\ n \notin qp_error => recv_cq' = recv_cq
      /\ n \in qp_error => recvs' = recvs
      /\ wire' = wire /\ qp_error' = qp_error
  BY <1>t, <1>1, PostRecvFacts
<1>3. \A m \in Nodes : m # n => recv_cq'[m] = recv_cq[m] /\ recvs'[m] = recvs[m]
  BY <1>t DEF PostRecv, QpTypeOK
<1>4. athread' = [athread EXCEPT ![n] = "get"] /\ async' = async
  BY DEF StartThread
<1>5. AsyncTyped' /\ athread'[n] = "get" /\ \A m \in Nodes : m # n => athread'[m] = athread[m]
  BY <1>t, <1>4 DEF AsyncTyped
<1>6. pc'[n] = ph /\ \A m \in Nodes : m # n => pc'[m] = pc[m]
  BY <1>t DEF MainTyped
<1>7. QueueOK'
  BY <1>0, <1>2, <1>3, <1>5, <1>6 DEF QueueOK
<1> QED
  BY <1>1, <1>2, <1>3, <1>5, <1>7

LEMMA ClientConnectStep ==
  ASSUME ApmInv, ClientConnect
  PROVE  ApmInv'
<1>0. TypeOK /\ PhaseOK /\ ThreadOK /\ ChosenOK
  BY DEF ApmInv
<1>n. "client" \in Nodes /\ "server" \in Nodes /\ "client" # "server" /\ Other("client") = "server"
      /\ \A m \in Nodes : m = "client" \/ m = "server"
  BY NodesFacts
<1>t. CtxTyped /\ MainTyped /\ AsyncTyped /\ PathTyped
  BY <1>0, TypeParts
<1>1. /\ pc["client"] = "start" /\ pc' = [pc EXCEPT !["client"] = "connecting"]
      /\ GetAltPortDetails("client", alt_dlid["client"])
      /\ StartThread("client") /\ PostRecv("client") /\ UNCHANGED pathVars
      /\ cur_port' = cur_port /\ active' = active /\ given' = given
      /\ migrate_after' = migrate_after /\ alt_dlid' = alt_dlid /\ i' = i /\ ret' = ret
  BY DEF ClientConnect, Goto
<1>2. path' = path /\ alt' = alt /\ mig' = mig /\ pulled' = pulled
  BY <1>1 DEF pathVars
<1>3. /\ QpTypeOK(Msgs)' /\ AsyncTyped' /\ QueueOK'
      /\ athread["client"] = "none" /\ athread'["client"] = "get" /\ athread'["server"] = athread["server"]
      /\ wire' = wire /\ qp_error' = qp_error /\ ("client" \notin qp_error => recv_cq' = recv_cq)
      /\ \A m \in Nodes : m # "client" => recv_cq'[m] = recv_cq[m]
  BY <1>1, <1>2, <1>n, FirstReceive
<1>4. Survivable' => Survivable
  BY <1>1, <1>2 DEF Survivable
<1>5. /\ PhaseOK' /\ Flow' /\ StepOK' /\ MigOK' /\ HeardOK' /\ DoneOK'
      /\ pc'["client"] = "connecting" /\ pc'["server"] = pc["server"] /\ alt["client"] = None
  BY <1>1, <1>3, <1>4, <1>n, SetupStep DEF Early
<1>6. AltPort("client") \in Ports
  BY <1>0, <1>n, AltPortFacts
<1>7. CtxTyped'
  <2>1. Lid("client", AltPort("client")) \in AllLids
    BY <1>6, <1>n, LidFacts
  <2>2. /\ alt_srcport' \in [Nodes -> Ports \cup {0}]
        /\ my_alt_dlid' \in [Nodes -> AllLids \cup {NoLid}]
    BY <1>t, <1>1, <1>6, <2>1 DEF GetAltPortDetails, CtxTyped
  <2> QED
    BY <1>t, <1>1, <2>2 DEF CtxTyped
<1>8. TypeOK'
  <2>1. MainTyped' /\ PathTyped'
    BY <1>t, <1>1, <1>2 DEF MainTyped, PathTyped, Phases
  <2> QED
    BY <1>3, <1>7, <2>1 DEF TypeOK, CtxTyped, MainTyped, AsyncTyped, PathTyped, Msgs
<1>9. ThreadOK'
  BY <1>0, <1>2, <1>3, <1>5, <1>n DEF ThreadOK
<1>10. ChosenOK'
  <2> SUFFICES ASSUME given = {}
               PROVE  ChosenOK'
    BY <1>1 DEF ChosenOK
  <2>1. PathUnset("client", alt_dlid["client"])
    BY <1>0, <1>3 DEF ChosenOK, PathUnset
  <2>2. /\ alt_srcport'["client"] = AltPort("client") /\ alt_srcport'["server"] = alt_srcport["server"]
        /\ my_alt_dlid'["client"] = Lid("client", AltPort("client"))
    BY <1>t, <1>1, <1>n, <2>1 DEF GetAltPortDetails, CtxTyped
  <2>3. AltPort("client")' = AltPort("client") /\ \A m \in Nodes : AltOf(m)' = AltOf(m)
    BY <1>1, <1>n, StaticSame
  <2> QED
    BY <1>0, <1>1, <1>2, <1>3, <2>2, <2>3 DEF ChosenOK
<1> QED
  BY <1>3, <1>5, <1>8, <1>9, <1>10 DEF ApmInv

LEMMA AcceptConnectionStep ==
  ASSUME ApmInv, AcceptConnection
  PROVE  ApmInv'
<1> DEFINE dl == DlidFromPeer("server")
<1>0. TypeOK /\ PhaseOK /\ ThreadOK /\ ChosenOK
  BY DEF ApmInv
<1>n. "client" \in Nodes /\ "server" \in Nodes /\ "client" # "server" /\ Other("server") = "client"
      /\ \A m \in Nodes : m = "client" \/ m = "server"
  BY NodesFacts
<1>t. CtxTyped /\ MainTyped /\ AsyncTyped /\ PathTyped
  BY <1>0, TypeParts
<1>1. /\ pc["server"] = "listening" /\ pc["client"] = "connecting"
      /\ pc' = [pc EXCEPT !["server"] = "accepting"]
      /\ alt_dlid' = [alt_dlid EXCEPT !["server"] = dl] /\ GetAltPortDetails("server", dl)
      /\ StartThread("server") /\ PostRecv("server") /\ UNCHANGED pathVars
      /\ cur_port' = cur_port /\ active' = active /\ given' = given
      /\ migrate_after' = migrate_after /\ i' = i /\ ret' = ret
  BY DEF AcceptConnection, Goto
<1>2. path' = path /\ alt' = alt /\ mig' = mig /\ pulled' = pulled
  BY <1>1 DEF pathVars
<1>3. /\ QpTypeOK(Msgs)' /\ AsyncTyped' /\ QueueOK'
      /\ athread["server"] = "none" /\ athread'["server"] = "get" /\ athread'["client"] = athread["client"]
      /\ wire' = wire /\ qp_error' = qp_error /\ ("server" \notin qp_error => recv_cq' = recv_cq)
      /\ \A m \in Nodes : m # "server" => recv_cq'[m] = recv_cq[m]
  BY <1>1, <1>2, <1>n, FirstReceive
<1>4. Survivable' => Survivable
  BY <1>1, <1>2 DEF Survivable
<1>5. /\ PhaseOK' /\ Flow' /\ StepOK' /\ MigOK' /\ HeardOK' /\ DoneOK'
      /\ pc'["server"] = "accepting" /\ pc'["client"] = pc["client"] /\ alt["server"] = None
  BY <1>1, <1>3, <1>4, <1>n, SetupStep DEF Early
<1>6. AltPort("server") \in Ports /\ AltPort("client") \in Ports
  BY <1>0, <1>n, AltPortFacts
<1>7. CtxTyped'
  <2>1. Lid("server", AltPort("server")) \in AllLids
    BY <1>6, <1>n, LidFacts
  <2>2. dl \in AllLids \cup {NoLid}
    BY <1>t, <1>n DEF DlidFromPeer, CtxTyped
  <2>3. /\ alt_srcport' \in [Nodes -> Ports \cup {0}]
        /\ my_alt_dlid' \in [Nodes -> AllLids \cup {NoLid}]
    BY <1>t, <1>1, <1>6, <2>1 DEF GetAltPortDetails, CtxTyped
  <2> HIDE DEF dl
  <2>4. alt_dlid' \in [Nodes -> AllLids \cup {NoLid}]
    BY <1>t, <1>1, <2>2 DEF CtxTyped
  <2> QED
    BY <1>t, <1>1, <2>3, <2>4 DEF CtxTyped
<1>8. TypeOK'
  <2>1. MainTyped' /\ PathTyped'
    BY <1>t, <1>1, <1>2 DEF MainTyped, PathTyped, Phases
  <2> QED
    BY <1>3, <1>7, <2>1 DEF TypeOK, CtxTyped, MainTyped, AsyncTyped, PathTyped, Msgs
<1>9. athread["client"] # "none"
  BY <1>0, <1>1 DEF ThreadOK
<1>10. ThreadOK'
  BY <1>0, <1>1, <1>2, <1>3, <1>5, <1>9, <1>n DEF ThreadOK
<1>11. ChosenOK'
  <2> SUFFICES ASSUME given = {}
               PROVE  ChosenOK'
    BY <1>1 DEF ChosenOK
  <2>1. PathUnset("server", alt_dlid["server"]) /\ my_alt_dlid["client"] = Lid("client", AltPort("client"))
    BY <1>0, <1>3, <1>9 DEF ChosenOK, PathUnset
  <2>2. dl = Lid("client", AltPort("client"))
    BY <1>n, <2>1 DEF DlidFromPeer
  <2>3. dl # NoLid
    BY <1>n, <2>2, LidFacts
  <2>4. alt_srcport' = alt_srcport /\ my_alt_dlid' = my_alt_dlid
    <3>1. ~PathUnset("server", dl)
      BY <2>3 DEF PathUnset
    <3> QED
      BY <1>1, <3>1 DEF GetAltPortDetails
  <2>5. alt_dlid'["server"] = dl /\ alt_dlid'["client"] = alt_dlid["client"]
    BY <1>t, <1>1, <1>n DEF CtxTyped
  <2>6. AltPort("client")' = AltPort("client") /\ \A m \in Nodes : AltOf(m)' = AltOf(m)
    BY <1>1, <1>n, StaticSame
  <2> HIDE DEF dl
  <2> QED
    BY <1>0, <1>1, <1>2, <1>3, <1>9, <2>2, <2>4, <2>5, <2>6 DEF ChosenOK
<1> QED
  BY <1>3, <1>5, <1>8, <1>10, <1>11 DEF ApmInv

(* Steps before the loop that change nothing but where main is, its        *)
(* result, and perhaps the destination.                                    *)
LEMMA WaitStep ==
  ASSUME ApmInv, NEW n \in Nodes, pc[n] \in Early, NEW ph, pc' = [pc EXCEPT ![n] = ph],
         ph \in {"load", "out"}, ph = "load" => athread["server"] # "none",
         i' = i, ret' = ret \/ (ph = "out" /\ ret' = [ret EXCEPT ![n] = -1]),
         ph = "out" => ret' # ret \/ ret[n] = -1,
         UNCHANGED <<cur_port, active, given, migrate_after, alt_srcport, my_alt_dlid>>,
         alt_dlid' = alt_dlid
           \/ /\ alt_dlid' \in [Nodes -> AllLids \cup {NoLid}]
              /\ given = {} => alt_dlid' = alt_dlid,
         UNCHANGED <<asyncVars, pathVars, qpVars>>
  PROVE  ApmInv'
<1> DEFINE o == Other(n)
<1>0. TypeOK /\ PhaseOK /\ ThreadOK /\ QueueOK /\ ChosenOK
  BY DEF ApmInv
<1>n. o \in Nodes /\ o # n /\ Other(o) = n /\ (\A m \in Nodes : m = n \/ m = o)
      /\ ((n = "server" /\ o = "client") \/ (n = "client" /\ o = "server"))
  BY NodesFacts
<1>t. CtxTyped /\ MainTyped /\ AsyncTyped /\ PathTyped /\ QpTypeOK(Msgs)
  BY <1>0, TypeParts
<1>1. /\ cur_port' = cur_port /\ active' = active /\ given' = given
      /\ migrate_after' = migrate_after /\ alt_srcport' = alt_srcport /\ my_alt_dlid' = my_alt_dlid
      /\ path' = path /\ alt' = alt /\ mig' = mig /\ pulled' = pulled
      /\ async' = async /\ athread' = athread
      /\ wire' = wire /\ recvs' = recvs /\ recv_cq' = recv_cq /\ send_cq' = send_cq
      /\ qp_error' = qp_error /\ UNCHANGED pathVars
  BY DEF pathVars, asyncVars, qpVars
<1>2. /\ ph = "out" => ret'[n] = -1
      /\ \A m \in Nodes : m # n => ret'[m] = ret[m]
      /\ MainTyped'
  <2>1. ret \in [Nodes -> {0, -1}] /\ pc \in [Nodes -> Phases] /\ i \in [Nodes -> 0 .. msg_count]
    BY <1>t DEF MainTyped
  <2>2. ph \in Phases
    BY DEF Phases
  <2>3. CASE ret' = ret
    BY <2>1, <2>2, <2>3 DEF MainTyped
  <2>4. CASE ret' = [ret EXCEPT ![n] = -1]
    BY <2>1, <2>2, <2>4 DEF MainTyped
  <2> QED
    BY <2>3, <2>4
<1>3. Survivable' => Survivable
  <2>1. (\A m \in Nodes : ret'[m] = 0) => ret' = ret
    <3>1. ret' # ret => ret' = [ret EXCEPT ![n] = -1]
      OBVIOUS
    <3>2. ret \in [Nodes -> {0, -1}]
      BY <1>t DEF MainTyped
    <3>3. ret' # ret => ret'[n] = -1
      BY <3>1, <3>2
    <3> QED
      BY <3>3
  <2> QED
    BY <1>1, <2>1 DEF Survivable
<1>4. ph \in (IF n = "server" THEN {"accepting", "load", "out"} ELSE {"connecting", "load", "out"})
  OBVIOUS
<1>5. /\ PhaseOK' /\ Flow' /\ StepOK' /\ MigOK' /\ HeardOK' /\ DoneOK'
      /\ pc'[n] = ph /\ pc'[o] = pc[o] /\ alt[n] = None
  BY <1>1, <1>2, <1>3, <1>4, SetupStep
<1>6. TypeOK'
  <2>1. CtxTyped'
    BY <1>t, <1>1 DEF CtxTyped
  <2>2. AsyncTyped' /\ PathTyped' /\ QpTypeOK(Msgs)'
    BY <1>t, <1>1 DEF AsyncTyped, PathTyped, QpTypeOK
  <2> QED
    BY <1>2, <2>1, <2>2 DEF TypeOK, CtxTyped, MainTyped, AsyncTyped, PathTyped, Msgs
<1>7. ThreadOK'
  BY <1>0, <1>1, <1>5, <1>n DEF ThreadOK
<1>8. QueueOK'
  <2>1. \A m \in Nodes : RecvsOf(m)' = RecvsOf(m)
    BY <1>1 DEF RecvsOf
  <2>2. pc[n] # "repost" /\ ph # "repost"
    BY DEF Early
  <2> QED
    BY <1>0, <1>1, <1>5, <1>n, <2>1, <2>2 DEF QueueOK
<1>9. ChosenOK'
  <2>1. AltPort("client")' = AltPort("client") /\ \A m \in Nodes : AltOf(m)' = AltOf(m)
    BY <1>1, NodesFacts, StaticSame
  <2>2. given = {} => alt_dlid' = alt_dlid
    OBVIOUS
  <2> QED
    BY <1>0, <1>1, <2>1, <2>2 DEF ChosenOK
<1> QED
  BY <1>5, <1>6, <1>7, <1>8, <1>9 DEF ApmInv

LEMMA ConnectReturnsStep ==
  ASSUME ApmInv, ConnectReturns
  PROVE  ApmInv'
<1>0. TypeOK /\ PhaseOK /\ ThreadOK /\ ChosenOK
  BY DEF ApmInv
<1>n. "client" \in Nodes /\ "server" \in Nodes /\ Other("client") = "server"
  BY NodesFacts
<1>t. CtxTyped
  BY <1>0, TypeParts
<1>1. /\ pc["client"] = "connecting" /\ pc["server"] = "accepting"
      /\ pc' = [pc EXCEPT !["client"] = "load"]
      /\ alt_dlid' = [alt_dlid EXCEPT !["client"] = DlidFromPeer("client")]
      /\ UNCHANGED <<cur_port, active, given, migrate_after, alt_srcport, my_alt_dlid>>
      /\ UNCHANGED <<asyncVars, pathVars, qpVars>> /\ i' = i /\ ret' = ret
  BY DEF ConnectReturns, Goto
<1>2. DlidFromPeer("client") \in AllLids \cup {NoLid}
  BY <1>t, <1>n DEF DlidFromPeer, CtxTyped
<1>3. alt_dlid' \in [Nodes -> AllLids \cup {NoLid}]
  BY <1>t, <1>1, <1>2 DEF CtxTyped
<1>4. given = {} => alt_dlid' = alt_dlid
  <2> SUFFICES ASSUME given = {} PROVE alt_dlid' = alt_dlid
    OBVIOUS
  <2>1. alt_srcport["client"] = AltPort("client") /\ AltPort("client") # 0
    BY <1>0, <1>1, <1>n, AltPortFacts DEF ChosenOK, ThreadOK
  <2>2. DlidFromPeer("client") = alt_dlid["client"]
    BY <2>1 DEF DlidFromPeer, PathUnset
  <2> QED
    BY <1>t, <1>1, <1>n, <2>2 DEF CtxTyped
<1>5. athread["server"] # "none"
  BY <1>0, <1>1 DEF ThreadOK
<1> QED
  BY <1>1, <1>3, <1>4, <1>5, <1>n, WaitStep DEF Early

LEMMA AcceptReturnsStep ==
  ASSUME ApmInv, AcceptReturns
  PROVE  ApmInv'
<1>1. /\ pc["server"] = "accepting" /\ pc' = [pc EXCEPT !["server"] = "load"]
      /\ UNCHANGED <<cur_port, active, given, migrate_after, alt_srcport, my_alt_dlid>>
      /\ alt_dlid' = alt_dlid
      /\ UNCHANGED <<asyncVars, pathVars, qpVars>> /\ i' = i /\ ret' = ret
  BY DEF AcceptReturns, Goto, ctxVars
<1>2. athread["server"] # "none"
  BY <1>1 DEF ApmInv, ThreadOK
<1> QED
  BY <1>1, <1>2, WaitStep, NodesFacts DEF Early

LEMMA FailsStep ==
  ASSUME ApmInv, NEW n \in Nodes, pc[n] \in Early, Fails(n),
         UNCHANGED <<ctxVars, i, asyncVars, pathVars, qpVars>>
  PROVE  ApmInv'
<1>1. /\ pc' = [pc EXCEPT ![n] = "out"] /\ ret' = [ret EXCEPT ![n] = -1]
      /\ UNCHANGED <<cur_port, active, given, migrate_after, alt_srcport, my_alt_dlid>>
      /\ alt_dlid' = alt_dlid
      /\ UNCHANGED <<asyncVars, pathVars, qpVars>> /\ i' = i
  BY DEF Fails, Goto, ctxVars
<1>2. ret'[n] = -1
  BY <1>1 DEF ApmInv, TypeOK
<1>3. ret' # ret \/ ret[n] = -1
  BY <1>2
<1> QED
  BY <1>1, <1>3, WaitStep

LEMMA LoadAltPathStep ==
  ASSUME ApmInv, NEW n \in Nodes, LoadAltPath(n)
  PROVE  ApmInv'
<1> DEFINE o == Other(n)
           ph == LoopHead(n, 0)
           lp == LoadedPath(n)
<1>0. /\ TypeOK /\ PhaseOK /\ ThreadOK /\ QueueOK /\ Flow /\ StepOK /\ MigOK /\ HeardOK /\ ChosenOK
      /\ DoneOK
  BY DEF ApmInv
<1>n. o \in Nodes /\ o # n /\ Other(o) = n /\ (\A m \in Nodes : m = n \/ m = o)
      /\ ((n = "server" /\ o = "client") \/ (n = "client" /\ o = "server"))
  BY NodesFacts
<1>t. CtxTyped /\ MainTyped /\ AsyncTyped /\ PathTyped /\ QpTypeOK(Msgs)
  BY <1>0, TypeParts
<1>1. /\ pc[n] = "load" /\ pc' = [pc EXCEPT ![n] = ph]
      /\ alt' = [alt EXCEPT ![n] = lp] /\ mig' = [mig EXCEPT ![n] = "rearm"]
      /\ cur_port' = cur_port /\ active' = active /\ given' = given /\ migrate_after' = migrate_after
      /\ alt_srcport' = alt_srcport /\ alt_dlid' = alt_dlid /\ my_alt_dlid' = my_alt_dlid
      /\ i' = i /\ ret' = ret /\ async' = async /\ athread' = athread
      /\ path' = path /\ pulled' = pulled
      /\ wire' = wire /\ recvs' = recvs /\ recv_cq' = recv_cq /\ send_cq' = send_cq
      /\ qp_error' = qp_error
  BY DEF LoadAltPath, Goto, ctxVars, asyncVars, qpVars
<1>2. alt[n] = None /\ i[n] = 0 /\ mig[n] = "migrated" /\ msg_count \in Nat
  BY <1>0, <1>1, CountTyped DEF PhaseOK, Early
<1>3. /\ \/ 0 < msg_count /\ ph = FirstPhase(n)
         \/ msg_count = 0 /\ ph = "disconnect"
      /\ ph \in {"recv", "send", "disconnect"} /\ ph \in Phases
  BY <1>2 DEF LoopHead, FirstPhase, Phases
<1>4. lp \in Path /\ lp # None
  <2>1. path[n] \in Path /\ path[n].port \in Ports /\ path[n].dlid \in AllLids
    BY <1>t DEF PathTyped, Path
  <2>2. alt_srcport[n] \in Ports \cup {0} /\ alt_dlid[n] \in AllLids \cup {NoLid}
    BY <1>t DEF CtxTyped
  <2> DEFINE p == IF alt_srcport[n] # 0 THEN alt_srcport[n] ELSE path[n].port
             d == IF alt_dlid[n] # NoLid THEN alt_dlid[n] ELSE path[n].dlid
  <2>3. lp \in Path
    <3>1. p \in Ports
      BY <2>1, <2>2
    <3>2. d \in AllLids
      <4>1. CASE alt_dlid[n] = NoLid
        BY <2>1, <4>1
      <4>2. CASE alt_dlid[n] # NoLid
        BY <2>2, <4>2, Zenon
      <4> QED
        BY <4>1, <4>2
    <3>3. lp = [port |-> p, dlid |-> d]
      BY DEF LoadedPath
    <3> HIDE DEF p, d, lp
    <3> QED
      BY <3>1, <3>2, <3>3 DEF Path
  <2> QED
    BY <2>3, PathFacts
<1> HIDE DEF ph, lp
<1>5. /\ pc'[n] = ph /\ pc'[o] = pc[o] /\ alt'[n] = lp /\ alt'[o] = alt[o]
      /\ mig'[n] = "rearm" /\ mig'[o] = mig[o]
  BY <1>t, <1>1, <1>n DEF MainTyped, PathTyped
<1>6. TypeOK'
  <2>1. MainTyped' /\ PathTyped'
    BY <1>t, <1>1, <1>3, <1>4 DEF MainTyped, PathTyped
  <2>2. CtxTyped' /\ AsyncTyped' /\ QpTypeOK(Msgs)'
    BY <1>t, <1>1 DEF CtxTyped, AsyncTyped, QpTypeOK
  <2> QED
    BY <2>1, <2>2 DEF TypeOK, CtxTyped, MainTyped, AsyncTyped, PathTyped, Msgs
<1>7. PhaseOK'
  <2>1. \/ i[n] < msg_count /\ ph \in {"recv", "send"}
        \/ i[n] = msg_count /\ ph = "disconnect"
    BY <1>2, <1>3 DEF FirstPhase
  <2> QED
    BY <1>0, <1>1, <1>3, <1>4, <1>5, <1>n, <2>1 DEF PhaseOK, Early, Loop
<1>8. ThreadOK'
  BY <1>0, <1>1, <1>3, <1>5, <1>n DEF ThreadOK
<1>9. QueueOK'
  <2>1. \A m \in Nodes : RecvsOf(m)' = RecvsOf(m)
    BY <1>1 DEF RecvsOf
  <2> QED
    BY <1>0, <1>1, <1>3, <1>4, <1>5, <1>n, <2>1 DEF QueueOK
<1>10. \A m \in Nodes : /\ Takes(m)' = Takes(m) /\ Sends(m)' = Sends(m) /\ Taken(m)' = Taken(m)
                        /\ Left(m)' = Left(m)
  <2>1. ~Left(n) /\ ~Left(n)'
    BY <1>1, <1>3, <1>5 DEF Left
  <2>2. Taken(n)' = Taken(n) /\ Sends(n)' = Sends(n)
    <3>1. /\ ph # "recv" \/ n = "server"
          /\ ph # "send" \/ n = "client"
      BY <1>3, <1>n DEF FirstPhase
    <3>2. Taken(n)' = Taken(n)
      BY <1>1, <1>3, <1>5, <1>n, <3>1 DEF Taken
    <3>3. Sends(n)' = Sends(n)
      BY <1>1, <1>3, <1>5, <1>n, <2>1, <3>1 DEF Sends
    <3> QED
      BY <3>2, <3>3
  <2>3. /\ Takes(o)' = Takes(o) /\ Sends(o)' = Sends(o) /\ Taken(o)' = Taken(o)
        /\ Left(o)' = Left(o)
    BY <1>1, <1>5, <1>n, CountsSame
  <2>4. Takes(n)' = Takes(n)
    BY <2>1, <2>2 DEF Takes
  <2>5. Left(n)' = Left(n)
    BY <2>1 DEF Left
  <2> QED
    BY <1>n, <2>2, <2>3, <2>4, <2>5
<1>11. Flow' /\ StepOK'
  <2>1. pc'["client"] \in {"repost", "end"} => pc["client"] \in {"repost", "end"}
    BY <1>3, <1>5, <1>n
  <2>2. Left("client")' => Left("client")
    BY <1>10, NodesFacts
  <2> QED
    BY <1>0, <1>1, <1>10, <2>1, <2>2, FlowSame
<1>12. \A m \in Nodes : PrimaryPath(m)' = PrimaryPath(m)
  BY <1>1, StaticSame
<1>13. pulled = None
  BY <1>0, <1>2 DEF MigOK
<1>14. path[n] = PrimaryPath(n)
  BY <1>0, <1>2 DEF MigOK
<1>15. MigOK'
  <2>1. alt[o] # None => mig[o] = "rearm"
    BY <1>0, <1>2, <1>n DEF MigOK
  <2>2. path[o] = (IF mig[o] = "migrated" /\ alt[o] # None THEN alt[o] ELSE PrimaryPath(o))
    BY <1>0, <1>n DEF MigOK
  <2> QED
    BY <1>1, <1>4, <1>5, <1>12, <1>13, <1>14, <1>n, <2>1, <2>2 DEF MigOK
<1>16. HeardOK'
  <2>1. ~("client" \notin qp_error /\ (recv_cq["client"] # <<>> \/ Takes("client") >= 1))
    BY <1>0, <1>2 DEF HeardOK
  <2> QED
    BY <1>1, <1>10, <2>1, NodesFacts DEF HeardOK
<1>17. ChosenOK'
  <2> SUFFICES ASSUME given = {} PROVE ChosenOK'
    BY <1>1 DEF ChosenOK
  <2>1. AltPort("client")' = AltPort("client") /\ \A m \in Nodes : AltOf(m)' = AltOf(m)
    BY <1>1, NodesFacts, StaticSame
  <2>2. lp = AltOf(n)
    <3>1. athread["server"] # "none" /\ athread["client"] # "none"
      BY <1>0, <1>1 DEF ThreadOK
    <3>2. CASE n = "server"
      <4>1. alt_srcport[n] = 0 /\ alt_dlid[n] = Lid("client", AltPort("client"))
        BY <1>0, <3>1, <3>2 DEF ChosenOK
      <4>2. alt_dlid[n] # NoLid
        BY <4>1, LidFacts, NodesFacts
      <4> QED
        BY <1>14, <3>2, <4>1, <4>2 DEF lp, LoadedPath, AltOf, PrimaryPath
    <3>3. CASE n = "client"
      <4>1. alt_srcport[n] = AltPort("client") /\ alt_dlid[n] = NoLid /\ AltPort("client") # 0
        BY <1>0, <3>1, <3>3, NodesFacts, AltPortFacts DEF ChosenOK
      <4> QED
        BY <1>14, <1>n, <3>3, <4>1 DEF lp, LoadedPath, AltOf, PrimaryPath
    <3> QED
      BY <1>n, <3>2, <3>3
  <2> QED
    BY <1>0, <1>1, <1>5, <1>n, <2>1, <2>2 DEF ChosenOK
<1>18. DoneOK'
  <2>1. Survivable' <=> Survivable
    BY <1>1 DEF Survivable
  <2>2. Survivable => n \notin qp_error
    BY <1>0, <1>1 DEF DoneOK
  <2>3. qp_error \subseteq Nodes
    BY <1>t DEF QpTypeOK
  <2> QED
    BY <1>0, <1>1, <1>5, <1>10, <1>n, <2>1, <2>2, <2>3 DEF DoneOK
<1> QED
  BY <1>6, <1>7, <1>8, <1>9, <1>11, <1>15, <1>16, <1>17, <1>18 DEF ApmInv

-----------------------------------------------------------------------------
(* The theorems.                                                           *)

LEMMA Initially == Init => ApmInv
<1> SUFFICES ASSUME Init PROVE ApmInv
  OBVIOUS
<1>1. /\ active \in [Nodes -> SUBSET Ports] /\ cur_port \in [Nodes -> Ports]
      /\ \A n \in Nodes : cur_port[n] \in active[n]
      /\ given \in SUBSET Nodes /\ migrate_after \in MigrateAfter
      /\ alt_srcport \in [Nodes -> Ports \cup {0}] /\ \A n \in Nodes : alt_srcport[n] # 0 <=> n \in given
      /\ alt_dlid \in [Nodes -> AllLids \cup {NoLid}]
      /\ \A n \in Nodes : n \notin given => alt_dlid[n] = NoLid
      /\ my_alt_dlid = [n \in Nodes |-> NoLid]
      /\ pc = [n \in Nodes |-> IF n = "server" THEN "listening" ELSE "start"]
      /\ i = [n \in Nodes |-> 0] /\ ret = [n \in Nodes |-> 0]
      /\ async = [n \in Nodes |-> 0] /\ athread = [n \in Nodes |-> "none"]
      /\ path = [n \in Nodes |-> PrimaryPath(n)] /\ alt = [n \in Nodes |-> None]
      /\ mig = [n \in Nodes |-> "migrated"] /\ pulled = None /\ QpInit
  BY DEF Init
<1>2. /\ QpTypeOK(Msgs) /\ \A n \in Nodes : RecvsOf(n) = 0
  BY <1>1, InitialQp
<1>3. /\ wire = [n \in Nodes |-> <<>>] /\ recvs = [n \in Nodes |-> 0]
      /\ recv_cq = [n \in Nodes |-> <<>>] /\ qp_error = {}
  BY <1>1 DEF QpInit
<1>4. /\ pc["server"] = "listening" /\ pc["client"] = "start"
      /\ \A n \in Nodes : pc[n] \in {"listening", "start"} /\ i[n] = 0 /\ alt[n] = None
  BY <1>1, NodesFacts
<1>5. CtxTyped /\ MainTyped /\ AsyncTyped
  <2>1. CtxTyped
    <3>1. my_alt_dlid \in [Nodes -> AllLids \cup {NoLid}]
      BY <1>1
    <3> QED
      BY <1>1, <3>1 DEF CtxTyped
  <2>2. MainTyped
    BY <1>1, ApmAssumption DEF MainTyped, Phases
  <2> QED
    BY <1>1, <2>1, <2>2 DEF AsyncTyped
<1>6. PathTyped
  <2>1. \A n \in Nodes : PrimaryPath(n) \in Path
    <3> SUFFICES ASSUME NEW n \in Nodes PROVE PrimaryPath(n) \in Path
      OBVIOUS
    <3>1. cur_port[n] \in Ports /\ cur_port[Other(n)] \in Ports /\ Other(n) \in Nodes
      BY <1>1, NodesFacts
    <3>2. Lid(Other(n), cur_port[Other(n)]) \in AllLids
      BY <3>1, LidFacts
    <3> QED
      BY <3>1, <3>2 DEF PrimaryPath, Path
  <2> QED
    BY <1>1, <2>1 DEF PathTyped
<1>7. TypeOK
  BY <1>2, <1>5, <1>6 DEF TypeOK, CtxTyped, MainTyped, AsyncTyped, PathTyped, Msgs
<1>8. PhaseOK
  BY <1>1, <1>3, <1>4 DEF PhaseOK, Early, Loop
<1>9. ThreadOK
  BY <1>1, <1>4, NodesFacts DEF ThreadOK
<1>10. QueueOK
  BY <1>1, <1>2, <1>3 DEF QueueOK
<1>11. \A n \in Nodes : Taken(n) = 0 /\ Takes(n) = 0 /\ Sends(n) = 0 /\ ~Left(n)
  <2> SUFFICES ASSUME NEW n \in Nodes PROVE Taken(n) = 0 /\ Takes(n) = 0 /\ Sends(n) = 0 /\ ~Left(n)
    OBVIOUS
  <2>1. ~Left(n)
    BY <1>4 DEF Left
  <2>2. Taken(n) = 0
    BY <1>4 DEF Taken
  <2>3. Sends(n) = 0
    BY <1>4, <2>1 DEF Sends
  <2> QED
    BY <2>1, <2>2, <2>3 DEF Takes
<1>12. Flow
  <2>1. \A n \in Nodes : wire[n] = <<>> /\ recv_cq[Other(n)] = <<>> /\ Other(n) \in Nodes
    BY <1>3, NodesFacts
  <2>2. \A n \in Nodes : Flight(n) = 0
    <3>1. Len(<<>>) = 0
      OBVIOUS
    <3>2. \A n \in Nodes : Flight(n) = Len(<<>>) + Len(<<>>)
      BY <2>1 DEF Flight
    <3> QED
      BY <3>1, <3>2
  <2> QED
    BY <1>11, <2>1, <2>2 DEF Flow
<1>13. StepOK
  BY <1>3, NodesFacts, EmptySeq DEF StepOK
<1>14. MigOK
  BY <1>1, NodesFacts DEF MigOK
<1>15. HeardOK
  BY <1>3, <1>11, NodesFacts DEF HeardOK
<1>16. ChosenOK
  BY <1>1, <1>4, NodesFacts DEF ChosenOK
<1>17. DoneOK
  BY <1>3 DEF DoneOK
<1> QED
  BY <1>7, <1>8, <1>9, <1>10, <1>12, <1>13, <1>14, <1>15, <1>16, <1>17 DEF ApmInv

LEMMA MainSteps ==
  ASSUME ApmInv, NEW n \in Nodes, Main(n)
  PROVE  ApmInv'
<1>1. CASE ClientConnect
  BY <1>1, ClientConnectStep
<1>2. CASE ConnectReturns
  BY <1>2, ConnectReturnsStep
<1>3. CASE ConnectFails
  <2>1. /\ pc["client"] \in Early /\ Fails("client")
        /\ UNCHANGED <<ctxVars, i, asyncVars, pathVars, qpVars>>
    BY <1>3 DEF ConnectFails, Early
  <2> QED
    BY <2>1, FailsStep, NodesFacts
<1>4. CASE AcceptConnection
  BY <1>4, AcceptConnectionStep
<1>5. CASE AcceptReturns
  BY <1>5, AcceptReturnsStep
<1>6. CASE LoadAltPath(n)
  BY <1>6, LoadAltPathStep
<1>7. CASE GetRecv(n)
  BY <1>7, GetRecvStep
<1>8. CASE RepostRecv(n)
  BY <1>8, RepostRecvStep
<1>9. CASE SendMsg(n)
  BY <1>9, SendMsgStep
<1>10. CASE GetSend(n)
  BY <1>10, GetSendStep
<1>11. CASE EndIteration(n)
  BY <1>11, EndIterationStep
<1>12. CASE RdmaDisconnect(n)
  BY <1>12, RdmaDisconnectStep
<1>13. CASE Cleanup(n)
  BY <1>13, CleanupStep
<1> QED
  BY <1>1, <1>2, <1>3, <1>4, <1>5, <1>6, <1>7, <1>8, <1>9, <1>10, <1>11, <1>12, <1>13 DEF Main

LEMMA Inductive == ApmInv /\ [Next]_vars => ApmInv'
<1> SUFFICES ASSUME ApmInv, [Next]_vars PROVE ApmInv'
  OBVIOUS
<1>1. ASSUME NEW n \in Nodes, Main(n) PROVE ApmInv'
  BY <1>1, MainSteps
<1>2. ASSUME NEW n \in Nodes, SetupFails(n) PROVE ApmInv'
  <2>1. pc[n] \in Early /\ Fails(n) /\ UNCHANGED <<ctxVars, i, asyncVars, pathVars, qpVars>>
    BY <1>2 DEF SetupFails, Early
  <2> QED
    BY <2>1, FailsStep
<1>3. ASSUME NEW n \in Nodes, AsyncEventThread(n) PROVE ApmInv'
  BY <1>3, ThreadSteps
<1>4. ASSUME NEW n \in Nodes, Adapter(n) PROVE ApmInv'
  <2>1. CASE DeliverMsg(n)
    BY <2>1, DeliverMsgStep
  <2>2. CASE AutoMigrate(n)
    BY <2>2, AutoMigrateStep
  <2>3. CASE SendFails(n)
    BY <2>3, SendFailsStep
  <2> QED
    BY <1>4, <2>1, <2>2, <2>3 DEF Adapter
<1>5. ASSUME NEW n \in Nodes, PullCable(n) PROVE ApmInv'
  BY <1>5, PullCableStep
<1>6. ASSUME UNCHANGED vars PROVE ApmInv'
  <2>1. /\ UNCHANGED <<ctxVars, mainVars, qpVars>> /\ alt' = alt /\ athread' = athread /\ async' = async
        /\ path' = path /\ mig' = mig /\ pulled' = pulled /\ cur_port' = cur_port /\ active' = active
        /\ given' = given /\ ret' = ret /\ migrate_after' = migrate_after
    BY <1>6 DEF vars, ctxVars, mainVars, asyncVars, pathVars
  <2>2. AsyncTyped /\ PathTyped /\ MigOK
    BY TypeParts DEF ApmInv
  <2>3. AsyncTyped' /\ PathTyped'
    BY <2>1, <2>2 DEF AsyncTyped, PathTyped
  <2>4. MigOK'
    BY <2>1, <2>2, MigSame DEF pathVars
  <2>5. Survivable' => Survivable
    BY <2>1 DEF Survivable
  <2> QED
    BY <2>1, <2>3, <2>4, <2>5, QuietStep
<1> QED
  BY <1>1, <1>2, <1>3, <1>4, <1>5, <1>6 DEF Next, Over

(* The invariant that the properties below follow from.                    *)
THEOREM Invariance == Spec => []ApmInv
BY Initially, Inductive, PTL DEF Spec

(* Every variable has its type.                                            *)
THEOREM TypeCorrect == Spec => []TypeOK
<1>1. ApmInv => TypeOK
  BY DEF ApmInv
<1> QED
  BY <1>1, Invariance, PTL

(* The alternate paths that both sides chose themselves mirror each other, *)
(* and are other paths exactly if the client's host has a second port.     *)
THEOREM PathsMirror == Spec => []AlternatePaths
<1>1. ApmInv => AlternatePaths
  <2> SUFFICES ASSUME ApmInv, Chosen PROVE AlternatePaths
    BY DEF AlternatePaths
  <2>1. TypeOK /\ PhaseOK /\ ChosenOK
    BY DEF ApmInv
  <2>2. alt["client"] = AltOf("client") /\ alt["server"] = AltOf("server")
    BY <2>1, NodesFacts DEF Chosen, ChosenOK
  <2>3. Mirrors("client", alt["client"], alt["server"])
    BY <2>2, NodesFacts DEF Mirrors, AltOf
  <2>4. AltPort("client") = cur_port["client"] <=> active["client"] = {cur_port["client"]}
    BY <2>1, NodesFacts, AltPortFacts
  <2>5. alt["client"] # PrimaryPath("client") <=> active["client"] # {cur_port["client"]}
    <3>1. alt["client"] = PrimaryPath("client") <=> AltPort("client") = cur_port["client"]
      BY <2>2, NodesFacts DEF AltOf, PrimaryPath
    <3> QED
      BY <2>4, <3>1
  <2>6. alt["server"] # PrimaryPath("server") <=> active["client"] # {cur_port["client"]}
    <3>1. Lid("client", AltPort("client")) = Lid("client", cur_port["client"])
            <=> AltPort("client") = cur_port["client"]
      BY LidFacts
    <3>2. alt["server"] = PrimaryPath("server") <=> AltPort("client") = cur_port["client"]
      BY <2>2, <3>1, NodesFacts DEF AltOf, PrimaryPath
    <3> QED
      BY <2>4, <3>2
  <2> QED
    BY <2>3, <2>5, <2>6, NodesFacts DEF AlternatePaths
<1> QED
  BY <1>1, Invariance, PTL

(* A message never comes before its receive, and no receive is posted      *)
(* while there is one: the repost of the loop never fails.                 *)
THEOREM ReceiveAlwaysPosted == Spec => []ReceivePosted
<1>1. ApmInv => ReceivePosted
  <2> SUFFICES ASSUME ApmInv, NEW n \in Nodes
               PROVE  /\ recvs[n] <= max_recv_wr /\ (pc[n] = "repost" => recvs[n] = 0)
                      /\ wire[Other(n)] # <<>> /\ n \notin qp_error => recvs[n] = 1
    BY DEF ReceivePosted
  <2>0. TypeOK /\ PhaseOK /\ ThreadOK /\ QueueOK /\ Flow
    BY DEF ApmInv
  <2>1. /\ recvs[n] \in Nat /\ Len(recv_cq[n]) \in Nat
        /\ RecvsOf(n) = recvs[n] + Len(recv_cq[n])
        /\ RecvsOf(n) \in {0, 1} /\ (pc[n] = "repost" => RecvsOf(n) = 0)
    BY <2>0, QueuesTyped DEF RecvsOf, QueueOK
  <2>2. recvs[n] <= 1 /\ (pc[n] = "repost" => recvs[n] = 0)
    BY <2>1
  <2>3. ASSUME wire[Other(n)] # <<>>, n \notin qp_error PROVE recvs[n] = 1
    <3>n. Other(n) \in Nodes /\ (n = "server" \/ n = "client") /\ Other(Other(n)) = n
      BY NodesFacts
    <3>1. recv_cq[n] = <<>>
      BY <2>0, <2>3, QuietWire
    <3>2. pc[n] # "repost"
      BY <2>0, <2>3, <3>n, QuietWire
    <3>3. alt[Other(n)] # None
      BY <2>0, <2>3, <3>n DEF QueueOK
    <3>4. athread[n] # "none"
      BY <2>0, <3>3, <3>n DEF ThreadOK
    <3>5. RecvsOf(n) = 1
      BY <2>0, <3>2, <3>4 DEF QueueOK
    <3>6. Len(recv_cq[n]) = 0
      BY <3>1, EmptySeq
    <3> QED
      BY <2>1, <3>5, <3>6
  <2> QED
    BY <2>2, <2>3 DEF max_recv_wr
<1> QED
  BY <1>1, Invariance, PTL

(* The message a side takes next is the one it is due to take.             *)
THEOREM SidesStayInStep == Spec => []InStep
<1>1. ApmInv => InStep
  <2> SUFFICES ASSUME ApmInv, NEW n \in Nodes \ qp_error, recv_cq[n] # <<>>
               PROVE  recv_cq[n] = <<[msg |-> Taken(n)]>>
    BY DEF InStep
  <2>1. /\ Len(recv_cq[n]) \in Nat /\ recvs[n] \in Nat
        /\ recvs[n] + Len(recv_cq[n]) = RecvsOf(n) /\ RecvsOf(n) \in {0, 1}
    BY QueuesTyped DEF ApmInv, QueueOK, RecvsOf
  <2>2. recv_cq[n] \in Seq({NextMsg(n)})
    BY DEF ApmInv, StepOK
  <2>3. Len(recv_cq[n]) = 1
    <3>1. Len(recv_cq[n]) # 0
      BY <2>2, EmptySeq
    <3>2. \A a, b \in Nat : a + b \in {0, 1} /\ b # 0 => b = 1
      OBVIOUS
    <3>3. recvs[n] + Len(recv_cq[n]) \in {0, 1}
      BY <2>1
    <3> QED
      BY <2>1, <3>1, <3>2, <3>3
  <2>4. recv_cq[n][1] = NextMsg(n)
    BY <2>2, <2>3, ElementOfSeq
  <2>5. recv_cq[n] = <<recv_cq[n][1]>>
    BY <2>2, <2>3
  <2> QED
    BY <2>4, <2>5 DEF NextMsg
<1> QED
  BY <1>1, Invariance, PTL

(* When the client migrates by hand, both sides have loaded their paths    *)
(* and the adapters have armed: what it received told so.                  *)
THEOREM MigratesWhenArmed == Spec => []ArmedBeforeMigrating
<1>1. ApmInv => ArmedBeforeMigrating
  <2> SUFFICES ASSUME ApmInv, pc["client"] = "end", "client" \notin qp_error
               PROVE  alt["server"] # None /\ mig["client"] # "rearm"
    BY DEF ArmedBeforeMigrating
  <2>1. Takes("client") >= 1
    <3>1. i["client"] \in Nat
      BY CountTyped, NodesFacts DEF ApmInv
    <3>2. Taken("client") = i["client"] + 1
      BY DEF Taken
    <3>3. ~Left("client")
      BY DEF Left
    <3> QED
      BY <3>1, <3>2, <3>3 DEF Takes
  <2> QED
    BY <2>1, NodesFacts DEF ApmInv, HeardOK
<1> QED
  BY <1>1, Invariance, PTL

(* No message is lost across a migration: until the loop is over, a queue  *)
(* pair only fails if something else went wrong.                           *)
THEOREM MigratesLossless == Spec => []MigrationLossless
<1>1. ApmInv => MigrationLossless
  BY DEF ApmInv, DoneOK, MigrationLossless
<1> QED
  BY <1>1, Invariance, PTL
=============================================================================
