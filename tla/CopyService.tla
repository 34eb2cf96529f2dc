----------------------------- MODULE CopyService -----------------------------
(***************************************************************************)
(* What rcopy promises its users, without connections, messages or open    *)
(* files.  Clients are served one at a time.  The pieces of a client's     *)
(* data are stored in order, only while it is served, and what is stored   *)
(* is never taken away.  A client is told that its copy succeeded only     *)
(* when all of it is stored, unless its connection was lost.               *)
(***************************************************************************)
EXTENDS Naturals, FiniteSets

CONSTANTS Clients,
          Pieces,     \* pieces of the data of one client
          Nobody      \* no client

VARIABLES serving,    \* the client that is served, or Nobody
          stored,     \* client -> pieces in its destination file
          outcome,    \* client -> "pending", "ok" or "failed"
          lost        \* clients whose connection was lost

vars == <<serving, stored, outcome, lost>>

Complete(c) == stored[c] = 1 .. Pieces

Init ==
  /\ serving = Nobody /\ lost = {}
  /\ stored = [c \in Clients |-> {}]
  /\ outcome = [c \in Clients |-> "pending"]

Serve(c) ==
  /\ serving = Nobody /\ outcome[c] = "pending"
  /\ serving' = c
  /\ UNCHANGED <<stored, outcome, lost>>

Leave ==
  /\ serving # Nobody /\ serving' = Nobody
  /\ UNCHANGED <<stored, outcome, lost>>

Store(c) ==
  /\ serving = c /\ ~Complete(c)
  /\ stored' = [stored EXCEPT ![c] = @ \cup {Cardinality(@) + 1}]
  /\ UNCHANGED <<serving, outcome, lost>>

(* The connection of the client that is served fails.                      *)
Lose(c) ==
  /\ serving = c /\ lost' = lost \cup {c}
  /\ UNCHANGED <<serving, stored, outcome>>

Succeed(c) ==
  /\ outcome[c] = "pending" /\ (Complete(c) \/ c \in lost)
  /\ outcome' = [outcome EXCEPT ![c] = "ok"]
  /\ UNCHANGED <<serving, stored, lost>>

(* Also a client that stored everything may fail.                          *)
Fail(c) ==
  /\ outcome[c] = "pending"
  /\ outcome' = [outcome EXCEPT ![c] = "failed"]
  /\ UNCHANGED <<serving, stored, lost>>

Next ==
  \/ Leave
  \/ \E c \in Clients : Serve(c) \/ Store(c) \/ Lose(c) \/ Succeed(c) \/ Fail(c)

Spec == Init /\ [][Next]_vars
=============================================================================
