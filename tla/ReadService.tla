----------------------------- MODULE ReadService -----------------------------
(***************************************************************************)
(* What the server's read phase (do_rdma_reads in rdma_fc.c) promises,     *)
(* without queues, queue pairs or a scheduler.  The phase runs a fixed     *)
(* number of rounds.  In a round every byte of every connection's buffer   *)
(* lands on the server exactly once; the next round starts, and the phase  *)
(* ends, only when the whole round has landed.  A transport error may end  *)
(* the phase at any time.                                                  *)
(***************************************************************************)
EXTENDS Naturals

CONSTANTS Conns,       \* the connections read from
          ReadSize,    \* bytes read from each connection in a round
          Rounds       \* number of rounds

VARIABLES round,       \* rounds started
          landed,      \* bytes of this round that landed, per connection
          status       \* "reading", "done" or "failed"

vars == <<round, landed, status>>

Bytes == 0 .. ReadSize - 1

RoundLanded == \A c \in Conns : landed[c] = Bytes

Init ==
  /\ round = 0
  /\ landed = [c \in Conns |-> {}]
  /\ status = "reading"

(* A round starts only when nothing of the previous one is missing.        *)
StartRound ==
  /\ status = "reading" /\ round < Rounds
  /\ round > 0 => RoundLanded
  /\ round' = round + 1
  /\ landed' = [c \in Conns |-> {}]
  /\ UNCHANGED status

(* A segment of one buffer lands; none of its bytes has landed before.     *)
Land(c, lo, hi) ==
  /\ status = "reading" /\ round > 0
  /\ lo .. hi # {} /\ (lo .. hi) \cap landed[c] = {}
  /\ landed' = [landed EXCEPT ![c] = @ \cup (lo .. hi)]
  /\ UNCHANGED <<round, status>>

Finish ==
  /\ status = "reading" /\ round = Rounds /\ RoundLanded
  /\ status' = "done"
  /\ UNCHANGED <<round, landed>>

Fail ==
  /\ status = "reading"
  /\ status' = "failed"
  /\ UNCHANGED <<round, landed>>

Next ==
  \/ StartRound
  \/ \E c \in Conns, lo, hi \in Bytes : Land(c, lo, hi)
  \/ Finish
  \/ Fail

Spec == Init /\ [][Next]_vars
=============================================================================
