-------------------------- MODULE RcopyRecv_proofs --------------------------
(* Proofs about the receive loop of rcopy, for every message length and    *)
(* every width of size_t that can count it.                                *)
EXTENDS RcopyRecv, TLAPS

(* Until an error the offset is the number of bytes stored.  From then on  *)
(* nothing more comes, the buffer stays incomplete, and the offset walks   *)
(* back to -1.                                                             *)
Walk ==
  \/ offset = filled /\ result = Running
  \/ /\ ending = "error" /\ coming = 0 /\ filled < len
     /\ offset < filled \/ offset = MinusOne
  \/ offset = filled /\ result # Running

IInv == TypeOK /\ Walk /\ RecvContract

LEMMA InitInv == Init => IInv
  BY RecvAssumption DEF Init, IInv, TypeOK, Walk, RecvContract, Running, MinusOne

(* Each action preserves the invariant.                                    *)
LEMMA StepInv == IInv /\ [Next]_vars => IInv'
<1> SUFFICES ASSUME IInv, [Next]_vars PROVE IInv'
  OBVIOUS
<1> USE RecvAssumption DEF IInv, TypeOK, Walk, RecvContract, Running, MinusOne
<1>1. CASE Receive
  <2>1. PICK n \in 1 .. len : /\ n <= coming /\ n <= len - offset
                              /\ Iterate(n)
                              /\ filled' = filled + n /\ coming' = coming - n
    BY <1>1 DEF Receive
  <2>2. offset' = offset + n /\ result' = result /\ UNCHANGED <<len, ending>>
    BY <2>1 DEF Iterate, StopsLoop, Wrap
  <2>3. offset = filled
    BY <2>1 DEF Iterate
  <2> QED
    BY <2>1, <2>2, <2>3 DEF Iterate
<1>2. CASE EndOfStream
  BY <1>2 DEF EndOfStream, Iterate, StopsLoop
<1>3. CASE ReceiveError
  <2>1. /\ offset' = IF offset = 0 THEN MinusOne ELSE offset - 1
        /\ result' = result /\ UNCHANGED <<len, ending, filled, coming>>
    BY <1>3 DEF ReceiveError, Iterate, StopsLoop, Wrap
  <2>2. offset < len /\ coming = 0 /\ ending = "error" /\ result = Running
    BY <1>3 DEF ReceiveError, Iterate
  <2> QED
    BY <2>1, <2>2
<1>4. CASE LoopDone
  BY <1>4 DEF LoopDone
<1>5. CASE Returned \/ UNCHANGED vars
  BY <1>5 DEF Returned, vars
<1> QED
  BY <1>1, <1>2, <1>3, <1>4, <1>5 DEF Next

(* The invariant holds in every reachable state.                           *)
THEOREM RecvInvariance == Spec => []IInv
  BY InitInv, StepInv, PTL DEF Spec

(* The variables of _recv keep their types: the size_t offset, which goes  *)
(* below zero after an error, wraps and stays a size_t.                    *)
THEOREM RecvTypeCorrect == Spec => []TypeOK
<1>1. IInv => TypeOK
  BY DEF IInv
<1> QED
  BY RecvInvariance, <1>1, PTL

(* _recv returns 0 only at the end of the stream, and otherwise len; it    *)
(* never returns a partial count or an error, for any len and any size_t.  *)
THEOREM RecvContractHolds == Spec => []RecvContract
<1>1. IInv => RecvContract
  BY DEF IInv
<1> QED
  BY RecvInvariance, <1>1, PTL

(* What arrives is stored contiguously and inside the buffer.              *)
THEOREM OffsetCountsHolds == Spec => []OffsetCounts
<1>1. IInv => OffsetCounts
  BY RecvAssumption DEF IInv, OffsetCounts, Walk, TypeOK, Running, MinusOne
<1> QED
  BY RecvInvariance, <1>1, PTL
=============================================================================
