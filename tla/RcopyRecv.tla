------------------------------ MODULE RcopyRecv ------------------------------
(***************************************************************************)
(* The receive loop of rcopy (_recv): it collects len bytes with rrecv,    *)
(* which returns what has arrived, 0 at the end of the stream, and -1 when *)
(* the connection has failed.  Result and offset are of type size_t, so -1 *)
(* is the largest value and adding it steps the offset back by one, modulo *)
(* 2^64 (here SizeMod).                                                    *)
(***************************************************************************)
EXTENDS Naturals

CONSTANTS SizeMod,  \* values of size_t
          MaxLen    \* longest message

ASSUME RecvAssumption == SizeMod \in Nat /\ MaxLen \in Nat /\ MaxLen < SizeMod

VARIABLES len,      \* the bytes asked for
          offset,
          filled,   \* bytes received so far
          coming,   \* bytes of the stream that will still arrive
          ending,   \* how the stream ends after them: "eof" or "error"
          result    \* what _recv returned, or Running

vars == <<len, offset, filled, coming, ending, result>>

Running == SizeMod

Init ==
  /\ len \in 1 .. MaxLen /\ coming \in 0 .. MaxLen
  /\ ending \in {"eof", "error"}
  /\ offset = 0 /\ filled = 0 /\ result = Running

(* size_t arithmetic, for a sum of two of its values.                      *)
Wrap_None(n) == n
Wrap(n) == IF n < SizeMod THEN n ELSE n - SizeMod
MinusOne == SizeMod - 1

(* ret <= 0, which for a size_t means ret = 0.                             *)
StopsLoop_Never(r) == FALSE
StopsLoop_Signed(r) == r = 0 \/ r = MinusOne
StopsLoop(r) == r = 0

(* One iteration, with the value rrecv returned.                           *)
Iterate(r) ==
  /\ result = Running /\ offset < len
  /\ IF StopsLoop(r) THEN result' = r /\ UNCHANGED offset
     ELSE offset' = Wrap(offset + r) /\ UNCHANGED result
  /\ UNCHANGED <<len, ending>>

Receive ==
  \E n \in 1 .. len :
    /\ n <= coming /\ n <= len - offset
    /\ Iterate(n)
    /\ filled' = filled + n /\ coming' = coming - n

EndOfStream ==
  /\ coming = 0 /\ ending = "eof"
  /\ Iterate(0)
  /\ UNCHANGED <<filled, coming>>

ReceiveError ==
  /\ coming = 0 /\ ending = "error"
  /\ Iterate(MinusOne)
  /\ UNCHANGED <<filled, coming>>

LoopDone ==
  /\ result = Running /\ offset >= len
  /\ result' = len
  /\ UNCHANGED <<len, offset, filled, coming, ending>>

Returned == result # Running /\ UNCHANGED vars

Next == Receive \/ EndOfStream \/ ReceiveError \/ LoopDone \/ Returned

Spec == Init /\ [][Next]_vars
FairSpec == Spec /\ WF_vars(Next)
-----------------------------------------------------------------------------
(* Every variable has its type.                                            *)
TypeOK ==
  /\ len \in 1 .. MaxLen /\ offset \in 0 .. SizeMod - 1
  /\ filled \in 0 .. len /\ coming \in 0 .. MaxLen
  /\ ending \in {"eof", "error"} /\ result \in 0 .. SizeMod

(* What the handlers of rcopy can rely on, and what Rcopy assumes: _recv   *)
(* returns 0 only at the end of the stream, and len otherwise: when all    *)
(* has arrived, but also, with part of the buffer not written, after an    *)
(* error.  It never returns a partial count, nor an error.                 *)
RecvContract ==
  result # Running =>
    \/ result = len /\ filled = len
    \/ result = 0 /\ ending = "eof" /\ coming = 0 /\ filled < len
    \/ result = len /\ ending = "error" /\ coming = 0 /\ filled < len

(* What arrives is stored inside the buffer and never twice at one place,  *)
(* whatever the sizes of the pieces: the offset is the number of bytes     *)
(* stored until an error takes it back.                                    *)
OffsetCounts ==
  /\ offset <= len \/ offset = MinusOne
  /\ coming > 0 => offset = filled

(* The loop always ends, also the one that steps back after an error.      *)
RecvReturns == <>(result # Running)
=============================================================================
