------------------------------ MODULE ByteQueue ------------------------------
(***************************************************************************)
(* What a SendData promises: the bytes that were set and not yet deleted,  *)
(* in the order they were set.                                             *)
(***************************************************************************)
EXTENDS Naturals, Sequences

CONSTANT Lines    \* what may be set at once, as sequences of bytes

VARIABLE bytes

Init == bytes = <<>>

Put(line) == bytes' = bytes \o line

Drop(n) == bytes' = SubSeq(bytes, n + 1, Len(bytes))

Clear == bytes' = <<>>

\* An operation that changes nothing is no step.
Next ==
  /\ bytes' # bytes
  /\ \/ \E line \in Lines : Put(line)
     \/ \E n \in 1..Len(bytes) : Drop(n)
     \/ Clear

Spec == Init /\ [][Next]_bytes
=============================================================================
