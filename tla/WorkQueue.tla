------------------------------ MODULE WorkQueue ------------------------------
(***************************************************************************)
(* What work_ring promises the poller and the workers: a bounded queue.    *)
(* Slots come out in the order they went in, each to one worker.           *)
(***************************************************************************)
EXTENDS Naturals, Sequences

CONSTANTS Items,      \* socket slots
          Workers,    \* worker threads
          Nothing,    \* no slot
          Cap         \* slots the queue holds

VARIABLES queue,      \* slots handed over and not yet taken
          hand        \* the slot each worker has

vars == <<queue, hand>>

Init ==
  /\ queue = <<>>
  /\ hand = [w \in Workers |-> Nothing]

Put(d) ==
  /\ Len(queue) < Cap
  /\ queue' = Append(queue, d)
  /\ UNCHANGED hand

Take(w) ==
  /\ hand[w] = Nothing
  /\ queue # <<>>
  /\ hand' = [hand EXCEPT ![w] = Head(queue)]
  /\ queue' = Tail(queue)

Done(w) ==
  /\ hand[w] # Nothing
  /\ hand' = [hand EXCEPT ![w] = Nothing]
  /\ UNCHANGED queue

Next ==
  \/ \E d \in Items : Put(d)
  \/ \E w \in Workers : Take(w) \/ Done(w)

Spec == Init /\ [][Next]_vars
=============================================================================
