---------------------------- MODULE RecursiveLock ----------------------------
(***************************************************************************)
(* What TLock (crossplatform/lock.h:48 "Thread Lock : Critical sections")  *)
(* promises its callers: a lock a thread may take again while it holds it, *)
(* that is free again only after as many releases, and that is never held  *)
(* by two threads.                                                         *)
(***************************************************************************)
EXTENDS Naturals

CONSTANTS Threads,    \* the threads that use the lock
          MaxDepth    \* bound on how often a holder nests Lock()

VARIABLE held         \* held[t]: Lock() calls of t not yet undone by UnLock()

TypeOK == held \in [Threads -> 0..MaxDepth]

Init == held = [t \in Threads |-> 0]

Acquire(t) ==
  /\ \A u \in Threads \ {t} : held[u] = 0
  /\ held[t] < MaxDepth
  /\ held' = [held EXCEPT ![t] = @ + 1]

Release(t) ==
  /\ held[t] > 0
  /\ held' = [held EXCEPT ![t] = @ - 1]

Next == \E t \in Threads : Acquire(t) \/ Release(t)

Spec == Init /\ [][Next]_held
=============================================================================
