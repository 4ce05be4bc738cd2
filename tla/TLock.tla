-------------------------------- MODULE TLock --------------------------------
(***************************************************************************)
(* The recursive lock TLock (crossplatform/lock.cpp) at the grain of its   *)
(* loads and stores.  Lock() reads the plain fields lock and threadid      *)
(* WITHOUT the mutex to find out whether the caller already holds it.      *)
(* These reads race with the stores of the holder, so the two fields of a  *)
(* test are read, and the two fields of an update are stored, one at a     *)
(* time and in either order: the orders a compiler may give plain          *)
(* accesses between two mutex calls.                                       *)
(*                                                                         *)
(* The callers are disciplined, as UGLOCK (an ALock on the stack, lock.h)  *)
(* makes them: a thread unlocks only what it locked.                       *)
(***************************************************************************)
EXTENDS Integers

CONSTANTS Threads,    \* threads that use the lock
          NoThread,   \* threadid 0 and a free mutex
          MaxDepth    \* bound on how often a holder nests Lock()

ASSUME NoThreadAssumption == NoThread \notin Threads
ASSUME MaxDepthAssumption == MaxDepth \in Nat \ {0}

VARIABLES lock,       \* int lock: locked count
          threadid,   \* DWORD threadid: the holder, as the fields say
          mutex,      \* holder of shared_mutex
          pc,         \* where each thread is in Lock() or UnLock()
          fieldsLeft,       \* fields a thread has still to read or to store
          depth,      \* Lock() calls that returned, less UnLock() calls made
          globalError      \* a globalerror() of lock.cpp was reached

lockVars == <<lock, threadid, mutex, pc, fieldsLeft, depth, globalError>>

Fields == {"lock", "threadid"}

Labels == {"run", "test", "count", "wait", "check", "set", "clear", "release"}

LockTypeOK ==
  /\ lock \in 0..MaxDepth
  /\ threadid \in Threads \cup {NoThread}
  /\ mutex \in Threads \cup {NoThread}
  /\ pc \in [Threads -> Labels]
  /\ fieldsLeft \in [Threads -> SUBSET Fields]
  /\ depth \in [Threads -> 0..MaxDepth]
  /\ globalError \in BOOLEAN

LockInit ==
  /\ lock = 0
  /\ threadid = NoThread
  /\ mutex = NoThread
  /\ pc = [t \in Threads |-> "run"]
  /\ fieldsLeft = [t \in Threads |-> {}]
  /\ depth = [t \in Threads |-> 0]
  /\ globalError = FALSE

Goto(t, label) == pc' = [pc EXCEPT ![t] = label]

------------------------------------------------------------------------------
(* bool TLock::Lock()                                                      *)

LockCall(t) ==
  /\ pc[t] = "run"
  /\ depth[t] < MaxDepth
  /\ fieldsLeft' = [fieldsLeft EXCEPT ![t] = Fields]
  /\ Goto(t, "test")
  /\ UNCHANGED <<lock, threadid, mutex, depth, globalError>>

\* Slip: any locked state counts as the caller's own.
HeldByAnyone(t, f) == f # "lock" \/ lock # 0

\* if(lock && thid == threadid): what the read of one field says.
HeldBy(t, f) == IF f = "lock" THEN lock # 0 ELSE threadid = t

ReadField(t) ==
  /\ pc[t] = "test"
  /\ \E f \in fieldsLeft[t] :
       /\ fieldsLeft' = [fieldsLeft EXCEPT ![t] = @ \ {f}]
       /\ Goto(t, IF ~HeldBy(t, f) THEN "wait"
                  ELSE IF fieldsLeft[t] = {f} THEN "count" ELSE "test")
  /\ UNCHANGED <<lock, threadid, mutex, depth, globalError>>

CountUp(t) ==
  /\ pc[t] = "count"
  /\ lock' = lock + 1
  /\ depth' = [depth EXCEPT ![t] = @ + 1]
  /\ Goto(t, "run")
  /\ UNCHANGED <<threadid, mutex, fieldsLeft, globalError>>

MutexLock(t) ==
  /\ pc[t] = "wait"
  /\ mutex = NoThread
  /\ mutex' = t
  /\ Goto(t, "check")
  /\ UNCHANGED <<lock, threadid, fieldsLeft, depth, globalError>>

CheckFree(t) ==
  /\ pc[t] = "check"
  /\ globalError' = (globalError \/ lock # 0)
  /\ fieldsLeft' = [fieldsLeft EXCEPT ![t] = Fields]
  /\ Goto(t, "set")
  /\ UNCHANGED <<lock, threadid, mutex, depth>>

StoreOwner(t) ==
  /\ pc[t] = "set"
  /\ \E f \in fieldsLeft[t] :
       /\ lock' = IF f = "lock" THEN 1 ELSE lock
       /\ threadid' = IF f = "threadid" THEN t ELSE threadid
       /\ fieldsLeft' = [fieldsLeft EXCEPT ![t] = @ \ {f}]
       /\ IF fieldsLeft[t] = {f}
            THEN Goto(t, "run") /\ depth' = [depth EXCEPT ![t] = 1]
            ELSE UNCHANGED <<pc, depth>>
  /\ UNCHANGED <<mutex, globalError>>

------------------------------------------------------------------------------
(* bool TLock::UnLock()                                                    *)

\* Slip: the nested UnLock() forgets lock--.
UnLockNestedKeepsCount(t) ==
  /\ lock > 1
  /\ globalError' = (globalError \/ threadid # t)
  /\ UNCHANGED <<lock, pc, fieldsLeft>>

UnLockNested(t) ==
  /\ lock > 1
  /\ IF threadid # t
       THEN globalError' = TRUE /\ UNCHANGED lock
       ELSE lock' = lock - 1 /\ UNCHANGED globalError
  /\ UNCHANGED <<pc, fieldsLeft>>

\* Slip: off by one, the outer UnLock() of two already clears the fields.
UnLockLastEarly(t) ==
  /\ lock <= 2
  /\ globalError' = (globalError \/ lock = 0)
  /\ fieldsLeft' = [fieldsLeft EXCEPT ![t] = Fields]
  /\ Goto(t, "clear")
  /\ UNCHANGED lock

UnLockLast(t) ==
  /\ lock <= 1
  /\ globalError' = (globalError \/ lock = 0)
  /\ fieldsLeft' = [fieldsLeft EXCEPT ![t] = Fields]
  /\ Goto(t, "clear")
  /\ UNCHANGED lock

UnLockCall(t) ==
  /\ pc[t] = "run"
  /\ depth[t] > 0
  /\ depth' = [depth EXCEPT ![t] = @ - 1]
  /\ UnLockNested(t) \/ UnLockLast(t)
  /\ UNCHANGED <<threadid, mutex>>

ClearOwner(t) ==
  /\ pc[t] = "clear"
  /\ \E f \in fieldsLeft[t] :
       /\ lock' = IF f = "lock" THEN 0 ELSE lock
       /\ threadid' = IF f = "threadid" THEN NoThread ELSE threadid
       /\ fieldsLeft' = [fieldsLeft EXCEPT ![t] = @ \ {f}]
       /\ IF fieldsLeft[t] = {f} THEN Goto(t, "release") ELSE UNCHANGED pc
  /\ UNCHANGED <<mutex, depth, globalError>>

\* Slip: UnLock() returns without pthread_mutex_unlock().
MutexUnlockForgotten(t) ==
  /\ pc[t] = "release"
  /\ Goto(t, "run")
  /\ UNCHANGED <<lock, threadid, mutex, fieldsLeft, depth, globalError>>

MutexUnlock(t) ==
  /\ pc[t] = "release"
  /\ mutex' = NoThread
  /\ Goto(t, "run")
  /\ UNCHANGED <<lock, threadid, fieldsLeft, depth, globalError>>

------------------------------------------------------------------------------
\* The rest of a call once it has begun, and the UnLock() a holder owes.
Finish(t) ==
  \/ ReadField(t) \/ CountUp(t) \/ MutexLock(t) \/ CheckFree(t) \/ StoreOwner(t)
  \/ UnLockCall(t) \/ ClearOwner(t) \/ MutexUnlock(t)

LockNext == \E t \in Threads : LockCall(t) \/ Finish(t)

LockSpec == LockInit /\ [][LockNext]_lockVars

\* What a thread does by itself once it is in Lock() or UnLock().
GoesOn(t) ==
  ReadField(t) \/ CountUp(t) \/ CheckFree(t) \/ StoreOwner(t) \/ ClearOwner(t) \/ MutexUnlock(t)

LastUnLock(t) == UnLockCall(t) /\ UnLockLast(t)

------------------------------------------------------------------------------
(* Properties                                                              *)

\* The unlocked test never lets a second thread in: two threads are never both
\* between the return of Lock() and their last UnLock() (lock.cpp TLock::Lock).
MutualExclusion ==
  \A t, u \in Threads : depth[t] > 0 /\ depth[u] > 0 => t = u

\* Disciplined callers reach none of the globalerror() exits of lock.cpp: the
\* count is 0 when the mutex is won, and an UnLock() meets its own thread id.
NoGlobalError == ~globalError

Writes(t) == pc[t] \in {"count", "set", "clear"}

\* lock and threadid are stored by one thread at a time, although lock++ and
\* lock-- run without asking for the mutex, so no update of the count is lost.
SingleWriter == \A t, u \in Threads : Writes(t) /\ Writes(u) => t = u

\* What the lock promises disciplined callers, the three together.
LockSafe == MutualExclusion /\ SingleWriter /\ NoGlobalError

\* The lock behaves as the abstract recursive lock: one release per acquisition
\* frees it and no earlier one does.
RL == INSTANCE RecursiveLock WITH held <- depth
ImplementsRecursiveLock == RL!Spec

\* Every Lock() returns, whoever holds the lock when it is called: nothing
\* forgets to hand the mutex over.
LockReturns == \A t \in Threads : pc[t] = "wait" ~> depth[t] > 0
=============================================================================
