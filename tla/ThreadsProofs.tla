---------------------------- MODULE ThreadsProofs ----------------------------
(***************************************************************************)
(* Proofs about the threads of the program, for any number of them: the    *)
(* recursive lock, for every nesting bound; the starts of StormStart, in a *)
(* program that calls RunInThread from one thread; the ring that wakes     *)
(* workers up, for any size; LightServer, for any limit; and Acceptor, for *)
(* any ports and protocols.                                                *)
(***************************************************************************)
EXTENDS MCThreads, DataProofs, FiniteSetTheorems

------------------------------------------------------------------------------
(* The lock: crossplatform/lock.cpp                                        *)
(*                                                                         *)
(* MutualExclusion is not inductive: nothing in it says why the unlocked   *)
(* test cannot succeed for a thread that does not hold the mutex.  LockInv *)
(* adds what lock and threadid hold at each point of the mutex holder's    *)
(* calls (HolderFields) and that every other thread is outside them and    *)
(* has not seen its own id in threadid (Outsider).                         *)

Inside == {"count", "check", "set", "clear", "release"}

\* What the fields say while t holds the mutex.
HolderFields(t) ==
  /\ pc[t] \in {"run", "test", "count"} =>
       depth[t] > 0 /\ lock = depth[t] /\ threadid = t
  /\ pc[t] = "count" => depth[t] < MaxDepth
  /\ pc[t] = "test" => depth[t] < MaxDepth
  /\ pc[t] \in {"check", "release"} =>
       depth[t] = 0 /\ lock = 0 /\ threadid = NoThread
  /\ pc[t] = "set" =>
       /\ depth[t] = 0
       /\ lock = (IF "lock" \in fieldsLeft[t] THEN 0 ELSE 1)
       /\ threadid = (IF "threadid" \in fieldsLeft[t] THEN NoThread ELSE t)
  /\ pc[t] = "clear" =>
       /\ depth[t] = 0
       /\ lock = (IF "lock" \in fieldsLeft[t] THEN 1 ELSE 0)
       /\ threadid = (IF "threadid" \in fieldsLeft[t] THEN t ELSE NoThread)
  /\ pc[t] # "wait"

\* A thread without the mutex: it is not between MutexLock and MutexUnlock, and
\* the unlocked test cannot have matched threadid.
Outsider(t) ==
  /\ depth[t] = 0
  /\ pc[t] \notin Inside
  /\ threadid # t
  /\ pc[t] = "test" => "threadid" \in fieldsLeft[t]

LockInv ==
  /\ LockTypeOK
  /\ ~globalError
  /\ mutex = NoThread => lock = 0 /\ threadid = NoThread
  /\ \A t \in Threads : mutex = t => HolderFields(t)
  /\ \A t \in Threads : mutex # t => Outsider(t)

------------------------------------------------------------------------------
\* The initial state satisfies the inductive invariant (TLock::Init).
LEMMA LockInvInit == LockInit => LockInv
<1> SUFFICES ASSUME LockInit PROVE LockInv
  OBVIOUS
<1> USE NoThreadAssumption, MaxDepthAssumption DEF LockInit
<1>1. LockTypeOK
  <2>1. lock \in 0..MaxDepth /\ depth \in [Threads -> 0..MaxDepth]
    OBVIOUS
  <2>2. pc \in [Threads -> Labels] /\ fieldsLeft \in [Threads -> SUBSET Fields]
    BY DEF Labels
  <2> QED
    BY <2>1, <2>2 DEF LockTypeOK
<1>2. \A t \in Threads : mutex # t /\ Outsider(t)
  BY DEF Outsider, Inside
<1> QED
  BY <1>1, <1>2 DEF LockInv

\* Every load, store and mutex call of Lock() and UnLock() keeps it.
LEMMA LockInvNext == LockInv /\ [LockNext]_lockVars => LockInv'
<1> SUFFICES ASSUME LockInv, [LockNext]_lockVars PROVE LockInv'
  OBVIOUS
<1> USE NoThreadAssumption, MaxDepthAssumption
    DEF LockInv, LockTypeOK, Labels, Fields, HolderFields, Outsider, Inside, Goto
<1>1. ASSUME NEW t \in Threads, LockCall(t) PROVE LockInv'
  BY <1>1 DEF LockCall
<1>2. ASSUME NEW t \in Threads, ReadField(t) PROVE LockInv'
  BY <1>2 DEF ReadField, HeldBy
<1>3. ASSUME NEW t \in Threads, CountUp(t) PROVE LockInv'
  BY <1>3 DEF CountUp
<1>4. ASSUME NEW t \in Threads, MutexLock(t) PROVE LockInv'
  BY <1>4 DEF MutexLock
<1>5. ASSUME NEW t \in Threads, CheckFree(t) PROVE LockInv'
  BY <1>5 DEF CheckFree
<1>6. ASSUME NEW t \in Threads, StoreOwner(t) PROVE LockInv'
  BY <1>6 DEF StoreOwner
<1>7. ASSUME NEW t \in Threads, UnLockCall(t) PROVE LockInv'
  BY <1>7 DEF UnLockCall, UnLockNested, UnLockLast
<1>8. ASSUME NEW t \in Threads, ClearOwner(t) PROVE LockInv'
  BY <1>8 DEF ClearOwner
<1>9. ASSUME NEW t \in Threads, MutexUnlock(t) PROVE LockInv'
  BY <1>9 DEF MutexUnlock
<1>10. CASE UNCHANGED lockVars
  BY <1>10 DEF lockVars
<1> QED
  BY <1>1, <1>2, <1>3, <1>4, <1>5, <1>6, <1>7, <1>8, <1>9, <1>10
     DEF LockNext, Finish

\* The inductive invariant holds in every reachable state.
THEOREM LockInvariance == LockSpec => []LockInv
BY LockInvInit, LockInvNext, PTL DEF LockSpec

\* Types: lock stays within 0..MaxDepth and the pcs within their labels.
THEOREM LockTypeCorrect == LockSpec => []LockTypeOK
<1>1. LockInv => LockTypeOK
  BY DEF LockInv
<1> QED
  BY <1>1, LockInvariance, PTL

\* At most one thread is inside Lock()..UnLock(), for any number of threads.
THEOREM Exclusion == LockSpec => []MutualExclusion
<1>1. LockInv => MutualExclusion
  BY DEF LockInv, MutualExclusion, Outsider
<1> QED
  BY <1>1, LockInvariance, PTL

\* No globalerror() of lock.cpp is reachable from disciplined callers.
THEOREM ErrorFree == LockSpec => []NoGlobalError
<1>1. LockInv => NoGlobalError
  BY DEF LockInv, NoGlobalError
<1> QED
  BY <1>1, LockInvariance, PTL

\* lock and threadid never have two writers, although lock++ is unlocked.
THEOREM WriterExclusion == LockSpec => []SingleWriter
<1>1. LockInv => SingleWriter
  BY DEF LockInv, SingleWriter, Writes, Outsider, Inside
<1> QED
  BY <1>1, LockInvariance, PTL

\* The promise of the lock, for any number of threads and any nesting.
THEOREM Safe == LockSpec => []LockSafe
<1> QED
  BY Exclusion, WriterExclusion, ErrorFree, PTL DEF LockSafe

------------------------------------------------------------------------------
\* TLock::Lock and TLock::UnLock implement the abstract recursive lock: the
\* store that completes an acquisition, lock++ and the call of UnLock() are its
\* Acquire and Release, every other step is invisible.
THEOREM LockRefinement == LockSpec => ImplementsRecursiveLock
<1>1. LockInit => RL!Init
  BY DEF LockInit, RL!Init
<1>2. LockInv /\ [LockNext]_lockVars => [RL!Next]_depth
  <2> SUFFICES ASSUME LockInv, [LockNext]_lockVars PROVE [RL!Next]_depth
    OBVIOUS
  <2> USE MaxDepthAssumption
      DEF LockInv, LockTypeOK, HolderFields, Outsider, Inside
  <2>1. ASSUME NEW t \in Threads, LockCall(t) PROVE UNCHANGED depth
    BY <2>1 DEF LockCall
  <2>2. ASSUME NEW t \in Threads, ReadField(t) PROVE UNCHANGED depth
    BY <2>2 DEF ReadField
  <2>3. ASSUME NEW t \in Threads, CountUp(t) PROVE RL!Acquire(t)
    BY <2>3 DEF CountUp, RL!Acquire
  <2>4. ASSUME NEW t \in Threads, MutexLock(t) PROVE UNCHANGED depth
    BY <2>4 DEF MutexLock
  <2>5. ASSUME NEW t \in Threads, CheckFree(t) PROVE UNCHANGED depth
    BY <2>5 DEF CheckFree
  <2>6. ASSUME NEW t \in Threads, StoreOwner(t)
        PROVE RL!Acquire(t) \/ UNCHANGED depth
    BY <2>6 DEF StoreOwner, RL!Acquire
  <2>7. ASSUME NEW t \in Threads, UnLockCall(t) PROVE RL!Release(t)
    BY <2>7 DEF UnLockCall, RL!Release
  <2>8. ASSUME NEW t \in Threads, ClearOwner(t) PROVE UNCHANGED depth
    BY <2>8 DEF ClearOwner
  <2>9. ASSUME NEW t \in Threads, MutexUnlock(t) PROVE UNCHANGED depth
    BY <2>9 DEF MutexUnlock
  <2>10. CASE UNCHANGED lockVars
    BY <2>10 DEF lockVars
  <2> QED
    BY <2>1, <2>2, <2>3, <2>4, <2>5, <2>6, <2>7, <2>8, <2>9, <2>10
       DEF LockNext, Finish, RL!Next
<1> QED
  BY <1>1, <1>2, LockInvariance, PTL DEF LockSpec, ImplementsRecursiveLock, RL!Spec

------------------------------------------------------------------------------
(* The starts: COT, RunInThread and the workers of the core                *)

OneUser == \A u, v \in Users : u = v

\* A thread that is created and has not stored its end.
Active(t) == where[t] \notin {"none", "ended"}
Idle(o) == \A t \in CotThreads : t[1] = o => ~Active(t)

Words ==
  /\ cottid \in [Objects -> {0, 1}]
  /\ step \in [Callers -> {"no", "stop", "zero", "create", "one"}]
  /\ where \in [CotThreads -> {"none", "cot", "starting", "listen", "seen",
                               "check", "poll", "return", "ended"}]

\* Only the server's thread is in COTS, of the core.
InCots == \A t \in CotThreads : step[t] # "no" => t[1] = "server" /\ where[t] = "starting"

OneActive ==
  \A t, v \in CotThreads : t[1] = v[1] /\ Active(t) /\ Active(v) => t = v

\* What StopCot has waited for is still so when the thread is created.
Waited == \A c \in Callers : step[c] \in {"zero", "create"} => Idle(Callee(c))

\* cottid = 0 means what StopCot takes it for, except between the two stores of
\* StartThread.
ZeroIsIdle ==
  \A o \in Objects :
    cottid[o] = 0
    /\ (\A c \in Callers : Callee(c) = o => step[c] \in {"no", "stop"})
    => Idle(o)

\* A core's thread polls for ever, and is_socket_poll_work is its own.
CoreStays == \A t \in CotThreads : t[1] = "core" => where[t] \notin {"return", "ended"}
PolledBySelf == polled => \E t \in CotThreads : t[1] = "core" /\ where[t] = "poll"
LockAtCheck == \A t \in workLock : t \in CotThreads /\ t[1] = "core" /\ where[t] = "check"

\* What the unlocked test of threads[i] has seen is still so.
Places ==
  /\ places \in [WorkerIds -> {0, 1}]
  /\ \A t \in CotThreads :
       t[1] = "core" /\ where[t] = "seen" /\ Lowest(left[t]) \in WorkerIds
       => places[Lowest(left[t])] = 0

SInv ==
  /\ Words /\ InCots /\ OneActive /\ Waited /\ ZeroIsIdle
  /\ CoreStays /\ PolledBySelf /\ LockAtCheck /\ Places

------------------------------------------------------------------------------
(* Who calls whom                                                          *)

LEMMA Kinds ==
  /\ \A t \in CotThreads : t[1] \in Objects /\ t \in Callers /\ Callee(t) = "core"
  /\ \A u \in Users : u \in Callers /\ Callee(u) = "server"
  /\ \A c \in Callers : c \in Users \/ c \in CotThreads
  /\ \A c \in Callers : Callee(c) \in Objects
<1>1. \A t \in CotThreads : t[1] \in Objects
  BY DEF CotThreads
<1>2. \A t \in CotThreads : t \notin Users
  BY StartAssumption
<1> QED
  BY <1>1, <1>2, Zenon DEF Callers, Callee, Objects

\* No two are in COTS of one object.
LEMMA OneCaller ==
  ASSUME OneUser, SInv, NEW c \in Callers, NEW d \in Callers,
         Callee(c) = Callee(d), step[c] # "no", step[d] # "no"
  PROVE  c = d
<1>1. CASE c \in Users /\ d \in Users
  BY <1>1, Zenon DEF OneUser
<1>2. CASE c \in CotThreads /\ d \in CotThreads
  <2>1. c[1] = d[1] /\ Active(c) /\ Active(d)
    BY <1>2 DEF SInv, InCots, Active
  <2> QED
    BY <1>2, <2>1, Zenon DEF SInv, OneActive
<1>3. ~(c \in Users /\ d \in CotThreads) /\ ~(c \in CotThreads /\ d \in Users)
  BY Kinds
<1> QED
  BY <1>1, <1>2, <1>3, Kinds

LEMMA SInvInit == StartInit => SInv
<1> SUFFICES ASSUME StartInit PROVE SInv
  OBVIOUS
<1>1. /\ cottid = [o \in Objects |-> 0] /\ step = [c \in Callers |-> "no"]
      /\ where = [t \in CotThreads |-> "none"] /\ places = [i \in WorkerIds |-> 0]
      /\ workLock = {}
  BY Zenon DEF StartInit
<1>2. ~polled
  BY Zenon DEF StartInit
<1>3. Words /\ InCots /\ OneActive
  BY <1>1, Kinds DEF Words, InCots, OneActive, Active
<1>4. Waited /\ ZeroIsIdle
  BY <1>1 DEF Waited, ZeroIsIdle, Idle, Active
<1>5. PolledBySelf
  BY <1>2, Zenon DEF PolledBySelf
<1>6. CoreStays /\ LockAtCheck /\ Places
  BY <1>1 DEF CoreStays, LockAtCheck, Places
<1> QED
  BY <1>3, <1>4, <1>5, <1>6, Zenon DEF SInv

------------------------------------------------------------------------------
(* COTS                                                                    *)

\* What is said of the core's threads does not depend on COTS.
LEMMA CoreKept ==
  ASSUME SInv, UNCHANGED <<where, coreVars>>
  PROVE  OneActive' /\ CoreStays' /\ PolledBySelf' /\ LockAtCheck' /\ Places'
<1>1. UNCHANGED <<where, left, places, polled, workLock>>
  BY DEF coreVars
<1> QED
  BY <1>1 DEF SInv, OneActive, Active, CoreStays, PolledBySelf, LockAtCheck, Places

LEMMA SInvCall ==
  ASSUME SInv, NEW u \in Users, Call(u)
  PROVE  SInv'
<1>1. /\ step[u] = "no" /\ step' = [step EXCEPT ![u] = "stop"]
      /\ cottid' = cottid /\ where' = where
  BY Zenon DEF Call
<1>2. OneActive' /\ CoreStays' /\ PolledBySelf' /\ LockAtCheck' /\ Places'
  BY CoreKept, Zenon DEF Call
<1>3. u \in Callers /\ u \notin CotThreads
  BY Kinds
<1>4. Words' /\ InCots'
  BY <1>1, <1>3, Kinds DEF SInv, Words, InCots
<1>5. Waited'
  BY <1>1, <1>3 DEF SInv, Words, Waited, Idle, Active
<1>6. ZeroIsIdle'
  <2> SUFFICES ASSUME NEW o \in Objects, cottid[o] = 0,
                      \A c \in Callers : Callee(c) = o => step'[c] \in {"no", "stop"}
               PROVE  Idle(o)
    BY <1>1 DEF ZeroIsIdle, Idle, Active
  <2>1. \A c \in Callers : Callee(c) = o => step[c] \in {"no", "stop"}
    BY <1>1, <1>3 DEF SInv, Words
  <2> QED
    BY <2>1, Zenon DEF SInv, ZeroIsIdle
<1> QED
  BY <1>2, <1>4, <1>5, <1>6, Zenon DEF SInv

LEMMA SInvStopCot ==
  ASSUME OneUser, SInv, NEW c \in Callers, StopCot(c)
  PROVE  SInv'
<1>1. /\ step[c] = "stop" /\ step' = [step EXCEPT ![c] = "zero"]
      /\ cottid[Callee(c)] = 0 /\ cottid' = cottid /\ where' = where
  BY Zenon DEF StopCot, Stopped
<1>2. OneActive' /\ CoreStays' /\ PolledBySelf' /\ LockAtCheck' /\ Places'
  BY CoreKept, Zenon DEF StopCot
<1>3. Words' /\ InCots'
  BY <1>1, Kinds DEF SInv, Words, InCots
<1>4. Idle(Callee(c))
  <2>1. \A d \in Callers : Callee(d) = Callee(c) => step[d] \in {"no", "stop"}
    BY <1>1, OneCaller
  <2> QED
    BY <1>1, <2>1, Kinds, Zenon DEF SInv, ZeroIsIdle
<1>5. Waited'
  BY <1>1, <1>4 DEF SInv, Words, Waited, Idle, Active
<1>6. ZeroIsIdle'
  <2> SUFFICES ASSUME NEW o \in Objects, cottid[o] = 0,
                      \A d \in Callers : Callee(d) = o => step'[d] \in {"no", "stop"}
               PROVE  Idle(o)
    BY <1>1 DEF ZeroIsIdle, Idle, Active
  <2>1. \A d \in Callers : Callee(d) = o => step[d] \in {"no", "stop"}
    BY <1>1 DEF SInv, Words
  <2> QED
    BY <2>1, Zenon DEF SInv, ZeroIsIdle
<1> QED
  BY <1>2, <1>3, <1>5, <1>6, Zenon DEF SInv

LEMMA SInvStoreZero ==
  ASSUME OneUser, SInv, NEW c \in Callers, StoreZero(c)
  PROVE  SInv'
<1>1. /\ step[c] = "zero" /\ step' = [step EXCEPT ![c] = "create"]
      /\ cottid' = [cottid EXCEPT ![Callee(c)] = 0] /\ where' = where
  BY Zenon DEF StoreZero
<1>2. OneActive' /\ CoreStays' /\ PolledBySelf' /\ LockAtCheck' /\ Places'
  BY CoreKept, Zenon DEF StoreZero
<1>3. Words' /\ InCots'
  BY <1>1, Kinds DEF SInv, Words, InCots
<1>4. Waited'
  BY <1>1 DEF SInv, Words, Waited, Idle, Active
<1>5. ZeroIsIdle'
  <2> SUFFICES ASSUME NEW o \in Objects, cottid'[o] = 0,
                      \A d \in Callers : Callee(d) = o => step'[d] \in {"no", "stop"}
               PROVE  Idle(o)
    BY <1>1 DEF ZeroIsIdle, Idle, Active
  <2>1. o # Callee(c)
    BY <1>1 DEF SInv, Words
  <2>2. cottid[o] = 0 /\ \A d \in Callers : Callee(d) = o => step[d] \in {"no", "stop"}
    BY <1>1, <2>1, Kinds DEF SInv, Words
  <2> QED
    BY <2>2, Zenon DEF SInv, ZeroIsIdle
<1> QED
  BY <1>2, <1>3, <1>4, <1>5, Zenon DEF SInv

\* The new thread finds no other of its object.
LEMMA SInvCreate ==
  ASSUME OneUser, SInv, NEW c \in Callers, Create(c)
  PROVE  SInv'
<1>1. /\ step[c] = "create" /\ step' = [step EXCEPT ![c] = "one"] /\ cottid' = cottid
      /\ UNCHANGED <<left, places, workLock>>
  BY Zenon DEF Create, coreVars
<1>2. polled' = polled
  BY Zenon DEF Create, coreVars
<1>3. PICK t \in CotThreads :
        t[1] = Callee(c) /\ where[t] = "none" /\ where' = [where EXCEPT ![t] = "cot"]
  BY Zenon DEF Create
<1>4. Idle(Callee(c))
  BY <1>1 DEF SInv, Waited
<1>5. Words'
  BY <1>1, <1>3 DEF SInv, Words
<1>6. InCots'
  <2> SUFFICES ASSUME NEW v \in CotThreads, step'[v] # "no"
               PROVE  v[1] = "server" /\ where'[v] = "starting"
    BY DEF InCots
  <2>1. step[v] # "no"
    BY <1>1, Kinds DEF SInv, Words
  <2>2. v[1] = "server" /\ where[v] = "starting"
    BY <2>1 DEF SInv, InCots
  <2> QED
    BY <1>3, <2>2 DEF SInv, Words
<1>7. OneActive'
  BY <1>3, <1>4 DEF SInv, Words, OneActive, Idle, Active
<1>8. Waited'
  <2> SUFFICES ASSUME NEW d \in Callers, step'[d] \in {"zero", "create"}
               PROVE  Idle(Callee(d))'
    BY DEF Waited
  <2>1. d # c /\ step[d] = step'[d]
    BY <1>1 DEF SInv, Words
  <2>2. Callee(d) # Callee(c)
    BY <1>1, <2>1, OneCaller
  <2>3. Idle(Callee(d))
    BY <2>1 DEF SInv, Waited
  <2> QED
    BY <1>3, <2>2, <2>3 DEF Idle, Active, SInv, Words
<1>9. ZeroIsIdle'
  <2> SUFFICES ASSUME NEW o \in Objects, cottid[o] = 0,
                      \A d \in Callers : Callee(d) = o => step'[d] \in {"no", "stop"}
               PROVE  Idle(o)'
    BY <1>1 DEF ZeroIsIdle
  <2>1. o # Callee(c)
    BY <1>1 DEF SInv, Words
  <2>2. \A d \in Callers : Callee(d) = o => step[d] \in {"no", "stop"}
    BY <1>1, <2>1 DEF SInv, Words
  <2>3. Idle(o)
    BY <2>2, Zenon DEF SInv, ZeroIsIdle
  <2> QED
    BY <1>3, <2>1, <2>3 DEF Idle, Active, SInv, Words
<1>10. CoreStays' /\ LockAtCheck' /\ Places'
  BY <1>1, <1>3 DEF SInv, Words, CoreStays, LockAtCheck, Places
<1>11. PolledBySelf'
  <2>1. (\E v \in CotThreads : v[1] = "core" /\ where[v] = "poll")
        => \E v \in CotThreads : v[1] = "core" /\ where'[v] = "poll"
    BY <1>3 DEF SInv, Words
  <2> QED
    BY <1>2, <2>1, Zenon DEF SInv, PolledBySelf
<1> QED
  BY <1>5, <1>6, <1>7, <1>8, <1>9, <1>10, <1>11, Zenon DEF SInv

LEMMA SInvStoreOne ==
  ASSUME OneUser, SInv, NEW c \in Callers, StoreOne(c)
  PROVE  SInv'
<1>1. /\ step[c] = "one" /\ step' = [step EXCEPT ![c] = "no"]
      /\ cottid' = [cottid EXCEPT ![Callee(c)] = 1] /\ where' = where
  BY Zenon DEF StoreOne
<1>2. OneActive' /\ CoreStays' /\ PolledBySelf' /\ LockAtCheck' /\ Places'
  BY CoreKept, Zenon DEF StoreOne
<1>3. Words' /\ InCots'
  BY <1>1, Kinds DEF SInv, Words, InCots
<1>4. Waited'
  BY <1>1 DEF SInv, Words, Waited, Idle, Active
<1>5. ZeroIsIdle'
  <2> SUFFICES ASSUME NEW o \in Objects, cottid'[o] = 0,
                      \A d \in Callers : Callee(d) = o => step'[d] \in {"no", "stop"}
               PROVE  Idle(o)
    BY <1>1 DEF ZeroIsIdle, Idle, Active
  <2>1. o # Callee(c)
    BY <1>1 DEF SInv, Words
  <2>2. cottid[o] = 0 /\ \A d \in Callers : Callee(d) = o => step[d] \in {"no", "stop"}
    BY <1>1, <2>1, Kinds DEF SInv, Words
  <2> QED
    BY <2>2, Zenon DEF SInv, ZeroIsIdle
<1> QED
  BY <1>2, <1>3, <1>4, <1>5, Zenon DEF SInv

\* The end of a thread: nobody else of the object is active, and the core's
\* thread does not end.
LEMMA SInvRunCot ==
  ASSUME SInv, NEW t \in CotThreads, RunCot(t)
  PROVE  SInv'
<1>1. /\ where[t] = "return" /\ where' = [where EXCEPT ![t] = "ended"]
      /\ cottid' = [cottid EXCEPT ![t[1]] = 0] /\ step' = step
      /\ UNCHANGED <<left, places, workLock>>
  BY Zenon DEF RunCot, EndedTid, coreVars
<1>2. polled' = polled
  BY Zenon DEF RunCot, coreVars
<1>3. t[1] \in Objects /\ t[1] # "core"
  BY <1>1, Kinds DEF SInv, CoreStays
<1>4. Words' /\ InCots'
  BY <1>1, <1>3 DEF SInv, Words, InCots
<1>5. OneActive' /\ Waited'
  BY <1>1 DEF SInv, Words, OneActive, Waited, Idle, Active
<1>6. ZeroIsIdle'
  <2> SUFFICES ASSUME NEW o \in Objects, cottid'[o] = 0,
                      \A d \in Callers : Callee(d) = o => step[d] \in {"no", "stop"}
               PROVE  Idle(o)'
    BY <1>1 DEF ZeroIsIdle
  <2>1. CASE o = t[1]
    BY <1>1, <2>1 DEF SInv, Words, OneActive, Idle, Active
  <2>2. CASE o # t[1]
    <3>1. Idle(o)
      BY <1>1, <2>2 DEF SInv, Words, ZeroIsIdle
    <3> QED
      BY <1>1, <3>1 DEF Idle, Active, SInv, Words
  <2> QED
    BY <2>1, <2>2
<1>7. CoreStays' /\ LockAtCheck' /\ Places'
  BY <1>1, <1>3 DEF SInv, Words, CoreStays, LockAtCheck, Places
<1>8. PolledBySelf'
  <2>1. (\E v \in CotThreads : v[1] = "core" /\ where[v] = "poll")
        => \E v \in CotThreads : v[1] = "core" /\ where'[v] = "poll"
    BY <1>1, <1>3 DEF SInv, Words
  <2> QED
    BY <1>2, <2>1, Zenon DEF SInv, PolledBySelf
<1> QED
  BY <1>4, <1>5, <1>6, <1>7, <1>8, Zenon DEF SInv

------------------------------------------------------------------------------
(* The threads                                                             *)

\* A thread goes on to another place and stays active; COTS is where it was.
LEMMA GoesOnKept ==
  ASSUME SInv, NEW t \in CotThreads, NEW to \in {"starting", "listen", "seen", "cot",
                                                 "check", "poll", "return"},
         Active(t), where' = [where EXCEPT ![t] = to], cottid' = cottid,
         step' = step, to = "starting" \/ step[t] = "no"
  PROVE  Words' /\ InCots' /\ OneActive' /\ Waited' /\ ZeroIsIdle'
<1>1. \A v \in CotThreads : Active(v)' <=> Active(v)
  BY DEF SInv, Words, Active
<1>2. Words'
  BY DEF SInv, Words
<1>3. InCots'
  BY DEF SInv, Words, InCots
<1>4. OneActive' /\ Waited' /\ ZeroIsIdle'
  BY <1>1 DEF SInv, OneActive, Waited, ZeroIsIdle, Idle
<1> QED
  BY <1>2, <1>3, <1>4

\* The thread of the server asks for the core's.
LEMMA SInvRunCore ==
  ASSUME SInv, NEW t \in CotThreads, RunCore(t)
  PROVE  SInv'
<1>1. /\ t[1] = "server" /\ where[t] = "cot" /\ where' = [where EXCEPT ![t] = "starting"]
      /\ step' = [step EXCEPT ![t] = "stop"] /\ cottid' = cottid
      /\ UNCHANGED <<left, places, workLock>>
  BY Zenon DEF RunCore, Goes, coreVars
<1>2. polled' = polled
  BY Zenon DEF RunCore, coreVars
<1>3. \A v \in CotThreads : Active(v)' <=> Active(v)
  BY <1>1 DEF SInv, Words, Active
<1>4. Words' /\ InCots'
  BY <1>1, Kinds DEF SInv, Words, InCots
<1>5. OneActive'
  BY <1>3 DEF SInv, OneActive
<1>6. Waited'
  BY <1>1, <1>3 DEF SInv, Words, Waited, Idle
<1>7. ZeroIsIdle'
  <2>1. step[t] = "no"
    BY <1>1 DEF SInv, InCots
  <2> SUFFICES ASSUME NEW o \in Objects, cottid[o] = 0,
                      \A d \in Callers : Callee(d) = o => step'[d] \in {"no", "stop"}
               PROVE  Idle(o)
    BY <1>1, <1>3 DEF ZeroIsIdle, Idle
  <2>2. \A d \in Callers : Callee(d) = o => step[d] \in {"no", "stop"}
    BY <1>1, <2>1 DEF SInv, Words
  <2> QED
    BY <2>2, Zenon DEF SInv, ZeroIsIdle
<1>8. CoreStays' /\ LockAtCheck' /\ Places'
  BY <1>1 DEF SInv, Words, CoreStays, LockAtCheck, Places
<1>9. PolledBySelf'
  <2>1. (\E v \in CotThreads : v[1] = "core" /\ where[v] = "poll")
        => \E v \in CotThreads : v[1] = "core" /\ where'[v] = "poll"
    BY <1>1 DEF SInv, Words
  <2> QED
    BY <1>2, <2>1, Zenon DEF SInv, PolledBySelf
<1> QED
  BY <1>4, <1>5, <1>6, <1>7, <1>8, <1>9, Zenon DEF SInv

LEMMA SInvListen ==
  ASSUME SInv, NEW t \in CotThreads, Listen(t)
  PROVE  SInv'
<1>1. /\ t[1] = "server" /\ where[t] = "starting" /\ step[t] = "no"
      /\ step' = step /\ cottid' = cottid
      /\ UNCHANGED <<left, places, workLock>>
  BY Zenon DEF Listen, Goes, coreVars
<1>2. PICK to \in {"return", "listen"} : where' = [where EXCEPT ![t] = to]
  BY Zenon DEF Listen, Goes
<1>3. polled' = polled
  BY Zenon DEF Listen, coreVars
<1>4. Words' /\ InCots' /\ OneActive' /\ Waited' /\ ZeroIsIdle'
  <2>1. Active(t)
    BY <1>1 DEF Active
  <2>2. to \in {"starting", "listen", "seen", "cot", "check", "poll", "return"}
    BY <1>2
  <2> QED
    BY <1>1, <1>2, <2>1, <2>2, GoesOnKept, Zenon
<1>5. CoreStays' /\ LockAtCheck' /\ Places'
  BY <1>1, <1>2 DEF SInv, Words, CoreStays, LockAtCheck, Places
<1>6. PolledBySelf'
  <2>1. (\E v \in CotThreads : v[1] = "core" /\ where[v] = "poll")
        => \E v \in CotThreads : v[1] = "core" /\ where'[v] = "poll"
    BY <1>1, <1>2 DEF SInv, Words
  <2> QED
    BY <1>3, <2>1, Zenon DEF SInv, PolledBySelf
<1> QED
  BY <1>4, <1>5, <1>6, Zenon DEF SInv

\* A step of the core's thread before it polls: it is the only one.
LEMMA CoreAlone ==
  ASSUME SInv, NEW t \in CotThreads, t[1] = "core",
         where[t] \in {"cot", "seen", "check"}
  PROVE  /\ Active(t) /\ step[t] = "no" /\ ~polled
         /\ \A v \in CotThreads : v[1] = "core" /\ v # t => where[v] = "none"
<1>1. Active(t) /\ step[t] = "no"
  BY DEF Active, SInv, InCots
<1>2. \A v \in CotThreads : v[1] = "core" /\ v # t => where[v] = "none"
  BY <1>1 DEF SInv, OneActive, CoreStays, Active
<1>3. ~ \E v \in CotThreads : v[1] = "core" /\ where[v] = "poll"
  BY <1>2
<1>4. ~polled
  BY <1>3, Zenon DEF SInv, PolledBySelf
<1> QED
  BY <1>1, <1>2, <1>4

LEMMA SInvSeePlace ==
  ASSUME SInv, NEW t \in CotThreads, SeePlace(t)
  PROVE  SInv'
<1>1. /\ t[1] = "core" /\ where[t] = "cot"
      /\ step' = step /\ cottid' = cottid /\ places' = places /\ workLock' = workLock
  BY Zenon DEF SeePlace, Goes
<1>2. /\ Active(t) /\ step[t] = "no" /\ ~polled
      /\ \A v \in CotThreads : v[1] = "core" /\ v # t => where[v] = "none"
  BY <1>1, CoreAlone
<1>3. ~polled'
  BY <1>2, Zenon DEF SeePlace
<1>4. CASE /\ places[Lowest(left[t])] = 0 /\ left' = left
           /\ where' = [where EXCEPT ![t] = "seen"]
  <2>1. Words' /\ InCots' /\ OneActive' /\ Waited' /\ ZeroIsIdle'
    BY <1>1, <1>2, <1>4, GoesOnKept
  <2>2. CoreStays' /\ LockAtCheck'
    BY <1>1, <1>4 DEF SInv, Words, CoreStays, LockAtCheck
  <2>3. Places'
    BY <1>1, <1>2, <1>4 DEF SInv, Words, Places
  <2>4. PolledBySelf'
    BY <1>3, Zenon DEF PolledBySelf
  <2> QED
    BY <2>1, <2>2, <2>3, <2>4, Zenon DEF SInv
<1>5. CASE where' = where
  <2>1. Words' /\ InCots' /\ OneActive' /\ Waited' /\ ZeroIsIdle'
    BY <1>1, <1>5 DEF SInv, Words, InCots, OneActive, Waited, ZeroIsIdle, Idle, Active
  <2>2. CoreStays' /\ LockAtCheck'
    BY <1>1, <1>5 DEF SInv, CoreStays, LockAtCheck
  <2>3. Places'
    BY <1>1, <1>2, <1>5 DEF SInv, Places
  <2>4. PolledBySelf'
    BY <1>3, Zenon DEF PolledBySelf
  <2> QED
    BY <2>1, <2>2, <2>3, <2>4, Zenon DEF SInv
<1> QED
  BY <1>4, <1>5, Zenon DEF SeePlace, Goes

LEMMA SInvStartWorker ==
  ASSUME SInv, NEW t \in CotThreads, StartWorker(t)
  PROVE  SInv'
<1>1. /\ t[1] = "core" /\ where[t] = "seen" /\ where' = [where EXCEPT ![t] = "cot"]
      /\ places' = [places EXCEPT ![Lowest(left[t])] = @ + 1]
      /\ step' = step /\ cottid' = cottid /\ workLock' = workLock
  BY Zenon DEF StartWorker, Goes
<1>2. /\ Active(t) /\ step[t] = "no" /\ ~polled
      /\ \A v \in CotThreads : v[1] = "core" /\ v # t => where[v] = "none"
  BY <1>1, CoreAlone
<1>3. PolledBySelf'
  BY <1>2, Zenon DEF StartWorker, PolledBySelf
<1>4. Words' /\ InCots' /\ OneActive' /\ Waited' /\ ZeroIsIdle'
  BY <1>1, <1>2, GoesOnKept
<1>5. CoreStays' /\ LockAtCheck'
  BY <1>1 DEF SInv, Words, CoreStays, LockAtCheck
<1>6. Places'
  <2> DEFINE i == Lowest(left[t])
  <2>1. i \in WorkerIds => places[i] = 0
    BY <1>1 DEF SInv, Places
  <2>2. places \in [WorkerIds -> {0, 1}]
    BY DEF SInv, Places
  <2> HIDE DEF i
  <2>3. places' = [places EXCEPT ![i] = @ + 1]
    BY <1>1 DEF i
  <2>4. places' \in [WorkerIds -> {0, 1}]
    <3>1. CASE i \in WorkerIds
      <4>1. places' = [places EXCEPT ![i] = 1]
        BY <2>1, <2>2, <2>3, <3>1
      <4> QED
        BY <4>1, <2>2
    <3>2. CASE i \notin WorkerIds
      BY <2>2, <2>3, <3>2
    <3> QED
      BY <3>1, <3>2
  <2>5. \A v \in CotThreads : v[1] = "core" => where'[v] # "seen"
    BY <1>1, <1>2 DEF SInv, Words
  <2> QED
    BY <2>4, <2>5 DEF Places
<1> QED
  BY <1>3, <1>4, <1>5, <1>6, Zenon DEF SInv

LEMMA SInvLockWork ==
  ASSUME SInv, NEW t \in CotThreads, LockWork(t)
  PROVE  SInv'
<1>1. /\ t[1] = "core" /\ where[t] = "cot" /\ where' = [where EXCEPT ![t] = "check"]
      /\ workLock' = {t} /\ places' = places /\ left' = left
      /\ step' = step /\ cottid' = cottid
  BY Zenon DEF LockWork, Goes
<1>2. /\ Active(t) /\ step[t] = "no" /\ ~polled
      /\ \A v \in CotThreads : v[1] = "core" /\ v # t => where[v] = "none"
  BY <1>1, CoreAlone
<1>3. PolledBySelf'
  BY <1>2, Zenon DEF LockWork, PolledBySelf
<1>4. Words' /\ InCots' /\ OneActive' /\ Waited' /\ ZeroIsIdle'
  BY <1>1, <1>2, GoesOnKept
<1>5. CoreStays' /\ LockAtCheck' /\ Places'
  BY <1>1 DEF SInv, Words, CoreStays, LockAtCheck, Places
<1> QED
  BY <1>3, <1>4, <1>5, Zenon DEF SInv

\* Nobody else polls, so the poller does not return with the lock.
LEMMA SInvRunOnce ==
  ASSUME SInv, NEW t \in CotThreads, RunOnce(t)
  PROVE  SInv'
<1>1. t[1] = "core" /\ where[t] = "check"
  BY Zenon DEF RunOnce, Goes
<1>2. /\ Active(t) /\ step[t] = "no" /\ ~polled
      /\ \A v \in CotThreads : v[1] = "core" /\ v # t => where[v] = "none"
  BY <1>1, CoreAlone
<1>3. /\ where' = [where EXCEPT ![t] = "poll"] /\ workLock' = {}
      /\ step' = step /\ cottid' = cottid /\ places' = places /\ left' = left
  BY <1>2, Zenon DEF RunOnce, Goes
<1>4. Words' /\ InCots' /\ OneActive' /\ Waited' /\ ZeroIsIdle'
  BY <1>2, <1>3, GoesOnKept
<1>5. CoreStays' /\ LockAtCheck' /\ Places'
  BY <1>1, <1>3 DEF SInv, Words, CoreStays, LockAtCheck, Places
<1>6. PolledBySelf'
  <2>1. where'[t] = "poll"
    BY <1>3 DEF SInv, Words
  <2> QED
    BY <1>1, <2>1, Zenon DEF PolledBySelf
<1> QED
  BY <1>4, <1>5, <1>6, Zenon DEF SInv

LEMMA SInvStep == OneUser /\ SInv /\ [StartNext]_startVars => SInv'
<1> SUFFICES ASSUME OneUser, SInv, [StartNext]_startVars PROVE SInv'
  OBVIOUS
<1>1. ASSUME NEW u \in Users, Call(u) PROVE SInv'
  BY <1>1, SInvCall
<1>2. ASSUME NEW c \in Callers, CotStep(c) PROVE SInv'
  BY <1>2, SInvStopCot, SInvStoreZero, SInvCreate, SInvStoreOne, Zenon DEF CotStep
<1>3. ASSUME NEW t \in CotThreads, ThreadStep(t) PROVE SInv'
  BY <1>3, SInvRunCore, SInvListen, SInvRunCot, SInvSeePlace, SInvStartWorker,
     SInvLockWork, SInvRunOnce, Zenon DEF ThreadStep
<1>4. CASE UNCHANGED startVars
  <2>1. UNCHANGED <<cottid, step, where, left, places, workLock>>
    BY <1>4, Zenon DEF startVars
  <2>2. polled' = polled
    BY <1>4, Zenon DEF startVars
  <2>3. Words' /\ InCots' /\ OneActive' /\ Waited' /\ ZeroIsIdle'
    BY <2>1 DEF SInv, Words, InCots, OneActive, Waited, ZeroIsIdle, Idle, Active
  <2>4. CoreStays' /\ LockAtCheck' /\ Places'
    BY <2>1 DEF SInv, CoreStays, LockAtCheck, Places
  <2>5. PolledBySelf'
    BY <2>1, <2>2, Zenon DEF SInv, PolledBySelf
  <2> QED
    BY <2>3, <2>4, <2>5, Zenon DEF SInv
<1> QED
  BY <1>1, <1>2, <1>3, <1>4, Zenon DEF StartNext

------------------------------------------------------------------------------
(* The property                                                            *)

\* A program that calls RunInThread from one thread, and again after each start
\* that failed, never has two threads in the COT of the server or of the core,
\* never two workers for a place of threads[], and never a poller that returns
\* with socket_work_lock, although neither the lock around threads[] nor the
\* test of is_socket_poll_work would keep a second start out.
THEOREM StartsOnceHolds ==
  ASSUME OneUser
  PROVE  StartSpec => []StartsOnce
<1>1. StartInit => SInv
  BY SInvInit
<1>2. SInv /\ [StartNext]_startVars => SInv'
  BY SInvStep
<1>3. ASSUME SInv PROVE StartsOnce
  <2>1. OneThread
    BY <1>3 DEF SInv, OneActive, OneThread, Active, Lives
  <2>2. CoreRunsOnce
    BY <1>3 DEF SInv, LockAtCheck, Places, CoreRunsOnce, Lives
  <2> QED
    BY <2>1, <2>2, Zenon DEF StartsOnce
<1> QED
  BY <1>1, <1>2, <1>3, PTL DEF StartSpec

\* The words the starts do not wait for.
StartRest ==
  /\ left \in [CotThreads -> SUBSET WorkerIds] /\ calls \in 0..MaxRuns
  /\ workLock \in SUBSET CotThreads

LEMMA StartRestKept ==
  ASSUME StartRest, [StartNext]_startVars
  PROVE  StartRest'
<1>1. MaxRuns \in Nat
  BY StartAssumption
<1>2. ASSUME NEW u \in Users, Call(u) PROVE StartRest'
  BY <1>1, <1>2 DEF Call, StartRest, coreVars
<1>3. ASSUME NEW c \in Callers, CotStep(c) PROVE StartRest'
  BY <1>3 DEF CotStep, StopCot, StoreZero, Create, StoreOne, StartRest, coreVars
<1>4. ASSUME NEW t \in CotThreads, ThreadStep(t) PROVE StartRest'
  <2>1. left' = left \/ left' = [left EXCEPT ![t] = left[t] \ {Lowest(left[t])}]
    BY <1>4 DEF ThreadStep, RunCore, Listen, RunCot, SeePlace, StartWorker, LockWork, RunOnce,
                coreVars
  <2>2. workLock' = workLock \/ workLock' = {t} \/ workLock' = {}
    BY <1>4 DEF ThreadStep, RunCore, Listen, RunCot, SeePlace, StartWorker, LockWork, RunOnce,
                coreVars
  <2>3. calls' = calls
    BY <1>4 DEF ThreadStep, RunCore, Listen, RunCot, SeePlace, StartWorker, LockWork, RunOnce
  <2>4. left[t] \ {Lowest(left[t])} \in SUBSET WorkerIds
    BY DEF StartRest
  <2> QED
    BY <2>1, <2>2, <2>3, <2>4 DEF StartRest
<1>5. CASE UNCHANGED startVars
  BY <1>5 DEF startVars, StartRest
<1> QED
  BY <1>2, <1>3, <1>4, <1>5, Zenon DEF StartNext

\* What the threads have noted is a truth value.
Noted == polled \in BOOLEAN /\ early \in BOOLEAN

LEMMA NotedKept ==
  ASSUME Noted, [StartNext]_startVars
  PROVE  Noted'
<1>1. polled' = polled \/ polled' = TRUE
  BY Zenon DEF StartNext, Call, CotStep, StopCot, StoreZero, Create, StoreOne, ThreadStep,
               RunCore, Listen, RunCot, SeePlace, StartWorker, LockWork, RunOnce, coreVars,
               startVars
<1>2. early' = early \/ \E o \in {"server", "core"} :
        early' = (early \/ \E c \in Callers : Callee(c) = o /\ step[c] = "one")
  <2>1. ASSUME NEW t \in CotThreads, RunCot(t)
        PROVE  \E o \in {"server", "core"} :
                 early' = (early \/ \E c \in Callers : Callee(c) = o /\ step[c] = "one")
    <3>1. t[1] \in {"server", "core"}
      BY DEF CotThreads, Objects
    <3> QED
      BY <2>1, <3>1, Zenon DEF RunCot
  <2> QED
    BY <2>1, Zenon DEF StartNext, Call, CotStep, StopCot, StoreZero, Create, StoreOne,
          ThreadStep, RunCore, Listen, SeePlace, StartWorker, LockWork, RunOnce, startVars
<1>3. \A o : (early \/ \E c \in Callers : Callee(c) = o /\ step[c] = "one") \in BOOLEAN
  BY Zenon
<1> QED
  BY <1>1, <1>2, <1>3, Zenon DEF Noted

\* A thread and a caller are always in one of the places of the code, and no
\* place of threads[] has more workers than there were starts.
THEOREM StartTypeCorrect ==
  ASSUME OneUser
  PROVE  StartSpec => []StartTypeOK
<1>1. StartInit => SInv /\ StartRest /\ Noted
  <2>1. StartInit => StartRest
    BY StartAssumption DEF StartInit, StartRest
  <2>2. StartInit => Noted
    BY Zenon DEF StartInit, Noted
  <2> QED
    BY <2>1, <2>2, SInvInit
<1>2. SInv /\ StartRest /\ Noted /\ [StartNext]_startVars => SInv' /\ StartRest' /\ Noted'
  BY SInvStep, StartRestKept, NotedKept
<1>3. ASSUME SInv, StartRest, Noted PROVE StartTypeOK
  <2>1. places \in [WorkerIds -> 0..MaxRuns]
    <3>1. 0 \in 0..MaxRuns /\ 1 \in 0..MaxRuns
      BY StartAssumption
    <3>2. places \in [WorkerIds -> {0, 1}]
      BY <1>3 DEF SInv, Places
    <3> QED
      BY <3>1, <3>2
  <2> QED
    BY <1>3, <2>1, Zenon DEF SInv, Words, StartRest, Noted, StartTypeOK
<1> QED
  BY <1>1, <1>2, <1>3, PTL DEF StartSpec

------------------------------------------------------------------------------
(* Arithmetic of the ring's indices                                        *)

Index == 0..(RingSz - 1)

LEMMA Small ==
  ASSUME NEW n \in Nat \ {0}, NEW x \in 0..(n - 1) PROVE x % n = x
OBVIOUS

LEMMA Wraps ==
  ASSUME NEW n \in Nat \ {0}, NEW x \in n..(2 * n - 1) PROVE x % n = x - n
OBVIOUS

\* The place after the last one is the first.
LEMMA AfterIs ==
  ASSUME NEW i \in Index
  PROVE After(i) \in Index /\ After(i) = IF i = RingSz - 1 THEN 0 ELSE i + 1
<1>1. CASE i = RingSz - 1
  <2>1. (i + 1) % RingSz = (i + 1) - RingSz
    BY <1>1, RingAssumption, Wraps
  <2> QED
    BY <1>1, <2>1, RingAssumption DEF After, Index
<1>2. CASE i # RingSz - 1
  <2>1. (i + 1) % RingSz = i + 1
    BY <1>2, RingAssumption, Small DEF Index
  <2> QED
    BY <1>2, <2>1, RingAssumption DEF After, Index
<1> QED
  BY <1>1, <1>2

\* How many places there are from one index up to another.
LEMMA Distance ==
  ASSUME NEW a \in Index, NEW b \in Index
  PROVE /\ (a - b + RingSz) % RingSz \in Index
        /\ (a - b + RingSz) % RingSz = IF b <= a THEN a - b ELSE a - b + RingSz
<1>1. CASE b <= a
  <2>1. (a - b + RingSz) % RingSz = (a - b + RingSz) - RingSz
    BY <1>1, RingAssumption, Wraps DEF Index
  <2> QED
    BY <1>1, <2>1, RingAssumption DEF Index
<1>2. CASE ~(b <= a)
  BY <1>2, RingAssumption, Small DEF Index
<1> QED
  BY <1>1, <1>2

\* The index that many places on.
LEMMA Place ==
  ASSUME NEW b \in Index, NEW k \in Index
  PROVE /\ (b + k) % RingSz \in Index
        /\ (b + k) % RingSz = IF b + k < RingSz THEN b + k ELSE b + k - RingSz
<1>1. CASE b + k < RingSz
  BY <1>1, RingAssumption, Small DEF Index
<1>2. CASE ~(b + k < RingSz)
  <2>1. (b + k) % RingSz = (b + k) - RingSz
    BY <1>2, RingAssumption, Wraps DEF Index
  <2> QED
    BY <1>2, <2>1, RingAssumption DEF Index
<1> QED
  BY <1>1, <1>2

------------------------------------------------------------------------------
(* The ring's contents as a sequence                                       *)

LEMMA CountIs ==
  ASSUME RingTypeOK
  PROVE /\ Count \in Index
        /\ Count = IF rid <= wid THEN wid - rid ELSE wid - rid + RingSz
        /\ Empty <=> Count = 0
        /\ Full <=> Count = RingSz - 1
<1>1. wid \in Index /\ rid \in Index
  BY DEF RingTypeOK, Index
<1>2. Count = IF rid <= wid THEN wid - rid ELSE wid - rid + RingSz
  BY <1>1, Distance DEF Count
<1>3. Full <=> Count = RingSz - 1
  BY <1>1, <1>2, AfterIs, RingAssumption DEF Full, Index
<1> QED
  BY <1>1, <1>2, <1>3, RingAssumption DEF Empty, Index

LEMMA QueueIs ==
  ASSUME RingTypeOK
  PROVE /\ Queue \in Seq(Items \cup {Nothing}) /\ Len(Queue) = Count
        /\ \A i \in 1..Count :
             Queue[i] = data[IF rid + i - 1 < RingSz THEN rid + i - 1
                             ELSE rid + i - 1 - RingSz]
<1>1. wid \in Index /\ rid \in Index /\ Count \in Index
  BY CountIs DEF RingTypeOK, Index
<1>2. ASSUME NEW i \in 1..Count
      PROVE /\ (rid + i - 1) % RingSz \in Index
            /\ (rid + i - 1) % RingSz =
                 IF rid + i - 1 < RingSz THEN rid + i - 1 ELSE rid + i - 1 - RingSz
  <2>1. i - 1 \in Index /\ rid + i - 1 = rid + (i - 1)
    BY <1>1, RingAssumption DEF Index
  <2> QED
    BY <1>1, <2>1, Place
<1>3. \A i \in 1..Count : Queue[i] = data[(rid + i - 1) % RingSz]
  BY DEF Queue
<1>4. Queue \in [1..Count -> Items \cup {Nothing}]
  BY <1>2 DEF Queue, RingTypeOK, Index
<1>5. Count \in Nat
  BY <1>1 DEF Index
<1>6. Len(Queue) = Count /\ Queue \in Seq(Items \cup {Nothing})
  BY <1>4, <1>5
<1> QED
  BY <1>2, <1>3, <1>6

\* The same facts after a step.
LEMMA CountNext ==
  ASSUME RingTypeOK'
  PROVE /\ Count' \in Index
        /\ Count' = IF rid' <= wid' THEN wid' - rid' ELSE wid' - rid' + RingSz
<1>1. wid' \in Index /\ rid' \in Index
  BY DEF RingTypeOK, Index
<1>2. Count' = IF rid' <= wid' THEN wid' - rid' ELSE wid' - rid' + RingSz
  BY <1>1, Distance DEF Count
<1>3. Count' \in Index
  BY <1>1, Distance DEF Count
<1> QED
  BY <1>2, <1>3

LEMMA QueueNext ==
  ASSUME RingTypeOK'
  PROVE /\ Queue' \in Seq(Items \cup {Nothing}) /\ Len(Queue') = Count'
        /\ \A i \in 1..Count' :
             Queue'[i] = data'[IF rid' + i - 1 < RingSz THEN rid' + i - 1
                               ELSE rid' + i - 1 - RingSz]
<1>1. wid' \in Index /\ rid' \in Index /\ Count' \in Index
  BY CountNext DEF RingTypeOK, Index
<1>2. ASSUME NEW i \in 1..Count'
      PROVE /\ (rid' + i - 1) % RingSz \in Index
            /\ (rid' + i - 1) % RingSz =
                 IF rid' + i - 1 < RingSz THEN rid' + i - 1 ELSE rid' + i - 1 - RingSz
  <2>1. i - 1 \in Index /\ rid' + i - 1 = rid' + (i - 1)
    BY <1>1, RingAssumption DEF Index
  <2> QED
    BY <1>1, <2>1, Place
<1>3. \A i \in 1..Count' : Queue'[i] = data'[(rid' + i - 1) % RingSz]
  BY DEF Queue
<1>4. Queue' \in [1..Count' -> Items \cup {Nothing}]
  BY <1>2 DEF Queue, RingTypeOK, Index
<1>5. Count' \in Nat
  BY <1>1 DEF Index
<1>6. Len(Queue') = Count' /\ Queue' \in Seq(Items \cup {Nothing})
  BY <1>4, <1>5
<1> QED
  BY <1>2, <1>3, <1>6

LEMMA SameSeq ==
  ASSUME NEW S, NEW q \in Seq(S), NEW r \in Seq(S), Len(q) = Len(r),
         \A i \in 1..Len(q) : q[i] = r[i]
  PROVE q = r
OBVIOUS

\* The store of data[wid] is not seen yet: wid is no place of the queue.
LEMMA QueueWrite ==
  ASSUME RingTypeOK, RingTypeOK', UNCHANGED <<wid, rid>>,
         \A i \in Index \ {wid} : data'[i] = data[i]
  PROVE Queue' = Queue
<1>1. Count' = Count /\ Count \in Index
  BY CountIs DEF Count
<1>2. ASSUME NEW i \in 1..Count PROVE Queue'[i] = Queue[i]
  <2> DEFINE p == IF rid + i - 1 < RingSz THEN rid + i - 1 ELSE rid + i - 1 - RingSz
  <2>1. p \in Index /\ p # wid
    BY <1>1, CountIs, RingAssumption DEF Index, RingTypeOK
  <2>2. Queue[i] = data[p] /\ Queue'[i] = data'[p]
    BY <1>1, QueueIs, QueueNext
  <2> QED
    BY <2>1, <2>2
<1> QED
  BY <1>1, <1>2, QueueIs, QueueNext, SameSeq

\* The store of wid appends what was stored at data[wid].
LEMMA QueueAdvance ==
  ASSUME RingTypeOK, RingTypeOK', ~Full, wid' = After(wid), UNCHANGED <<rid, data>>
  PROVE Queue' = Append(Queue, data[wid])
<1>1. wid \in Index /\ rid \in Index /\ Count \in Index
  BY CountIs DEF RingTypeOK, Index
<1>2. Count' = Count + 1
  <2>1. rid' \in Index /\ wid' \in Index /\ rid \in Index /\ wid \in Index
    BY <1>1 DEF RingTypeOK, Index
  <2>2. /\ Count' = IF rid' <= wid' THEN wid' - rid' ELSE wid' - rid' + RingSz
        /\ Count = IF rid <= wid THEN wid - rid ELSE wid - rid + RingSz
        /\ Empty <=> Count = 0
        /\ Full <=> Count = RingSz - 1
    BY CountIs, CountNext
  <2>3. /\ After(rid) = IF rid = RingSz - 1 THEN 0 ELSE rid + 1
        /\ After(wid) = IF wid = RingSz - 1 THEN 0 ELSE wid + 1
    BY <2>1, AfterIs
  <2> QED
    BY <2>1, <2>2, <2>3, RingAssumption DEF Index
<1>3. data[wid] \in Items \cup {Nothing}
  BY <1>1 DEF RingTypeOK, Index
<1> DEFINE r == Append(Queue, data[wid])
<1>4. /\ r \in Seq(Items \cup {Nothing}) /\ Len(r) = Count + 1
      /\ \A i \in 1..Count : r[i] = Queue[i]
      /\ r[Count + 1] = data[wid]
  BY <1>1, <1>3, QueueIs DEF Index
<1> HIDE DEF r
<1>5. ASSUME NEW i \in 1..Count' PROVE Queue'[i] = r[i]
  <2>1. CASE i \in 1..Count
    BY <1>2, <1>4, <2>1, QueueIs, QueueNext
  <2>2. CASE i = Count + 1
    <3>1. wid = IF rid + i - 1 < RingSz THEN rid + i - 1 ELSE rid + i - 1 - RingSz
      BY <1>1, <2>2, CountIs, RingAssumption DEF Index
    <3>2. Queue'[i] = data[wid]
      BY <3>1, QueueNext
    <3> QED
      BY <1>4, <2>2, <3>2
  <2> QED
    BY <1>1, <1>2, <2>1, <2>2 DEF Index
<1>6. Queue' = r
  BY <1>2, <1>4, <1>5, QueueNext, SameSeq
<1> QED
  BY <1>6 DEF r

\* The store of rid removes the oldest slot.
LEMMA QueueTake ==
  ASSUME RingTypeOK, RingTypeOK', ~Empty, rid' = After(rid), UNCHANGED <<wid, data>>
  PROVE Queue # <<>> /\ Head(Queue) = data[rid] /\ Queue' = Tail(Queue)
<1>1. wid \in Index /\ rid \in Index /\ Count \in Index \ {0}
  BY CountIs DEF RingTypeOK, Index
<1>2. Count' = Count - 1
  <2>1. rid' \in Index /\ wid' \in Index /\ rid \in Index /\ wid \in Index
    BY <1>1 DEF RingTypeOK, Index
  <2>2. /\ Count' = IF rid' <= wid' THEN wid' - rid' ELSE wid' - rid' + RingSz
        /\ Count = IF rid <= wid THEN wid - rid ELSE wid - rid + RingSz
        /\ Empty <=> Count = 0
        /\ Full <=> Count = RingSz - 1
    BY CountIs, CountNext
  <2>3. /\ After(rid) = IF rid = RingSz - 1 THEN 0 ELSE rid + 1
        /\ After(wid) = IF wid = RingSz - 1 THEN 0 ELSE wid + 1
    BY <2>1, AfterIs
  <2> QED
    BY <2>1, <2>2, <2>3, RingAssumption DEF Index
<1>3. Queue \in Seq(Items \cup {Nothing}) /\ Len(Queue) = Count /\ Queue # <<>>
  BY <1>1, QueueIs DEF Index
<1>4. Queue[1] = data[rid]
  <2>1. 1 \in 1..Count /\ rid + 1 - 1 = rid /\ rid < RingSz
    BY <1>1, RingAssumption DEF Index
  <2> QED
    BY <2>1, QueueIs
<1>5. Head(Queue) = data[rid]
  BY <1>3, <1>4
<1> DEFINE r == Tail(Queue)
<1>6. /\ r \in Seq(Items \cup {Nothing}) /\ Len(r) = Count - 1
      /\ \A i \in 1..(Count - 1) : r[i] = Queue[i + 1]
  BY <1>3
<1> HIDE DEF r
<1>7. ASSUME NEW i \in 1..Count' PROVE Queue'[i] = r[i]
  <2>1. i + 1 \in 1..Count /\ i \in 1..(Count - 1)
    BY <1>1, <1>2 DEF Index
  <2> DEFINE p == IF rid' + i - 1 < RingSz THEN rid' + i - 1 ELSE rid' + i - 1 - RingSz
             k == IF rid + (i + 1) - 1 < RingSz THEN rid + (i + 1) - 1
                  ELSE rid + (i + 1) - 1 - RingSz
  <2>2. p = k
    BY <1>1, <2>1, AfterIs, RingAssumption DEF Index
  <2>3. Queue'[i] = data[p]
    BY QueueNext
  <2>4. Queue[i + 1] = data[k]
    BY <2>1, QueueIs
  <2> QED
    BY <1>6, <2>1, <2>2, <2>3, <2>4
<1>8. Queue' = r
  BY <1>2, <1>6, <1>7, QueueNext, SameSeq
<1> QED
  BY <1>3, <1>5, <1>8 DEF r
------------------------------------------------------------------------------
(* The inductive invariant: where a slot is while it is handed over        *)

InQueue(d) == \E i \in 1..Count : Queue[i] = d
Has(w) == wpc[w] \in {"advance", "work"}

\* What each thread knows at its place in the code.
RingPlaces ==
  /\ ppc \in {"write", "advance"} => pitem \in Items
  /\ ppc = "advance" => data[wid] = pitem /\ ~Full
  /\ \A w \in Workers : wpc[w] = "advance" => workBy = w /\ ~Empty /\ item[w] = data[rid]
  /\ \A w \in Workers : Has(w) <=> item[w] # Nothing
  /\ \A w \in waiting : wpc[w] = "wait"

\* A slot is with the poller, in the ring or with a worker.
Apart ==
  /\ \A i \in 1..Count : Queue[i] \in Items
  /\ \A i, j \in 1..Count : Queue[i] = Queue[j] => i = j
  /\ pitem # Nothing => ~InQueue(pitem) /\ \A w \in Workers : item[w] # pitem
  /\ \A v, w \in Workers : Has(v) /\ item[v] = item[w] => v = w
  /\ \A w \in Workers : wpc[w] = "work" => ~InQueue(item[w])

RingInv == RingTypeOK /\ RingPlaces /\ Apart /\ ScanHasRoom

LEMMA TypeStep ==
  ASSUME RingTypeOK, [RingNext]_ringVars PROVE RingTypeOK'
<1> USE DEF RingTypeOK
<1>0. 0 \in Index /\ wid \in Index /\ rid \in Index
  BY RingAssumption DEF Index
<1>1. After(wid) \in 0..(RingSz - 1) /\ After(rid) \in 0..(RingSz - 1)
  BY <1>0, AfterIs DEF Index
<1>2. data[rid] \in Items \cup {Nothing}
  BY <1>0 DEF Index
<1>3. ASSUME NEW d \in Items, Poll(d) PROVE RingTypeOK'
  BY <1>3 DEF Poll, indexVars, workVars, condVars
<1>4. CASE Write
  BY <1>4 DEF Write, workVars, condVars
<1>5. CASE Advance
  BY <1>1, <1>5 DEF Advance, workVars, condVars
<1>6. CASE Signal
  BY <1>6 DEF Signal, indexVars
<1>7. ASSUME NEW w \in Workers, CondLock(w) PROVE RingTypeOK'
  BY <1>7 DEF CondLock, GoesTo, indexVars, pollVars
<1>8. ASSUME NEW w \in Workers, Is(w) PROVE RingTypeOK'
  <2>1. CASE seen[w] # rid
    BY <1>8, <2>1 DEF Is, GoesTo, indexVars, pollVars
  <2>2. CASE seen[w] = rid
    BY <1>8, <2>2 DEF Is, GoesTo, indexVars, pollVars
  <2> QED
    BY <2>1, <2>2
<1>9. ASSUME NEW w \in Workers, Wait(w) \/ WakeUnasked(w) \/ Awake(w) PROVE RingTypeOK'
  BY <1>9 DEF Wait, WakeUnasked, Awake, GoesTo, indexVars, pollVars, condVars
<1>10. ASSUME NEW w \in Workers, Read(w) PROVE RingTypeOK'
  <2>1. CASE Empty
    BY <1>10, <2>1 DEF Read, GoesTo, indexVars, pollVars
  <2>2. CASE ~Empty
    BY <1>2, <1>10, <2>2 DEF Read, GoesTo, indexVars, pollVars
  <2> QED
    BY <2>1, <2>2
<1>11. ASSUME NEW w \in Workers, ReadAdvance(w) PROVE RingTypeOK'
  BY <1>1, <1>11 DEF ReadAdvance, GoesTo, pollVars
<1>12. ASSUME NEW w \in Workers, Work(w) PROVE RingTypeOK'
  BY <1>12 DEF Work, GoesTo, indexVars, pollVars, condVars
<1>13. CASE UNCHANGED ringVars
  BY <1>13 DEF ringVars, indexVars, pollVars, workVars, condVars
<1> QED
  BY <1>3, <1>4, <1>5, <1>6, <1>7, <1>8, <1>9, <1>10, <1>11, <1>12, <1>13
  DEF RingNext, Poller, Worker

\* A step that leaves alone the ring, the slots and who has them.
LEMMA QuietStep ==
  ASSUME RingInv, RingTypeOK', UNCHANGED <<indexVars, pitem, scan, item, workBy>>,
         ppc' # ppc => ppc' \in {"idle", "signal"},
         \A w \in Workers : wpc'[w] # wpc[w] => ~Has(w) /\ wpc'[w] \notin {"advance", "work"},
         \A w \in waiting' : wpc'[w] = "wait"
  PROVE RingInv'
<1>1. Count' = Count /\ Queue' = Queue /\ (Full' <=> Full) /\ (Empty' <=> Empty)
  BY DEF indexVars, Count, Queue, Full, Empty
<1>2. \A w \in Workers : Has(w)' <=> Has(w)
  BY DEF Has
<1>3. RingPlaces'
  BY <1>1, <1>2 DEF RingInv, RingPlaces, indexVars, Has
<1>4. Apart'
  BY <1>1, <1>2 DEF RingInv, Apart, InQueue, Has
<1>5. ScanHasRoom'
  BY <1>1 DEF RingInv, ScanHasRoom
<1> QED
  BY <1>3, <1>4, <1>5 DEF RingInv

\* What freesz() counts.
LEMMA RoomIs ==
  ASSUME RingTypeOK, Freesz # 0 PROVE ~Full
<1>1. wid \in Index /\ rid \in Index
  BY DEF RingTypeOK, Index
<1>2. CASE rid = 0
  <2>1. SUFFICES ASSUME Full PROVE FALSE
    OBVIOUS
  <2>2. wid = RingSz - 1
    BY <1>1, <1>2, <2>1, AfterIs, RingAssumption DEF Full, Index
  <2>3. (rid - 1 + RingSz - wid) = 0
    BY <1>2, <2>2, RingAssumption
  <2> QED
    BY <2>3, Small, RingAssumption DEF Freesz
<1>3. CASE rid # 0
  <2>1. SUFFICES ASSUME Full PROVE FALSE
    OBVIOUS
  <2>2. wid = rid - 1
    BY <1>1, <1>3, <2>1, AfterIs, RingAssumption DEF Full, Index
  <2>3. (rid - 1 + RingSz - wid) = RingSz
    BY <1>1, <2>2, RingAssumption DEF Index
  <2>4. RingSz % RingSz = RingSz - RingSz
    BY Wraps, RingAssumption
  <2> QED
    BY <2>3, <2>4, RingAssumption DEF Freesz
<1> QED
  BY <1>2, <1>3

LEMMA PollStep ==
  ASSUME RingInv, RingTypeOK', NEW d \in Items, Poll(d) PROVE RingInv'
<1> USE DEF RingInv, Poll, indexVars, workVars, condVars
<1>1. Count' = Count /\ Queue' = Queue /\ (Full' <=> Full) /\ (Empty' <=> Empty)
  BY DEF Count, Queue, Full, Empty
<1>2. \A w \in Workers : Has(w)' <=> Has(w)
  BY DEF Has
<1>3. RingPlaces'
  BY <1>1, <1>2 DEF RingPlaces
<1>4. pitem' = d /\ ~InQueue(d) /\ \A w \in Workers : item[w] # d
  BY DEF InUse, InQueue
<1>5. Apart'
  BY <1>1, <1>2, <1>4 DEF Apart, InQueue
<1>6. ScanHasRoom'
  BY <1>1, RoomIs DEF ScanHasRoom
<1> QED
  BY <1>3, <1>5, <1>6

LEMMA WriteStep ==
  ASSUME RingInv, RingTypeOK', Write PROVE RingInv'
<1> USE DEF RingInv, Write, workVars, condVars
<1>1. wid \in Index /\ rid \in Index /\ data' = [data EXCEPT ![wid] = pitem]
      /\ DOMAIN data = Index
  BY DEF RingTypeOK, Index
<1>2. Queue' = Queue
  BY <1>1, QueueWrite
<1>3. Count' = Count /\ (Full' <=> Full) /\ (Empty' <=> Empty)
  BY DEF Count, Full, Empty
<1>4. \A w \in Workers : Has(w)' <=> Has(w)
  BY DEF Has
<1>5. ~Empty => data'[rid] = data[rid]
  BY <1>1 DEF Empty
<1>6. RingPlaces'
  BY <1>1, <1>3, <1>4, <1>5 DEF RingPlaces
<1>7. Apart'
  BY <1>2, <1>3, <1>4 DEF Apart, InQueue
<1>8. ScanHasRoom'
  BY DEF ScanHasRoom
<1> QED
  BY <1>6, <1>7, <1>8

LEMMA AdvanceStep ==
  ASSUME RingInv, RingTypeOK', Advance PROVE RingInv'
<1> USE DEF RingInv, Advance, workVars, condVars
<1>1. pitem \in Items /\ data[wid] = pitem /\ ~Full
  BY DEF RingPlaces
<1>2. Queue' = Append(Queue, pitem)
  BY <1>1, QueueAdvance
<1>3. Queue \in Seq(Items \cup {Nothing}) /\ Len(Queue) = Count /\ Count \in Nat
  BY QueueIs, CountIs, RingAssumption DEF Index
<1>4. Len(Queue') = Count'
  BY QueueNext
<1>5. Count' = Count + 1
  BY <1>1, <1>2, <1>3, <1>4
<1>6. Queue'[Count + 1] = pitem /\ \A i \in 1..Count : Queue'[i] = Queue[i]
  BY <1>1, <1>2, <1>3
<1>7. \A i \in 1..Count' : i \in 1..Count \/ i = Count + 1
  BY <1>3, <1>5
<1>8. \A w \in Workers : Has(w)' <=> Has(w)
  BY DEF Has
<1>9. ~Empty'
  <2>1. wid' \in Index /\ rid' \in Index
    BY DEF RingTypeOK, Index
  <2>2. wid' = rid' => Count' = 0
    BY <2>1, CountNext, RingAssumption DEF Index
  <2> QED
    BY <1>3, <1>5, <2>2 DEF Empty
<1>10. RingPlaces'
  BY <1>8, <1>9 DEF RingPlaces
<1>11. \A i \in 1..Count : Queue[i] # pitem
  BY <1>1, RingAssumption DEF Apart, InQueue
<1>12. \A w \in Workers : item[w] # pitem
  BY <1>1, RingAssumption DEF Apart
<1>13. Apart'
  <2>1. \A i \in 1..Count' : Queue'[i] \in Items
    BY <1>1, <1>6, <1>7 DEF Apart
  <2>2. \A i, j \in 1..Count' : Queue'[i] = Queue'[j] => i = j
    BY <1>6, <1>7, <1>11 DEF Apart
  <2>3. \A v, w \in Workers : Has(v)' /\ item'[v] = item'[w] => v = w
    BY <1>8 DEF Apart
  <2>4. \A w \in Workers : wpc'[w] = "work" => ~InQueue(item[w])'
    BY <1>6, <1>7, <1>12 DEF Apart, InQueue
  <2> QED
    BY <2>1, <2>2, <2>3, <2>4 DEF Apart
<1>14. ScanHasRoom'
  BY DEF ScanHasRoom
<1> QED
  BY <1>10, <1>13, <1>14

LEMMA ReadStep ==
  ASSUME RingInv, RingTypeOK', NEW w \in Workers, Read(w) PROVE RingInv'
<1> USE DEF RingInv, pollVars, indexVars
<1>1. Count' = Count /\ Queue' = Queue /\ (Full' <=> Full) /\ (Empty' <=> Empty)
  BY DEF Read, Count, Queue, Full, Empty
<1>2. wpc[w] = "read" /\ w \notin waiting /\ workBy = Nobody
  BY DEF Read, RingPlaces
<1>3. CASE Empty
  <2>1. wpc' = [wpc EXCEPT ![w] = "poll"] /\ UNCHANGED <<item, workBy, waiting>>
    BY <1>3 DEF Read, GoesTo
  <2>2. \A v \in Workers : wpc'[v] # wpc[v] => ~Has(v) /\ wpc'[v] \notin {"advance", "work"}
    BY <1>2, <2>1 DEF Has, RingTypeOK
  <2>3. \A v \in waiting' : wpc'[v] = "wait"
    BY <1>2, <2>1 DEF RingPlaces, RingTypeOK
  <2> QED
    BY <2>1, <2>2, <2>3, QuietStep DEF Read
<1>4. CASE ~Empty
  <2>1. /\ wpc' = [wpc EXCEPT ![w] = "advance"] /\ item' = [item EXCEPT ![w] = data[rid]]
        /\ workBy' = w /\ UNCHANGED <<waiting, wid, rid, data, ppc, pitem, scan>>
    BY <1>4 DEF Read, GoesTo
  <2>2. 1 \in 1..Count /\ Queue[1] = data[rid]
    <3>1. wid \in Index /\ rid \in Index /\ Count \in Index \ {0}
      BY <1>4, CountIs DEF RingTypeOK, Index
    <3>2. 1 \in 1..Count /\ rid + 1 - 1 = rid /\ rid < RingSz
      BY <3>1, RingAssumption DEF Index
    <3> QED
      BY <3>2, QueueIs
  <2>3. data[rid] \in Items /\ data[rid] # Nothing /\ InQueue(data[rid])
    BY <2>2, RingAssumption DEF Apart, InQueue
  <2>4. \A v \in Workers : v # w => wpc'[v] = wpc[v] /\ item'[v] = item[v]
    BY <2>1 DEF RingTypeOK
  <2>5. wpc'[w] = "advance" /\ item'[w] = data[rid]
    BY <2>1 DEF RingTypeOK
  <2>6. \A v \in Workers : wpc[v] # "advance"
    BY <1>2, RingAssumption DEF RingPlaces
  <2>7. \A v \in Workers : v # w => (Has(v)' <=> Has(v))
    BY <2>4 DEF Has
  <2>8. Has(w)'
    BY <2>5 DEF Has
  <2>9. RingPlaces'
    <3>1. ppc' = "advance" => data'[wid'] = pitem' /\ ~Full'
      BY <1>1, <2>1 DEF RingPlaces
    <3>2. \A v \in Workers : wpc'[v] = "advance" => workBy' = v /\ ~Empty' /\ item'[v] = data'[rid']
      BY <1>1, <1>4, <2>1, <2>4, <2>5, <2>6
    <3>3. \A v \in Workers : Has(v)' <=> item'[v] # Nothing
      BY <2>3, <2>4, <2>5, <2>7, <2>8 DEF RingPlaces
    <3>4. \A v \in waiting' : wpc'[v] = "wait"
      BY <1>2, <2>1, <2>4 DEF RingPlaces, RingTypeOK
    <3> QED
      BY <2>1, <3>1, <3>2, <3>3, <3>4 DEF RingPlaces
  <2>10. \A v \in Workers : Has(v) => item[v] # data[rid]
    BY <2>3, <2>6 DEF Apart, Has
  <2>11. Apart'
    <3>1. pitem' # Nothing => ~InQueue(pitem)' /\ \A v \in Workers : item'[v] # pitem'
      BY <1>1, <2>1, <2>3, <2>4, <2>5 DEF Apart, InQueue
    <3>2. \A u, v \in Workers : Has(u)' /\ item'[u] = item'[v] => u = v
      <4>1. SUFFICES ASSUME NEW u \in Workers, NEW v \in Workers, Has(u)',
                            item'[u] = item'[v], u # v
                     PROVE FALSE
        OBVIOUS
      <4>2. CASE u = w
        BY <2>3, <2>4, <2>5, <2>10, <4>1, <4>2 DEF RingPlaces
      <4>3. CASE v = w
        BY <2>4, <2>5, <2>7, <2>10, <4>1, <4>3
      <4>4. CASE u # w /\ v # w
        BY <2>4, <2>7, <4>1, <4>4 DEF Apart
      <4> QED
        BY <4>2, <4>3, <4>4
    <3>3. \A v \in Workers : wpc'[v] = "work" => ~InQueue(item[v])'
      BY <1>1, <2>4, <2>5 DEF Apart, InQueue
    <3>4. /\ \A i \in 1..Count' : Queue'[i] \in Items
          /\ \A i, j \in 1..Count' : Queue'[i] = Queue'[j] => i = j
      BY <1>1 DEF Apart
    <3> QED
      BY <3>1, <3>2, <3>3, <3>4 DEF Apart
  <2>12. ScanHasRoom'
    BY <1>1, <2>1 DEF ScanHasRoom
  <2> QED
    BY <2>9, <2>11, <2>12
<1> QED
  BY <1>3, <1>4

LEMMA ReadAdvanceStep ==
  ASSUME RingInv, RingTypeOK', NEW w \in Workers, ReadAdvance(w) PROVE RingInv'
<1> USE DEF RingInv
<1>1. /\ wpc[w] = "advance" /\ wpc' = [wpc EXCEPT ![w] = "work"]
      /\ rid' = After(rid) /\ UNCHANGED <<wid, data, ppc, pitem, scan, item, waiting>>
  BY DEF ReadAdvance, GoesTo, pollVars
<1>2. ~Empty /\ item[w] = data[rid]
  BY <1>1 DEF RingPlaces
<1>3. Queue # <<>> /\ Head(Queue) = data[rid] /\ Queue' = Tail(Queue)
  BY <1>1, <1>2, QueueTake
<1>4. Queue \in Seq(Items \cup {Nothing}) /\ Len(Queue) = Count /\ Count \in Nat
      /\ Count < RingSz
  BY QueueIs, CountIs, RingAssumption DEF Index
<1>5. Len(Queue') = Count'
  BY QueueNext
<1>6. Count' = Count - 1 /\ Count > 0
  BY <1>3, <1>4, <1>5
<1>7. Queue[1] = item[w] /\ \A i \in 1..(Count - 1) : Queue'[i] = Queue[i + 1]
  BY <1>2, <1>3, <1>4
<1>8. ASSUME NEW i \in 1..Count'
      PROVE i + 1 \in 1..Count /\ 1 \in 1..Count /\ i + 1 # 1 /\ Queue'[i] = Queue[i + 1]
  BY <1>4, <1>6, <1>7
<1>9. ~Full'
  <2>1. wid' \in Index /\ rid' \in Index
    BY DEF RingTypeOK, Index
  <2>2. Full' => Count' = RingSz - 1
    BY <2>1, CountNext, AfterIs, RingAssumption DEF Full, Index
  <2> QED
    BY <1>4, <1>6, <2>2, RingAssumption
<1>10. /\ \A v \in Workers : v # w => wpc'[v] = wpc[v]
       /\ wpc'[w] = "work"
  BY <1>1 DEF RingTypeOK
<1>11. \A v \in Workers : Has(v)' <=> Has(v)
  BY <1>1, <1>10 DEF Has
<1>12. \A v \in Workers : wpc'[v] # "advance"
  BY <1>1, <1>10 DEF RingPlaces
<1>13. RingPlaces'
  <2>1. \A v \in waiting' : wpc'[v] = "wait"
    BY <1>1, <1>10 DEF RingPlaces, RingTypeOK
  <2>2. ppc' = "advance" => data'[wid'] = pitem' /\ ~Full'
    BY <1>1, <1>9 DEF RingPlaces
  <2> QED
    BY <1>1, <1>11, <1>12, <2>1, <2>2 DEF RingPlaces
<1>14. \A d : InQueue(d)' => InQueue(d) /\ d # item[w]
  BY <1>7, <1>8 DEF InQueue, Apart
<1>15. Apart'
  <2>1. \A i \in 1..Count' : Queue'[i] \in Items
    BY <1>8 DEF Apart
  <2>2. ASSUME NEW i \in 1..Count', NEW j \in 1..Count', Queue'[i] = Queue'[j] PROVE i = j
    <3>1. i + 1 = j + 1
      BY <1>8, <2>2 DEF Apart
    <3> QED
      BY <3>1, <1>4, <1>6
  <2>3. pitem' # Nothing => ~InQueue(pitem)' /\ \A v \in Workers : item'[v] # pitem'
    BY <1>1, <1>14 DEF Apart, InQueue
  <2>4. \A u, v \in Workers : Has(u)' /\ item'[u] = item'[v] => u = v
    BY <1>1, <1>11 DEF Apart
  <2>5. ASSUME NEW v \in Workers, wpc'[v] = "work" PROVE ~InQueue(item[v])'
    <3>1. CASE v = w
      BY <1>1, <1>14, <3>1 DEF InQueue
    <3>2. CASE v # w
      BY <1>1, <1>10, <1>14, <2>5, <3>2 DEF InQueue, Apart
    <3> QED
      BY <3>1, <3>2
  <2> QED
    BY <2>1, <2>2, <2>3, <2>4, <2>5 DEF Apart
<1>16. ScanHasRoom'
  BY <1>9 DEF ScanHasRoom
<1> QED
  BY <1>13, <1>15, <1>16

LEMMA WorkStep ==
  ASSUME RingInv, RingTypeOK', NEW w \in Workers, Work(w) PROVE RingInv'
<1> USE DEF RingInv, indexVars, pollVars, condVars
<1>1. Count' = Count /\ Queue' = Queue /\ (Full' <=> Full) /\ (Empty' <=> Empty)
  BY DEF Work, Count, Queue, Full, Empty
<1>2. /\ wpc[w] = "work" /\ wpc' = [wpc EXCEPT ![w] = "poll"]
      /\ item' = [item EXCEPT ![w] = Nothing]
      /\ UNCHANGED <<wid, rid, data, ppc, pitem, scan, waiting, workBy>>
  BY DEF Work, GoesTo
<1>3. \A v \in Workers : v # w => wpc'[v] = wpc[v] /\ item'[v] = item[v]
  BY <1>2 DEF RingTypeOK
<1>4. wpc'[w] = "poll" /\ item'[w] = Nothing
  BY <1>2 DEF RingTypeOK
<1>5. /\ \A v \in Workers : v # w => (Has(v)' <=> Has(v))
      /\ ~Has(w)'
  BY <1>3, <1>4 DEF Has
<1>6. RingPlaces'
  <2>1. \A v \in Workers : wpc'[v] = "advance" => workBy' = v /\ ~Empty' /\ item'[v] = data'[rid']
    BY <1>1, <1>2, <1>3, <1>4 DEF RingPlaces
  <2>2. \A v \in Workers : Has(v)' <=> item'[v] # Nothing
    BY <1>3, <1>4, <1>5 DEF RingPlaces
  <2>3. \A v \in waiting' : wpc'[v] = "wait"
    BY <1>2, <1>3 DEF RingPlaces, RingTypeOK
  <2> QED
    BY <1>1, <1>2, <2>1, <2>2, <2>3 DEF RingPlaces
<1>7. Apart'
  <2>1. pitem' # Nothing => ~InQueue(pitem)' /\ \A v \in Workers : item'[v] # pitem'
    BY <1>1, <1>2, <1>3, <1>4 DEF Apart, InQueue
  <2>2. ASSUME NEW u \in Workers, NEW v \in Workers, Has(u)', item'[u] = item'[v] PROVE u = v
    <3>1. u # w /\ item'[u] # Nothing
      BY <1>3, <1>5, <2>2 DEF RingPlaces
    <3>2. v # w
      BY <1>4, <2>2, <3>1
    <3> QED
      BY <1>3, <1>5, <2>2, <3>1, <3>2 DEF Apart
  <2>3. \A v \in Workers : wpc'[v] = "work" => ~InQueue(item[v])'
    BY <1>1, <1>3, <1>4 DEF Apart, InQueue
  <2>4. /\ \A i \in 1..Count' : Queue'[i] \in Items
        /\ \A i, j \in 1..Count' : Queue'[i] = Queue'[j] => i = j
    BY <1>1 DEF Apart
  <2> QED
    BY <2>1, <2>2, <2>3, <2>4 DEF Apart
<1>8. ScanHasRoom'
  BY <1>1, <1>2 DEF ScanHasRoom
<1> QED
  BY <1>6, <1>7, <1>8

LEMMA Initially == RingInit => RingInv
<1> SUFFICES ASSUME RingInit PROVE RingInv
  OBVIOUS
<1> USE DEF RingInit
<1>1. RingTypeOK
  <2>1. 0 \in 0..(RingSz - 1)
    BY RingAssumption
  <2> QED
    BY <2>1 DEF RingTypeOK
<1>2. Count = 0 /\ 1..Count = {}
  <2>1. Empty
    BY DEF Empty
  <2> QED
    BY <1>1, <2>1, CountIs
<1>3. RingPlaces
  BY DEF RingPlaces, Has
<1>4. Apart
  BY <1>2 DEF Apart, InQueue, Has
<1> QED
  BY <1>1, <1>3, <1>4 DEF RingInv, ScanHasRoom

LEMMA RingInductive == RingInv /\ [RingNext]_ringVars => RingInv'
<1> SUFFICES ASSUME RingInv, [RingNext]_ringVars PROVE RingInv'
  OBVIOUS
<1>0. RingTypeOK /\ RingTypeOK'
  BY TypeStep DEF RingInv
<1>1. ASSUME NEW d \in Items, Poll(d) PROVE RingInv'
  BY <1>0, <1>1, PollStep
<1>2. CASE Write
  BY <1>0, <1>2, WriteStep
<1>3. CASE Advance
  BY <1>0, <1>3, AdvanceStep
<1>4. CASE Signal
  <2>1. UNCHANGED <<indexVars, pitem, scan, item, workBy>> /\ ppc' = "idle"
    BY <1>4 DEF Signal
  <2>2. ASSUME NEW v \in Workers, wpc'[v] # wpc[v]
        PROVE ~Has(v) /\ wpc'[v] \notin {"advance", "work"}
    BY <1>0, <1>4, <2>2 DEF Signal, RingInv, RingPlaces, Has, RingTypeOK
  <2>3. \A v \in waiting' : wpc'[v] = "wait"
    BY <1>0, <1>4 DEF Signal, RingInv, RingPlaces, RingTypeOK
  <2> QED
    BY <1>0, <2>1, <2>2, <2>3, QuietStep
<1>5. ASSUME NEW w \in Workers, CondLock(w) \/ Is(w) \/ Wait(w) \/ Awake(w) \/ WakeUnasked(w)
      PROVE RingInv'
  <2>1. /\ UNCHANGED <<indexVars, pitem, scan, item, workBy, ppc>>
        /\ ~Has(w)
        /\ \E l \in {"is", "read", "sleep", "wait", "awake"} : wpc' = [wpc EXCEPT ![w] = l]
    BY <1>5 DEF CondLock, Is, Wait, Awake, WakeUnasked, GoesTo, pollVars, condVars,
                Has, RingInv, RingPlaces
  <2>2. \A v \in Workers : wpc'[v] # wpc[v] => ~Has(v) /\ wpc'[v] \notin {"advance", "work"}
    BY <1>0, <2>1 DEF RingTypeOK
  <2>3. \A v \in waiting' : wpc'[v] = "wait"
    <3>1. CASE CondLock(w) \/ Is(w) \/ Awake(w)
      <4>1. waiting' = waiting /\ wpc[w] # "wait"
        BY <3>1 DEF CondLock, Is, Awake, condVars
      <4> QED
        BY <1>0, <2>1, <4>1 DEF RingInv, RingPlaces, RingTypeOK
    <3>2. CASE Wait(w)
      BY <1>0, <3>2 DEF Wait, GoesTo, RingInv, RingPlaces, RingTypeOK
    <3>3. CASE WakeUnasked(w)
      BY <1>0, <3>3 DEF WakeUnasked, GoesTo, RingInv, RingPlaces, RingTypeOK
    <3> QED
      BY <1>5, <3>1, <3>2, <3>3
  <2> QED
    BY <1>0, <2>1, <2>2, <2>3, QuietStep
<1>6. ASSUME NEW w \in Workers, Read(w) PROVE RingInv'
  BY <1>0, <1>6, ReadStep
<1>7. ASSUME NEW w \in Workers, ReadAdvance(w) PROVE RingInv'
  BY <1>0, <1>7, ReadAdvanceStep
<1>8. ASSUME NEW w \in Workers, Work(w) PROVE RingInv'
  BY <1>0, <1>8, WorkStep
<1>9. CASE UNCHANGED ringVars
  <2>1. UNCHANGED <<indexVars, pitem, scan, item, workBy, ppc, wpc, waiting>>
    BY <1>9 DEF ringVars, pollVars, workVars, condVars
  <2>2. \A v \in waiting' : wpc'[v] = "wait"
    BY <2>1 DEF RingInv, RingPlaces
  <2> QED
    BY <1>0, <2>1, <2>2, QuietStep
<1> QED
  BY <1>1, <1>2, <1>3, <1>4, <1>5, <1>6, <1>7, <1>8, <1>9 DEF RingNext, Poller, Worker

\* What the poller and the workers keep: a slot is with the poller, in the ring or
\* with one worker, and the room that was promised is there.
THEOREM Invariance == RingSpec => []RingInv
BY Initially, RingInductive, PTL DEF RingSpec

\* Every index stays in the ring, whatever its size.
THEOREM RingTypeCorrect == RingSpec => []RingTypeOK
<1>1. RingInv => RingTypeOK
  BY DEF RingInv
<1> QED
  BY <1>1, Invariance, PTL

\* For any ring size and any number of workers, the room freesz() promised the
\* timeout scan is still there when it writes.
THEOREM RoomHolds == RingSpec => []ScanHasRoom
<1>1. RingInv => ScanHasRoom
  BY DEF RingInv
<1> QED
  BY <1>1, Invariance, PTL

\* No slot reaches two workers, nor one while it is still in the ring.
THEOREM TakenOnceHolds == RingSpec => []TakenOnce
<1>1. RingInv => TakenOnce
  BY DEF RingInv, RingPlaces, Apart, TakenOnce, Has, InQueue
<1> QED
  BY <1>1, Invariance, PTL

------------------------------------------------------------------------------
(* The ring is a bounded queue                                             *)

LEMMA QueueInitially == RingInit => Fifo!Init
<1> SUFFICES ASSUME RingInit PROVE Fifo!Init
  OBVIOUS
<1>1. RingTypeOK
  BY Initially DEF RingInv
<1>2. Len(Queue) = 0 /\ Queue \in Seq(Items \cup {Nothing})
  <2>1. Empty
    BY DEF RingInit, Empty
  <2> QED
    BY <1>1, <2>1, CountIs, QueueIs
<1>3. Queue = <<>>
  BY <1>2
<1>4. Hand = [w \in Workers |-> Nothing]
  BY DEF Hand, RingInit
<1> QED
  BY <1>3, <1>4 DEF Fifo!Init

\* Only ReadAdvance and Work change what the workers have in hand.
LEMMA HandSame ==
  ASSUME \A w \in Workers : wpc'[w] = "work" <=> wpc[w] = "work",
         \A w \in Workers : wpc[w] = "work" => item'[w] = item[w]
  PROVE Hand' = Hand
BY DEF Hand

LEMMA QueueStep ==
  RingInv /\ RingInv' /\ [RingNext]_ringVars => [Fifo!Next]_(Fifo!vars)
<1> SUFFICES ASSUME RingInv, RingInv', [RingNext]_ringVars PROVE [Fifo!Next]_(Fifo!vars)
  OBVIOUS
<1>0. RingTypeOK /\ RingTypeOK' /\ RingPlaces /\ Apart
  BY DEF RingInv
<1> USE DEF Fifo!vars
<1>1. CASE UNCHANGED <<wid, rid, data, wpc, item>>
  BY <1>1 DEF Queue, Count, Hand
<1>2. CASE Write
  <2>1. DOMAIN data = Index /\ Queue' = Queue
    BY <1>0, <1>2, QueueWrite DEF Write, RingTypeOK, Index
  <2> QED
    BY <1>2, <2>1, HandSame DEF Write, workVars
<1>3. CASE Advance
  <2>1. Queue' = Append(Queue, pitem) /\ pitem \in Items /\ ~Full
    BY <1>0, <1>3, QueueAdvance DEF Advance, RingPlaces
  <2>2. Len(Queue) < RingSz - 1
    BY <1>0, <2>1, CountIs, QueueIs, RingAssumption DEF Index
  <2>3. Hand' = Hand
    BY <1>3, HandSame DEF Advance, workVars
  <2> QED
    BY <2>1, <2>2, <2>3 DEF Fifo!Next, Fifo!Put
<1>4. ASSUME UNCHANGED <<wid, rid, data>>,
             \A w \in Workers : wpc'[w] = "work" <=> wpc[w] = "work",
             \A w \in Workers : wpc[w] = "work" => item'[w] = item[w]
      PROVE [Fifo!Next]_(Fifo!vars)
  <2>1. Queue' = Queue
    BY <1>4 DEF Queue, Count
  <2> QED
    BY <1>4, <2>1, HandSame
<1>5. CASE Signal
  BY <1>0, <1>4, <1>5 DEF Signal, indexVars, RingPlaces, RingTypeOK
<1>6. ASSUME NEW w \in Workers, CondLock(w) \/ Is(w) \/ Wait(w) \/ Awake(w) \/ WakeUnasked(w)
      PROVE [Fifo!Next]_(Fifo!vars)
  <2>1. /\ UNCHANGED <<wid, rid, data, item>> /\ wpc[w] # "work"
        /\ \E l \in {"is", "read", "sleep", "wait", "awake"} : wpc' = [wpc EXCEPT ![w] = l]
    BY <1>0, <1>6 DEF CondLock, Is, Wait, Awake, WakeUnasked, GoesTo, indexVars, RingPlaces
  <2>2. \A v \in Workers : wpc'[v] = "work" <=> wpc[v] = "work"
    BY <1>0, <2>1 DEF RingTypeOK
  <2> QED
    BY <1>4, <2>1, <2>2
<1>7. ASSUME NEW w \in Workers, Read(w) PROVE [Fifo!Next]_(Fifo!vars)
  <2>1. /\ UNCHANGED <<wid, rid, data>> /\ wpc[w] # "work"
        /\ \E l \in {"poll", "advance"} : wpc' = [wpc EXCEPT ![w] = l]
        /\ item' = item \/ item' = [item EXCEPT ![w] = data[rid]]
    BY <1>7 DEF Read, GoesTo, indexVars
  <2>2. \A v \in Workers : wpc'[v] = "work" <=> wpc[v] = "work"
    BY <1>0, <2>1 DEF RingTypeOK
  <2>3. \A v \in Workers : wpc[v] = "work" => item'[v] = item[v]
    BY <1>0, <2>1 DEF RingTypeOK
  <2> QED
    BY <1>4, <2>1, <2>2, <2>3
<1>8. ASSUME NEW w \in Workers, ReadAdvance(w) PROVE [Fifo!Next]_(Fifo!vars)
  <2>1. /\ wpc[w] = "advance" /\ wpc' = [wpc EXCEPT ![w] = "work"] /\ item' = item
        /\ rid' = After(rid) /\ UNCHANGED <<wid, data>>
    BY <1>8 DEF ReadAdvance, GoesTo
  <2>2. ~Empty /\ item[w] = data[rid]
    BY <1>0, <2>1 DEF RingPlaces
  <2>3. Queue # <<>> /\ Head(Queue) = item[w] /\ Queue' = Tail(Queue)
    BY <1>0, <2>1, <2>2, QueueTake
  <2>4. Hand[w] = Nothing
    BY <2>1 DEF Hand
  <2>5. Hand' = [Hand EXCEPT ![w] = Head(Queue)]
    <3>1. \A v \in Workers : v # w => wpc'[v] = wpc[v]
      BY <1>0, <2>1 DEF RingTypeOK
    <3>2. wpc'[w] = "work"
      BY <1>0, <2>1 DEF RingTypeOK
    <3> QED
      BY <2>1, <2>3, <3>1, <3>2 DEF Hand
  <2> QED
    BY <2>3, <2>4, <2>5 DEF Fifo!Next, Fifo!Take
<1>9. ASSUME NEW w \in Workers, Work(w) PROVE [Fifo!Next]_(Fifo!vars)
  <2>1. /\ wpc[w] = "work" /\ wpc' = [wpc EXCEPT ![w] = "poll"]
        /\ item' = [item EXCEPT ![w] = Nothing] /\ UNCHANGED <<wid, rid, data>>
    BY <1>9 DEF Work, GoesTo, indexVars
  <2>2. Queue' = Queue
    BY <2>1 DEF Queue, Count
  <2>3. Hand[w] # Nothing
    BY <1>0, <2>1 DEF Hand, RingPlaces, Has
  <2>4. Hand' = [Hand EXCEPT ![w] = Nothing]
    <3>1. \A v \in Workers : v # w => wpc'[v] = wpc[v] /\ item'[v] = item[v]
      BY <1>0, <2>1 DEF RingTypeOK
    <3>2. wpc'[w] # "work"
      BY <1>0, <2>1 DEF RingTypeOK
    <3> QED
      BY <3>1, <3>2 DEF Hand
  <2> QED
    BY <2>2, <2>3, <2>4 DEF Fifo!Next, Fifo!Done
<1>10. ASSUME NEW d \in Items, Poll(d) PROVE [Fifo!Next]_(Fifo!vars)
  BY <1>1, <1>10 DEF Poll, indexVars, workVars
<1>11. CASE UNCHANGED ringVars
  BY <1>1, <1>11 DEF ringVars, indexVars, workVars
<1> QED
  BY <1>2, <1>3, <1>5, <1>6, <1>7, <1>8, <1>9, <1>10, <1>11 DEF RingNext, Poller, Worker

\* The unlocked write and the locked read implement a bounded queue.
THEOREM QueueRefinement == RingSpec => ImplementsQueue
BY QueueInitially, QueueStep, Invariance, PTL DEF RingSpec, ImplementsQueue, Fifo!Spec

------------------------------------------------------------------------------
(* LightServer: the state                                                  *)


Phases ==
  {"new", "waiting", "accepted", "refused", "served", "closed", "counting", "ended"}

Typed ==
  /\ phase \in [Clients -> Phases]
  /\ owner \in [Descriptors -> Clients \cup {NoHolder}]
  /\ sock \in [Clients -> Descriptors \cup {NoHolder}]
  /\ socks \in Clients \cup {NoHolder}
  /\ strays \in Nat /\ count_connect \in Nat

\* Who holds lock, and that what it has read of the count is still true.
Holding ==
  /\ holder \in Clients \cup {Listener, NoHolder}
  /\ lightAt = "count" <=> holder = Listener
  /\ \A c \in Clients : phase[c] = "counting" <=> holder = c
  /\ holder # NoHolder => loaded = count_connect

\* Which connection Listen has in its hands.
InHand ==
  /\ \A c \in Clients :
       phase[c] = "accepted" <=> (lightAt \in {"test", "count"} /\ socks = c)
  /\ \A c \in backlog : c \in Clients /\ phase[c] = "waiting"

\* The count, at all times: each store moves a connection in or out with it.
Exact == count_connect = Cardinality(Counted) + strays

\* What the unlocked test of the limit has shown is still so under the lock.
Below == lightAt = "count" => MaxConnect = 0 \/ count_connect < MaxConnect

Within == MaxConnect # 0 => count_connect <= MaxConnect

Owns ==
  /\ \A c \in Clients :
       phase[c] \in {"accepted", "served"} => sock[c] \in Descriptors /\ owner[sock[c]] = c
  /\ \A f \in Descriptors :
       owner[f] # NoHolder => phase[owner[f]] \in {"accepted", "served"} /\ sock[owner[f]] = f

LInv == Typed /\ Holding /\ InHand /\ Exact /\ Below /\ Within /\ Owns

------------------------------------------------------------------------------
(* The invariant                                                           *)

LEMMA CountedFinite ==
  /\ IsFiniteSet(Counted) /\ Cardinality(Counted) \in Nat
  /\ IsFiniteSet(Counted') /\ Cardinality(Counted') \in Nat
<1>1. IsFiniteSet(Clients)
  BY LightAssumption
<1>2. Counted \subseteq Clients /\ Counted' \subseteq Clients
  BY DEF Counted
<1> QED
  BY <1>1, <1>2, FS_Subset, FS_CardinalityType

LEMMA LInvInit == LightInit => LInv
<1> SUFFICES ASSUME LightInit PROVE LInv
  OBVIOUS
<1>1. /\ lightAt = "out" /\ backlog = {} /\ socks = NoHolder /\ strays = 0
      /\ count_connect = 0 /\ holder = NoHolder /\ loaded = 0
      /\ phase = [c \in Clients |-> "new"] /\ sock = [c \in Clients |-> NoHolder]
      /\ owner = [f \in Descriptors |-> NoHolder]
  BY Zenon DEF LightInit
<1>2. NoHolder \notin Clients /\ NoHolder # Listener /\ MaxConnect \in Nat
  BY LightAssumption
<1>3. Typed
  BY <1>1 DEF Typed, Phases
<1>4. Holding /\ InHand /\ Below /\ Owns
  BY <1>1, <1>2 DEF Holding, InHand, Below, Owns
<1>5. Exact /\ Within
  <2>1. Counted = {}
    BY <1>1 DEF Counted
  <2> QED
    BY <1>1, <1>2, <2>1, FS_EmptySet DEF Exact, Within
<1> QED
  BY <1>3, <1>4, <1>5 DEF LInv

\* A step that moves Listen about, outside of what it does with a connection.
LEMMA LInvQuiet ==
  ASSUME LInv,
         UNCHANGED <<count_connect, holder, loaded, phase, sock, owner, backlog, socks, strays>>,
         lightAt' = lightAt
         \/ (lightAt \notin {"test", "count"} /\ lightAt' \notin {"test", "count"})
  PROVE  LInv'
<1>1. Typed' /\ Within' /\ Owns'
  BY DEF LInv, Typed, Within, Owns
<1>2. Exact'
  BY DEF LInv, Exact, Counted
<1>3. Holding' /\ InHand' /\ Below'
  BY DEF LInv, Holding, InHand, Below
<1> QED
  BY <1>1, <1>2, <1>3 DEF LInv

LEMMA LInvConnect ==
  ASSUME LInv, NEW c \in Clients, Connect(c)
  PROVE  LInv'
<1>1. /\ phase[c] = "new" /\ phase' = [phase EXCEPT ![c] = "waiting"]
      /\ backlog' = backlog \cup {c}
      /\ UNCHANGED <<lightAt, socks, count_connect, holder, loaded, sock, owner, strays>>
  BY Zenon DEF Connect, countVars
<1> USE DEF LInv
<1>2. Typed' /\ Within' /\ Below'
  BY <1>1 DEF Typed, Phases, Within, Below
<1>3. Holding' /\ InHand'
  BY <1>1 DEF Holding, InHand, Typed
<1>4. Exact'
  <2>1. Counted' = Counted
    BY <1>1 DEF Counted, Typed
  <2> QED
    BY <1>1, <2>1 DEF Exact
<1>5. Owns'
  BY <1>1 DEF Owns, Typed
<1> QED
  BY <1>2, <1>3, <1>4, <1>5

LEMMA LInvAcceptGives ==
  ASSUME LInv, NEW c \in Clients, NEW f \in Descriptors, AcceptGives(c, f)
  PROVE  LInv'
<1>1. /\ lightAt = "accept" /\ lightAt' = "test" /\ c \in backlog /\ owner[f] = NoHolder
      /\ socks' = c /\ backlog' = backlog \ {c}
      /\ phase' = [phase EXCEPT ![c] = "accepted"]
      /\ sock' = [sock EXCEPT ![c] = f] /\ owner' = [owner EXCEPT ![f] = c]
      /\ UNCHANGED <<count_connect, holder, loaded, strays>>
  BY Zenon DEF AcceptGives, At, countVars
<1> USE DEF LInv
<1>2. phase[c] = "waiting"
  BY <1>1 DEF InHand
<1>3. Typed' /\ Within' /\ Below'
  BY <1>1 DEF Typed, Phases, Within, Below
<1>4. Holding' /\ InHand'
  BY <1>1, <1>2 DEF Holding, InHand, Typed
<1>5. Exact'
  <2>1. Counted' = Counted
    BY <1>1, <1>2 DEF Counted, Typed
  <2> QED
    BY <1>1, <2>1 DEF Exact
<1>6. Owns'
  BY <1>1, <1>2, LightAssumption DEF Owns, Typed
<1> QED
  BY <1>3, <1>4, <1>5, <1>6

LEMMA LInvAcceptFails ==
  ASSUME LInv, AcceptFails
  PROVE  LInv'
<1>1. /\ lightAt = "accept" /\ lightAt' = "test"
      /\ socks' = NoHolder /\ backlog' = {}
      /\ phase' = [c \in Clients |-> IF c \in backlog THEN "refused" ELSE phase[c]]
      /\ UNCHANGED <<count_connect, holder, loaded, sock, owner, strays>>
  BY Zenon DEF AcceptFails, At, countVars
<1> USE DEF LInv
<1>2. \A c \in backlog : phase[c] = "waiting"
  BY DEF InHand
<1>3. Typed' /\ Within' /\ Below'
  BY <1>1 DEF Typed, Phases, Within, Below
<1>4. Holding' /\ InHand'
  BY <1>1, <1>2, LightAssumption DEF Holding, InHand, Typed
<1>5. Exact'
  <2>1. Counted' = Counted
    BY <1>1, <1>2 DEF Counted, Typed
  <2> QED
    BY <1>1, <2>1 DEF Exact
<1>6. Owns'
  BY <1>1, <1>2 DEF Owns, Typed
<1> QED
  BY <1>3, <1>4, <1>5, <1>6

\* At the limit the socket is closed, if there is one.
LEMMA LInvTurnAway ==
  ASSUME LInv, TurnAway
  PROVE  LInv'
<1>1. /\ lightAt = "test" /\ lightAt' = "while" /\ socks' = NoHolder
      /\ UNCHANGED <<backlog, count_connect, holder, loaded, strays>>
  BY Zenon DEF TurnAway, At, countVars
<1> USE DEF LInv
<1>2. CASE socks = NoHolder
  <2>1. UNCHANGED <<phase, sock, owner>>
    BY <1>2, Zenon DEF TurnAway
  <2>2. \A c \in Clients : phase[c] # "accepted"
    BY <1>2, LightAssumption DEF InHand
  <2>3. Typed' /\ Within' /\ Below' /\ Owns'
    BY <1>1, <2>1 DEF Typed, Within, Below, Owns
  <2>4. Holding' /\ InHand'
    BY <1>1, <2>1, <2>2 DEF Holding, InHand
  <2>5. Exact'
    BY <1>1, <2>1 DEF Exact, Counted
  <2> QED
    BY <2>3, <2>4, <2>5
<1>3. CASE socks # NoHolder
  <2>1. /\ phase' = [phase EXCEPT ![socks] = "refused"]
        /\ owner' = [owner EXCEPT ![sock[socks]] = NoHolder]
        /\ sock' = [sock EXCEPT ![socks] = NoHolder]
    BY <1>3, Zenon DEF TurnAway, CloseSocket
  <2>2. socks \in Clients /\ phase[socks] = "accepted" /\ sock[socks] \in Descriptors
    BY <1>1, <1>3 DEF Typed, InHand, Owns
  <2>3. Typed' /\ Within' /\ Below'
    BY <1>1, <2>1, <2>2 DEF Typed, Phases, Within, Below
  <2>4. Holding' /\ InHand'
    BY <1>1, <2>1, <2>2, LightAssumption DEF Holding, InHand, Typed
  <2>5. Exact'
    <3>1. Counted' = Counted
      BY <2>1, <2>2 DEF Counted, Typed
    <3> QED
      BY <1>1, <3>1 DEF Exact
  <2>6. Owns'
    BY <2>1, <2>2 DEF Owns, Typed
  <2> QED
    BY <2>3, <2>4, <2>5, <2>6
<1> QED
  BY <1>2, <1>3

\* The limit is tested before the lock is taken; nobody else counts up.
LEMMA LInvCountIn ==
  ASSUME LInv, CountIn
  PROVE  LInv'
<1>1. /\ lightAt = "test" /\ lightAt' = "count" /\ holder = NoHolder /\ holder' = Listener
      /\ loaded' = count_connect
      /\ UNCHANGED <<backlog, socks, count_connect, phase, sock, owner, strays>>
  BY Zenon DEF CountIn, At, LockCount, LockFree, clientVars
<1>2. ~(MaxConnect # 0 /\ MaxConnect <= count_connect)
  BY Zenon DEF CountIn, AtLimit
<1> USE DEF LInv
<1>3. Typed' /\ Within' /\ Owns'
  BY <1>1 DEF Typed, Within, Owns
<1>4. Below'
  BY <1>1, <1>2, LightAssumption DEF Below, Typed
<1>5. Holding' /\ InHand'
  BY <1>1, LightAssumption DEF Holding, InHand
<1>6. Exact'
  BY <1>1 DEF Exact, Counted
<1> QED
  BY <1>3, <1>4, <1>5, <1>6

LEMMA LInvStartServing ==
  ASSUME LInv, StartServing
  PROVE  LInv'
<1>1. /\ lightAt = "count" /\ lightAt' = "while" /\ socks' = NoHolder
      /\ count_connect' = loaded + 1 /\ holder' = NoHolder /\ loaded' = 0
      /\ UNCHANGED <<backlog, sock, owner>>
  BY Zenon DEF StartServing, At, StoreCount
<1> USE DEF LInv
<1>2. loaded = count_connect /\ holder = Listener /\ NoHolder # Listener
  BY <1>1, LightAssumption DEF Holding
<1>3. Within' /\ Below' /\ count_connect' \in Nat
  BY <1>1, <1>2, LightAssumption DEF Within, Below, Typed
<1>4. \A c \in Clients : phase[c] # "counting"
  BY <1>2, LightAssumption DEF Holding
<1>5. CASE socks = NoHolder
  <2>1. strays' = strays + 1 /\ phase' = phase
    BY <1>5, Zenon DEF StartServing
  <2>2. \A c \in Clients : phase[c] # "accepted"
    BY <1>5, LightAssumption DEF InHand
  <2>3. Typed' /\ Owns'
    BY <1>1, <1>3, <2>1 DEF Typed, Owns
  <2>4. Holding' /\ InHand'
    BY <1>1, <1>4, <2>1, <2>2, LightAssumption DEF Holding, InHand
  <2>5. Exact'
    <3>1. Counted' = Counted
      BY <2>1 DEF Counted
    <3> QED
      BY <1>1, <1>2, <2>1, <3>1, CountedFinite DEF Exact, Typed
  <2> QED
    BY <1>3, <2>3, <2>4, <2>5
<1>6. CASE socks # NoHolder
  <2>1. strays' = strays /\ phase' = [phase EXCEPT ![socks] = "served"]
    BY <1>6, Zenon DEF StartServing
  <2>2. socks \in Clients /\ phase[socks] = "accepted"
    BY <1>1, <1>6 DEF Typed, InHand
  <2>3. Typed' /\ Owns'
    BY <1>1, <1>3, <2>1, <2>2 DEF Typed, Phases, Owns
  <2>4. Holding' /\ InHand'
    BY <1>1, <1>4, <2>1, <2>2, LightAssumption DEF Holding, InHand, Typed
  <2>5. Exact'
    <3>1. Counted' = Counted \cup {socks} /\ socks \notin Counted
      BY <2>1, <2>2 DEF Counted, Typed
    <3>2. Cardinality(Counted') = Cardinality(Counted) + 1
      BY <3>1, CountedFinite, FS_AddElement
    <3> QED
      BY <1>1, <1>2, <2>1, <3>2, CountedFinite DEF Exact, Typed
  <2> QED
    BY <1>3, <2>3, <2>4, <2>5
<1> QED
  BY <1>5, <1>6

LEMMA LInvEndServing ==
  ASSUME LInv, NEW c \in Clients, EndServing(c)
  PROVE  LInv'
<1>1. /\ phase[c] = "served" /\ phase' = [phase EXCEPT ![c] = "closed"]
      /\ owner' = [owner EXCEPT ![sock[c]] = NoHolder]
      /\ sock' = [sock EXCEPT ![c] = NoHolder]
      /\ UNCHANGED <<lightAt, backlog, socks, count_connect, holder, loaded, strays>>
  BY Zenon DEF EndServing, Turns, CloseSocket, countVars
<1> USE DEF LInv
<1>2. sock[c] \in Descriptors
  BY <1>1 DEF Owns
<1>3. Typed' /\ Within' /\ Below'
  BY <1>1, <1>2 DEF Typed, Phases, Within, Below
<1>4. Holding' /\ InHand'
  BY <1>1 DEF Holding, InHand, Typed
<1>5. Exact'
  <2>1. Counted' = Counted
    BY <1>1 DEF Counted, Typed
  <2> QED
    BY <1>1, <2>1 DEF Exact
<1>6. Owns'
  BY <1>1, <1>2 DEF Owns, Typed
<1> QED
  BY <1>3, <1>4, <1>5, <1>6

LEMMA LInvLockOut ==
  ASSUME LInv, NEW c \in Clients, LockOut(c)
  PROVE  LInv'
<1>1. /\ phase[c] = "closed" /\ phase' = [phase EXCEPT ![c] = "counting"]
      /\ holder = NoHolder /\ holder' = c /\ loaded' = count_connect
      /\ UNCHANGED <<lightAt, backlog, socks, count_connect, sock, owner, strays>>
  BY Zenon DEF LockOut, Turns, LockCount, LockFree
<1> USE DEF LInv
<1>2. Typed' /\ Within' /\ Below'
  BY <1>1 DEF Typed, Phases, Within, Below
<1>3. Holding' /\ InHand'
  BY <1>1, LightAssumption DEF Holding, InHand, Typed
<1>4. Exact'
  <2>1. Counted' = Counted
    BY <1>1 DEF Counted, Typed
  <2> QED
    BY <1>1, <2>1 DEF Exact
<1>5. Owns'
  BY <1>1 DEF Owns, Typed
<1> QED
  BY <1>2, <1>3, <1>4, <1>5

LEMMA LInvCountOut ==
  ASSUME LInv, NEW c \in Clients, CountOut(c)
  PROVE  LInv'
<1>1. /\ phase[c] = "counting" /\ phase' = [phase EXCEPT ![c] = "ended"]
      /\ count_connect' = loaded + (-1) /\ holder' = NoHolder /\ loaded' = 0
      /\ UNCHANGED <<lightAt, backlog, socks, sock, owner, strays>>
  BY Zenon DEF CountOut, Turns, StoreCount
<1> USE DEF LInv
<1>2. holder = c /\ loaded = count_connect /\ lightAt # "count"
  BY <1>1, LightAssumption DEF Holding
<1>3. Counted' = Counted \ {c} /\ c \in Counted
  BY <1>1 DEF Counted, Typed
<1>4. Cardinality(Counted') = Cardinality(Counted) - 1
  BY <1>3, CountedFinite, FS_RemoveElement
<1>5. Exact'
  BY <1>1, <1>2, <1>4, CountedFinite DEF Exact, Typed
<1>6. count_connect' = count_connect - 1 /\ count_connect' \in Nat
  BY <1>1, <1>2, <1>5, CountedFinite DEF Exact, Typed
<1>7. Typed'
  BY <1>1, <1>6 DEF Typed, Phases
<1>8. Within' /\ Below'
  BY <1>1, <1>2, <1>6, LightAssumption DEF Within, Below, Typed
<1>9. Holding' /\ InHand'
  BY <1>1, <1>2, LightAssumption DEF Holding, InHand, Typed
<1>10. Owns'
  BY <1>1 DEF Owns, Typed
<1> QED
  BY <1>5, <1>7, <1>8, <1>9, <1>10

LEMMA LInvStep == LInv /\ [LightNext]_lightVars => LInv'
<1> SUFFICES ASSUME LInv, [LightNext]_lightVars PROVE LInv'
  OBVIOUS
<1>1. CASE Open \/ RunServer \/ StopServer \/ While \/ Select \/ UNCHANGED lightVars
  <2>1. UNCHANGED <<count_connect, holder, loaded, phase, sock, owner, backlog, socks, strays>>
    BY <1>1, Zenon DEF Open, RunServer, StopServer, While, Select, lightVars,
                       countVars, clientVars
  <2>2. \/ lightAt' = lightAt
        \/ lightAt \notin {"test", "count"} /\ lightAt' \notin {"test", "count"}
    BY <1>1 DEF Open, RunServer, StopServer, While, Select, At, lightVars
  <2> QED
    BY <2>1, <2>2, LInvQuiet
<1>2. CASE AcceptFails
  BY <1>2, LInvAcceptFails
<1>3. CASE TurnAway
  BY <1>3, LInvTurnAway
<1>4. CASE CountIn
  BY <1>4, LInvCountIn
<1>5. CASE StartServing
  BY <1>5, LInvStartServing
<1>6. ASSUME NEW c \in Clients,
             Connect(c) \/ EndServing(c) \/ LockOut(c) \/ CountOut(c)
      PROVE  LInv'
  BY <1>6, LInvConnect, LInvEndServing, LInvLockOut, LInvCountOut
<1>7. ASSUME NEW c \in Clients, NEW f \in Descriptors, AcceptGives(c, f)
      PROVE  LInv'
  BY <1>7, LInvAcceptGives
<1> QED
  BY <1>1, <1>2, <1>3, <1>4, <1>5, <1>6, <1>7, Zenon DEF LightNext

\* What Listen and the threads of connections keep: the count is that of the
\* threads, and what the holder of the lock has loaded is still so.
THEOREM LInvHolds == LightSpec => []LInv
<1>1. LightInit => LInv
  BY LInvInit
<1>2. LInv /\ [LightNext]_lightVars => LInv'
  BY LInvStep
<1> QED
  BY <1>1, <1>2, PTL DEF LightSpec

------------------------------------------------------------------------------
(* The property                                                            *)

\* count_connect counts the threads whenever nobody is changing it, never more
\* are served than max_connect although Listen reads the count without the lock,
\* and each thread closes its own socket, once, although the kernel gives the
\* number to the next connection before the thread has counted down.
THEOREM LightServerIsSound == LightSpec => []LightServerSound
<1>1. ASSUME LInv PROVE LightServerSound
  <2>1. CountRight
    BY <1>1 DEF LInv, Exact, CountRight
  <2>2. Limited
    BY <1>1 DEF LInv, Exact, Within, Limited
  <2>3. ClosesOwn
    BY <1>1 DEF LInv, Owns, ClosesOwn
  <2> QED
    BY <2>1, <2>2, <2>3 DEF LightServerSound
<1> QED
  BY <1>1, LInvHolds, PTL

\* Listen starts a thread for the socket -1 at most once each time it is called:
\* accept() that fails ends its loop.
Listens ==
  /\ lightAt \in {"out", "opened", "while", "select", "accept", "test", "count"}
  /\ listens \in 0..MaxListens /\ strays \in Nat /\ strays <= listens
  /\ \/ lightAt \in {"opened", "select", "accept", "test", "count"}
     \/ lightAt = "while" /\ ~stopserver
     => strays < listens
  /\ lightAt \in {"test", "count"} /\ socks = NoHolder => stopserver
  /\ holder = NoHolder => loaded = 0

Flags == portOpen \in BOOLEAN /\ stopserver \in BOOLEAN

LEMMA FlagsKept ==
  ASSUME Flags, [LightNext]_lightVars
  PROVE  Flags'
<1>1. portOpen' \in {portOpen, TRUE, FALSE}
  BY Zenon DEF LightNext, Open, RunServer, StopServer, While, Select, AcceptFails, TurnAway,
        CountIn, StartServing, Connect, EndServing, LockOut, CountOut, AcceptGives, lightVars
<1>2. stopserver' \in {stopserver, TRUE, FALSE}
  BY Zenon DEF LightNext, Open, RunServer, StopServer, While, Select, AcceptFails, TurnAway,
        CountIn, StartServing, Connect, EndServing, LockOut, CountOut, AcceptGives, lightVars
<1> QED
  BY <1>1, <1>2, Zenon DEF Flags

LEMMA ListensKept ==
  ASSUME LInv, Listens, [LightNext]_lightVars
  PROVE  Listens'
<1>1. MaxListens \in Nat /\ NoHolder \notin Clients /\ NoHolder # Listener
  BY LightAssumption
<1>2. CASE Open
  BY <1>1, <1>2 DEF Open, Listens, countVars
<1>3. CASE RunServer \/ While \/ Select
  BY <1>3 DEF RunServer, While, Select, At, Listens, countVars
<1>4. CASE StopServer
  BY <1>4 DEF StopServer, Listens, countVars
<1>5. CASE AcceptFails
  BY <1>5 DEF AcceptFails, At, Listens, countVars
<1>6. CASE TurnAway
  BY <1>6 DEF TurnAway, At, Listens, countVars
<1>7. CASE CountIn
  BY <1>1, <1>7 DEF CountIn, At, LockCount, Listens
<1>8. CASE StartServing
  BY <1>8 DEF StartServing, At, StoreCount, Listens
<1>9. ASSUME NEW c \in Clients, Connect(c) \/ EndServing(c) \/ LockOut(c) \/ CountOut(c)
      PROVE  Listens'
  <2>1. UNCHANGED <<lightAt, listens, stopserver, socks, strays>>
    BY <1>9 DEF Connect, EndServing, LockOut, CountOut
  <2>2. holder' = NoHolder => loaded' = 0
    BY <1>1, <1>9 DEF Connect, EndServing, LockOut, CountOut, LockCount, StoreCount, Listens,
                      countVars
  <2> QED
    BY <2>1, <2>2 DEF Listens
<1>10. ASSUME NEW c \in Clients, NEW f \in Descriptors, AcceptGives(c, f)
       PROVE  Listens'
  BY <1>1, <1>10 DEF AcceptGives, At, Listens, countVars
<1>11. CASE UNCHANGED lightVars
  BY <1>11 DEF lightVars, Listens
<1> QED
  BY <1>2, <1>3, <1>4, <1>5, <1>6, <1>7, <1>8, <1>9, <1>10, <1>11, Zenon DEF LightNext

\* For any limit: the light server's state keeps its type, and no more threads
\* serve the socket -1 than Listen was called.
THEOREM LightTypeCorrect == LightSpec => []LightTypeOK
<1>1. LightInit => LInv /\ Listens /\ Flags
  <2>1. LightInit => Listens
    BY LightAssumption DEF LightInit, Listens
  <2>2. LightInit => Flags
    BY Zenon DEF LightInit, Flags
  <2> QED
    BY <2>1, <2>2, LInvInit
<1>2. LInv /\ Listens /\ Flags /\ [LightNext]_lightVars => LInv' /\ Listens' /\ Flags'
  BY LInvStep, ListensKept, FlagsKept
<1>3. ASSUME LInv, Listens, Flags PROVE LightTypeOK
  <2>1. strays \in 0..MaxListens
    BY <1>3, LightAssumption DEF Listens
  <2>2. backlog \subseteq Clients
    BY <1>3 DEF LInv, InHand
  <2>3. loaded \in Nat
    BY <1>3 DEF LInv, Holding, Typed, Listens
  <2> QED
    BY <1>3, <2>1, <2>2, <2>3, Zenon
       DEF LInv, Typed, Phases, Holding, Listens, Flags, LightTypeOK
<1> QED
  BY <1>1, <1>2, <1>3, PTL DEF LightSpec

------------------------------------------------------------------------------
(* Acceptor: a protocol by name                                            *)

\* A name that is found whole in a word without a space is that word: the
\* search anywhere in the text and the looks at the places beside it come to a
\* comparison.
LEMMA WholeIsAll ==
  ASSUME NEW S, NEW text \in Seq(S), \A j \in 1..Len(text) : text[j] # Space,
         NEW name \in Seq(S), name # <<>>
  PROVE  Found(text, name) > 0 /\ Whole(text, name, Found(text, name)) <=> name = text
<1> DEFINE T == {p \in 1..Len(text) : FoundAt(text, name, p)}
           f == Found(text, name)
<1>1. Len(text) \in Nat /\ Len(name) \in Nat /\ Len(name) >= 1
  BY EmptySeq
<1>2. T # {} => f \in T /\ \A q \in T : f <= q
  <2> SUFFICES ASSUME T # {} PROVE f \in T /\ \A q \in T : f <= q
    OBVIOUS
  <2>1. \E p \in T : \A q \in T : p <= q
    <3>1. T \subseteq Nat
      OBVIOUS
    <3> HIDE DEF T
    <3> QED
      BY <3>1, NatLeast
  <2>2. f = CHOOSE p \in T : \A q \in T : p <= q
    BY DEF Found
  <2> HIDE DEF T, f
  <2> QED
    BY <2>1, <2>2
<1>3. T = {} => f = 0
  BY DEF Found
<1>4. ASSUME f > 0, Whole(text, name, f) PROVE name = text
  <2>1. f \in T
    BY <1>2, <1>3, <1>4
  <2> DEFINE e == f + Len(name)
  <2>2. /\ f \in 1..Len(text) /\ e - 1 <= Len(text)
        /\ SubSeq(text, f, e - 1) = name
    BY <2>1 DEF FoundAt
  <2>3. (f = 1 \/ text[f - 1] = Space) /\ (e = Len(text) + 1 \/ text[e] = Space)
    BY <1>4 DEF Whole
  <2>4. e = f + Len(name)
    OBVIOUS
  <2> HIDE DEF f, e
  <2>5. f = 1
    <3>1. f # 1 => f - 1 \in 1..Len(text)
      BY <1>1, <2>2
    <3> QED
      BY <2>3, <3>1
  <2>6. e = Len(text) + 1
    <3>1. e \in Nat /\ e >= 1
      BY <1>1, <2>2, <2>4
    <3>2. e # Len(text) + 1 => e \in 1..Len(text)
      <4>1. e - 1 <= Len(text) /\ Len(text) \in Nat
        BY <1>1, <2>2
      <4> QED
        BY <3>1, <4>1
    <3> QED
      BY <2>3, <3>2
  <2>7. e - 1 = Len(text)
    BY <1>1, <2>6
  <2>8. SubSeq(text, 1, Len(text)) = text
    BY SubSeqFull
  <2> QED
    BY <2>2, <2>5, <2>7, <2>8
<1>5. ASSUME name = text PROVE f > 0 /\ Whole(text, name, f)
  <2>1. SubSeq(text, 1, Len(text)) = text
    BY SubSeqFull
  <2>2. 1 \in 1..Len(text) /\ 1 + Len(name) - 1 = Len(text) /\ 1 + Len(name) = Len(text) + 1
    BY <1>1, <1>5
  <2>3. FoundAt(text, name, 1)
    BY <1>1, <1>5, <2>1, <2>2 DEF FoundAt
  <2>4. 1 \in T
    BY <2>2, <2>3
  <2>5. f \in T /\ f <= 1
    BY <1>2, <2>4
  <2>6. f = 1
    <3>1. f \in 1..Len(text)
      BY <2>5
    <3> HIDE DEF f
    <3> QED
      BY <1>1, <2>5, <3>1
  <2> QED
    BY <2>2, <2>6 DEF Whole
<1> QED
  BY <1>4, <1>5

LEMMA NewProtoElIs ==
  ASSUME NEW i \in Entries, NEW named, named = {k \in DOMAIN Registered : Registered[k] = ProtoOf(i)}
  PROVE  /\ NewProtoEl(ProtoOf(i)) \in Nat
         /\ IF NewProtoEl(ProtoOf(i)) = 0
            THEN named = {} /\ ~(Anyone(ProtoOf(i)) /\ Registered # <<>>)
            ELSE \/ Anyone(ProtoOf(i)) /\ NewProtoEl(ProtoOf(i)) = 1
                 \/ /\ NewProtoEl(ProtoOf(i)) \in named
                    /\ \A k \in named : k <= NewProtoEl(ProtoOf(i))
<1> DEFINE text == ProtoOf(i)
           el == NewProtoEl(text)
           n == Len(Registered)
<1>1. PortProto \in Seq(Seq(STRING)) /\ Registered \in Seq(Seq(STRING))
  BY AcceptorAssumption
<1>2. i + 1 \in DOMAIN PortProto /\ i + 1 \in 1..Len(PortProto)
  BY <1>1 DEF Entries
<1>3. text \in Seq(STRING) /\ \A j \in 1..Len(text) : text[j] # Space
  <2> DEFINE m == i + 1
  <2>1. m \in 1..Len(PortProto) /\ m \in DOMAIN PortProto /\ text = PortProto[m]
    BY <1>2 DEF ProtoOf
  <2> HIDE DEF m, text
  <2>2. PortProto[m] \in Seq(STRING)
    BY <1>1, <2>1, ElementOfSeq
  <2>3. \A j \in DOMAIN PortProto[m] : PortProto[m][j] # Space
    BY <2>1, AcceptorAssumption
  <2> QED
    BY <2>1, <2>2, <2>3
<1> HIDE DEF text
<1>4. \A k \in DOMAIN Registered : Registered[k] \in Seq(STRING) /\ Registered[k] # <<>>
  BY <1>1, ElementOfSeq, AcceptorAssumption DEF Anyone
<1>5. Matching(text) = named
  <2>1. \A k \in DOMAIN Registered :
          Found(text, Registered[k]) > 0 /\ Whole(text, Registered[k], Found(text, Registered[k]))
            <=> Registered[k] = text
    BY <1>3, <1>4, WholeIsAll
  <2> QED
    BY <2>1 DEF Matching, text
<1>6. n \in Nat /\ DOMAIN Registered = 1..n
  BY <1>1
<1>7. named \subseteq 0..n
  BY <1>6
<1> HIDE DEF n
<1>8. CASE Anyone(text) /\ Registered = <<>>
  <2>1. DOMAIN Registered = {}
    BY <1>8
  <2>2. named = {} /\ el = 0
    BY <1>8, <2>1 DEF NewProtoEl
  <2> QED
    BY <1>8, <2>2 DEF text
<1>9. CASE Anyone(text) /\ Registered # <<>>
  <2>1. el = 1
    BY <1>9 DEF NewProtoEl
  <2> QED
    BY <1>9, <2>1 DEF text
<1>10. CASE ~Anyone(text) /\ named = {}
  <2>1. el = 0
    BY <1>5, <1>10 DEF NewProtoEl
  <2> QED
    BY <1>10, <2>1 DEF text
<1>11. CASE ~Anyone(text) /\ named # {}
  <2>1. el = CHOOSE k \in named : \A j \in named : j <= k
    BY <1>5, <1>11 DEF NewProtoEl
  <2>2. \E k \in named : \A j \in named : j <= k
    BY <1>6, <1>7, <1>11, NatGreatest
  <2>3. el \in named /\ \A j \in named : j <= el
    <3> HIDE DEF el
    <3> QED
      BY <2>1, <2>2
  <2>4. el \in Nat /\ el # 0
    BY <1>6, <2>3
  <2> QED
    BY <2>3, <2>4 DEF text
<1> QED
  BY <1>8, <1>9, <1>10, <1>11

------------------------------------------------------------------------------
(* Acceptor: the connections                                               *)

Called ==
  /\ opened \subseteq Entries
  /\ peer \in [Peers -> {"away", "waiting", "added", "closed"}]
  /\ calledAt \in [Peers -> Nat] /\ given \in [Peers -> Nat]

\* Who has a peer, and which one that is by the name of its port.
Rightly(p) ==
  LET text == ProtoOf(calledAt[p])
      named == {k \in DOMAIN Registered : Registered[k] = text}
  IN /\ peer[p] = "added" =>
          \/ Anyone(text) /\ given[p] = 1
          \/ given[p] \in named /\ \A k \in named : k <= given[p]
     /\ peer[p] = "closed" => named = {} /\ ~(Anyone(text) /\ Registered # <<>>)

AcceptInv == Called /\ \A p \in Peers : Rightly(p)

LEMMA AcceptStart ==
  ASSUME AcceptInit
  PROVE  AcceptInv
  BY DEF AcceptInit, AcceptInv, Called, Rightly

LEMMA AcceptOneKeeps ==
  ASSUME AcceptInv, AcceptOne
  PROVE  AcceptInv'
<1>0. PICK i \in Entries : \E p \in Waiting(i) :
        LET k == NewProtoEl(ProtoOf(i)) IN
          /\ peer' = [peer EXCEPT ![p] = IF k = 0 THEN "closed" ELSE "added"]
          /\ given' = [given EXCEPT ![p] = k]
  BY DEF AcceptOne
<1>1. PICK p \in Waiting(i) :
        LET k == NewProtoEl(ProtoOf(i)) IN
          /\ peer' = [peer EXCEPT ![p] = IF k = 0 THEN "closed" ELSE "added"]
          /\ given' = [given EXCEPT ![p] = k]
  BY <1>0
<1>2. UNCHANGED <<opened, calledAt>>
  BY DEF AcceptOne
<1> DEFINE text == ProtoOf(i)
           el == NewProtoEl(text)
           named == {k \in DOMAIN Registered : Registered[k] = text}
<1>3. p \in Peers /\ calledAt[p] = i
  BY <1>1 DEF Waiting
<1>4. /\ el \in Nat
      /\ el = 0 => named = {} /\ ~(Anyone(text) /\ Registered # <<>>)
      /\ el # 0 => \/ Anyone(text) /\ el = 1
                   \/ el \in named /\ \A k \in named : k <= el
  BY NewProtoElIs
<1>5. peer' = [peer EXCEPT ![p] = IF el = 0 THEN "closed" ELSE "added"]
      /\ given' = [given EXCEPT ![p] = el]
  BY <1>1
<1> HIDE DEF el
<1>6. Called'
  BY <1>2, <1>3, <1>4, <1>5 DEF AcceptInv, Called
<1>7. peer'[p] = (IF el = 0 THEN "closed" ELSE "added") /\ given'[p] = el
  BY <1>3, <1>5 DEF AcceptInv, Called
<1>8. Rightly(p)'
  BY <1>2, <1>3, <1>4, <1>7 DEF Rightly
<1>9. ASSUME NEW q \in Peers, q # p PROVE Rightly(q)'
  <2>1. peer'[q] = peer[q] /\ given'[q] = given[q] /\ calledAt'[q] = calledAt[q]
    BY <1>2, <1>3, <1>5, <1>9 DEF AcceptInv, Called
  <2>2. Rightly(q)
    BY DEF AcceptInv
  <2> QED
    BY <2>1, <2>2 DEF Rightly
<1> QED
  BY <1>6, <1>8, <1>9 DEF AcceptInv

LEMMA ConnectKeeps ==
  ASSUME AcceptInv, NEW p \in Peers, PeerConnects(p)
  PROVE  AcceptInv'
<1>1. PICK i \in opened : calledAt' = [calledAt EXCEPT ![p] = i]
  BY DEF PeerConnects
<1>2. peer' = [peer EXCEPT ![p] = "waiting"] /\ UNCHANGED <<given, opened>>
  BY DEF PeerConnects
<1>3. i \in Nat
  <2>1. Entries \subseteq Nat
    BY AcceptorAssumption DEF Entries
  <2> QED
    BY <2>1 DEF AcceptInv, Called
<1>4. Called'
  BY <1>1, <1>2, <1>3 DEF AcceptInv, Called
<1>5. Rightly(p)'
  BY <1>2 DEF Rightly, AcceptInv, Called
<1>6. ASSUME NEW q \in Peers, q # p PROVE Rightly(q)'
  <2>1. peer'[q] = peer[q] /\ given'[q] = given[q] /\ calledAt'[q] = calledAt[q]
    BY <1>1, <1>2, <1>6 DEF AcceptInv, Called
  <2>2. Rightly(q)
    BY DEF AcceptInv
  <2> QED
    BY <2>1, <2>2 DEF Rightly
<1> QED
  BY <1>4, <1>5, <1>6 DEF AcceptInv

LEMMA AcceptKeeps ==
  ASSUME AcceptInv, [AcceptNext]_acceptVars
  PROVE  AcceptInv'
<1>1. CASE AcceptOne
  BY <1>1, AcceptOneKeeps
<1>2. CASE \E p \in Peers : PeerConnects(p)
  BY <1>2, ConnectKeeps
<1>3. ASSUME UNCHANGED <<peer, calledAt, given>>, opened' \subseteq Entries PROVE AcceptInv'
  BY <1>3 DEF AcceptInv, Called, Rightly
<1>4. CASE OpenPort
  <2>1. UNCHANGED <<peer, calledAt, given>> /\ opened' \subseteq Entries
    BY <1>4 DEF OpenPort
  <2> QED
    BY <1>3, <2>1
<1>5. CASE SelectTurn \/ SelectFails \/ TakeFails \/ TurnEnds \/ UNCHANGED acceptVars
  <2>1. UNCHANGED <<opened, peer, calledAt, given>>
    BY <1>5 DEF SelectTurn, SelectFails, TakeFails, TurnEnds, acceptVars
  <2> QED
    BY <1>3, <2>1 DEF AcceptInv, Called
<1> QED
  BY <1>1, <1>2, <1>4, <1>5 DEF AcceptNext, AcceptStep

\* For any ports and any protocols: a connection is with the protocol that has
\* the name its port gives, the last of them, or with the first of all when the
\* port leaves it open, and is closed only if there is none.
THEOREM NamedProtocolHolds == AcceptSpec => []NamedProtocol
<1>1. AcceptInit => AcceptInv
  BY AcceptStart
<1>2. AcceptInv /\ [AcceptNext]_acceptVars => AcceptInv'
  BY AcceptKeeps
<1>3. AcceptInv => NamedProtocol
  BY DEF AcceptInv, Rightly, NamedProtocol
<1> QED
  BY <1>1, <1>2, <1>3, PTL DEF AcceptSpec
\* Where the turns are.
TurnsTyped ==
  /\ accepting \in {"open", "select", "scan", "ended"}
  /\ accepting = "open" => ready = {}
  /\ ready \subseteq opened /\ failed \in 0..MaxFailed
  /\ conpos \in Entries \cup {0} /\ conpos2 \in 0..Len(PortProto)

PeersTyped ==
  /\ calledAt \in [Peers -> Entries \cup {0}]
  /\ given \in [Peers -> 0..Len(Registered)]

LEMMA NewProtoElBounded ==
  ASSUME NEW i \in Entries
  PROVE  NewProtoEl(ProtoOf(i)) \in 0..Len(Registered)
<1>1. Registered \in Seq(Seq(STRING))
  BY AcceptorAssumption
<1>2. Len(Registered) \in Nat /\ DOMAIN Registered = 1..Len(Registered)
  BY <1>1, LenProperties
<1>3. Registered # <<>> => Len(Registered) >= 1
  <2>1. \A S : \A seq \in Seq(S) : Len(seq) = 0 => seq = <<>>
    BY EmptySeq
  <2>2. Len(Registered) = 0 => Registered = <<>>
    BY <1>1, <2>1, Zenon
  <2> DEFINE n == Len(Registered)
  <2>3. n \in Nat
    BY <1>2
  <2> HIDE DEF n
  <2>4. n # 0 => n >= 1
    BY <2>3
  <2> QED
    BY <2>2, <2>4, Zenon DEF n
<1>4. CASE Anyone(ProtoOf(i))
  <2>1. NewProtoEl(ProtoOf(i)) = IF Registered = <<>> THEN 0 ELSE 1
    BY <1>4 DEF NewProtoEl
  <2> QED
    BY <1>2, <1>3, <2>1
<1>5. CASE ~Anyone(ProtoOf(i))
  <2> DEFINE named == {k \in DOMAIN Registered : Registered[k] = ProtoOf(i)}
             el == NewProtoEl(ProtoOf(i))
  <2>1. el = 0 \/ el \in named
    BY <1>5, NewProtoElIs
  <2>2. named \subseteq 1..Len(Registered)
    BY <1>2
  <2> DEFINE n == Len(Registered)
  <2>3. n \in Nat /\ named \subseteq 1..n
    BY <1>2, <2>2
  <2> HIDE DEF named, el, n
  <2>4. el = 0 \/ el \in 1..n
    BY <2>1, <2>3, Zenon
  <2>5. el \in 0..n
    BY <2>3, <2>4
  <2> QED
    BY <2>5 DEF el, n
<1> QED
  BY <1>4, <1>5

LEMMA StopsInCons ==
  ASSUME opened \subseteq Entries
  PROVE  StopsAt \in 0..Len(PortProto)
<1>1. Len(PortProto) \in Nat
  BY AcceptorAssumption, LenProperties
<1>2. Entries \subseteq 0..Len(PortProto)
  BY <1>1 DEF Entries
<1>3. CASE Cardinality(InTurn) < MaxSelect
  BY <1>1, <1>3 DEF StopsAt
<1>4. CASE ~(Cardinality(InTurn) < MaxSelect)
  <2>1. InTurn \subseteq 0..Len(PortProto)
    BY <1>2 DEF InTurn
  <2>2. InTurn # {}
    <3>1. Cardinality({}) = 0 /\ MaxSelect \in Nat \ {0, 1}
      BY FS_EmptySet, AcceptorAssumption
    <3> QED
      BY <1>4, <3>1
  <2>3. \E i \in InTurn : \A j \in InTurn : j <= i
    BY <1>1, <2>1, <2>2, NatGreatest
  <2>4. StopsAt \in InTurn
    BY <1>4, <2>3 DEF StopsAt
  <2> QED
    BY <2>1, <2>4
<1> QED
  BY <1>3, <1>4

LEMMA TurnsKept ==
  ASSUME AcceptInv, TurnsTyped, [AcceptNext]_acceptVars
  PROVE  TurnsTyped'
<1>1. Len(PortProto) \in Nat /\ MaxFailed \in Nat
  BY AcceptorAssumption, LenProperties
<1>2. CASE OpenPort
  BY <1>2 DEF OpenPort, TurnsTyped
<1>3. CASE SelectTurn
  <2>1. conpos2' \in 0..Len(PortProto)
    BY <1>3, StopsInCons DEF SelectTurn, AcceptInv, Called
  <2>2. InTurn \subseteq opened
    BY DEF InTurn
  <2> QED
    BY <1>3, <2>1, <2>2 DEF SelectTurn, TurnsTyped
<1>4. CASE SelectFails
  BY <1>4 DEF SelectFails, TurnsTyped
<1>5. CASE AcceptOne
  BY <1>5 DEF AcceptOne, TurnsTyped
<1>6. CASE TakeFails
  BY <1>1, <1>6 DEF TakeFails, TurnsTyped
<1>7. CASE TurnEnds
  <2>1. NextTurn \in Entries \cup {0}
    BY <1>1 DEF NextTurn, Entries, TurnsTyped
  <2> QED
    BY <1>7, <2>1 DEF TurnEnds, TurnsTyped
<1>8. CASE (\E p \in Peers : PeerConnects(p)) \/ UNCHANGED acceptVars
  BY <1>8 DEF PeerConnects, acceptVars, TurnsTyped
<1> QED
  BY <1>2, <1>3, <1>4, <1>5, <1>6, <1>7, <1>8 DEF AcceptNext, AcceptStep

LEMMA PeersKept ==
  ASSUME AcceptInv, PeersTyped, [AcceptNext]_acceptVars
  PROVE  PeersTyped'
<1>1. CASE AcceptOne
  <2>1. PICK i \in Entries : \E p \in Waiting(i) :
          given' = [given EXCEPT ![p] = NewProtoEl(ProtoOf(i))]
    BY <1>1 DEF AcceptOne
  <2>2. NewProtoEl(ProtoOf(i)) \in 0..Len(Registered)
    BY NewProtoElBounded
  <2> DEFINE el == NewProtoEl(ProtoOf(i))
  <2> HIDE DEF el
  <2>3. \E p \in Waiting(i) : given' = [given EXCEPT ![p] = el]
    BY <2>1 DEF el
  <2>5. el \in 0..Len(Registered)
    BY <2>2 DEF el
  <2>4. calledAt' = calledAt
    BY <1>1 DEF AcceptOne
  <2> QED
    BY <2>3, <2>4, <2>5 DEF PeersTyped
<1>2. ASSUME NEW p \in Peers, PeerConnects(p) PROVE PeersTyped'
  <2>1. PICK i \in opened : calledAt' = [calledAt EXCEPT ![p] = i]
    BY <1>2 DEF PeerConnects
  <2>2. i \in Entries /\ given' = given
    BY <1>2 DEF PeerConnects, AcceptInv, Called
  <2> QED
    BY <2>1, <2>2 DEF PeersTyped
<1>3. CASE OpenPort \/ SelectTurn \/ SelectFails \/ TakeFails \/ TurnEnds \/ UNCHANGED acceptVars
  BY <1>3 DEF OpenPort, SelectTurn, SelectFails, TakeFails, TurnEnds, acceptVars, PeersTyped
<1> QED
  BY <1>1, <1>2, <1>3 DEF AcceptNext, AcceptStep

\* For any ports: a turn stays within the entries of cons, only a port that is
\* open is scanned, and who has a connection is one of the protocols.
THEOREM AcceptTypeCorrect == AcceptSpec => []AcceptTypeOK
<1>1. AcceptInit => AcceptInv /\ TurnsTyped /\ PeersTyped
  <2>1. Len(PortProto) \in Nat /\ Len(Registered) \in Nat /\ MaxFailed \in Nat
    BY AcceptorAssumption, LenProperties
  <2> QED
    BY <2>1, AcceptStart DEF AcceptInit, TurnsTyped, PeersTyped
<1>2. AcceptInv /\ TurnsTyped /\ PeersTyped /\ [AcceptNext]_acceptVars
      => AcceptInv' /\ TurnsTyped' /\ PeersTyped'
  BY AcceptKeeps, TurnsKept, PeersKept
<1>3. AcceptInv /\ TurnsTyped /\ PeersTyped => AcceptTypeOK
  BY DEF AcceptInv, Called, TurnsTyped, PeersTyped, AcceptTypeOK
<1> QED
  BY <1>1, <1>2, <1>3, PTL DEF AcceptSpec

------------------------------------------------------------------------------
(* MCThreads                                                               *)

\* The lock, the starts, the ring of the workers, the light server and the
\* acceptor keep their types, in a program that starts its server from one thread.
THEOREM ThreadsTypeCorrect ==
  ASSUME OneUser
  PROVE  Spec => []ThreadsTypeOK
<1>1. Init => LockInit /\ StartInit /\ RingInit /\ LightInit /\ AcceptInit
  BY DEF Init
<1>2. OfLock => UNCHANGED <<startVars, ringVars, lightVars, acceptVars>>
  BY DEF OfLock
<1>3. OfStart => UNCHANGED <<lockVars, ringVars, lightVars, acceptVars>>
  BY DEF OfStart
<1>4. OfRing => UNCHANGED <<lockVars, startVars, lightVars, acceptVars>>
  BY DEF OfRing
<1>5. OfLight => UNCHANGED <<lockVars, startVars, ringVars, acceptVars>>
  BY DEF OfLight
<1>6. OfAccept => UNCHANGED <<lockVars, startVars, ringVars, lightVars>>
  BY DEF OfAccept
<1>7. UNCHANGED vars => UNCHANGED <<lockVars, startVars, ringVars, lightVars, acceptVars>>
  BY DEF vars
<1>8. [Next]_vars => /\ [LockNext]_lockVars /\ [StartNext]_startVars /\ [RingNext]_ringVars
                     /\ [LightNext]_lightVars /\ [AcceptNext]_acceptVars
  BY <1>2, <1>3, <1>4, <1>5, <1>6, <1>7 DEF Next, Lock, Start, Ring, Light, Accept, Rests
<1>9. Spec => LockSpec /\ StartSpec /\ RingSpec /\ LightSpec /\ AcceptSpec
  BY <1>1, <1>8, PTL DEF Spec, LockSpec, StartSpec, RingSpec, LightSpec, AcceptSpec
<1>10. LockTypeOK /\ StartTypeOK /\ RingTypeOK /\ LightTypeOK /\ AcceptTypeOK
       => ThreadsTypeOK
  BY DEF ThreadsTypeOK
<1> QED
  BY <1>9, <1>10, LockTypeCorrect, StartTypeCorrect, RingTypeCorrect, LightTypeCorrect,
     AcceptTypeCorrect, PTL
=============================================================================
