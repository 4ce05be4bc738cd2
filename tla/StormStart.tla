----------------------------- MODULE StormStart -----------------------------
(***************************************************************************)
(* How a storm server starts, in the threads of class MSVCOT               *)
(* (crossplatform/threads.cpp): the program calls RunInThread of the       *)
(* server, the server's thread starts the core and opens its ports, the    *)
(* core's thread starts the workers and polls.  A server that cannot open  *)
(* its ports ends its thread, and the program may call RunInThread again.  *)
(*                                                                         *)
(* COTS of an object is in steps of one load or store each: StopCot waits  *)
(* for cottid = 0; StartThread stores 0, creates the thread and stores 1,  *)
(* whatever the thread has done by then.                                   *)
(***************************************************************************)
EXTENDS Integers, FiniteSets

CONSTANTS
  Users,      \* threads of the program that call RunInThread
  MaxRuns,    \* bound: calls of RunInThread
  WorkerIds   \* the places of threads[]

\* A thread of an object is <<object, number>>: no more of one than calls.
Objects == {"server", "core"}
CotThreads == Objects \X (1..MaxRuns)
Callers == Users \cup CotThreads

ASSUME StartAssumption ==
  /\ MaxRuns \in Nat \ {0} /\ WorkerIds \subseteq Nat /\ IsFiniteSet(WorkerIds)
  /\ Users \cap CotThreads = {}

VARIABLES
  cottid,    \* MSVCOT::cottid of each object
  step,      \* where a caller is in COTS: "no", "stop", "zero", "create", "one"
  where,     \* a thread: "none", "cot" before it calls COTS, "starting",
             \*   "open" the ports, "listen"; "seen", "start", "lock", "check",
             \*   "poll" of the core; "return" when COT has ended, "ended"
  left,      \* the places of threads[] a core's thread has not seen
  places,    \* how many workers were started for each place of threads[]
  polled,    \* is_socket_poll_work
  workLock,  \* who has socket_work_lock, {} or one thread
  calls,     \* calls of RunInThread
  early      \* did a thread end before its cottid was set

startVars ==
  <<cottid, step, where, left, places, polled, workLock, calls, early>>

StartInit ==
  /\ cottid = [o \in Objects |-> 0] /\ step = [c \in Callers |-> "no"]
  /\ where = [t \in CotThreads |-> "none"]
  /\ left = [t \in CotThreads |-> WorkerIds]
  /\ places = [i \in WorkerIds |-> 0]
  /\ polled = FALSE /\ workLock = {} /\ calls = 0 /\ early = FALSE

\* Whose COTS a caller calls.
Callee(c) == IF c \in Users THEN "server" ELSE "core"

coreVars == <<left, places, polled, workLock>>

------------------------------------------------------------------------------
(* COTS                                                                    *)

\* RunInThread
Call(u) ==
  /\ step[u] = "no" /\ calls < MaxRuns
  /\ step' = [step EXCEPT ![u] = "stop"] /\ calls' = calls + 1
  /\ UNCHANGED <<cottid, where, coreVars, early>>

\* Slip: a thread that runs is not waited for.
StoppedAny(o) == TRUE

\* while(cottid) of StopCot
Stopped(o) == cottid[o] = 0

StopCot(c) ==
  /\ step[c] = "stop" /\ Stopped(Callee(c))
  /\ step' = [step EXCEPT ![c] = "zero"]
  /\ UNCHANGED <<cottid, where, coreVars, calls, early>>

\* *pdwThreadID = 0
StoreZero(c) ==
  /\ step[c] = "zero"
  /\ cottid' = [cottid EXCEPT ![Callee(c)] = 0]
  /\ step' = [step EXCEPT ![c] = "create"]
  /\ UNCHANGED <<where, coreVars, calls, early>>

\* pthread_create
Create(c) ==
  /\ step[c] = "create"
  /\ \E t \in CotThreads :
       /\ t[1] = Callee(c) /\ where[t] = "none"
       /\ \A k \in 1..(t[2] - 1) : where[<<t[1], k>>] # "none"
       /\ where' = [where EXCEPT ![t] = "cot"]
  /\ step' = [step EXCEPT ![c] = "one"]
  /\ UNCHANGED <<cottid, coreVars, calls, early>>

\* *pdwThreadID = 1, and COTS returns.
StoreOne(c) ==
  /\ step[c] = "one"
  /\ cottid' = [cottid EXCEPT ![Callee(c)] = 1]
  /\ step' = [step EXCEPT ![c] = "no"]
  /\ UNCHANGED <<where, coreVars, calls, early>>

\* Slip: the end of a thread is not noted.
EndedTidKept(o) == cottid[o]

\* cottid = 0 in MSVCOT_RunCot
EndedTid(o) == 0

\* MSVCOT_RunCot, when COT has returned.
RunCot(t) ==
  /\ where[t] = "return"
  /\ cottid' = [cottid EXCEPT ![t[1]] = EndedTid(t[1])]
  /\ where' = [where EXCEPT ![t] = "ended"]
  /\ early' = (early \/ \E c \in Callers : Callee(c) = t[1] /\ step[c] = "one")
  /\ UNCHANGED <<step, coreVars, calls>>

------------------------------------------------------------------------------
(* The threads                                                             *)

Goes(t, o, from, to) ==
  /\ t[1] = o /\ where[t] = from
  /\ where' = [where EXCEPT ![t] = to]

\* StormServer::Run: core->StormRunCore()
RunCore(t) ==
  /\ Goes(t, "server", "cot", "starting")
  /\ step' = [step EXCEPT ![t] = "stop"]
  /\ UNCHANGED <<cottid, coreVars, calls, early>>

\* Listen: OpenPort fails, or it listens for ever.
Listen(t) ==
  /\ step[t] = "no"
  /\ Goes(t, "server", "starting", "return") \/ Goes(t, "server", "starting", "listen")
  /\ UNCHANGED <<cottid, step, coreVars, calls, early>>

Lowest(S) == CHOOSE i \in S : \A j \in S : i <= j

\* if(!threads[i]): ALock(threads_lock) declares a variable and locks nothing.
SeePlace(t) ==
  /\ left[t] # {}
  /\ IF places[Lowest(left[t])] = 0
     THEN Goes(t, "core", "cot", "seen") /\ UNCHANGED left
     ELSE /\ t[1] = "core" /\ where[t] = "cot" /\ UNCHANGED where
          /\ left' = [left EXCEPT ![t] = @ \ {Lowest(@)}]
  /\ UNCHANGED <<cottid, step, places, polled, workLock, calls, early>>

\* threads[i] = 1; MCOTS(&threads[i])
StartWorker(t) ==
  /\ Goes(t, "core", "seen", "cot")
  /\ places' = [places EXCEPT ![Lowest(left[t])] = @ + 1]
  /\ left' = [left EXCEPT ![t] = @ \ {Lowest(@)}]
  /\ UNCHANGED <<cottid, step, polled, workLock, calls, early>>

\* socket_work_lock.Lock() of SocketPollWorkEpoll
LockWork(t) ==
  /\ left[t] = {} /\ workLock = {}
  /\ Goes(t, "core", "cot", "check")
  /\ workLock' = {t}
  /\ UNCHANGED <<cottid, step, left, places, polled, calls, early>>

\* Run once: a second poller returns, and keeps the lock.
RunOnce(t) ==
  /\ IF polled THEN Goes(t, "core", "check", "return") /\ UNCHANGED workLock
               ELSE Goes(t, "core", "check", "poll") /\ workLock' = {}
  /\ polled' = TRUE
  /\ UNCHANGED <<cottid, step, left, places, calls, early>>

CotStep(c) == StopCot(c) \/ StoreZero(c) \/ Create(c) \/ StoreOne(c)

ThreadStep(t) ==
  \/ RunCore(t) \/ Listen(t) \/ RunCot(t)
  \/ SeePlace(t) \/ StartWorker(t) \/ LockWork(t) \/ RunOnce(t)

StartNext ==
  \/ \E u \in Users : Call(u)
  \/ \E c \in Callers : CotStep(c)
  \/ \E t \in CotThreads : ThreadStep(t)

StartSpec == StartInit /\ [][StartNext]_startVars

------------------------------------------------------------------------------
(* Properties                                                              *)

StartTypeOK ==
  /\ cottid \in [Objects -> {0, 1}]
  /\ step \in [Callers -> {"no", "stop", "zero", "create", "one"}]
  /\ where \in [CotThreads -> {"none", "cot", "starting", "listen", "seen",
                               "check", "poll", "return", "ended"}]
  /\ left \in [CotThreads -> SUBSET WorkerIds]
  /\ places \in [WorkerIds -> 0..MaxRuns]
  /\ polled \in BOOLEAN /\ early \in BOOLEAN
  /\ workLock \in SUBSET CotThreads /\ calls \in 0..MaxRuns

Lives(t) == where[t] \notin {"none", "return", "ended"}

\* What "COT: Class One Thread" says, for a program that calls from one thread
\* and calls again after a start that failed: no two threads are in the COT of
\* one object, although COTS waits for a word that both threads store to.
OneThread ==
  \A t, v \in CotThreads : t[1] = v[1] /\ Lives(t) /\ Lives(v) => t = v

\* The return of a second poller, which leaves socket_work_lock held and would
\* stop every worker, is never reached, and no place of threads[] gets a second
\* worker, although the lock around it locks nothing: StopCot of the core keeps
\* a second start of it away.
CoreRunsOnce ==
  /\ \A t \in workLock : Lives(t)
  /\ \A i \in WorkerIds : places[i] <= 1

StartsOnce == OneThread /\ CoreRunsOnce

\* StopCot of the server returns once a thread that failed has ended, unless it
\* ended before the thread that started it stored 1: then it waits for ever.
RestartReturns ==
  \A u \in Users :
    step[u] = "stop" ~> (step[u] # "stop" \/ early
                          \/ \E t \in CotThreads : t[1] = "server" /\ Lives(t))
=============================================================================
