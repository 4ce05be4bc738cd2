------------------------------ MODULE StormRing ------------------------------
(***************************************************************************)
(* How the storm core's poller wakes its workers: storm_work_ring with its *)
(* unlocked write and its read under socket_work_lock, and PollWait with   *)
(* the condition lock cond_lock (class CLock).  A step is one load or      *)
(* store of wid, rid or data, or one call of a lock.  A slot is in the     *)
(* hands of one thread at a time (Ownership of module StormCore), so the   *)
(* poller writes only slots that are not in the ring and not with a worker.*)
(***************************************************************************)
EXTENDS Integers, Sequences

CONSTANTS Items,      \* socket slots
          Workers,    \* worker threads, threads_max of them
          Nothing,    \* no slot
          Nobody,     \* a lock nobody holds
          RingSz      \* ring_sz, 256 in the code

ASSUME RingAssumption ==
  /\ RingSz \in Nat \ {0, 1}
  /\ Nothing \notin Items /\ Nobody \notin Workers

VARIABLES
  wid, rid, data,       \* storm_work_ring
  ppc, pitem, scan,     \* poller: where, the slot it writes, is it the timeout scan
  wpc, seen, item,       \* workers: where, the wid they loaded, the slot they have
  condBy, waiting,      \* cond_lock: who holds it, who waits on it
  workBy                \* socket_work_lock

indexVars == <<wid, rid, data>>
pollVars == <<ppc, pitem, scan>>
workVars == <<wpc, seen, item>>
condVars == <<condBy, waiting, workBy>>
ringVars == <<indexVars, pollVars, workVars, condVars>>

RingTypeOK ==
  /\ wid \in 0..(RingSz - 1) /\ rid \in 0..(RingSz - 1)
  /\ data \in [0..(RingSz - 1) -> Items \cup {Nothing}]
  /\ ppc \in {"idle", "write", "advance", "signal"}
  /\ pitem \in Items \cup {Nothing} /\ scan \in BOOLEAN
  /\ wpc \in [Workers -> {"poll", "is", "sleep", "wait", "awake", "read", "advance", "work"}]
  /\ seen \in [Workers -> 0..(RingSz - 1)]
  /\ item \in [Workers -> Items \cup {Nothing}]
  /\ condBy \in Workers \cup {Nobody} /\ workBy \in Workers \cup {Nobody}
  /\ waiting \subseteq Workers

RingInit ==
  /\ wid = 0 /\ rid = 0
  /\ data = [i \in 0..(RingSz - 1) |-> Nothing]
  /\ ppc = "idle" /\ pitem = Nothing /\ scan = FALSE
  /\ wpc = [w \in Workers |-> "poll"]
  /\ seen = [w \in Workers |-> 0]
  /\ item = [w \in Workers |-> Nothing]
  /\ condBy = Nobody /\ workBy = Nobody /\ waiting = {}

\* (i + 1) & (ring_sz - 1); ring_sz is a power of two.
After(i) == (i + 1) % RingSz

Full == After(wid) = rid
Empty == wid = rid

\* Slip: counts the place write() keeps empty.
FreeszAll == (rid + RingSz - wid) % RingSz

\* storm_work_ring::freesz
Freesz == (rid - 1 + RingSz - wid) % RingSz

\* The ring's contents, oldest first.
Count == (wid - rid + RingSz) % RingSz
Queue == [i \in 1..Count |-> data[(rid + i - 1) % RingSz]]

------------------------------------------------------------------------------
(* Poller: SocketPollToWork, and SocketEPollTimeout before it              *)

InUse(d) ==
  \/ \E i \in 1..Count : Queue[i] = d
  \/ \E w \in Workers : item[w] = d

\* An event's slot, or one whose time is over; the timeout scan first asks
\* freesz() and gives up when there is no room.
Poll(d) ==
  /\ ppc = "idle"
  /\ ~InUse(d)
  /\ \/ scan' = FALSE
     \/ Freesz # 0 /\ scan' = TRUE
  /\ pitem' = d /\ ppc' = "write"
  /\ UNCHANGED <<indexVars, workVars, condVars>>

\* Slip: no test for a full ring.
WriteAnyway ==
  /\ ppc = "write"
  /\ data' = [data EXCEPT ![wid] = pitem]
  /\ ppc' = "advance"
  /\ UNCHANGED <<wid, rid, pitem, scan, workVars, condVars>>

\* storm_work_ring::write; the caller repeats it while the ring is full.
Write ==
  /\ ppc = "write"
  /\ ~Full
  /\ data' = [data EXCEPT ![wid] = pitem]
  /\ ppc' = "advance"
  /\ UNCHANGED <<wid, rid, pitem, scan, workVars, condVars>>

Advance ==
  /\ ppc = "advance"
  /\ wid' = After(wid)
  /\ pitem' = Nothing
  /\ ppc' = "signal"
  /\ UNCHANGED <<rid, data, scan, workVars, condVars>>

\* Slip: the signal is lost.
SignalNobody ==
  /\ ppc = "signal"
  /\ ppc' = "idle"
  /\ UNCHANGED <<indexVars, pitem, scan, workVars, condVars>>

\* CLock::Signal, without the lock: it wakes a worker that waits, if one does.
Signal ==
  /\ ppc = "signal"
  /\ \/ waiting = {} /\ UNCHANGED <<waiting, wpc>>
     \/ \E w \in waiting :
          waiting' = waiting \ {w} /\ wpc' = [wpc EXCEPT ![w] = "awake"]
  /\ ppc' = "idle"
  /\ UNCHANGED <<indexVars, pitem, scan, seen, item, condBy, workBy>>

------------------------------------------------------------------------------
(* Workers: PollWait                                                       *)

GoesTo(w, label) == wpc' = [wpc EXCEPT ![w] = label]

\* cond_lock.Lock(), and is() loads wid.
CondLock(w) ==
  /\ wpc[w] = "poll"
  /\ condBy = Nobody
  /\ condBy' = w
  /\ seen' = [seen EXCEPT ![w] = wid]
  /\ GoesTo(w, "is")
  /\ UNCHANGED <<indexVars, pollVars, item, waiting, workBy>>

\* is() loads rid; the lock goes back when there is something to read.
Is(w) ==
  /\ wpc[w] = "is"
  /\ IF seen[w] # rid
       THEN GoesTo(w, "read") /\ condBy' = Nobody
       ELSE GoesTo(w, "sleep") /\ UNCHANGED condBy
  /\ UNCHANGED <<indexVars, pollVars, seen, item, waiting, workBy>>

\* CLock::Wait gives the lock back and waits in one step.
Wait(w) ==
  /\ wpc[w] = "sleep"
  /\ condBy' = Nobody
  /\ waiting' = waiting \cup {w}
  /\ GoesTo(w, "wait")
  /\ UNCHANGED <<indexVars, pollVars, seen, item, workBy>>

\* pthread_cond_wait may return without a signal.
WakeUnasked(w) ==
  /\ w \in waiting
  /\ waiting' = waiting \ {w}
  /\ GoesTo(w, "awake")
  /\ UNCHANGED <<indexVars, pollVars, seen, item, condBy, workBy>>

\* The lock is taken again and given back at once.
Awake(w) ==
  /\ wpc[w] = "awake"
  /\ condBy = Nobody
  /\ GoesTo(w, "read")
  /\ UNCHANGED <<indexVars, pollVars, seen, item, condVars>>

\* Slip: socket_work_lock is not taken.
ReadUnlocked(w) ==
  /\ wpc[w] = "read"
  /\ IF Empty
       THEN GoesTo(w, "poll") /\ UNCHANGED item
       ELSE GoesTo(w, "advance") /\ item' = [item EXCEPT ![w] = data[rid]]
  /\ UNCHANGED <<indexVars, pollVars, seen, condVars>>

\* storm_work_ring::read under socket_work_lock: nothing, or the load of the
\* oldest slot.
Read(w) ==
  /\ wpc[w] = "read"
  /\ workBy = Nobody
  /\ IF Empty
       THEN GoesTo(w, "poll") /\ UNCHANGED <<item, workBy>>
       ELSE /\ GoesTo(w, "advance")
            /\ item' = [item EXCEPT ![w] = data[rid]]
            /\ workBy' = w
  /\ UNCHANGED <<indexVars, pollVars, seen, condBy, waiting>>

\* ... and the store of rid.
ReadAdvance(w) ==
  /\ wpc[w] = "advance"
  /\ rid' = After(rid)
  /\ workBy' = Nobody
  /\ GoesTo(w, "work")
  /\ UNCHANGED <<wid, data, pollVars, seen, item, condBy, waiting>>

\* WorkDo is over and the slot polled again or free.
Work(w) ==
  /\ wpc[w] = "work"
  /\ item' = [item EXCEPT ![w] = Nothing]
  /\ GoesTo(w, "poll")
  /\ UNCHANGED <<indexVars, pollVars, seen, condVars>>

Poller == Write \/ Advance \/ Signal
Worker(w) ==
  \/ CondLock(w) \/ Is(w) \/ Wait(w) \/ Awake(w)
  \/ Read(w) \/ ReadAdvance(w) \/ Work(w)

RingNext ==
  \/ Poller \/ \E d \in Items : Poll(d)
  \/ \E w \in Workers : Worker(w) \/ WakeUnasked(w)

RingSpec == RingInit /\ [][RingNext]_ringVars

------------------------------------------------------------------------------
(* Properties                                                              *)

\* The timeout scan never waits for room while it holds socket_free_lock: what
\* freesz() promised is still there when write() looks, whatever the workers do.
ScanHasRoom == scan /\ ppc = "write" => ~Full

\* No slot is handed to two workers, nor to one while it is still in the ring.
TakenOnce ==
  \A w \in Workers : wpc[w] = "work" =>
    /\ item[w] # Nothing
    /\ \A v \in Workers : wpc[v] \in {"advance", "work"} /\ item[v] = item[w] => v = w
    /\ \A i \in 1..Count : Queue[i] # item[w]

\* The ring and its locks implement a bounded FIFO queue.
Hand == [w \in Workers |-> IF wpc[w] = "work" THEN item[w] ELSE Nothing]

Fifo == INSTANCE WorkQueue WITH queue <- Queue, hand <- Hand, Cap <- RingSz - 1
ImplementsQueue == Fifo!Spec

\* A slot in work_ring is taken by a worker, although Signal() holds no lock and
\* a worker may be between is() and Wait().
SlotTaken ==
  \A d \in Items :
    (\E i \in 1..Count : Queue[i] = d) ~> ~(\E i \in 1..Count : Queue[i] = d)
=============================================================================
