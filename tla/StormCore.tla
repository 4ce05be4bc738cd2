------------------------------ MODULE StormCore ------------------------------
(***************************************************************************)
(* The storm server's core (server/storm/storm-core.h, epoll build): the   *)
(* slots of the connections and the threads that pass them around.         *)
(*                                                                         *)
(*   acceptor   StormAddSock puts an accepted socket into a free slot and  *)
(*              into the select list and epoll (NewSocketData).            *)
(*   poller     SocketPollWorkEpoll: drains select_ring_e, waits in epoll, *)
(*              moves the slot of an event, and slots that timed out, from *)
(*              the select list to work_ring.                              *)
(*   workers    WorkDoThread: take a slot from work_ring, run WorkDo, put  *)
(*              it back (PollSocketAgain) or delete it (DelSocketData).    *)
(*   apps       threads that hold a storm_socket handle and call SendData, *)
(*              CloseSocket or EnableRead through it at any time.          *)
(*                                                                         *)
(* socket_free_lock is the recursive lock of module RecursiveLock.  A      *)
(* section under it is one step, except where the code waits or loops      *)
(* inside it: then lockBy names the thread that keeps it.  What runs       *)
(* without the lock (WorkDo, the close of a descriptor, the drain of       *)
(* select_ring_e) is in steps of its own.                                  *)
(***************************************************************************)
EXTENDS StormWork, FiniteSets, Sequences

CONSTANTS Workers,    \* worker threads (STORMSERVER_THREADS_MAX of them)
          Apps,       \* threads that use storm_socket handles
          Nobody,     \* socket_free_lock is not kept across a step
          NoHandle,   \* a storm_socket never set
          Blocks,     \* bound: blocks of slots that may be allocated
          BlockSz,    \* STORMSERVER_SOCKETBLOCK_SZ
          Fds,        \* descriptors accept() may return
          MaxConns,   \* bound: connections ever accepted
          MaxCalls,   \* bound: calls ever made through handles
          UnkidMod,   \* unkid is an unsigned char: 256
          WorkCap,    \* work_ring holds ring_sz - 1
          RingCap,    \* select_ring_e holds ring_sz - 1
          HangUps     \* do peers hang up at any time (EPOLLHUP, EPOLLERR)

Slots == (1..Blocks) \X (1..BlockSz)
NoSlot == <<0, 0>>
Conns == 1..MaxConns
Handles == [slot : Slots, sock : Fds, unkid : 0..(UnkidMod - 1), conn : Conns]
Flags == {"POLL", "TIME"}
Events == {"IN", "OUT", "HUP"}

ASSUME CoreAssumption ==
  /\ Blocks \in Nat \ {0} /\ BlockSz \in Nat \ {0}
  /\ Fds \subseteq Nat \ {0}
  /\ MaxConns \in Nat /\ MaxCalls \in Nat /\ UnkidMod \in Nat \ {0}
  /\ WorkCap \in Nat \ {0} /\ RingCap \in Nat \ {0}
  /\ HangUps \in BOOLEAN
  /\ Nobody \notin Apps \cup {"poller"} /\ "poller" \notin Apps
  /\ NoHandle \notin Handles

VARIABLES
  sock, conn, unkid, stat, io,   \* the slots: descriptor, item, unkid, stat, rd wr cl sd
  blocks,                        \* blocks of slots allocated so far
  free,                          \* the free list
  listed, listedCount,           \* the select list and sockets_count_select
  count,                         \* sockets_count
  armed,                         \* epoll: what is armed for each slot's descriptor
  open,                          \* descriptors the process has open
  alive,                         \* protocol objects (storm_item) not yet deleted
  created,                       \* connections accepted so far
  workRing, sendRing,            \* work_ring, select_ring_e
  lockBy,                        \* who keeps socket_free_lock across steps
  ppc, pcur,                     \* poller: where it is and its slot
  wpc, wcur, wphase, witem,      \* workers: where, slot, WorkDo's locals, item to delete
  apc, afd,                      \* acceptor: where, descriptor in hand
  upc, handle, calls             \* apps: where, their handle; calls made

slotVars == <<sock, conn, unkid, stat, io, blocks, free>>
listVars == <<listed, listedCount, count, armed>>
worldVars == <<open, alive, created>>
pollVars == <<ppc, pcur>>
workVars == <<wpc, wcur, wphase, witem>>
acceptVars == <<apc, afd>>
appVars == <<upc, handle, calls>>
vars == <<slotVars, listVars, worldVars, workRing, sendRing, lockBy,
          pollVars, workVars, acceptVars, appVars>>

TypeOK ==
  /\ sock \in [Slots -> Fds \cup {0}]
  /\ conn \in [Slots -> Conns \cup {0}]
  /\ unkid \in [Slots -> 0..(UnkidMod - 1)]
  /\ stat \in [Slots -> SUBSET Flags]
  /\ io \in [Slots -> IoStates]
  /\ blocks \in 0..Blocks
  /\ free \subseteq Slots
  /\ listed \subseteq Slots
  /\ listedCount \in Int /\ count \in Int
  /\ armed \in [Slots -> SUBSET Events]
  /\ open \subseteq Fds
  /\ alive \subseteq Conns
  /\ created \in 0..MaxConns
  /\ workRing \in Seq(Slots) /\ sendRing \in Seq(Slots)
  /\ lockBy \in Apps \cup {"poller", Nobody}
  /\ ppc \in {"drain", "rearm", "epoll", "take", "push", "tick", "scan"}
  /\ pcur \in Slots \cup {NoSlot}
  /\ wpc \in [Workers -> {"idle", "send", "recv", "again", "close", "del", "delete"}]
  /\ wcur \in [Workers -> Slots \cup {NoSlot}]
  /\ wphase \in [Workers -> Phases]
  /\ witem \in [Workers -> Conns \cup {0}]
  /\ apc \in {"idle", "add"} /\ afd \in Fds \cup {0}
  /\ upc \in [Apps -> Slots \cup {NoSlot}]
  /\ handle \in [Apps -> Handles \cup {NoHandle}]
  /\ calls \in 0..MaxCalls

Init ==
  /\ sock = [s \in Slots |-> 0]
  /\ conn = [s \in Slots |-> 0]
  /\ unkid = [s \in Slots |-> 0]
  /\ stat = [s \in Slots |-> {}]
  /\ io = [s \in Slots |-> NewIo]
  /\ blocks = 0
  /\ free = {}
  /\ listed = {} /\ listedCount = 0 /\ count = 0
  /\ armed = [s \in Slots |-> {}]
  /\ open = {} /\ alive = {} /\ created = 0
  /\ workRing = <<>> /\ sendRing = <<>>
  /\ lockBy = Nobody
  /\ ppc = "drain" /\ pcur = NoSlot
  /\ wpc = [w \in Workers |-> "idle"]
  /\ wcur = [w \in Workers |-> NoSlot]
  /\ wphase = [w \in Workers |-> NoPhase]
  /\ witem = [w \in Workers |-> 0]
  /\ apc = "idle" /\ afd = 0
  /\ upc = [a \in Apps |-> NoSlot]
  /\ handle = [a \in Apps |-> NoHandle]
  /\ calls = 0

LockFree == lockBy = Nobody

------------------------------------------------------------------------------
(* The select list and epoll                                               *)

\* Slip: writability is armed only for a connection that reads.
WantedWhenReading(c) == {"HUP"} \cup (IF c.rd = 0 /\ c.wr = 0 THEN {"IN", "OUT"} ELSE {})

\* epoll_mod_socket(sdata): what the flags ask for.  The kernel reports a hang
\* up whatever events were asked for.
Wanted(c) ==
  {"HUP"} \cup (IF c.rd = 0 THEN {"IN"} ELSE {}) \cup (IF c.wr = 0 THEN {"OUT"} ELSE {})

\* SocketPollToSelect
ToSelect(s, flags) ==
  /\ listed' = listed \cup {s}
  /\ listedCount' = listedCount + 1
  /\ stat' = [stat EXCEPT ![s] = flags \cup {"POLL"}]

\* Slip: the slot is flagged but not unlinked.
FromSelectKeepsLink(s, flags) ==
  /\ listedCount' = listedCount - 1
  /\ stat' = [stat EXCEPT ![s] = flags \ {"POLL"}]
  /\ UNCHANGED listed

\* The part of SocketPollToWork under the lock.
FromSelect(s, flags) ==
  /\ listed' = listed \ {s}
  /\ listedCount' = listedCount - 1
  /\ stat' = [stat EXCEPT ![s] = flags \ {"POLL"}]

------------------------------------------------------------------------------
(* Acceptor: StormServer::Listen, StormCore::StormAddSock                  *)

Accept ==
  /\ apc = "idle"
  /\ created < MaxConns
  /\ \E f \in Fds \ open : open' = open \cup {f} /\ afd' = f
  /\ apc' = "add"
  /\ UNCHANGED <<slotVars, listVars, alive, created, workRing, sendRing, lockBy,
                 pollVars, workVars, appVars>>

\* StormAddSock has a branch for a NewSocketData that gives no slot (storm_stop,
\* storm_delete, closesocket, and then fcntl).  It is never taken: behind the code
\* that adds a block socket_free is not empty, and a new that fails does not come
\* back to it, it throws or its null pointer is written through.

\* The free list once a block is added to an empty one.
FreeList == IF free = {} THEN {blocks + 1} \X (1..BlockSz) ELSE free

Allocate ==
  /\ free = {} => blocks < Blocks
  /\ blocks' = IF free = {} THEN blocks + 1 ELSE blocks

AddSock ==
  /\ apc = "add"
  /\ LockFree
  /\ Allocate
  /\ \E s \in FreeList :
       /\ free' = FreeList \ {s}
       /\ sock' = [sock EXCEPT ![s] = afd]
       /\ conn' = [conn EXCEPT ![s] = created + 1]
       /\ unkid' = [unkid EXCEPT ![s] = (@ + 1) % UnkidMod]
       /\ io' = [io EXCEPT ![s] = NewIo]
       /\ ToSelect(s, {})
       /\ armed' = [armed EXCEPT ![s] = Events]
  /\ count' = count + 1
  /\ created' = created + 1
  /\ alive' = alive \cup {created + 1}
  /\ apc' = "idle" /\ afd' = 0
  /\ UNCHANGED <<open, workRing, sendRing, lockBy, pollVars, workVars, appVars>>

------------------------------------------------------------------------------
(* Poller: SocketPollWorkEpoll                                             *)

PollDrain ==
  /\ ppc = "drain"
  /\ IF sendRing = <<>>
       THEN ppc' = "epoll" /\ UNCHANGED <<pcur, sendRing>>
       ELSE ppc' = "rearm" /\ pcur' = Head(sendRing) /\ sendRing' = Tail(sendRing)
  /\ UNCHANGED <<slotVars, listVars, worldVars, workRing, lockBy,
                 workVars, acceptVars, appVars>>

\* Slip: AIFOP_POLL is not asked.
PollRearmAny ==
  /\ ppc = "rearm"
  /\ LockFree
  /\ armed' = [armed EXCEPT ![pcur] = {"OUT", "HUP"}]
  /\ ppc' = "drain" /\ pcur' = NoSlot
  /\ UNCHANGED <<slotVars, listed, listedCount, count, worldVars, workRing,
                 sendRing, lockBy, workVars, acceptVars, appVars>>

PollRearm ==
  /\ ppc = "rearm"
  /\ LockFree
  /\ armed' = IF "POLL" \in stat[pcur]
                THEN [armed EXCEPT ![pcur] = {"OUT", "HUP"}] ELSE armed
  /\ ppc' = "drain" /\ pcur' = NoSlot
  /\ UNCHANGED <<slotVars, listed, listedCount, count, worldVars, workRing,
                 sendRing, lockBy, workVars, acceptVars, appVars>>

\* What epoll_wait may report for a slot.
Reportable(s) == IF HangUps THEN armed[s] ELSE armed[s] \ {"HUP"}

\* data->rd = 1 and data->wr = 1 for what epoll_wait reports.
Report(c, ev) ==
  [rd |-> IF "IN" \in ev THEN 1 ELSE c.rd, wr |-> IF "OUT" \in ev THEN 1 ELSE c.wr,
   cl |-> c.cl, q |-> c.q]

\* epoll_select: one-shot, so the event disarms the descriptor.
PollEvent(s) ==
  /\ ppc = "epoll"
  /\ \E ev \in (SUBSET Reportable(s)) \ {{}} : io' = [io EXCEPT ![s] = Report(@, ev)]
  /\ armed' = [armed EXCEPT ![s] = {}]
  /\ ppc' = "take" /\ pcur' = s
  /\ UNCHANGED <<sock, conn, unkid, stat, blocks, free, listed, listedCount, count,
                 worldVars, workRing, sendRing, lockBy, workVars, acceptVars, appVars>>

PollNoEvent ==
  /\ ppc = "epoll"
  /\ ppc' = "tick"
  /\ UNCHANGED <<slotVars, listVars, worldVars, workRing, sendRing, lockBy, pcur,
                 workVars, acceptVars, appVars>>

\* The poller waits until AIFOP_POLL is set, then SocketPollToWork.
PollTake ==
  /\ ppc = "take"
  /\ "POLL" \in stat[pcur]
  /\ LockFree
  /\ FromSelect(pcur, stat[pcur])
  /\ ppc' = "push"
  /\ UNCHANGED <<sock, conn, unkid, io, blocks, free, count, armed, worldVars,
                 workRing, sendRing, lockBy, pcur, workVars, acceptVars, appVars>>

PollPush ==
  /\ ppc = "push"
  /\ Len(workRing) < WorkCap
  /\ workRing' = Append(workRing, pcur)
  /\ ppc' = "tick" /\ pcur' = NoSlot
  /\ UNCHANGED <<slotVars, listVars, worldVars, sendRing, lockBy,
                 workVars, acceptVars, appVars>>

\* Every ten seconds SocketEPollTimeout, else round again.
PollTick ==
  /\ ppc = "tick"
  /\ \/ ppc' = "drain" /\ UNCHANGED lockBy
     \/ LockFree /\ ppc' = "scan" /\ lockBy' = "poller"
  /\ UNCHANGED <<slotVars, listVars, worldVars, workRing, sendRing, pcur,
                 workVars, acceptVars, appVars>>

\* A slot of the select list whose time is over; freesz() has left room for it.
PollTimeout(s) ==
  /\ ppc = "scan"
  /\ s \in listed
  /\ Len(workRing) < WorkCap
  /\ armed' = [armed EXCEPT ![s] = {"HUP"}]
  /\ FromSelect(s, {"TIME"})
  /\ workRing' = Append(workRing, s)
  /\ UNCHANGED <<sock, conn, unkid, io, blocks, free, count, worldVars, sendRing,
                 lockBy, pollVars, workVars, acceptVars, appVars>>

PollScanEnd ==
  /\ ppc = "scan"
  /\ ppc' = "drain" /\ lockBy' = Nobody
  /\ UNCHANGED <<slotVars, listVars, worldVars, workRing, sendRing, pcur,
                 workVars, acceptVars, appVars>>

Poller ==
  \/ PollDrain \/ PollRearm \/ PollNoEvent \/ PollTake \/ PollPush
  \/ PollTick \/ PollScanEnd
  \/ \E s \in Slots : PollEvent(s) \/ PollTimeout(s)

------------------------------------------------------------------------------
(* Workers: WorkDoThread                                                   *)

GotoW(w, label) == wpc' = [wpc EXCEPT ![w] = label]

WorkTake(w) ==
  /\ wpc[w] = "idle"
  /\ workRing # <<>>
  /\ wcur' = [wcur EXCEPT ![w] = Head(workRing)]
  /\ workRing' = Tail(workRing)
  /\ GotoW(w, "send")
  /\ UNCHANGED <<slotVars, listVars, worldVars, sendRing, lockBy, pollVars,
                 wphase, witem, acceptVars, appVars>>

WorkSend(w) ==
  /\ wpc[w] = "send"
  /\ \E o \in SendPhase(io[wcur[w]]) :
       /\ io' = [io EXCEPT ![wcur[w]] = o.io]
       /\ wphase' = [wphase EXCEPT ![w] = [st |-> o.st, close |-> o.close]]
  /\ GotoW(w, "recv")
  /\ UNCHANGED <<sock, conn, unkid, stat, blocks, free, listVars, worldVars,
                 workRing, sendRing, lockBy, pollVars, wcur, witem, acceptVars, appVars>>

WorkRecv(w) ==
  /\ wpc[w] = "recv"
  /\ \E o \in RecvOutcomes(io[wcur[w]], wphase[w], "TIME" \in stat[wcur[w]]) :
       /\ io' = [io EXCEPT ![wcur[w]] = o.io]
       /\ IF o.delete
            THEN GotoW(w, "close") /\ UNCHANGED stat
            ELSE GotoW(w, "again") /\ stat' = [stat EXCEPT ![wcur[w]] = @ \ {"TIME"}]
  /\ wphase' = [wphase EXCEPT ![w] = NoPhase]
  /\ UNCHANGED <<sock, conn, unkid, blocks, free, listVars, worldVars,
                 workRing, sendRing, lockBy, pollVars, wcur, witem, acceptVars, appVars>>

\* PollSocketAgain
WorkAgain(w) ==
  /\ wpc[w] = "again"
  /\ LockFree
  /\ ToSelect(wcur[w], stat[wcur[w]])
  /\ armed' = [armed EXCEPT ![wcur[w]] = Wanted(io[wcur[w]])]
  /\ wcur' = [wcur EXCEPT ![w] = NoSlot]
  /\ GotoW(w, "idle")
  /\ UNCHANGED <<sock, conn, unkid, io, blocks, free, count, worldVars, workRing,
                 sendRing, lockBy, pollVars, wphase, witem, acceptVars, appVars>>

\* DelSocketData: the descriptor is closed before the lock is taken.
WorkClose(w) ==
  /\ wpc[w] = "close"
  /\ armed' = [armed EXCEPT ![wcur[w]] = {}]
  /\ open' = open \ {sock[wcur[w]]}
  /\ GotoW(w, "del")
  /\ UNCHANGED <<slotVars, listed, listedCount, count, alive, created, workRing,
                 sendRing, lockBy, pollVars, wcur, wphase, witem, acceptVars, appVars>>

\* Slip: sockets_count-- is missing.
WorkFreeUncounted(w) ==
  /\ wpc[w] = "del"
  /\ LockFree
  /\ LET s == wcur[w] IN
       /\ witem' = [witem EXCEPT ![w] = conn[s]]
       /\ sock' = [sock EXCEPT ![s] = 0]
       /\ conn' = [conn EXCEPT ![s] = 0]
       /\ stat' = [stat EXCEPT ![s] = {}]
       /\ io' = [io EXCEPT ![s] = NewIo]
       /\ free' = free \cup {s}
  /\ UNCHANGED count
  /\ wcur' = [wcur EXCEPT ![w] = NoSlot]
  /\ GotoW(w, "delete")
  /\ UNCHANGED <<unkid, blocks, listed, listedCount, armed, worldVars, workRing,
                 sendRing, lockBy, pollVars, wphase, acceptVars, appVars>>

\* Slip: clean() clears unkid too.
WorkFreeForgetsUnkid(w) ==
  /\ wpc[w] = "del"
  /\ LockFree
  /\ LET s == wcur[w] IN
       /\ witem' = [witem EXCEPT ![w] = conn[s]]
       /\ sock' = [sock EXCEPT ![s] = 0]
       /\ conn' = [conn EXCEPT ![s] = 0]
       /\ stat' = [stat EXCEPT ![s] = {}]
       /\ io' = [io EXCEPT ![s] = NewIo]
       /\ unkid' = [unkid EXCEPT ![s] = 0]
       /\ free' = free \cup {s}
  /\ count' = count - 1
  /\ wcur' = [wcur EXCEPT ![w] = NoSlot]
  /\ GotoW(w, "delete")
  /\ UNCHANGED <<blocks, listed, listedCount, armed, worldVars, workRing,
                 sendRing, lockBy, pollVars, wphase, acceptVars, appVars>>

\* DelSocketData under the lock: storm_stop, clean() (which leaves unkid), and
\* the slot is free.
WorkFree(w) ==
  /\ wpc[w] = "del"
  /\ LockFree
  /\ LET s == wcur[w] IN
       /\ witem' = [witem EXCEPT ![w] = conn[s]]
       /\ sock' = [sock EXCEPT ![s] = 0]
       /\ conn' = [conn EXCEPT ![s] = 0]
       /\ stat' = [stat EXCEPT ![s] = {}]
       /\ io' = [io EXCEPT ![s] = NewIo]
       /\ free' = free \cup {s}
  /\ count' = count - 1
  /\ wcur' = [wcur EXCEPT ![w] = NoSlot]
  /\ GotoW(w, "delete")
  /\ UNCHANGED <<unkid, blocks, listed, listedCount, armed, worldVars, workRing,
                 sendRing, lockBy, pollVars, wphase, acceptVars, appVars>>

\* item->storm_delete(item), after the lock is given back.
WorkDelete(w) ==
  /\ wpc[w] = "delete"
  /\ alive' = alive \ {witem[w]}
  /\ witem' = [witem EXCEPT ![w] = 0]
  /\ GotoW(w, "idle")
  /\ UNCHANGED <<slotVars, listVars, open, created, workRing, sendRing, lockBy,
                 pollVars, wcur, wphase, acceptVars, appVars>>

Worker(w) ==
  \/ WorkTake(w) \/ WorkSend(w) \/ WorkRecv(w) \/ WorkAgain(w)
  \/ WorkClose(w) \/ WorkFree(w) \/ WorkDelete(w)

------------------------------------------------------------------------------
(* Handles: class storm_socket and StormSockIs .. StormCloseSocket         *)

HandleOf(s) == [slot |-> s, sock |-> sock[s], unkid |-> unkid[s], conn |-> conn[s]]

\* storm_socket::set, by a protocol handler for the connection it is called on.
TakeHandle(a, w) ==
  /\ upc[a] = NoSlot
  /\ wpc[w] \in {"send", "recv"}
  /\ handle' = [handle EXCEPT ![a] = HandleOf(wcur[w])]
  /\ UNCHANGED <<slotVars, listVars, worldVars, workRing, sendRing, lockBy,
                 pollVars, workVars, acceptVars, upc, calls>>

\* The test every call makes under the lock.
Matches(h) == sock[h.slot] = h.sock /\ unkid[h.slot] = h.unkid

\* Slip: the poller is not told.
TellNobody(a, s) == UNCHANGED <<sendRing, lockBy, upc>>

\* while(!select_ring_e.write(sdata)) Sleep(1), with the lock held.
TellPoller(a, s) ==
  IF Len(sendRing) < RingCap
    THEN sendRing' = Append(sendRing, s) /\ UNCHANGED <<lockBy, upc>>
    ELSE lockBy' = a /\ upc' = [upc EXCEPT ![a] = s] /\ UNCHANGED sendRing

AppRetry(a) ==
  /\ upc[a] # NoSlot
  /\ Len(sendRing) < RingCap
  /\ sendRing' = Append(sendRing, upc[a])
  /\ lockBy' = Nobody
  /\ upc' = [upc EXCEPT ![a] = NoSlot]
  /\ UNCHANGED <<slotVars, listVars, worldVars, workRing, pollVars, workVars,
                 acceptVars, handle, calls>>

\* A call that finds its connection.
Call(a) ==
  /\ upc[a] = NoSlot
  /\ handle[a] # NoHandle
  /\ calls < MaxCalls
  /\ LockFree
  /\ Matches(handle[a])
  /\ calls' = calls + 1
  /\ UNCHANGED <<sock, conn, unkid, stat, blocks, free, listVars, worldVars,
                 workRing, pollVars, workVars, acceptVars, handle>>

\* StormSendData: with nothing queued the socket may take it all at once; what
\* is left is queued and the poller told.
AppSend(a) ==
  /\ Call(a)
  /\ LET s == handle[a].slot IN
       \/ io[s].q = 0 /\ UNCHANGED <<io, sendRing, lockBy, upc>>
       \/ io' = [io EXCEPT ![s] = [Queue(@, 1) EXCEPT !.wr = 0]] /\ TellPoller(a, s)

\* StormCloseSocket
AppClose(a) ==
  /\ Call(a)
  /\ LET s == handle[a].slot IN
       io' = [io EXCEPT ![s] = [Closed(@) EXCEPT !.wr = 0]] /\ TellPoller(a, s)

\* storm_socket_data::eread: rd &= ~2
EnableRead(c) == [c EXCEPT !.rd = @ % 2]

\* StormEnableRead: epoll is left as it is.
AppEnableRead(a) ==
  /\ Call(a)
  /\ io' = [io EXCEPT ![handle[a].slot] = EnableRead(@)]
  /\ UNCHANGED <<sendRing, lockBy, upc>>

App(a) ==
  \/ AppSend(a) \/ AppClose(a) \/ AppEnableRead(a) \/ AppRetry(a)

------------------------------------------------------------------------------
Next ==
  \/ Accept \/ AddSock
  \/ Poller
  \/ \E w \in Workers : Worker(w)
  \/ \E a \in Apps : App(a) \/ \E w \in Workers : TakeHandle(a, w)

Spec == Init /\ [][Next]_vars

\* The scheduler and the mutex starve no thread, and infinitely often a polled
\* connection whose output is awaited can take bytes while its peer is silent.
\* Accepting, timeouts and calls through handles need never happen.
FairSpec ==
  /\ Spec
  /\ WF_vars(AddSock)
  /\ WF_vars(PollDrain) /\ SF_vars(PollRearm) /\ SF_vars(PollTake) /\ WF_vars(PollPush)
  /\ WF_vars(PollNoEvent \/ \E s \in Slots : PollEvent(s))
  /\ WF_vars(PollTick) /\ WF_vars(PollScanEnd)
  /\ \A s \in Slots :
       SF_vars(PollEvent(s) /\ io'[s].wr = 1 /\ io'[s].rd = io[s].rd)
  /\ \A w \in Workers :
       /\ WF_vars(WorkTake(w) \/ WorkSend(w) \/ WorkRecv(w) \/ WorkClose(w) \/ WorkDelete(w))
       /\ SF_vars(WorkAgain(w)) /\ SF_vars(WorkFree(w))
  /\ \A a \in Apps : WF_vars(AppRetry(a))

------------------------------------------------------------------------------
(* Where a slot is                                                         *)

Works(w, s) ==
  wcur[w] = s /\ wpc[w] \in {"send", "recv", "again", "close", "del"}

Queued(s) ==
  \/ \E i \in 1..Len(workRing) : workRing[i] = s
  \/ ppc = "push" /\ pcur = s

Places == {"new", "free", "listed", "queued", "worked"}

At(s, p) ==
  \/ p = "new" /\ s[1] > blocks
  \/ p = "free" /\ s \in free
  \/ p = "listed" /\ s \in listed
  \/ p = "queued" /\ Queued(s)
  \/ p = "worked" /\ \E w \in Workers : Works(w, s)

Live(s) == conn[s] # 0

\* The descriptor of the slot is already closed, its fields still name it.
HalfClosed(s) == \E w \in Workers : wcur[w] = s /\ wpc[w] = "del"

------------------------------------------------------------------------------
(* Properties                                                              *)

\* A slot is in exactly one place, once: no connection is worked on by two
\* workers, queued twice, freed while polled, or lost (SocketPollToSelect,
\* SocketPollToWork, PollWait, PollSocketAgain, DelSocketData).
Ownership ==
  /\ \A s \in Slots : \E p \in Places : At(s, p) /\ \A o \in Places : At(s, o) => o = p
  /\ \A i, j \in 1..Len(workRing) : workRing[i] = workRing[j] => i = j
  /\ ppc = "push" => \A i \in 1..Len(workRing) : workRing[i] # pcur
  /\ \A w, v \in Workers : \A s \in Slots : Works(w, s) /\ Works(v, s) => w = v

\* sockets_count and sockets_count_select count the connections and the
\* members of the select list, whatever path a slot takes.
CountsAgree ==
  /\ listedCount = Cardinality(listed)
  /\ count = Cardinality({s \in Slots : Live(s)})

\* epoll can report a slot only while it is in the select list, so the poller
\* never handles a slot a worker has, or a free one (SocketPollWorkEpoll's
\* "FAIL epoll_select()" is unreachable while no peer hangs up).
EventsOnlyPolled ==
  \A s \in Slots : Reportable(s) # {} => "POLL" \in stat[s] /\ s \in listed /\ Live(s)

\* Until the poller sets AIFOP_POLL it cannot handle the event it has fetched:
\* the slot it got from epoll_select() is in the select list.
FetchedIsPolled == ppc = "take" => "POLL" \in stat[pcur]

BeingTold(s) ==
  \/ \E i \in 1..Len(sendRing) : sendRing[i] = s
  \/ ppc = "rearm" /\ pcur = s
  \/ \E a \in Apps : upc[a] = s

\* No polled connection is deaf: something is armed for it, and when bytes wait
\* in sd or a close was asked for, writability is armed or the poller is being
\* told (StormSendData and StormCloseSocket against a worker that puts the slot
\* back and a poller that takes it).
NothingForgotten ==
  \A s \in listed :
    \/ ppc = "take" /\ pcur = s
    \/ /\ armed[s] # {}
       /\ io[s].q > 0 \/ io[s].cl => "OUT" \in armed[s] \/ BeingTold(s)

\* A call through a storm_socket acts on the connection the handle was set for,
\* although slots and descriptors are used again.
HandleNamesConnection ==
  \A a \in Apps : handle[a] # NoHandle /\ Matches(handle[a]) =>
    conn[handle[a].slot] = handle[a].conn

\* Every slot's item exists while calls may reach it, and every item is in a
\* slot or about to be deleted: storm_delete comes after clean(), once.
ItemsAlive ==
  alive = ({conn[s] : s \in Slots} \cup {witem[w] : w \in Workers}) \ {0}

\* The open descriptors are those of the live slots and the one accept() just
\* returned, each owned by one slot: none leaks and none is closed twice.
DescriptorsOwned ==
  /\ open = ({sock[s] : s \in {x \in Slots : ~HalfClosed(x)}} \cup {afd}) \ {0}
  /\ \A s, o \in Slots : sock[s] # 0 /\ sock[s] = sock[o] /\ s # o =>
       HalfClosed(s) \/ HalfClosed(o)

\* What a connection that was added takes (its place in the counts, its item, its
\* descriptor) is given back once, through the several steps of DelSocketData and
\* when the slot is used again.
Resources == CountsAgree /\ ItemsAlive /\ DescriptorsOwned

\* A close that was asked for is carried out (storm_socket_data::cl, "close &
\* del"), wherever the slot is when StormCloseSocket or wel.close() asks.
CloseCarriedOut ==
  \A s \in Slots, c \in Conns : conn[s] = c /\ io[s].cl ~> conn[s] # c

\* The poller, having fetched an event, comes back to wait for the next one
\* (storm-include.h "wait socket, recv(), storm_core()->recv()").
PollerGoesOn == ppc = "take" ~> ppc = "epoll"

\* The core implements the life of a slot of module StormSlots.
SlotState ==
  [s \in Slots |->
     IF s \in listed THEN "polled"
     ELSE IF Queued(s) THEN "queued"
     ELSE IF \E w \in Workers : wcur[w] = s /\ wpc[w] \in {"send", "recv", "again"}
       THEN "working"
     ELSE IF \E w \in Workers : wcur[w] = s /\ wpc[w] \in {"close", "del"}
       THEN "closing"
     ELSE "free"]

Life == INSTANCE StormSlots WITH state <- SlotState
ImplementsSlots == Life!Spec
=============================================================================
