--------------------------- MODULE StormCoreProofs ---------------------------
(***************************************************************************)
(* Proofs about StormCore for any number of workers, handles, slots and    *)
(* connections and any size of the rings.                                  *)
(***************************************************************************)
EXTENDS StormCore, TLAPS

------------------------------------------------------------------------------
(* WorkDo keeps the fields of a connection within their types              *)

LEMMA FieldTypes ==
  ASSUME NEW c \in IoStates
  PROVE /\ Closed(c) \in IoStates
        /\ [c EXCEPT !.rd = 0] \in IoStates
        /\ [c EXCEPT !.rd = 2] \in IoStates
        /\ [c EXCEPT !.rd = 3] \in IoStates
        /\ [c EXCEPT !.wr = 0] \in IoStates
<1>1. Closed(c) \in IoStates
  BY DEF Closed, IoStates
<1>2. [c EXCEPT !.rd = 0] \in IoStates
  BY DEF IoStates
<1>3. [c EXCEPT !.rd = 2] \in IoStates
  BY DEF IoStates
<1>4. [c EXCEPT !.rd = 3] \in IoStates
  BY DEF IoStates
<1>5. [c EXCEPT !.wr = 0] \in IoStates
  BY DEF IoStates
<1> QED
  BY <1>1, <1>2, <1>3, <1>4, <1>5

LEMMA QueueField ==
  ASSUME NEW c \in IoStates, NEW n \in 0..QMax
  PROVE [c EXCEPT !.q = n] \in IoStates
BY DEF IoStates

LEMMA QueueType ==
  ASSUME NEW c \in IoStates, NEW k \in 0..1 PROVE Queue(c, k) \in IoStates
<1> DEFINE n == IF c.q + k > QMax THEN QMax ELSE c.q + k
<1>1. n \in 0..QMax
  BY WorkAssumption DEF IoStates
<1>2. Queue(c, k) = [c EXCEPT !.q = n]
  BY DEF Queue
<1> HIDE DEF n
<1> QED
  BY <1>1, <1>2, QueueField

LEMMA HandlerSendType ==
  ASSUME NEW c \in IoStates, NEW h, h.send \in {-1, 0, 1}
  PROVE HandlerSend(c, h) \in IoStates
<1>2. CASE h.send = -1
  BY <1>2 DEF HandlerSend
<1>3. CASE h.send # -1
  <2>1. h.send \in 0..1
    BY <1>3
  <2>2. Queue(c, h.send) \in IoStates
    BY <2>1, QueueType
  <2>3. [Queue(c, h.send) EXCEPT !.wr = 0] \in IoStates
    BY <2>2, FieldTypes
  <2> QED
    BY <1>3, <2>3 DEF HandlerSend
<1> QED
  BY <1>2, <1>3

LEMMA ReportType ==
  ASSUME NEW c \in IoStates, NEW ev PROVE Report(c, ev) \in IoStates
<1> DEFINE r == IF "IN" \in ev THEN 1 ELSE c.rd
           v == IF "OUT" \in ev THEN 1 ELSE c.wr
<1>1. r \in 0..3 /\ v \in 0..1
  BY DEF IoStates
<1>2. Report(c, ev) = [rd |-> r, wr |-> v, cl |-> c.cl, q |-> c.q]
  BY DEF Report
<1> HIDE DEF r, v
<1> QED
  BY <1>1, <1>2 DEF IoStates

LEMMA EnableReadType ==
  ASSUME NEW c \in IoStates PROVE EnableRead(c) \in IoStates
<1>1. c.rd % 2 \in 0..3
  BY DEF IoStates
<1> QED
  BY <1>1 DEF EnableRead, IoStates

\* The record an outcome is made of.
Outcomes == [io : IoStates, st : {-1, 0, 1}, close : BOOLEAN]

\* Each outcome of WorkDoSend is a typed connection and a typed status.
LEMMA SendPhaseType ==
  ASSUME NEW c \in IoStates PROVE SendPhase(c) \subseteq Outcomes
<1>1. CASE c.wr = 0
  BY <1>1 DEF SendPhase, Outcomes
<1>2. SendQueued(c) \subseteq Outcomes
  <2>1. \A k \in 0..c.q : k \in 0..QMax
    BY WorkAssumption DEF IoStates
  <2>2. ASSUME NEW k \in 0..c.q PROVE [c EXCEPT !.wr = 0, !.q = k] \in IoStates
    <3>1. [c EXCEPT !.wr = 0] \in IoStates
      BY FieldTypes
    <3>2. [[c EXCEPT !.wr = 0] EXCEPT !.q = k] \in IoStates
      BY <2>1, <3>1, QueueField
    <3>3. [c EXCEPT !.wr = 0, !.q = k] = [[c EXCEPT !.wr = 0] EXCEPT !.q = k]
      BY DEF IoStates
    <3> QED
      BY <3>2, <3>3
  <2>3. [io |-> Closed(c), st |-> 0, close |-> FALSE] \in Outcomes
    BY FieldTypes DEF Outcomes
  <2>4. ASSUME NEW k \in 0..c.q
        PROVE [io |-> [c EXCEPT !.wr = 0, !.q = k], st |-> 1, close |-> FALSE] \in Outcomes
    BY <2>2 DEF Outcomes
  <2> QED
    BY <2>3, <2>4, Zenon DEF SendQueued
<1>3. SendHandler(c) \subseteq Outcomes
  <2> SUFFICES ASSUME NEW h \in Handlers PROVE HandlerOutcomes(c, h) \subseteq Outcomes
    BY DEF SendHandler
  <2> DEFINE done == HandlerSend(c, h)
  <2>1. done \in IoStates
    BY HandlerSendType, WorkAssumption DEF HandlerEffects
  <2>2. h.close \in BOOLEAN
    BY WorkAssumption DEF HandlerEffects
  <2>3. \A d \in IoStates : ResumeRead(d, h) \in IoStates
    BY FieldTypes DEF ResumeRead
  <2>4. ASSUME NEW k \in 0..1 PROVE [Queue(done, k) EXCEPT !.wr = 0] \in IoStates
    <3>1. Queue(done, k) \in IoStates
      BY <2>1, QueueType
    <3> QED
      BY <3>1, FieldTypes
  <2>5. Closed(done) \in IoStates
    BY <2>1, FieldTypes
  <2>6. [io |-> ResumeRead(done, h), st |-> -1, close |-> h.close] \in Outcomes
    BY <2>1, <2>2, <2>3 DEF Outcomes
  <2>7. ASSUME NEW k \in 0..1
        PROVE [io |-> ResumeRead([Queue(done, k) EXCEPT !.wr = 0], h),
               st |-> 1, close |-> h.close] \in Outcomes
    BY <2>2, <2>3, <2>4 DEF Outcomes
  <2>8. [io |-> ResumeRead(Closed(done), h), st |-> 0, close |-> h.close] \in Outcomes
    BY <2>2, <2>3, <2>5 DEF Outcomes
  <2> QED
    BY <2>6, <2>7, <2>8, Zenon DEF HandlerOutcomes
<1> QED
  BY <1>1, <1>2, <1>3 DEF SendPhase

\* Each outcome of WorkDoRecv is typed as well.
LEMMA RecvPhaseType ==
  ASSUME NEW c \in IoStates PROVE RecvPhase(c) \subseteq Outcomes
<1>1. [io |-> c, st |-> -1, close |-> FALSE] \in Outcomes
  BY DEF Outcomes
<1>2. [io |-> Closed(c), st |-> 0, close |-> FALSE] \in Outcomes
  BY FieldTypes DEF Outcomes
<1>3. [io |-> [c EXCEPT !.rd = 0], st |-> -1, close |-> FALSE] \in Outcomes
  BY FieldTypes DEF Outcomes
<1>4. RecvHandler(c) \subseteq Outcomes
  <2> SUFFICES ASSUME NEW h \in Handlers
               PROVE [io |-> StopRead([HandlerSend(c, h) EXCEPT !.rd = 0], h),
                      st |-> 1, close |-> h.close] \in Outcomes
    BY DEF RecvHandler
  <2>1. h.close \in BOOLEAN
    BY WorkAssumption DEF HandlerEffects
  <2>2. [HandlerSend(c, h) EXCEPT !.rd = 0] \in IoStates
    <3>1. HandlerSend(c, h) \in IoStates
      BY HandlerSendType, WorkAssumption DEF HandlerEffects
    <3> QED
      BY <3>1, FieldTypes
  <2>3. \A d \in IoStates : StopRead(d, h) \in IoStates
    <3> TAKE d \in IoStates
    <3> QED
      BY FieldTypes DEF StopRead
  <2> QED
    BY <2>1, <2>2, <2>3 DEF Outcomes
<1> QED
  BY <1>1, <1>2, <1>3, <1>4 DEF RecvPhase

\* What the end of WorkDo leaves in the connection is typed.
LEMMA RecvOutcomesType ==
  ASSUME NEW c \in IoStates, NEW sent, NEW late, NEW o \in RecvOutcomes(c, sent, late)
  PROVE o.io \in IoStates
<1>1. PICK got \in RecvPhase(c), t \in TimeoutEffects \cup OnTime : o = Finish(sent, got, t)
  BY DEF RecvOutcomes
<1>2. got.io \in IoStates
  BY RecvPhaseType DEF Outcomes
<1>3. t.send \in {-1, 0, 1}
  BY DEF TimeoutEffects, OnTime
<1>4. HandlerSend(got.io, t) \in IoStates
  BY <1>2, <1>3, HandlerSendType
<1>5. Closed(HandlerSend(got.io, t)) \in IoStates
  BY <1>4, FieldTypes
<1> QED
  BY <1>1, <1>4, <1>5 DEF Finish

------------------------------------------------------------------------------
(* The inductive invariant.  Ownership alone is not inductive: the poller  *)
(* takes a slot because its AIFOP_POLL flag is set, so the flag has to say *)
(* who is in the select list (PollFlag), and Types needs to know that a    *)
(* slot in somebody's hands holds a connection (InHand, Connected).        *)

PollFlag == \A s \in Slots : "POLL" \in stat[s] <=> s \in listed

InHand ==
  /\ ppc \in {"rearm", "take", "push"} => pcur \in Slots
  /\ \A w \in Workers :
       wpc[w] \in {"send", "recv", "again", "close", "del"} => wcur[w] \in Slots

Connected ==
  \A s \in Slots :
    At(s, "listed") \/ At(s, "queued") \/ At(s, "worked") =>
      conn[s] \in Conns /\ sock[s] \in Fds

Acceptor ==
  /\ apc = "add" => afd \in Fds /\ created < MaxConns
  /\ \A s \in Slots : conn[s] <= created

IInv == TypeOK /\ Ownership /\ PollFlag /\ InHand /\ Connected /\ Acceptor

\* The inductive invariant holds in the initial state.
LEMMA InitIInv == Init => IInv
<1> SUFFICES ASSUME Init PROVE IInv
  OBVIOUS
<1> USE CoreAssumption, WorkAssumption DEF Init
<1>1. TypeOK
  <2>1. NewIo \in IoStates
    BY DEF NewIo, IoStates
  <2>2. NoPhase \in Phases
    BY DEF NoPhase, Phases
  <2>3. workRing \in Seq(Slots) /\ sendRing \in Seq(Slots)
    OBVIOUS
  <2>4. handle \in [Apps -> Handles \cup {NoHandle}]
    OBVIOUS
  <2> QED
    BY <2>1, <2>2, <2>3, <2>4 DEF TypeOK, Flags, Events
<1>2. Ownership
  <2>1. \A s \in Slots : s[1] > blocks
    BY DEF Slots
  <2> QED
    BY <2>1 DEF Ownership, Places, At, Queued, Works
<1>3. PollFlag /\ InHand /\ Connected /\ Acceptor
  BY DEF PollFlag, InHand, Connected, Acceptor, At, Queued, Works
<1> QED
  BY <1>1, <1>2, <1>3 DEF IInv

------------------------------------------------------------------------------
\* Telling the poller keeps the ring, the lock and the apps typed.
LEMMA TellType ==
  ASSUME TypeOK, NEW a \in Apps, NEW s \in Slots, TellPoller(a, s)
  PROVE /\ sendRing' \in Seq(Slots)
        /\ lockBy' \in Apps \cup {"poller", Nobody}
        /\ upc' \in [Apps -> Slots \cup {NoSlot}]
<1>0. /\ sendRing \in Seq(Slots) /\ lockBy \in Apps \cup {"poller", Nobody}
      /\ upc \in [Apps -> Slots \cup {NoSlot}]
  BY DEF TypeOK
<1>1. CASE Len(sendRing) < RingCap
  <2>1. Append(sendRing, s) \in Seq(Slots)
    BY <1>0
  <2> QED
    BY <1>0, <1>1, <2>1 DEF TellPoller
<1>2. CASE ~(Len(sendRing) < RingCap)
  <2>1. lockBy' = a /\ upc' = [upc EXCEPT ![a] = s] /\ UNCHANGED sendRing
    BY <1>2 DEF TellPoller
  <2>2. upc' \in [Apps -> Slots \cup {NoSlot}]
    BY <1>0, <2>1
  <2> QED
    BY <1>0, <2>1, <2>2
<1> QED
  BY <1>1, <1>2

------------------------------------------------------------------------------
\* No step leaves the types.
LEMMA NextType == IInv /\ [Next]_vars => TypeOK'
<1> SUFFICES ASSUME IInv, [Next]_vars PROVE TypeOK'
  OBVIOUS
<1> USE CoreAssumption, WorkAssumption
    DEF slotVars, listVars, worldVars, pollVars, workVars, acceptVars, appVars
<1>0. TypeOK /\ InHand /\ Connected /\ Acceptor
  BY DEF IInv
<1>a. ASSUME Accept PROVE TypeOK'
  BY <1>0, <1>a DEF Accept, TypeOK
<1>b. ASSUME AddSock PROVE TypeOK'
  <2>1. FreeList \subseteq Slots /\ blocks' \in 0..Blocks
    <3>1. CASE free = {}
      <4>1. blocks + 1 \in 1..Blocks
        BY <1>0, <1>b, <3>1 DEF AddSock, Allocate, TypeOK
      <4>2. {blocks + 1} \X (1..BlockSz) \subseteq Slots
        BY <4>1 DEF Slots
      <4> QED
        BY <1>b, <3>1, <4>1, <4>2 DEF AddSock, Allocate, FreeList
    <3>2. CASE free # {}
      BY <1>0, <1>b, <3>2 DEF AddSock, Allocate, FreeList, TypeOK
    <3> QED
      BY <3>1, <3>2
  <2>2. created' \in 0..MaxConns /\ created + 1 \in Conns /\ afd \in Fds
    BY <1>0, <1>b DEF AddSock, Acceptor, TypeOK, Conns
  <2>3. NewIo \in IoStates
    BY DEF NewIo, IoStates
  <2>4. PICK s \in FreeList :
          /\ free' = FreeList \ {s}
          /\ sock' = [sock EXCEPT ![s] = afd]
          /\ conn' = [conn EXCEPT ![s] = created + 1]
          /\ unkid' = [unkid EXCEPT ![s] = (@ + 1) % UnkidMod]
          /\ io' = [io EXCEPT ![s] = NewIo]
          /\ ToSelect(s, {})
          /\ armed' = [armed EXCEPT ![s] = Events]
    BY <1>b DEF AddSock
  <2>5. /\ sock' \in [Slots -> Fds \cup {0}] /\ conn' \in [Slots -> Conns \cup {0}]
        /\ free' \subseteq Slots /\ io' \in [Slots -> IoStates]
        /\ armed' \in [Slots -> SUBSET Events]
    BY <1>0, <2>1, <2>2, <2>3, <2>4 DEF TypeOK
  <2>6. unkid' \in [Slots -> 0..(UnkidMod - 1)]
    <3>1. (unkid[s] + 1) % UnkidMod \in 0..(UnkidMod - 1)
      BY <1>0, <2>1 DEF TypeOK
    <3> QED
      BY <1>0, <3>1, <2>4, <2>1 DEF TypeOK
  <2>7. /\ stat' \in [Slots -> SUBSET Flags] /\ listed' \subseteq Slots
        /\ listedCount' \in Int
    BY <1>0, <2>1, <2>4 DEF ToSelect, TypeOK, Flags
  <2>8. /\ count' = count + 1 /\ alive' = alive \cup {created + 1}
        /\ apc' = "idle" /\ afd' = 0
        /\ UNCHANGED <<open, workRing, sendRing, lockBy, ppc, pcur>>
        /\ UNCHANGED <<wpc, wcur, wphase, witem, upc, handle, calls>>
    BY <1>b DEF AddSock, pollVars, workVars, appVars
  <2>9. /\ count' \in Int /\ alive' \subseteq Conns
        /\ apc' \in {"idle", "add"} /\ afd' \in Fds \cup {0}
    BY <1>0, <2>2, <2>8 DEF TypeOK
  <2> QED
    BY <1>0, <2>1, <2>2, <2>5, <2>6, <2>7, <2>8, <2>9 DEF TypeOK
<1>c. ASSUME PollDrain PROVE TypeOK'
  <2>1. CASE sendRing = <<>>
    BY <1>0, <1>c, <2>1 DEF PollDrain, TypeOK
  <2>2. CASE sendRing # <<>>
    <3>1. Head(sendRing) \in Slots /\ Tail(sendRing) \in Seq(Slots)
      BY <1>0, <2>2 DEF TypeOK
    <3> QED
      BY <1>0, <1>c, <2>2, <3>1 DEF PollDrain, TypeOK
  <2> QED
    BY <2>1, <2>2
<1>d. ASSUME PollRearm PROVE TypeOK'
  BY <1>0, <1>d DEF PollRearm, InHand, TypeOK, Events
<1>e. ASSUME NEW s \in Slots, PollEvent(s) PROVE TypeOK'
  <2>1. \A ev : Report(io[s], ev) \in IoStates
    BY <1>0, <1>e, ReportType DEF TypeOK
  <2>2. io' \in [Slots -> IoStates]
    BY <1>0, <1>e, <2>1 DEF PollEvent, TypeOK
  <2> QED
    BY <1>0, <1>e, <2>2 DEF PollEvent, TypeOK
<1>f. ASSUME PollNoEvent PROVE TypeOK'
  BY <1>0, <1>f DEF PollNoEvent, TypeOK
<1>g. ASSUME PollTake PROVE TypeOK'
  BY <1>0, <1>g DEF PollTake, FromSelect, InHand, TypeOK, Flags
<1>h. ASSUME PollPush PROVE TypeOK'
  BY <1>0, <1>h DEF PollPush, InHand, TypeOK
<1>i. ASSUME PollTick PROVE TypeOK'
  BY <1>0, <1>i DEF PollTick, TypeOK
<1>j. ASSUME NEW s \in Slots, PollTimeout(s) PROVE TypeOK'
  BY <1>0, <1>j DEF PollTimeout, FromSelect, TypeOK, Flags, Events
<1>k. ASSUME PollScanEnd PROVE TypeOK'
  BY <1>0, <1>k DEF PollScanEnd, TypeOK
<1>l. ASSUME NEW w \in Workers, WorkTake(w) PROVE TypeOK'
  BY <1>0, <1>l DEF WorkTake, GotoW, TypeOK
<1>m. ASSUME NEW w \in Workers, WorkSend(w) PROVE TypeOK'
  <2>1. wcur[w] \in Slots /\ io[wcur[w]] \in IoStates
    BY <1>0, <1>m DEF WorkSend, InHand, TypeOK
  <2>2. PICK o \in SendPhase(io[wcur[w]]) :
          /\ io' = [io EXCEPT ![wcur[w]] = o.io]
          /\ wphase' = [wphase EXCEPT ![w] = [st |-> o.st, close |-> o.close]]
    BY <1>m DEF WorkSend
  <2>3. o \in Outcomes
    BY <2>1, SendPhaseType
  <2>4. o.io \in IoStates /\ [st |-> o.st, close |-> o.close] \in Phases
    BY <2>3 DEF Outcomes, Phases
  <2>5. io' \in [Slots -> IoStates] /\ wphase' \in [Workers -> Phases]
    BY <1>0, <2>2, <2>4 DEF TypeOK
  <2> QED
    BY <1>0, <1>m, <2>5 DEF WorkSend, GotoW, TypeOK
<1>n. ASSUME NEW w \in Workers, WorkRecv(w) PROVE TypeOK'
  <2>1. wcur[w] \in Slots /\ io[wcur[w]] \in IoStates
    BY <1>0, <1>n DEF WorkRecv, InHand, TypeOK
  <2>2. PICK o \in RecvOutcomes(io[wcur[w]], wphase[w], "TIME" \in stat[wcur[w]]) :
          /\ io' = [io EXCEPT ![wcur[w]] = o.io]
          /\ IF o.delete
               THEN GotoW(w, "close") /\ UNCHANGED stat
               ELSE GotoW(w, "again") /\ stat' = [stat EXCEPT ![wcur[w]] = @ \ {"TIME"}]
    BY <1>n DEF WorkRecv
  <2>3. o.io \in IoStates
    BY <2>1, RecvOutcomesType
  <2>4. io' \in [Slots -> IoStates]
    BY <1>0, <2>2, <2>3 DEF TypeOK
  <2>5. stat' \in [Slots -> SUBSET Flags]
        /\ wpc' \in [Workers -> {"idle", "send", "recv", "again", "close", "del", "delete"}]
    <3>1. CASE o.delete
      BY <1>0, <2>2, <3>1 DEF GotoW, TypeOK
    <3>2. CASE ~o.delete
      <4>1. /\ wpc' = [wpc EXCEPT ![w] = "again"]
            /\ stat' = [stat EXCEPT ![wcur[w]] = @ \ {"TIME"}]
        BY <2>2, <3>2 DEF GotoW
      <4>2. stat' \in [Slots -> SUBSET Flags]
        BY <1>0, <4>1 DEF TypeOK
      <4>3. wpc' \in [Workers -> {"idle", "send", "recv", "again", "close", "del", "delete"}]
        BY <1>0, <4>1 DEF TypeOK
      <4> QED
        BY <4>2, <4>3
    <3> QED
      BY <3>1, <3>2
  <2>6. NoPhase \in Phases
    BY DEF NoPhase, Phases
  <2> QED
    BY <1>0, <1>n, <2>4, <2>5, <2>6 DEF WorkRecv, TypeOK
<1>o. ASSUME NEW w \in Workers, WorkAgain(w) PROVE TypeOK'
  BY <1>0, <1>o DEF WorkAgain, ToSelect, Wanted, GotoW, InHand, TypeOK, Events, Flags
<1>p. ASSUME NEW w \in Workers, WorkClose(w) PROVE TypeOK'
  BY <1>0, <1>p DEF WorkClose, GotoW, InHand, TypeOK
<1>q. ASSUME NEW w \in Workers, WorkFree(w) PROVE TypeOK'
  BY <1>0, <1>q DEF WorkFree, GotoW, InHand, TypeOK, NewIo, IoStates
<1>r. ASSUME NEW w \in Workers, WorkDelete(w) PROVE TypeOK'
  BY <1>0, <1>r DEF WorkDelete, GotoW, TypeOK
<1>s. ASSUME NEW a \in Apps, NEW w \in Workers, TakeHandle(a, w) PROVE TypeOK'
  BY <1>0, <1>s DEF TakeHandle, HandleOf, InHand, Connected, At, Works, Handles, TypeOK
<1>t. ASSUME NEW a \in Apps, AppSend(a) PROVE TypeOK'
  <2>0. Call(a)
    BY <1>t DEF AppSend
  <2>1. handle[a].slot \in Slots /\ io[handle[a].slot] \in IoStates
    BY <1>0, <2>0 DEF Call, TypeOK, Handles
  <2>2. [Queue(io[handle[a].slot], 1) EXCEPT !.wr = 0] \in IoStates
    <3>1. Queue(io[handle[a].slot], 1) \in IoStates
      BY <2>1, QueueType
    <3> QED
      BY <3>1, FieldTypes
  <2>3. io' \in [Slots -> IoStates]
    BY <1>0, <1>t, <2>2 DEF AppSend, TypeOK
  <2>4. /\ sendRing' \in Seq(Slots) /\ lockBy' \in Apps \cup {"poller", Nobody}
        /\ upc' \in [Apps -> Slots \cup {NoSlot}]
    <3>1. TellPoller(a, handle[a].slot) \/ UNCHANGED <<sendRing, lockBy, upc>>
      BY <1>t DEF AppSend
    <3>2. CASE TellPoller(a, handle[a].slot)
      BY <1>0, <2>1, <3>2, TellType
    <3>3. CASE UNCHANGED <<sendRing, lockBy, upc>>
      BY <1>0, <3>3 DEF TypeOK
    <3> QED
      BY <3>1, <3>2, <3>3
  <2> QED
    BY <1>0, <2>0, <2>3, <2>4 DEF Call, TypeOK
<1>u. ASSUME NEW a \in Apps, AppClose(a) PROVE TypeOK'
  <2>0. Call(a)
    BY <1>u DEF AppClose
  <2>1. handle[a].slot \in Slots /\ io[handle[a].slot] \in IoStates
    BY <1>0, <2>0 DEF Call, TypeOK, Handles
  <2>2. [Closed(io[handle[a].slot]) EXCEPT !.wr = 0] \in IoStates
    BY <2>1, FieldTypes
  <2>3. io' \in [Slots -> IoStates]
    BY <1>0, <1>u, <2>2 DEF AppClose, TypeOK
  <2>4. /\ sendRing' \in Seq(Slots) /\ lockBy' \in Apps \cup {"poller", Nobody}
        /\ upc' \in [Apps -> Slots \cup {NoSlot}]
    <3>1. TellPoller(a, handle[a].slot) \/ UNCHANGED <<sendRing, lockBy, upc>>
      BY <1>u DEF AppClose
    <3>2. CASE TellPoller(a, handle[a].slot)
      BY <1>0, <2>1, <3>2, TellType
    <3>3. CASE UNCHANGED <<sendRing, lockBy, upc>>
      BY <1>0, <3>3 DEF TypeOK
    <3> QED
      BY <3>1, <3>2, <3>3
  <2> QED
    BY <1>0, <2>0, <2>3, <2>4 DEF Call, TypeOK
<1>v. ASSUME NEW a \in Apps, AppEnableRead(a) PROVE TypeOK'
  <2>0. Call(a) /\ UNCHANGED <<sendRing, lockBy, upc>>
    BY <1>v DEF AppEnableRead
  <2>1. handle[a].slot \in Slots /\ io[handle[a].slot] \in IoStates
    BY <1>0, <2>0 DEF Call, TypeOK, Handles
  <2>2. EnableRead(io[handle[a].slot]) \in IoStates
    BY <2>1, EnableReadType
  <2>3. io' \in [Slots -> IoStates]
    BY <1>0, <1>v, <2>2 DEF AppEnableRead, TypeOK
  <2> QED
    BY <1>0, <2>0, <2>3 DEF Call, TypeOK
<1>w. ASSUME NEW a \in Apps, AppRetry(a) PROVE TypeOK'
  BY <1>0, <1>w DEF AppRetry, TypeOK
<1>x. CASE UNCHANGED vars
  BY <1>0, <1>x DEF vars, TypeOK
<1> QED
  BY <1>a, <1>b, <1>c, <1>d, <1>e, <1>f, <1>g, <1>h, <1>i, <1>j, <1>k, <1>l, <1>m, <1>n,
     <1>o, <1>p, <1>q, <1>r, <1>s, <1>t, <1>u, <1>v, <1>w, <1>x
     DEF Next, Poller, Worker, App

------------------------------------------------------------------------------
(* Ownership, with the five places of a slot written out.                  *)

Worked(s) == \E w \in Workers : Works(w, s)

\* A slot is in one of the five places, and in no two.
OnePlace(s) ==
  /\ s[1] > blocks \/ s \in free \/ s \in listed \/ Queued(s) \/ Worked(s)
  /\ s[1] > blocks => s \notin free /\ s \notin listed /\ ~Queued(s) /\ ~Worked(s)
  /\ s \in free => s \notin listed /\ ~Queued(s) /\ ~Worked(s)
  /\ s \in listed => ~Queued(s) /\ ~Worked(s)
  /\ Queued(s) => ~Worked(s)

QueuedOnce ==
  /\ \A i, j \in 1..Len(workRing) : workRing[i] = workRing[j] => i = j
  /\ ppc = "push" => \A i \in 1..Len(workRing) : workRing[i] # pcur

OneWorker == \A w, v \in Workers : \A s \in Slots : Works(w, s) /\ Works(v, s) => w = v

LEMMA Placed ==
  ASSUME NEW s \in Slots
  PROVE (\E p \in Places : At(s, p) /\ \A o \in Places : At(s, o) => o = p) <=> OnePlace(s)
<1> DEFINE N == s[1] > blocks
           F == s \in free
           L == s \in listed
           Q == Queued(s)
           K == Worked(s)
<1>1. /\ At(s, "new") <=> N
      /\ At(s, "free") <=> F
      /\ At(s, "listed") <=> L
      /\ At(s, "queued") <=> Q
      /\ At(s, "worked") <=> K
  BY DEF At, Worked
<1>2. OnePlace(s) <=>
        /\ N \/ F \/ L \/ Q \/ K
        /\ N => ~F /\ ~L /\ ~Q /\ ~K
        /\ F => ~L /\ ~Q /\ ~K
        /\ L => ~Q /\ ~K
        /\ Q => ~K
  BY DEF OnePlace
<1> HIDE DEF N, F, L, Q, K
<1> QED
  BY <1>1, <1>2 DEF Places

LEMMA PlacedNext ==
  ASSUME NEW s \in Slots
  PROVE (\E p \in Places : At(s, p)' /\ \A o \in Places : At(s, o)' => o = p) <=> OnePlace(s)'
<1> DEFINE N == s[1] > blocks'
           F == s \in free'
           L == s \in listed'
           Q == Queued(s)'
           K == Worked(s)'
<1>1. /\ At(s, "new")' <=> N
      /\ At(s, "free")' <=> F
      /\ At(s, "listed")' <=> L
      /\ At(s, "queued")' <=> Q
      /\ At(s, "worked")' <=> K
  BY DEF At, Worked
<1>2. OnePlace(s)' <=>
        /\ N \/ F \/ L \/ Q \/ K
        /\ N => ~F /\ ~L /\ ~Q /\ ~K
        /\ F => ~L /\ ~Q /\ ~K
        /\ L => ~Q /\ ~K
        /\ Q => ~K
  BY DEF OnePlace
<1> HIDE DEF N, F, L, Q, K
<1> QED
  BY <1>1, <1>2 DEF Places

LEMMA OwnershipParts ==
  /\ Ownership <=> (\A s \in Slots : OnePlace(s)) /\ QueuedOnce /\ OneWorker
  /\ Ownership' <=> (\A s \in Slots : OnePlace(s)') /\ QueuedOnce' /\ OneWorker'
BY Placed, PlacedNext DEF Ownership, QueuedOnce, OneWorker

\* What the work_ring and the poller's hand hold is the same before and after.
RingStays ==
  /\ UNCHANGED workRing
  /\ ppc' = "push" <=> ppc = "push"
  /\ ppc = "push" => UNCHANGED pcur

\* Every worker has the slot it had.
HandsStay == \A w \in Workers, s \in Slots : Works(w, s)' <=> Works(w, s)

LEMMA HandsUnchanged == UNCHANGED <<wpc, wcur>> => HandsStay
BY DEF HandsStay, Works

Holding == {"send", "recv", "again", "close", "del"}

\* A worker that only goes on with its slot, or has none, keeps the hands as
\* they were.
LEMMA HandsGoOn ==
  ASSUME TypeOK, NEW w \in Workers, NEW l, GotoW(w, l), UNCHANGED wcur,
         wpc[w] \in Holding <=> l \in Holding
  PROVE HandsStay
<1>1. \A v \in Workers : wpc'[v] = IF v = w THEN l ELSE wpc[v]
  BY DEF GotoW, TypeOK
<1> QED
  BY <1>1 DEF HandsStay, Works, Holding

LEMMA RingSame ==
  ASSUME RingStays
  PROVE /\ \A s \in Slots : Queued(s)' <=> Queued(s)
        /\ QueuedOnce => QueuedOnce'
BY DEF RingStays, Queued, QueuedOnce

\* A step that moves no slot keeps every slot in its one place.
LEMMA NothingMoves ==
  ASSUME Ownership, UNCHANGED <<blocks, free, listed>>, RingStays, HandsStay
  PROVE Ownership'
<1>1. (\A s \in Slots : OnePlace(s)) /\ QueuedOnce /\ OneWorker
  BY OwnershipParts
<1>2. \A s \in Slots : Queued(s)' <=> Queued(s)
  BY RingSame
<1>3. \A s \in Slots : Worked(s)' <=> Worked(s)
  BY DEF HandsStay, Worked
<1>4. \A s \in Slots : OnePlace(s)'
  BY <1>1, <1>2, <1>3 DEF OnePlace
<1>5. QueuedOnce' /\ OneWorker'
  BY <1>1, RingSame DEF HandsStay, OneWorker
<1> QED
  BY <1>4, <1>5, OwnershipParts

\* A slot leaves the free list for the select list, with the rest of its block
\* when the block is new.
LEMMA AddSockOwns ==
  ASSUME IInv, AddSock PROVE Ownership'
<1>1. TypeOK /\ (\A s \in Slots : OnePlace(s)) /\ QueuedOnce /\ OneWorker
  BY OwnershipParts DEF IInv
<1>2. PICK x \in FreeList : free' = FreeList \ {x} /\ listed' = listed \cup {x}
  BY DEF AddSock, ToSelect
<1>3. RingStays /\ HandsStay
  BY HandsUnchanged DEF AddSock, RingStays, pollVars, workVars
<1>4. \A s \in Slots : (Queued(s)' <=> Queued(s)) /\ (Worked(s)' <=> Worked(s))
  BY <1>3, RingSame DEF HandsStay, Worked
<1>5. blocks \in Nat /\ \A s \in Slots : s[1] \in Nat
  BY <1>1, CoreAssumption DEF TypeOK, Slots
<1>6. \A s \in Slots : OnePlace(s)'
  <2>1. CASE free = {}
    <3>1. blocks' = blocks + 1 /\ FreeList = {blocks + 1} \X (1..BlockSz)
      BY <2>1 DEF AddSock, Allocate, FreeList
    <3>2. \A s \in Slots : s \in FreeList <=> s[1] = blocks + 1
      BY <3>1 DEF Slots
    <3>3. x[1] = blocks + 1
      BY <1>2, <3>1
    <3> QED
      BY <1>1, <1>2, <1>4, <1>5, <2>1, <3>1, <3>2, <3>3 DEF OnePlace
  <2>2. CASE free # {}
    <3>1. blocks' = blocks /\ FreeList = free
      BY <2>2 DEF AddSock, Allocate, FreeList
    <3> QED
      BY <1>1, <1>2, <1>4, <3>1 DEF OnePlace
  <2> QED
    BY <2>1, <2>2
<1>7. QueuedOnce' /\ OneWorker'
  BY <1>1, <1>3, RingSame DEF HandsStay, OneWorker
<1> QED
  BY <1>6, <1>7, OwnershipParts

\* The poller takes the slot of its event out of the select list.
LEMMA PollTakeOwns ==
  ASSUME IInv, PollTake PROVE Ownership'
<1>1. /\ TypeOK /\ (\A s \in Slots : OnePlace(s)) /\ QueuedOnce /\ OneWorker
      /\ pcur \in Slots /\ pcur \in listed
  BY OwnershipParts DEF IInv, PollFlag, InHand, PollTake
<1>2. listed' = listed \ {pcur} /\ ppc' = "push" /\ ppc = "take"
      /\ UNCHANGED <<blocks, free, workRing, pcur>>
  BY DEF PollTake, FromSelect
<1>3. HandsStay
  BY HandsUnchanged DEF PollTake, workVars
<1>4. \A s \in Slots : Worked(s)' <=> Worked(s)
  BY <1>3 DEF HandsStay, Worked
<1>5. \A s \in Slots : Queued(s)' <=> Queued(s) \/ s = pcur
  BY <1>2 DEF Queued
<1>6. \A s \in Slots : OnePlace(s)'
  BY <1>1, <1>2, <1>4, <1>5 DEF OnePlace
<1>7. QueuedOnce'
  <2>1. ~Queued(pcur)
    BY <1>1 DEF OnePlace
  <2> QED
    BY <1>1, <1>2, <2>1 DEF QueuedOnce, Queued
<1>8. OneWorker'
  BY <1>1, <1>3 DEF HandsStay, OneWorker
<1> QED
  BY <1>6, <1>7, <1>8, OwnershipParts

LEMMA AppendAt ==
  ASSUME NEW r \in Seq(Slots), NEW x \in Slots
  PROVE /\ Append(r, x) \in Seq(Slots) /\ Len(Append(r, x)) = Len(r) + 1 /\ Len(r) \in Nat
        /\ \A i \in 1..Len(r) : Append(r, x)[i] = r[i]
        /\ Append(r, x)[Len(r) + 1] = x
OBVIOUS

\* ... and hands it to the workers.
LEMMA PollPushOwns ==
  ASSUME IInv, PollPush PROVE Ownership'
<1>1. /\ TypeOK /\ (\A s \in Slots : OnePlace(s)) /\ QueuedOnce /\ OneWorker
      /\ pcur \in Slots
  BY OwnershipParts DEF IInv, InHand, PollPush
<1>2. workRing' = Append(workRing, pcur) /\ ppc = "push" /\ ppc' = "tick"
      /\ UNCHANGED <<blocks, free, listed>>
  BY DEF PollPush, slotVars, listVars
<1>3. HandsStay
  BY HandsUnchanged DEF PollPush, workVars
<1>4. \A s \in Slots : Worked(s)' <=> Worked(s)
  BY <1>3 DEF HandsStay, Worked
<1>5. workRing \in Seq(Slots)
  BY <1>1 DEF TypeOK
<1>6. /\ Len(workRing') = Len(workRing) + 1 /\ Len(workRing) \in Nat
      /\ \A i \in 1..Len(workRing) : workRing'[i] = workRing[i]
      /\ workRing'[Len(workRing) + 1] = pcur
  BY <1>1, <1>2, <1>5, AppendAt
<1>7. \A s \in Slots : Queued(s)' <=> Queued(s)
  <2> TAKE s \in Slots
  <2>1. Queued(s)' => Queued(s)
    <3> SUFFICES ASSUME NEW i \in 1..Len(workRing'), workRing'[i] = s PROVE Queued(s)
      BY <1>2 DEF Queued
    <3>1. CASE i \in 1..Len(workRing)
      BY <1>6, <3>1 DEF Queued
    <3>2. CASE i = Len(workRing) + 1
      BY <1>2, <1>6, <3>2 DEF Queued
    <3> QED
      BY <1>6, <3>1, <3>2
  <2>2. Queued(s) => Queued(s)'
    BY <1>2, <1>6 DEF Queued
  <2> QED
    BY <2>1, <2>2
<1>8. \A s \in Slots : OnePlace(s)'
  BY <1>1, <1>2, <1>4, <1>7 DEF OnePlace
<1>9. QueuedOnce'
  <2>1. \A i \in 1..Len(workRing) : workRing[i] # pcur
    BY <1>1, <1>2 DEF QueuedOnce
  <2> QED
    BY <1>1, <1>2, <1>6, <2>1 DEF QueuedOnce
<1>10. OneWorker'
  BY <1>1, <1>3 DEF HandsStay, OneWorker
<1> QED
  BY <1>8, <1>9, <1>10, OwnershipParts

\* A slot whose time is over goes from the select list to work_ring at once.
LEMMA PollTimeoutOwns ==
  ASSUME IInv, NEW x \in Slots, PollTimeout(x) PROVE Ownership'
<1>1. TypeOK /\ (\A s \in Slots : OnePlace(s)) /\ QueuedOnce /\ OneWorker
  BY OwnershipParts DEF IInv
<1>2. /\ workRing' = Append(workRing, x) /\ ppc = "scan" /\ ppc' = "scan"
      /\ x \in listed /\ listed' = listed \ {x}
      /\ UNCHANGED <<blocks, free>>
  BY DEF PollTimeout, FromSelect, pollVars
<1>3. HandsStay
  BY HandsUnchanged DEF PollTimeout, workVars
<1>4. \A s \in Slots : Worked(s)' <=> Worked(s)
  BY <1>3 DEF HandsStay, Worked
<1>5. workRing \in Seq(Slots)
  BY <1>1 DEF TypeOK
<1>6. /\ Len(workRing') = Len(workRing) + 1 /\ Len(workRing) \in Nat
      /\ \A i \in 1..Len(workRing) : workRing'[i] = workRing[i]
      /\ workRing'[Len(workRing) + 1] = x
  BY <1>2, <1>5, AppendAt
<1>7. \A s \in Slots : Queued(s)' <=> Queued(s) \/ s = x
  <2> TAKE s \in Slots
  <2>1. Queued(s)' => Queued(s) \/ s = x
    <3> SUFFICES ASSUME NEW i \in 1..Len(workRing'), workRing'[i] = s
                 PROVE Queued(s) \/ s = x
      BY <1>2 DEF Queued
    <3>1. CASE i \in 1..Len(workRing)
      BY <1>6, <3>1 DEF Queued
    <3>2. CASE i = Len(workRing) + 1
      BY <1>6, <3>2
    <3> QED
      BY <1>6, <3>1, <3>2
  <2>2. Queued(s) \/ s = x => Queued(s)'
    BY <1>2, <1>6 DEF Queued
  <2> QED
    BY <2>1, <2>2
<1>8. \A s \in Slots : OnePlace(s)'
  BY <1>1, <1>2, <1>4, <1>7 DEF OnePlace
<1>9. QueuedOnce'
  <2>1. \A i \in 1..Len(workRing) : workRing[i] # x
    BY <1>1, <1>2 DEF OnePlace, Queued
  <2> QED
    BY <1>1, <1>2, <1>6, <2>1 DEF QueuedOnce
<1>10. OneWorker'
  BY <1>1, <1>3 DEF HandsStay, OneWorker
<1> QED
  BY <1>8, <1>9, <1>10, OwnershipParts

LEMMA TailAt ==
  ASSUME NEW r \in Seq(Slots), r # <<>>
  PROVE /\ Tail(r) \in Seq(Slots) /\ Len(Tail(r)) = Len(r) - 1 /\ Len(r) \in Nat \ {0}
        /\ \A i \in 1..Len(Tail(r)) : Tail(r)[i] = r[i + 1]
        /\ Head(r) = r[1] /\ Head(r) \in Slots
OBVIOUS

\* A worker takes the oldest slot of work_ring.
LEMMA WorkTakeOwns ==
  ASSUME IInv, NEW w \in Workers, WorkTake(w) PROVE Ownership'
<1> DEFINE x == Head(workRing)
<1>1. TypeOK /\ (\A s \in Slots : OnePlace(s)) /\ QueuedOnce /\ OneWorker
  BY OwnershipParts DEF IInv
<1>2. /\ workRing # <<>> /\ workRing' = Tail(workRing)
      /\ wcur' = [wcur EXCEPT ![w] = x] /\ wpc' = [wpc EXCEPT ![w] = "send"]
      /\ wpc[w] = "idle" /\ UNCHANGED <<blocks, free, listed, ppc, pcur>>
  BY DEF WorkTake, GotoW, slotVars, listVars, pollVars
<1>3. workRing \in Seq(Slots) /\ wcur \in [Workers -> Slots \cup {NoSlot}]
      /\ wpc \in [Workers -> {"idle", "send", "recv", "again", "close", "del", "delete"}]
  BY <1>1 DEF TypeOK
<1>4. /\ Len(workRing') = Len(workRing) - 1 /\ Len(workRing) \in Nat \ {0}
      /\ \A i \in 1..Len(workRing') : workRing'[i] = workRing[i + 1]
      /\ x = workRing[1] /\ x \in Slots
  BY <1>2, <1>3, TailAt
<1> HIDE DEF x
<1>5. \A v \in Workers, s \in Slots :
        Works(v, s)' <=> IF v = w THEN s = x ELSE Works(v, s)
  BY <1>2, <1>3 DEF Works
<1>6. Queued(x) /\ ~Worked(x)
  BY <1>1, <1>4 DEF OnePlace, Queued
<1>7. \A s \in Slots : Worked(s)' <=> Worked(s) \/ s = x
  <2>1. \A s \in Slots : ~Works(w, s)
    BY <1>2 DEF Works
  <2> QED
    BY <1>5, <2>1 DEF Worked
<1>8. \A s \in Slots : Queued(s)' <=> Queued(s) /\ s # x
  <2> TAKE s \in Slots
  <2>1. CASE s = x
    <3>1. ~ \E i \in 1..Len(workRing') : workRing'[i] = x
      <4> SUFFICES ASSUME NEW i \in 1..Len(workRing'), workRing[i + 1] = workRing[1]
                   PROVE FALSE
        BY <1>4
      <4>1. i + 1 \in 1..Len(workRing) /\ 1 \in 1..Len(workRing)
        BY <1>4
      <4> QED
        BY <1>1, <4>1 DEF QueuedOnce
    <3>2. ~(ppc = "push" /\ pcur = x)
      BY <1>1, <1>4 DEF QueuedOnce
    <3> QED
      BY <1>2, <2>1, <3>1, <3>2 DEF Queued
  <2>2. CASE s # x
    <3>1. ASSUME NEW i \in 1..Len(workRing), workRing[i] = s
          PROVE \E j \in 1..Len(workRing') : workRing'[j] = s
      <4>1. i - 1 \in 1..Len(workRing') /\ (i - 1) + 1 = i
        BY <1>4, <2>2, <3>1
      <4> QED
        BY <1>4, <3>1, <4>1
    <3>2. ASSUME NEW j \in 1..Len(workRing'), workRing'[j] = s
          PROVE \E i \in 1..Len(workRing) : workRing[i] = s
      <4>1. j + 1 \in 1..Len(workRing) /\ workRing[j + 1] = s
        BY <1>4, <3>2
      <4> QED
        BY <4>1
    <3> QED
      BY <1>2, <2>2, <3>1, <3>2 DEF Queued
  <2> QED
    BY <2>1, <2>2
<1>9. \A s \in Slots : OnePlace(s)'
  BY <1>1, <1>2, <1>4, <1>6, <1>7, <1>8 DEF OnePlace
<1>10. QueuedOnce'
  <2>1. ASSUME NEW i \in 1..Len(workRing'), NEW j \in 1..Len(workRing'),
               workRing'[i] = workRing'[j]
        PROVE i = j
    <3>1. i + 1 \in 1..Len(workRing) /\ j + 1 \in 1..Len(workRing)
          /\ workRing[i + 1] = workRing[j + 1]
      BY <1>4, <2>1, SMTT(30)
    <3>2. i + 1 = j + 1
      BY <1>1, <3>1 DEF QueuedOnce
    <3> QED
      BY <3>2
  <2>2. ppc = "push" => \A i \in 1..Len(workRing') : workRing'[i] # pcur
    <3>1. \A i \in 1..Len(workRing') : i + 1 \in 1..Len(workRing)
      BY <1>4
    <3> QED
      BY <1>1, <1>4, <3>1 DEF QueuedOnce
  <2> QED
    BY <1>2, <2>1, <2>2 DEF QueuedOnce
<1>11. OneWorker'
  BY <1>1, <1>5, <1>6 DEF OneWorker, Worked
<1> QED
  BY <1>9, <1>10, <1>11, OwnershipParts

\* A worker that lets go of its slot was the only one to hold it.
LEMMA LetGo ==
  ASSUME IInv, NEW w \in Workers, NEW x \in Slots, NEW l,
         Works(w, x), l \notin Holding, GotoW(w, l), wcur' = [wcur EXCEPT ![w] = NoSlot]
  PROVE /\ \A s \in Slots : Worked(s)' <=> Worked(s) /\ s # x
        /\ OneWorker'
<1>1. TypeOK /\ OneWorker
  BY OwnershipParts DEF IInv
<1>2. \A v \in Workers : wpc'[v] = IF v = w THEN l ELSE wpc[v]
  BY <1>1 DEF GotoW, TypeOK
<1>3. \A v \in Workers : v # w => wcur'[v] = wcur[v]
  BY <1>1 DEF TypeOK
<1>4. \A v \in Workers, s \in Slots : Works(v, s)' <=> v # w /\ Works(v, s)
  BY <1>2, <1>3 DEF Works, Holding
<1>5. \A s \in Slots : Works(w, s) => s = x
  BY DEF Works
<1> QED
  BY <1>1, <1>4, <1>5 DEF OneWorker, Worked

\* PollSocketAgain puts it back into the select list.
LEMMA WorkAgainOwns ==
  ASSUME IInv, NEW w \in Workers, WorkAgain(w) PROVE Ownership'
<1> DEFINE x == wcur[w]
<1>1. /\ (\A s \in Slots : OnePlace(s)) /\ QueuedOnce
      /\ x \in Slots /\ Works(w, x)
  BY OwnershipParts DEF IInv, InHand, WorkAgain, Works
<1>2. listed' = listed \cup {x} /\ UNCHANGED <<blocks, free>>
  BY DEF WorkAgain, ToSelect
<1>3. RingStays
  BY DEF WorkAgain, RingStays, pollVars
<1>4. (\A s \in Slots : Worked(s)' <=> Worked(s) /\ s # x) /\ OneWorker'
  BY <1>1, LetGo, Zenon DEF WorkAgain, Holding
<1>5. \A s \in Slots : Queued(s)' <=> Queued(s)
  BY <1>3, RingSame
<1>6. Worked(x)
  BY <1>1 DEF Worked
<1> HIDE DEF x
<1>7. \A s \in Slots : OnePlace(s)'
  BY <1>1, <1>2, <1>4, <1>5, <1>6 DEF OnePlace
<1> QED
  BY <1>1, <1>3, <1>4, <1>7, RingSame, OwnershipParts

\* DelSocketData puts it into the free list.
LEMMA WorkFreeOwns ==
  ASSUME IInv, NEW w \in Workers, WorkFree(w) PROVE Ownership'
<1> DEFINE x == wcur[w]
<1>1. /\ (\A s \in Slots : OnePlace(s)) /\ QueuedOnce
      /\ x \in Slots /\ Works(w, x)
  BY OwnershipParts DEF IInv, InHand, WorkFree, Works
<1>2. free' = free \cup {x} /\ UNCHANGED <<blocks, listed>>
  BY DEF WorkFree
<1>3. RingStays
  BY DEF WorkFree, RingStays, pollVars
<1>4. (\A s \in Slots : Worked(s)' <=> Worked(s) /\ s # x) /\ OneWorker'
  BY <1>1, LetGo, Zenon DEF WorkFree, Holding
<1>5. \A s \in Slots : Queued(s)' <=> Queued(s)
  BY <1>3, RingSame
<1>6. Worked(x)
  BY <1>1 DEF Worked
<1> HIDE DEF x
<1>7. \A s \in Slots : OnePlace(s)'
  BY <1>1, <1>2, <1>4, <1>5, <1>6 DEF OnePlace
<1> QED
  BY <1>1, <1>3, <1>4, <1>7, RingSame, OwnershipParts

------------------------------------------------------------------------------
(* Every step keeps Ownership: seven move a slot, the others move none.    *)

LEMMA NextOwnership == IInv /\ [Next]_vars => Ownership'
<1> SUFFICES ASSUME IInv, [Next]_vars PROVE Ownership'
  OBVIOUS
<1>0. TypeOK /\ Ownership
  BY DEF IInv
<1> USE DEF slotVars, listVars, worldVars, pollVars, workVars, acceptVars, appVars, RingStays
<1>a. CASE Accept
  BY <1>0, <1>a, NothingMoves, HandsUnchanged DEF Accept
<1>b. CASE AddSock
  BY <1>b, AddSockOwns
<1>c. CASE PollDrain
  <2>1. RingStays /\ UNCHANGED <<blocks, free, listed, wpc, wcur>>
    BY <1>c DEF PollDrain
  <2> QED
    BY <1>0, <2>1, NothingMoves, HandsUnchanged
<1>d. CASE PollRearm
  <2>1. RingStays /\ UNCHANGED <<blocks, free, listed, wpc, wcur>>
    BY <1>d DEF PollRearm
  <2> QED
    BY <1>0, <2>1, NothingMoves, HandsUnchanged
<1>e. ASSUME NEW s \in Slots, PollEvent(s) PROVE Ownership'
  <2>1. RingStays /\ UNCHANGED <<blocks, free, listed, wpc, wcur>>
    BY <1>e DEF PollEvent
  <2> QED
    BY <1>0, <2>1, NothingMoves, HandsUnchanged
<1>f. CASE PollNoEvent
  <2>1. RingStays /\ UNCHANGED <<blocks, free, listed, wpc, wcur>>
    BY <1>f DEF PollNoEvent
  <2> QED
    BY <1>0, <2>1, NothingMoves, HandsUnchanged
<1>g. CASE PollTake
  BY <1>g, PollTakeOwns
<1>h. CASE PollPush
  BY <1>h, PollPushOwns
<1>i. CASE PollTick
  <2>1. RingStays /\ UNCHANGED <<blocks, free, listed, wpc, wcur>>
    BY <1>i DEF PollTick
  <2> QED
    BY <1>0, <2>1, NothingMoves, HandsUnchanged
<1>j. ASSUME NEW s \in Slots, PollTimeout(s) PROVE Ownership'
  BY <1>j, PollTimeoutOwns
<1>k. CASE PollScanEnd
  <2>1. RingStays /\ UNCHANGED <<blocks, free, listed, wpc, wcur>>
    BY <1>k DEF PollScanEnd
  <2> QED
    BY <1>0, <2>1, NothingMoves, HandsUnchanged
<1>l. ASSUME NEW w \in Workers, WorkTake(w) PROVE Ownership'
  BY <1>l, WorkTakeOwns
<1>m. ASSUME NEW w \in Workers, WorkSend(w) PROVE Ownership'
  <2>1. RingStays /\ UNCHANGED <<blocks, free, listed, wcur>>
        /\ GotoW(w, "recv") /\ wpc[w] = "send"
    BY <1>m DEF WorkSend
  <2>2. HandsStay
    BY <1>0, <2>1, HandsGoOn DEF Holding
  <2> QED
    BY <1>0, <2>1, <2>2, NothingMoves
<1>n. ASSUME NEW w \in Workers, WorkRecv(w) PROVE Ownership'
  <2>1. RingStays /\ UNCHANGED <<blocks, free, listed, wcur>> /\ wpc[w] = "recv"
    BY <1>n DEF WorkRecv
  <2>2. GotoW(w, "close") \/ GotoW(w, "again")
    BY <1>n DEF WorkRecv
  <2>3. HandsStay
    BY <1>0, <2>1, <2>2, HandsGoOn DEF Holding
  <2> QED
    BY <1>0, <2>1, <2>3, NothingMoves
<1>o. ASSUME NEW w \in Workers, WorkAgain(w) PROVE Ownership'
  BY <1>o, WorkAgainOwns
<1>p. ASSUME NEW w \in Workers, WorkClose(w) PROVE Ownership'
  <2>1. RingStays /\ UNCHANGED <<blocks, free, listed, wcur>>
        /\ GotoW(w, "del") /\ wpc[w] = "close"
    BY <1>p DEF WorkClose
  <2>2. HandsStay
    BY <1>0, <2>1, HandsGoOn DEF Holding
  <2> QED
    BY <1>0, <2>1, <2>2, NothingMoves
<1>q. ASSUME NEW w \in Workers, WorkFree(w) PROVE Ownership'
  BY <1>q, WorkFreeOwns
<1>r. ASSUME NEW w \in Workers, WorkDelete(w) PROVE Ownership'
  <2>1. RingStays /\ UNCHANGED <<blocks, free, listed, wcur>>
        /\ GotoW(w, "idle") /\ wpc[w] = "delete"
    BY <1>r DEF WorkDelete
  <2>2. HandsStay
    BY <1>0, <2>1, HandsGoOn DEF Holding
  <2> QED
    BY <1>0, <2>1, <2>2, NothingMoves
<1>s. ASSUME NEW a \in Apps, App(a) \/ \E w \in Workers : TakeHandle(a, w) PROVE Ownership'
  <2>1. RingStays /\ UNCHANGED <<blocks, free, listed, wpc, wcur>>
    BY <1>s DEF App, AppSend, AppClose, AppEnableRead, AppRetry, TakeHandle, Call
  <2> QED
    BY <1>0, <2>1, NothingMoves, HandsUnchanged
<1>t. CASE UNCHANGED vars
  <2>1. RingStays /\ UNCHANGED <<blocks, free, listed, wpc, wcur>>
    BY <1>t DEF vars
  <2> QED
    BY <1>0, <2>1, NothingMoves, HandsUnchanged
<1> QED
  BY <1>a, <1>b, <1>c, <1>d, <1>e, <1>f, <1>g, <1>h, <1>i, <1>j, <1>k, <1>l, <1>m, <1>n,
     <1>o, <1>p, <1>q, <1>r, <1>s, <1>t DEF Next, Poller, Worker

------------------------------------------------------------------------------
(* ... and the flag that says who is in the select list.                   *)

LEMMA NextPollFlag == IInv /\ [Next]_vars => PollFlag'
<1> SUFFICES ASSUME IInv, [Next]_vars PROVE PollFlag'
  OBVIOUS
<1>0. PollFlag /\ stat \in [Slots -> SUBSET Flags]
  BY DEF IInv, TypeOK
<1> USE DEF slotVars, listVars, PollFlag
<1>1. CASE UNCHANGED <<stat, listed>>
  BY <1>0, <1>1
<1>2. CASE AddSock
  <2>1. PICK s \in FreeList : stat' = [stat EXCEPT ![s] = {"POLL"}] /\ listed' = listed \cup {s}
    BY <1>2 DEF AddSock, ToSelect
  <2> QED
    BY <1>0, <2>1
<1>3. CASE PollTake
  BY <1>0, <1>3 DEF PollTake, FromSelect
<1>4. ASSUME NEW s \in Slots, PollTimeout(s) PROVE PollFlag'
  BY <1>0, <1>4 DEF PollTimeout, FromSelect
<1>5. ASSUME NEW w \in Workers, WorkRecv(w) PROVE PollFlag'
  <2>1. UNCHANGED listed
    BY <1>5 DEF WorkRecv
  <2>2. UNCHANGED stat \/ stat' = [stat EXCEPT ![wcur[w]] = @ \ {"TIME"}]
    BY <1>5 DEF WorkRecv
  <2> QED
    BY <1>0, <2>1, <2>2
<1>6. ASSUME NEW w \in Workers, WorkAgain(w) PROVE PollFlag'
  BY <1>0, <1>6 DEF WorkAgain, ToSelect
<1>7. ASSUME NEW w \in Workers, WorkFree(w) PROVE PollFlag'
  <2>1. wcur[w] \in Slots /\ Works(w, wcur[w])
    BY <1>7 DEF WorkFree, IInv, InHand, Works
  <2>2. wcur[w] \notin listed
    BY <2>1, OwnershipParts DEF IInv, OnePlace, Worked
  <2>3. stat' = [stat EXCEPT ![wcur[w]] = {}] /\ UNCHANGED listed
    BY <1>7, SMTT(30) DEF WorkFree
  <2> QED
    BY <1>0, <2>2, <2>3
<1>8. [Next]_vars =>
        \/ UNCHANGED <<stat, listed>> \/ AddSock \/ PollTake
        \/ \E s \in Slots : PollTimeout(s)
        \/ \E w \in Workers : WorkRecv(w) \/ WorkAgain(w) \/ WorkFree(w)
  BY ZenonT(60)
     DEF Next, Poller, Worker, App, vars, Accept, PollDrain, PollRearm, PollEvent, PollNoEvent,
         PollPush, PollTick, PollScanEnd, WorkTake, WorkSend, WorkClose, WorkDelete,
         TakeHandle, AppSend, AppClose, AppEnableRead, AppRetry, Call
<1> QED
  BY <1>1, <1>2, <1>3, <1>4, <1>5, <1>6, <1>7, <1>8

------------------------------------------------------------------------------
(* Who is at which label has a slot in hand, and that slot a connection.   *)

LEMMA NextInHand == IInv /\ [Next]_vars => InHand'
<1> SUFFICES ASSUME IInv, [Next]_vars PROVE InHand'
  OBVIOUS
<1>0. TypeOK /\ InHand
  BY DEF IInv
<1> USE DEF slotVars, listVars, worldVars, pollVars, workVars, acceptVars, appVars
<1>1. ppc' \in {"rearm", "take", "push"} => pcur' \in Slots
  <2>1. CASE Poller
    <3>1. CASE PollDrain
      <4>1. CASE sendRing = <<>>
        BY <1>0, <3>1, <4>1 DEF PollDrain
      <4>2. CASE sendRing # <<>>
        <5>1. Head(sendRing) \in Slots
          BY <1>0, <4>2 DEF TypeOK
        <5> QED
          BY <3>1, <4>2, <5>1 DEF PollDrain
      <4> QED
        BY <4>1, <4>2
    <3>2. CASE PollTake \/ PollPush \/ PollRearm \/ PollNoEvent \/ PollTick \/ PollScanEnd
      BY <1>0, <3>2
         DEF InHand, PollTake, PollPush, PollRearm, PollNoEvent, PollTick, PollScanEnd
    <3>3. ASSUME NEW s \in Slots, PollEvent(s) \/ PollTimeout(s)
          PROVE ppc' \in {"rearm", "take", "push"} => pcur' \in Slots
      BY <1>0, <3>3 DEF InHand, PollEvent, PollTimeout
    <3> QED
      BY <2>1, <3>1, <3>2, <3>3 DEF Poller
  <2>2. CASE UNCHANGED <<ppc, pcur>>
    BY <1>0, <2>2 DEF InHand
  <2>3. Poller \/ UNCHANGED <<ppc, pcur>>
    BY DEF Next, Worker, App, vars, Accept, AddSock, WorkTake, WorkSend, WorkRecv, WorkAgain,
           WorkClose, WorkFree, WorkDelete, TakeHandle, AppSend, AppClose, AppEnableRead,
           AppRetry, Call
  <2> QED
    BY <2>1, <2>2, <2>3
<1>2. ASSUME NEW v \in Workers, wpc'[v] \in Holding PROVE wcur'[v] \in Slots
  <2>1. CASE UNCHANGED <<wpc, wcur>>
    BY <1>0, <1>2, <2>1 DEF InHand, Holding
  <2>2. ASSUME NEW w \in Workers, Worker(w) PROVE wcur'[v] \in Slots
    <3>1. CASE v # w
      <4>1. wpc'[v] = wpc[v] /\ wcur'[v] = wcur[v]
        BY <1>0, <2>2, <3>1
           DEF Worker, WorkTake, WorkSend, WorkRecv, WorkAgain, WorkClose, WorkFree, WorkDelete,
               GotoW, TypeOK
      <4> QED
        BY <1>0, <1>2, <4>1 DEF InHand, Holding
    <3>2. CASE v = w
      <4>1. CASE WorkTake(w)
        <5>1. Head(workRing) \in Slots /\ wcur \in [Workers -> Slots \cup {NoSlot}]
          BY <1>0, <4>1 DEF WorkTake, TypeOK
        <5>2. wcur'[v] = Head(workRing)
          BY <4>1, <3>2, <5>1 DEF WorkTake
        <5> QED
          BY <5>1, <5>2
      <4>2. CASE WorkSend(w) \/ WorkRecv(w) \/ WorkClose(w)
        <5>1. wpc[v] \in Holding /\ wcur'[v] = wcur[v]
          BY <3>2, <4>2 DEF WorkSend, WorkRecv, WorkClose, Holding
        <5> QED
          BY <1>0, <5>1 DEF InHand, Holding
      <4>3. CASE WorkAgain(w) \/ WorkFree(w) \/ WorkDelete(w)
        <5>1. wpc'[v] \in {"idle", "delete"}
          BY <1>0, <3>2, <4>3 DEF WorkAgain, WorkFree, WorkDelete, GotoW, TypeOK
        <5> QED
          BY <1>2, <5>1 DEF Holding
      <4> QED
        BY <2>2, <4>1, <4>2, <4>3 DEF Worker
    <3> QED
      BY <3>1, <3>2
  <2>3. UNCHANGED <<wpc, wcur>> \/ \E w \in Workers : Worker(w)
    BY DEF Next, Poller, App, vars, Accept, AddSock, PollDrain, PollRearm, PollEvent,
           PollNoEvent, PollTake, PollPush, PollTick, PollTimeout, PollScanEnd,
           TakeHandle, AppSend, AppClose, AppEnableRead, AppRetry, Call
  <2> QED
    BY <2>1, <2>2, <2>3
<1> QED
  BY <1>1, <1>2 DEF InHand, Holding

LEMMA NextAcceptor == IInv /\ [Next]_vars => Acceptor'
<1> SUFFICES ASSUME IInv, [Next]_vars PROVE Acceptor'
  OBVIOUS
<1>0. /\ Acceptor /\ created \in Nat /\ conn \in [Slots -> Conns \cup {0}]
      /\ \A s \in Slots : conn[s] \in Nat
  BY CoreAssumption DEF IInv, TypeOK, Conns
<1> USE DEF slotVars, worldVars, acceptVars
<1>1. CASE Accept
  <2>1. afd' \in Fds /\ created < MaxConns /\ UNCHANGED <<created, conn>>
    BY <1>1 DEF Accept
  <2> QED
    BY <1>0, <2>1 DEF Acceptor
<1>2. CASE AddSock
  <2>1. apc' = "idle" /\ created' = created + 1
        /\ \E s \in FreeList : conn' = [conn EXCEPT ![s] = created + 1]
    BY <1>2 DEF AddSock
  <2>2. ASSUME NEW s \in Slots PROVE conn'[s] <= created'
    <3>1. conn'[s] = created + 1 \/ conn'[s] = conn[s]
      BY <1>0, <2>1
    <3> QED
      BY <1>0, <2>1, <3>1 DEF Acceptor
  <2> QED
    BY <2>1, <2>2 DEF Acceptor
<1>3. ASSUME NEW w \in Workers, WorkFree(w) PROVE Acceptor'
  <2>1. conn' = [conn EXCEPT ![wcur[w]] = 0] /\ UNCHANGED <<created, apc, afd>>
    BY <1>3 DEF WorkFree
  <2>2. ASSUME NEW s \in Slots PROVE conn'[s] <= created
    <3>1. conn'[s] = 0 \/ conn'[s] = conn[s]
      BY <1>0, <2>1
    <3> QED
      BY <1>0, <3>1 DEF Acceptor
  <2> QED
    BY <1>0, <2>1, <2>2 DEF Acceptor
<1>4. CASE UNCHANGED <<apc, afd, created, conn>>
  BY <1>0, <1>4 DEF Acceptor
<1>5. \/ Accept \/ AddSock \/ UNCHANGED <<apc, afd, created, conn>>
      \/ \E w \in Workers : WorkFree(w)
  BY DEF Next, Poller, Worker, App, vars, PollDrain, PollRearm, PollEvent,
         PollNoEvent, PollTake, PollPush, PollTick, PollTimeout, PollScanEnd, WorkTake,
         WorkSend, WorkRecv, WorkAgain, WorkClose, WorkDelete,
         TakeHandle, AppSend, AppClose, AppEnableRead, AppRetry, Call
<1> QED
  BY <1>1, <1>2, <1>3, <1>4, <1>5

\* A slot that is nowhere but new or free is the only kind without a connection.
Busy(s) == s \in listed \/ Queued(s) \/ Worked(s)

LEMMA ConnectedParts ==
  /\ Connected <=> \A s \in Slots : Busy(s) => conn[s] \in Conns /\ sock[s] \in Fds
  /\ Connected' <=> \A s \in Slots : Busy(s)' => conn'[s] \in Conns /\ sock'[s] \in Fds
BY DEF Connected, At, Busy, Worked

LEMMA BusyParts ==
  ASSUME \A s \in Slots : OnePlace(s), NEW s \in Slots
  PROVE Busy(s) <=> ~(s[1] > blocks) /\ s \notin free
BY DEF Busy, OnePlace

LEMMA BusyPartsNext ==
  ASSUME \A s \in Slots : OnePlace(s)', NEW s \in Slots
  PROVE Busy(s)' <=> ~(s[1] > blocks') /\ s \notin free'
BY DEF Busy, OnePlace

LEMMA NextConnected == IInv /\ [Next]_vars => Connected'
<1> SUFFICES ASSUME IInv, [Next]_vars PROVE Connected'
  OBVIOUS
<1>0. /\ TypeOK /\ Connected /\ Acceptor
      /\ \A s \in Slots : OnePlace(s) /\ OnePlace(s)'
  BY NextOwnership, OwnershipParts DEF IInv
<1>1. ASSUME NEW s \in Slots PROVE /\ Busy(s) <=> ~(s[1] > blocks) /\ s \notin free
                                   /\ Busy(s)' <=> ~(s[1] > blocks') /\ s \notin free'
  BY <1>0, BusyParts, BusyPartsNext
<1>2. CASE UNCHANGED <<conn, sock, blocks, free>>
  BY <1>0, <1>1, <1>2, ConnectedParts
<1>3. CASE AddSock
  <2>1. PICK x \in FreeList :
          /\ free' = FreeList \ {x}
          /\ sock' = [sock EXCEPT ![x] = afd]
          /\ conn' = [conn EXCEPT ![x] = created + 1]
    BY <1>3 DEF AddSock
  <2>2. afd \in Fds /\ created + 1 \in Conns
    BY <1>0, <1>3, CoreAssumption DEF AddSock, Acceptor, Conns, TypeOK
  <2>3. ASSUME NEW s \in Slots, Busy(s)', s # x PROVE Busy(s)
    <3>1. CASE free = {}
      <4>1. blocks' = blocks + 1 /\ FreeList = {blocks + 1} \X (1..BlockSz)
        BY <1>3, <3>1 DEF AddSock, Allocate, FreeList
      <4>2. s \in FreeList <=> s[1] = blocks + 1
        BY <4>1 DEF Slots
      <4>3. blocks \in Nat /\ s[1] \in Nat
        BY <1>0, CoreAssumption DEF TypeOK, Slots
      <4> QED
        BY <1>1, <2>1, <2>3, <3>1, <4>1, <4>2, <4>3
    <3>2. CASE free # {}
      <4>1. blocks' = blocks /\ FreeList = free
        BY <1>3, <3>2 DEF AddSock, Allocate, FreeList
      <4> QED
        BY <1>1, <2>1, <2>3, <4>1
    <3> QED
      BY <3>1, <3>2
  <2>4. ASSUME NEW s \in Slots, Busy(s)' PROVE conn'[s] \in Conns /\ sock'[s] \in Fds
    <3>1. CASE s = x
      BY <1>0, <2>1, <2>2, <3>1 DEF TypeOK
    <3>2. CASE s # x
      <4>1. Busy(s) /\ conn'[s] = conn[s] /\ sock'[s] = sock[s]
        BY <1>0, <2>1, <2>3, <2>4, <3>2 DEF TypeOK
      <4> QED
        BY <1>0, <4>1, ConnectedParts
    <3> QED
      BY <3>1, <3>2
  <2> QED
    BY <2>4, ConnectedParts
<1>4. ASSUME NEW w \in Workers, WorkFree(w) PROVE Connected'
  <2>1. /\ free' = free \cup {wcur[w]} /\ UNCHANGED blocks
        /\ sock' = [sock EXCEPT ![wcur[w]] = 0]
        /\ conn' = [conn EXCEPT ![wcur[w]] = 0]
    BY <1>4 DEF WorkFree
  <2>2. ASSUME NEW s \in Slots, Busy(s)' PROVE conn'[s] \in Conns /\ sock'[s] \in Fds
    <3>1. Busy(s) /\ s # wcur[w]
      BY <1>1, <2>1, <2>2
    <3>2. conn'[s] = conn[s] /\ sock'[s] = sock[s]
      BY <1>0, <2>1, <3>1, SMTT(30) DEF TypeOK
    <3> QED
      BY <1>0, <3>1, <3>2, ConnectedParts
  <2> QED
    BY <2>2, ConnectedParts
<1>5. \/ AddSock \/ UNCHANGED <<conn, sock, blocks, free>>
      \/ \E w \in Workers : WorkFree(w)
  BY DEF Next, Poller, Worker, App, vars, Accept, PollDrain, PollRearm, PollEvent,
         PollNoEvent, PollTake, PollPush, PollTick, PollTimeout, PollScanEnd, WorkTake,
         WorkSend, WorkRecv, WorkAgain, WorkClose, WorkDelete,
         TakeHandle, AppSend, AppClose, AppEnableRead, AppRetry, Call, slotVars
<1> QED
  BY <1>2, <1>3, <1>4, <1>5

------------------------------------------------------------------------------
\* The inductive invariant holds in every state the core reaches.
THEOREM Invariance == Spec => []IInv
<1>1. IInv /\ [Next]_vars => IInv'
  BY NextType, NextOwnership, NextPollFlag, NextInHand, NextConnected, NextAcceptor DEF IInv
<1> QED
  BY InitIInv, <1>1, PTL DEF Spec

\* Every variable of the core keeps its type.
THEOREM TypeCorrect == Spec => []TypeOK
BY Invariance, PTL DEF IInv

\* Every slot is in exactly one place, once, for any number of slots, workers
\* and handles, with or without hang ups.
THEOREM OwnershipHolds == Spec => []Ownership
BY Invariance, PTL DEF IInv

------------------------------------------------------------------------------
(* Events.  While no peer hangs up, only a slot of the select list has     *)
(* anything armed, and the slot the poller has fetched stays in the list   *)
(* until the poller takes it out.                                          *)

Polled ==
  /\ \A s \in Slots : armed[s] \ {"HUP"} # {} => s \in listed
  /\ ppc = "take" => pcur \in listed /\ armed[pcur] \ {"HUP"} = {}

LEMMA InitPolled == Init => Polled
BY DEF Init, Polled

LEMMA NextPolled == ~HangUps /\ IInv /\ Polled /\ [Next]_vars => Polled'
<1> SUFFICES ASSUME ~HangUps, IInv, Polled, [Next]_vars PROVE Polled'
  OBVIOUS
<1>0. /\ armed \in [Slots -> SUBSET Events] /\ InHand /\ PollFlag
      /\ \A s \in Slots : OnePlace(s)
  BY OwnershipParts DEF IInv, TypeOK
<1> USE DEF slotVars, listVars, pollVars, Polled
<1>1. CASE UNCHANGED <<armed, listed>> /\ (ppc' = "take" => ppc = "take" /\ UNCHANGED pcur)
  BY <1>1
<1>2. CASE AddSock
  <2>1. PICK x \in FreeList : /\ listed' = listed \cup {x}
                              /\ armed' = [armed EXCEPT ![x] = Events]
    BY <1>2 DEF AddSock, ToSelect
  <2>2. UNCHANGED <<ppc, pcur>>
    BY <1>2 DEF AddSock
  <2>3. x \notin listed
    <3>1. CASE free = {}
      <4>1. x \in Slots /\ x[1] > blocks
        <5>1. x \in {blocks + 1} \X (1..BlockSz) /\ blocks + 1 \in 1..Blocks
          BY <1>2, <3>1, CoreAssumption DEF FreeList, AddSock, Allocate, IInv, TypeOK
        <5>2. x[1] = blocks + 1 /\ blocks \in Nat /\ x \in Slots
          BY <5>1, CoreAssumption DEF Slots, IInv, TypeOK
        <5> QED
          BY <5>2
      <4> QED
        BY <1>0, <4>1 DEF OnePlace
    <3>2. CASE free # {}
      BY <1>0, <3>2 DEF FreeList, OnePlace, IInv, TypeOK
    <3> QED
      BY <3>1, <3>2
  <2> QED
    BY <1>0, <2>1, <2>2, <2>3
<1>3. CASE PollRearm
  <2>1. /\ pcur \in Slots /\ ppc' = "drain" /\ UNCHANGED listed
        /\ armed' = IF "POLL" \in stat[pcur] THEN [armed EXCEPT ![pcur] = {"OUT", "HUP"}]
                    ELSE armed
    BY <1>0, <1>3 DEF PollRearm, InHand
  <2> QED
    BY <1>0, <2>1 DEF PollFlag
<1>4. ASSUME NEW s \in Slots, PollEvent(s) PROVE Polled'
  <2>1. armed[s] \ {"HUP"} # {}
    <3>1. Reportable(s) = armed[s] \ {"HUP"}
      BY DEF Reportable
    <3>2. PICK ev \in (SUBSET Reportable(s)) \ {{}} : TRUE
      BY <1>4 DEF PollEvent
    <3> QED
      BY <3>1, <3>2
  <2>2. armed' = [armed EXCEPT ![s] = {}] /\ pcur' = s /\ UNCHANGED listed
    BY <1>4 DEF PollEvent
  <2> QED
    BY <1>0, <2>1, <2>2
<1>5. CASE PollTake
  <2>1. /\ listed' = listed \ {pcur} /\ ppc' = "push" /\ ppc = "take" /\ UNCHANGED armed
    BY <1>5 DEF PollTake, FromSelect
  <2> QED
    BY <2>1
<1>6. ASSUME NEW s \in Slots, PollTimeout(s) PROVE Polled'
  <2>1. /\ listed' = listed \ {s} /\ ppc' = "scan" /\ armed' = [armed EXCEPT ![s] = {"HUP"}]
    BY <1>6 DEF PollTimeout, FromSelect
  <2> QED
    BY <1>0, <2>1
<1>7. ASSUME NEW w \in Workers, WorkAgain(w) PROVE Polled'
  <2>1. wcur[w] \in Slots /\ Works(w, wcur[w])
    BY <1>0, <1>7 DEF WorkAgain, InHand, Works
  <2>2. /\ listed' = listed \cup {wcur[w]} /\ UNCHANGED <<ppc, pcur>>
        /\ \A s \in Slots \ {wcur[w]} : armed'[s] = armed[s]
    BY <1>0, <1>7 DEF WorkAgain, ToSelect
  <2>3. wcur[w] \notin listed
    BY <1>0, <2>1 DEF OnePlace, Worked
  <2>4. ppc = "take" => pcur \in Slots
    BY <1>0 DEF InHand
  <2> QED
    BY <2>2, <2>3, <2>4
<1>8. ASSUME NEW w \in Workers, WorkClose(w) PROVE Polled'
  <2>1. armed' = [armed EXCEPT ![wcur[w]] = {}] /\ UNCHANGED <<listed, ppc, pcur>>
    BY <1>8 DEF WorkClose
  <2> QED
    BY <1>0, <2>1 DEF InHand
<1>9. \/ UNCHANGED <<armed, listed>> /\ (ppc' = "take" => ppc = "take" /\ UNCHANGED pcur)
      \/ AddSock \/ PollRearm \/ PollTake \/ \E s \in Slots : PollEvent(s) \/ PollTimeout(s)
      \/ \E w \in Workers : WorkAgain(w) \/ WorkClose(w)
  BY DEF Next, Poller, Worker, App, vars, Accept, PollDrain, PollNoEvent, PollPush, PollTick,
         PollScanEnd, WorkTake, WorkSend, WorkRecv, WorkFree, WorkDelete,
         TakeHandle, AppSend, AppClose, AppEnableRead, AppRetry, Call
<1> QED
  BY <1>1, <1>2, <1>3, <1>4, <1>5, <1>6, <1>7, <1>8, <1>9

\* While no peer hangs up, what epoll is armed for is in the select list.
THEOREM PolledInvariance == ASSUME ~HangUps PROVE Spec => []Polled
<1>1. IInv /\ Polled /\ [Next]_vars => Polled'
  BY NextPolled
<1> QED
  BY InitPolled, <1>1, Invariance, PTL DEF Spec

\* While no peer hangs up, epoll reports only slots of the select list.
THEOREM EventsHold == ASSUME ~HangUps PROVE Spec => []EventsOnlyPolled
<1>1. IInv /\ Polled => EventsOnlyPolled
  BY DEF IInv, Polled, PollFlag, Connected, At, EventsOnlyPolled, Reportable, Live, Conns
<1> QED
  BY <1>1, Invariance, PolledInvariance, PTL

\* ... and the slot the poller fetched is polled: it never waits for AIFOP_POLL.
THEOREM FetchedHolds == ASSUME ~HangUps PROVE Spec => []FetchedIsPolled
<1>1. IInv /\ Polled => FetchedIsPolled
  BY DEF IInv, Polled, PollFlag, InHand, FetchedIsPolled
<1> QED
  BY <1>1, Invariance, PolledInvariance, PTL

------------------------------------------------------------------------------
(* The core implements the life of a slot (StormSlots).                    *)

Working(s) == \E w \in Workers : wcur[w] = s /\ wpc[w] \in {"send", "recv", "again"}
Closing(s) == \E w \in Workers : wcur[w] = s /\ wpc[w] \in {"close", "del"}
Unused(s) == s[1] > blocks \/ s \in free

\* The places of a slot decide its state.
LEMMA StateOf ==
  ASSUME NEW s \in Slots, OnePlace(s)
  PROVE SlotState[s] = IF s \in listed THEN "polled"
                       ELSE IF Working(s) THEN "working"
                       ELSE IF Closing(s) THEN "closing"
                       ELSE IF Unused(s) THEN "free" ELSE "queued"
<1>1. Worked(s) <=> Working(s) \/ Closing(s)
  BY DEF Worked, Works, Working, Closing
<1>2. SlotState[s] = IF s \in listed THEN "polled"
                     ELSE IF Queued(s) THEN "queued"
                     ELSE IF Working(s) THEN "working"
                     ELSE IF Closing(s) THEN "closing" ELSE "free"
  BY DEF SlotState, Working, Closing
<1> QED
  BY <1>1, <1>2 DEF OnePlace, Unused

LEMMA StateOfNext ==
  ASSUME NEW s \in Slots, OnePlace(s)'
  PROVE SlotState'[s] = IF s \in listed' THEN "polled"
                        ELSE IF Working(s)' THEN "working"
                        ELSE IF Closing(s)' THEN "closing"
                        ELSE IF Unused(s)' THEN "free" ELSE "queued"
<1>1. Worked(s)' <=> Working(s)' \/ Closing(s)'
  BY DEF Worked, Works, Working, Closing
<1>2. SlotState'[s] = IF s \in listed' THEN "polled"
                      ELSE IF Queued(s)' THEN "queued"
                      ELSE IF Working(s)' THEN "working"
                      ELSE IF Closing(s)' THEN "closing" ELSE "free"
  BY DEF SlotState, Working, Closing
<1> QED
  BY <1>1, <1>2 DEF OnePlace, Unused

\* One slot goes from one state to another and the others stay.
LEMMA MoveOne ==
  ASSUME NEW x \in Slots, NEW from, NEW to, SlotState[x] = from, SlotState'[x] = to,
         \A s \in Slots \ {x} : SlotState'[s] = SlotState[s]
  PROVE Life!Move(x, from, to)
<1>1. SlotState = [s \in Slots |-> SlotState[s]] /\ SlotState' = [s \in Slots |-> SlotState'[s]]
  BY DEF SlotState
<1>2. SlotState' = [SlotState EXCEPT ![x] = to]
  BY <1>1
<1> QED
  BY <1>2 DEF Life!Move

LEMMA StayAll ==
  ASSUME \A s \in Slots : SlotState'[s] = SlotState[s]
  PROVE UNCHANGED SlotState
<1>1. SlotState = [s \in Slots |-> SlotState[s]] /\ SlotState' = [s \in Slots |-> SlotState'[s]]
  BY DEF SlotState
<1> QED
  BY <1>1

IsWorking(l) == l \in {"send", "recv", "again"}
IsClosing(l) == l \in {"close", "del"}

\* The other workers' hands.
WorkingBut(w, s) == \E v \in Workers \ {w} : wcur[v] = s /\ IsWorking(wpc[v])
ClosingBut(w, s) == \E v \in Workers \ {w} : wcur[v] = s /\ IsClosing(wpc[v])

\* What a worker's step does to its slot and to no other.
LEMMA HandsOf ==
  ASSUME TypeOK, NEW w \in Workers, NEW l, NEW x,
         GotoW(w, l), wcur' = [wcur EXCEPT ![w] = x], NEW s \in Slots
  PROVE /\ Working(s) <=> (wcur[w] = s /\ IsWorking(wpc[w])) \/ WorkingBut(w, s)
        /\ Closing(s) <=> (wcur[w] = s /\ IsClosing(wpc[w])) \/ ClosingBut(w, s)
        /\ Working(s)' <=> (s = x /\ IsWorking(l)) \/ WorkingBut(w, s)
        /\ Closing(s)' <=> (s = x /\ IsClosing(l)) \/ ClosingBut(w, s)
<1>1. wcur'[w] = x /\ wpc'[w] = l
  BY DEF GotoW, TypeOK
<1>2. \A v \in Workers \ {w} : wcur'[v] = wcur[v] /\ wpc'[v] = wpc[v]
  BY DEF GotoW, TypeOK
<1> QED
  BY <1>1, <1>2 DEF Working, Closing, WorkingBut, ClosingBut, IsWorking, IsClosing

\* Every step of the core is a step of the life of one slot, or none.
LEMMA NextRefines ==
  ASSUME IInv, IInv', [Next]_vars PROVE [Life!Next]_(Life!vars)
<1>0. /\ TypeOK /\ Acceptor /\ InHand /\ Connected /\ OneWorker
      /\ \A s \in Slots : OnePlace(s) /\ OnePlace(s)'
  BY OwnershipParts DEF IInv
<1> DEFINE St(s) == IF s \in listed THEN "polled"
                    ELSE IF Working(s) THEN "working"
                    ELSE IF Closing(s) THEN "closing"
                    ELSE IF Unused(s) THEN "free" ELSE "queued"
           Sn(s) == IF s \in listed' THEN "polled"
                    ELSE IF Working(s)' THEN "working"
                    ELSE IF Closing(s)' THEN "closing"
                    ELSE IF Unused(s)' THEN "free" ELSE "queued"
<1>1. \A s \in Slots : SlotState[s] = St(s) /\ SlotState'[s] = Sn(s)
  BY <1>0, StateOf, StateOfNext
<1>2. \A s \in Slots : Worked(s) <=> Working(s) \/ Closing(s)
  BY DEF Worked, Works, Working, Closing
<1>3. \A s \in Slots :
        /\ Worked(s) => s \notin listed /\ ~Unused(s)
        /\ Queued(s) => s \notin listed /\ ~Unused(s) /\ ~Worked(s)
        /\ s \in listed => ~Unused(s) /\ ~Worked(s)
        /\ Unused(s) => s \notin listed /\ ~Worked(s)
  BY <1>0 DEF OnePlace, Unused
<1> HIDE DEF St, Sn
<1> USE DEF slotVars, listVars, worldVars, pollVars, workVars, acceptVars, appVars
<1>a. CASE AddSock
  <2>1. PICK x \in FreeList :
          /\ free' = FreeList \ {x} /\ listed' = listed \cup {x}
          /\ conn' = [conn EXCEPT ![x] = created + 1]
    BY <1>a DEF AddSock, ToSelect
  <2>2. \A s \in Slots : (Working(s)' <=> Working(s)) /\ (Closing(s)' <=> Closing(s))
    BY <1>a DEF AddSock, Working, Closing
  <2>3. x \in Slots /\ Unused(x) /\ \A s \in Slots \ {x} : Unused(s)' <=> Unused(s)
    <3>1. CASE free = {}
      <4>1. blocks' = blocks + 1 /\ FreeList = {blocks + 1} \X (1..BlockSz)
            /\ blocks + 1 \in 1..Blocks /\ blocks \in Nat
        BY <1>0, <1>a, <3>1, CoreAssumption DEF AddSock, Allocate, FreeList, TypeOK
      <4>2. \A s \in Slots : (s \in FreeList <=> s[1] = blocks + 1) /\ s[1] \in Nat
        BY <4>1 DEF Slots
      <4>3. x \in Slots /\ x[1] = blocks + 1
        BY <4>1, <2>1 DEF Slots
      <4> QED
        BY <2>1, <3>1, <4>1, <4>2, <4>3 DEF Unused
    <3>2. CASE free # {}
      <4>1. blocks' = blocks /\ FreeList = free
        BY <1>a, <3>2 DEF AddSock, Allocate, FreeList
      <4> QED
        BY <1>0, <2>1, <4>1 DEF Unused, TypeOK
    <3> QED
      BY <3>1, <3>2
  <2>4. St(x) = "free" /\ Sn(x) = "polled" /\ \A s \in Slots \ {x} : Sn(s) = St(s)
    <3>1. St(x) = "free"
      BY <1>2, <1>3, <2>1, <2>2, <2>3 DEF St
    <3>2. Sn(x) = "polled"
      BY <1>2, <1>3, <2>1, <2>2, <2>3 DEF Sn
    <3>3. \A s \in Slots \ {x} : Sn(s) = St(s)
      BY <1>2, <1>3, <2>1, <2>2, <2>3 DEF St, Sn
    <3> QED
      BY <3>1, <3>2, <3>3
  <2>5. Life!Move(x, "free", "polled")
    BY <1>1, <2>3, <2>4, MoveOne
  <2>6. created + 1 \in Conns /\ \A o \in Slots : conn[o] # created + 1
    BY <1>0, <1>a, CoreAssumption DEF AddSock, Acceptor, TypeOK, Conns
  <2> QED
    BY <2>1, <2>3, <2>5, <2>6 DEF Life!Next, Life!Open
<1>b. ASSUME NEW x \in Slots, x \in listed, listed' = listed \ {x},
             UNCHANGED <<conn, blocks, free, wpc, wcur>>
      PROVE Life!Next
  <2>1. \A s \in Slots : /\ Working(s)' <=> Working(s)
                         /\ Closing(s)' <=> Closing(s)
                         /\ Unused(s)' <=> Unused(s)
    BY <1>b DEF Working, Closing, Unused
  <2>2. St(x) = "polled" /\ Sn(x) = "queued" /\ \A s \in Slots \ {x} : Sn(s) = St(s)
    <3>1. St(x) = "polled"
      BY <1>2, <1>3, <1>b, <2>1 DEF St
    <3>2. Sn(x) = "queued"
      BY <1>2, <1>3, <1>b, <2>1 DEF Sn
    <3>3. \A s \in Slots \ {x} : Sn(s) = St(s)
      BY <1>2, <1>3, <1>b, <2>1 DEF St, Sn
    <3> QED
      BY <3>1, <3>2, <3>3
  <2>3. Life!Move(x, "polled", "queued")
    BY <1>1, <2>2, MoveOne
  <2> QED
    BY <1>b, <2>3 DEF Life!Next, Life!Wake
<1>c. ASSUME NEW w \in Workers, WorkTake(w) PROVE Life!Next
  <2>2. PICK x \in Slots : x = Head(workRing) /\ Queued(x)
    <3>1. workRing \in Seq(Slots) /\ workRing # <<>>
      BY <1>0, <1>c DEF WorkTake, TypeOK
    <3>2. 1 \in 1..Len(workRing) /\ Head(workRing) = workRing[1] /\ Head(workRing) \in Slots
      BY <3>1, TailAt
    <3> QED
      BY <3>2 DEF Queued
  <2>1. /\ GotoW(w, "send") /\ wcur' = [wcur EXCEPT ![w] = x] /\ wpc[w] = "idle"
        /\ UNCHANGED <<conn, blocks, free, listed>>
    BY <1>c, <2>2 DEF WorkTake
  <2>3. \A s \in Slots : /\ Working(s)' <=> s = x \/ Working(s)
                         /\ Closing(s)' <=> Closing(s)
                         /\ Unused(s)' <=> Unused(s)
    <3> TAKE s \in Slots
    <3>1. /\ Working(s) <=> (wcur[w] = s /\ IsWorking(wpc[w])) \/ WorkingBut(w, s)
          /\ Closing(s) <=> (wcur[w] = s /\ IsClosing(wpc[w])) \/ ClosingBut(w, s)
          /\ Working(s)' <=> (s = x /\ IsWorking("send")) \/ WorkingBut(w, s)
          /\ Closing(s)' <=> (s = x /\ IsClosing("send")) \/ ClosingBut(w, s)
      BY <1>0, <2>1, HandsOf
    <3>2. Unused(s)' <=> Unused(s)
      BY <2>1 DEF Unused
    <3> QED
      BY <2>1, <3>1, <3>2 DEF IsWorking, IsClosing
  <2>4. St(x) = "queued" /\ Sn(x) = "working" /\ \A s \in Slots \ {x} : Sn(s) = St(s)
    <3>1. St(x) = "queued"
      BY <1>2, <1>3, <2>1, <2>2, <2>3 DEF St
    <3>2. Sn(x) = "working"
      BY <1>2, <1>3, <2>1, <2>2, <2>3 DEF Sn
    <3>3. \A s \in Slots \ {x} : Sn(s) = St(s)
      BY <1>2, <1>3, <2>1, <2>2, <2>3 DEF St, Sn
    <3> QED
      BY <3>1, <3>2, <3>3
  <2>5. Life!Move(x, "queued", "working")
    BY <1>1, <2>2, <2>4, MoveOne
  <2> QED
    BY <2>1, <2>2, <2>5 DEF Life!Next, Life!Take
<1>d. ASSUME NEW w \in Workers, wpc[w] \in Holding
      PROVE /\ wcur[w] \in Slots /\ Worked(wcur[w])
            /\ \A v \in Workers \ {w} : wpc[v] \in Holding => wcur[v] # wcur[w]
  BY <1>0, <1>d DEF InHand, Works, Worked, OneWorker, Holding
<1>e. ASSUME NEW w \in Workers, WorkRecv(w) PROVE [Life!Next]_(Life!vars)
  <2>x. wpc[w] = "recv"
    BY <1>e DEF WorkRecv
  <2>2. PICK x \in Slots : /\ wcur[w] = x /\ Worked(x)
                           /\ \A v \in Workers \ {w} : wpc[v] \in Holding => wcur[v] # x
    BY <1>d, <2>x DEF Holding
  <2>1. /\ wpc[w] = "recv" /\ wcur' = [wcur EXCEPT ![w] = x]
        /\ UNCHANGED <<conn, blocks, free, listed>>
    BY <1>0, <1>e, <2>2 DEF WorkRecv, TypeOK
  <2>3. GotoW(w, "close") \/ GotoW(w, "again")
    BY <1>e DEF WorkRecv
  <2>4. CASE GotoW(w, "close")
    <3>1. \A s \in Slots : /\ Working(s)' <=> Working(s) /\ s # x
                           /\ Closing(s)' <=> s = x \/ Closing(s)
                           /\ Unused(s)' <=> Unused(s)
      <4> TAKE s \in Slots
      <4>1. /\ Working(s) <=> (wcur[w] = s /\ IsWorking(wpc[w])) \/ WorkingBut(w, s)
            /\ Closing(s) <=> (wcur[w] = s /\ IsClosing(wpc[w])) \/ ClosingBut(w, s)
            /\ Working(s)' <=> (s = x /\ IsWorking("close")) \/ WorkingBut(w, s)
            /\ Closing(s)' <=> (s = x /\ IsClosing("close")) \/ ClosingBut(w, s)
        BY <1>0, <2>1, <2>2, <2>4, HandsOf
      <4>2. Unused(s)' <=> Unused(s)
        BY <2>1 DEF Unused
      <4>3. ~WorkingBut(w, x) /\ ~ClosingBut(w, x)
        BY <2>2 DEF WorkingBut, ClosingBut, IsWorking, IsClosing, Holding
      <4> QED
        BY <2>1, <2>2, <2>4, <4>1, <4>2, <4>3 DEF IsWorking, IsClosing
    <3>2. Working(x)
      BY <2>1, <2>2 DEF Working
    <3>3. St(x) = "working" /\ Sn(x) = "closing" /\ \A s \in Slots \ {x} : Sn(s) = St(s)
      <4>1. St(x) = "working"
        BY <1>2, <1>3, <2>1, <2>2, <3>1, <3>2 DEF St
      <4>2. Sn(x) = "closing"
        BY <1>2, <1>3, <2>1, <2>2, <3>1, <3>2 DEF Sn
      <4>3. \A s \in Slots \ {x} : Sn(s) = St(s)
        BY <1>2, <1>3, <2>1, <2>2, <3>1, <3>2 DEF St, Sn
      <4> QED
        BY <4>1, <4>2, <4>3
    <3>4. Life!Move(x, "working", "closing")
      BY <1>1, <2>2, <3>3, MoveOne
    <3> QED
      BY <2>1, <2>2, <3>4 DEF Life!Next, Life!Close
  <2>5. CASE GotoW(w, "again")
    <3>1. \A s \in Slots : /\ Working(s)' <=> Working(s)
                           /\ Closing(s)' <=> Closing(s)
                           /\ Unused(s)' <=> Unused(s)
      <4> TAKE s \in Slots
      <4>1. /\ Working(s) <=> (wcur[w] = s /\ IsWorking(wpc[w])) \/ WorkingBut(w, s)
            /\ Closing(s) <=> (wcur[w] = s /\ IsClosing(wpc[w])) \/ ClosingBut(w, s)
            /\ Working(s)' <=> (s = x /\ IsWorking("again")) \/ WorkingBut(w, s)
            /\ Closing(s)' <=> (s = x /\ IsClosing("again")) \/ ClosingBut(w, s)
        BY <1>0, <2>1, <2>5, <2>2, HandsOf
      <4>2. Unused(s)' <=> Unused(s)
        BY <2>1 DEF Unused
      <4> QED
        BY <2>1, <2>5, <2>2, <4>1, <4>2 DEF IsWorking, IsClosing
    <3>2. \A s \in Slots : Sn(s) = St(s)
      BY <2>1, <3>1 DEF St, Sn
    <3> QED
      BY <1>1, <2>1, <3>2, StayAll DEF Life!vars
  <2> QED
    BY <2>3, <2>4, <2>5
<1>f. ASSUME NEW w \in Workers, WorkAgain(w) PROVE Life!Next
  <2>x. wpc[w] = "again"
    BY <1>f DEF WorkAgain
  <2>2. PICK x \in Slots : /\ wcur[w] = x /\ Worked(x)
                           /\ \A v \in Workers \ {w} : wpc[v] \in Holding => wcur[v] # x
    BY <1>d, <2>x DEF Holding
  <2>1. /\ wpc[w] = "again" /\ wcur' = [wcur EXCEPT ![w] = NoSlot] /\ GotoW(w, "idle")
        /\ listed' = listed \cup {x} /\ UNCHANGED <<conn, blocks, free>>
    BY <1>f, <2>2 DEF WorkAgain, ToSelect
  <2>3. \A s \in Slots : /\ Working(s)' <=> Working(s) /\ s # x
                         /\ Closing(s)' <=> Closing(s)
                         /\ Unused(s)' <=> Unused(s)
    <3> TAKE s \in Slots
    <3>1. /\ Working(s) <=> (wcur[w] = s /\ IsWorking(wpc[w])) \/ WorkingBut(w, s)
          /\ Closing(s) <=> (wcur[w] = s /\ IsClosing(wpc[w])) \/ ClosingBut(w, s)
          /\ Working(s)' <=> (s = NoSlot /\ IsWorking("idle")) \/ WorkingBut(w, s)
          /\ Closing(s)' <=> (s = NoSlot /\ IsClosing("idle")) \/ ClosingBut(w, s)
      BY <1>0, <2>1, <2>2, HandsOf
    <3>2. Unused(s)' <=> Unused(s)
      BY <2>1 DEF Unused
    <3>3. ~WorkingBut(w, x) /\ ~ClosingBut(w, x)
      BY <2>2 DEF WorkingBut, ClosingBut, IsWorking, IsClosing, Holding
    <3>4. s # NoSlot
      BY DEF Slots, NoSlot
    <3> QED
      BY <2>1, <2>2, <3>1, <3>2, <3>3, <3>4 DEF IsWorking, IsClosing
  <2>4. Working(x)
    BY <2>1, <2>2 DEF Working
  <2>5. St(x) = "working" /\ Sn(x) = "polled" /\ \A s \in Slots \ {x} : Sn(s) = St(s)
    <3>1. St(x) = "working"
      BY <1>2, <1>3, <2>1, <2>2, <2>3, <2>4 DEF St
    <3>2. Sn(x) = "polled"
      BY <1>2, <1>3, <2>1, <2>2, <2>3, <2>4 DEF Sn
    <3>3. \A s \in Slots \ {x} : Sn(s) = St(s)
      BY <1>2, <1>3, <2>1, <2>2, <2>3, <2>4 DEF St, Sn
    <3> QED
      BY <3>1, <3>2, <3>3
  <2>6. Life!Move(x, "working", "polled")
    BY <1>1, <2>2, <2>5, MoveOne
  <2> QED
    BY <2>1, <2>2, <2>6 DEF Life!Next, Life!Again
<1>g. ASSUME NEW w \in Workers, WorkFree(w) PROVE Life!Next
  <2>x. wpc[w] = "del"
    BY <1>g DEF WorkFree
  <2>2. PICK x \in Slots : /\ wcur[w] = x /\ Worked(x)
                           /\ \A v \in Workers \ {w} : wpc[v] \in Holding => wcur[v] # x
    BY <1>d, <2>x DEF Holding
  <2>1. /\ wpc[w] = "del" /\ wcur' = [wcur EXCEPT ![w] = NoSlot] /\ GotoW(w, "delete")
        /\ free' = free \cup {x} /\ conn' = [conn EXCEPT ![x] = 0]
        /\ UNCHANGED <<blocks, listed>>
    BY <1>g, <2>2 DEF WorkFree
  <2>3. \A s \in Slots : /\ Working(s)' <=> Working(s)
                         /\ Closing(s)' <=> Closing(s) /\ s # x
                         /\ Unused(s)' <=> Unused(s) \/ s = x
    <3> TAKE s \in Slots
    <3>1. /\ Working(s) <=> (wcur[w] = s /\ IsWorking(wpc[w])) \/ WorkingBut(w, s)
          /\ Closing(s) <=> (wcur[w] = s /\ IsClosing(wpc[w])) \/ ClosingBut(w, s)
          /\ Working(s)' <=> (s = NoSlot /\ IsWorking("delete")) \/ WorkingBut(w, s)
          /\ Closing(s)' <=> (s = NoSlot /\ IsClosing("delete")) \/ ClosingBut(w, s)
      BY <1>0, <2>1, <2>2, HandsOf
    <3>2. Unused(s)' <=> Unused(s) \/ s = x
      BY <2>1 DEF Unused
    <3>3. ~WorkingBut(w, x) /\ ~ClosingBut(w, x)
      BY <2>2 DEF WorkingBut, ClosingBut, IsWorking, IsClosing, Holding
    <3>4. s # NoSlot
      BY DEF Slots, NoSlot
    <3> QED
      BY <2>1, <2>2, <3>1, <3>2, <3>3, <3>4 DEF IsWorking, IsClosing
  <2>4. Closing(x) /\ ~Working(x)
    <3>1. \A v \in Workers \ {w} : wcur[v] = x => wpc[v] \notin {"send", "recv", "again"}
      BY <2>2 DEF Holding
    <3> QED
      BY <2>1, <2>2, <3>1 DEF Closing, Working
  <2>5. St(x) = "closing" /\ Sn(x) = "free" /\ \A s \in Slots \ {x} : Sn(s) = St(s)
    <3>1. St(x) = "closing"
      BY <1>2, <1>3, <2>1, <2>2, <2>3, <2>4 DEF St
    <3>2. Sn(x) = "free"
      BY <1>2, <1>3, <2>1, <2>2, <2>3, <2>4 DEF Sn
    <3>3. \A s \in Slots \ {x} : Sn(s) = St(s)
      BY <1>2, <1>3, <2>1, <2>2, <2>3, <2>4 DEF St, Sn
    <3> QED
      BY <3>1, <3>2, <3>3
  <2>6. Life!Move(x, "closing", "free")
    BY <1>1, <2>2, <2>5, MoveOne
  <2> QED
    BY <2>1, <2>2, <2>6 DEF Life!Next, Life!Free
<1>h. ASSUME NEW w \in Workers, WorkSend(w) \/ WorkClose(w) \/ WorkDelete(w)
      PROVE UNCHANGED Life!vars
  <2>1. wcur' = [wcur EXCEPT ![w] = wcur[w]] /\ UNCHANGED <<conn, blocks, free, listed>>
    BY <1>0, <1>h DEF WorkSend, WorkClose, WorkDelete, TypeOK
  <2>2. \A s \in Slots : (Working(s)' <=> Working(s)) /\ (Closing(s)' <=> Closing(s))
    <3>1. CASE WorkSend(w)
      <4>1. wpc[w] = "send" /\ GotoW(w, "recv")
        BY <3>1 DEF WorkSend
      <4> QED
        BY <1>0, <2>1, <4>1, HandsOf DEF IsWorking, IsClosing
    <3>2. CASE WorkClose(w)
      <4>1. wpc[w] = "close" /\ GotoW(w, "del")
        BY <3>2 DEF WorkClose
      <4> QED
        BY <1>0, <2>1, <4>1, HandsOf DEF IsWorking, IsClosing
    <3>3. CASE WorkDelete(w)
      <4>1. wpc[w] = "delete" /\ GotoW(w, "idle")
        BY <3>3 DEF WorkDelete
      <4> QED
        BY <1>0, <2>1, <4>1, HandsOf DEF IsWorking, IsClosing
    <3> QED
      BY <1>h, <3>1, <3>2, <3>3
  <2>3. \A s \in Slots : Sn(s) = St(s)
    BY <2>1, <2>2 DEF St, Sn, Unused
  <2> QED
    BY <1>1, <2>1, <2>3, StayAll DEF Life!vars
<1>i. CASE UNCHANGED <<conn, blocks, free, listed, wpc, wcur>>
  <2>1. \A s \in Slots : /\ Working(s)' <=> Working(s)
                         /\ Closing(s)' <=> Closing(s)
                         /\ Unused(s)' <=> Unused(s)
    BY <1>i DEF Working, Closing, Unused
  <2>2. \A s \in Slots : Sn(s) = St(s)
    BY <1>i, <2>1 DEF St, Sn
  <2> QED
    BY <1>1, <1>i, <2>2, StayAll DEF Life!vars
<1>j. CASE PollTake
  <2>1. PICK x \in Slots : x = pcur
    BY <1>j DEF PollTake, IInv, InHand
  <2>2. /\ x \in listed /\ listed' = listed \ {x}
        /\ UNCHANGED <<conn, blocks, free, wpc, wcur>>
    BY <1>j, <2>1 DEF PollTake, FromSelect, IInv, PollFlag
  <2> QED
    BY <1>b, <2>2
<1>k. ASSUME NEW s \in Slots, PollTimeout(s) PROVE Life!Next
  <2>1. /\ s \in listed /\ listed' = listed \ {s}
        /\ UNCHANGED <<conn, blocks, free, wpc, wcur>>
    BY <1>k DEF PollTimeout, FromSelect
  <2> QED
    BY <1>b, <2>1
<1>l. \/ UNCHANGED <<conn, blocks, free, listed, wpc, wcur>>
      \/ AddSock \/ PollTake \/ \E s \in Slots : PollTimeout(s)
      \/ \E w \in Workers : Worker(w)
  BY DEF Next, Poller, App, vars, Accept, PollDrain, PollRearm, PollEvent, PollNoEvent, PollPush,
         PollTick, PollScanEnd, TakeHandle, AppSend, AppClose, AppEnableRead, AppRetry, Call
<1> QED
  BY <1>a, <1>c, <1>e, <1>f, <1>g, <1>h, <1>i, <1>j, <1>k, <1>l DEF Worker

\* The acceptor, poller, workers and handles together only ever do to a slot
\* what StormSlots lets be done to it.
THEOREM SlotsRefinement == Spec => ImplementsSlots
<1>1. Init => Life!Init
  <2> SUFFICES ASSUME Init PROVE Life!Init
    OBVIOUS
  <2>1. \A s \in Slots : s \notin listed /\ ~Queued(s)
    BY DEF Init, Queued
  <2>2. \A w \in Workers : wpc[w] = "idle"
    BY DEF Init
  <2>3. SlotState = [s \in Slots |-> "free"]
    BY <2>1, <2>2 DEF SlotState
  <2> QED
    BY <2>3 DEF Init, Life!Init
<1>2. IInv /\ IInv' /\ [Next]_vars => [Life!Next]_(Life!vars)
  BY NextRefines
<1> QED
  BY <1>1, <1>2, Invariance, PTL DEF Spec, ImplementsSlots, Life!Spec
=============================================================================
