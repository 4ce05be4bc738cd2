--------------------------- MODULE StormWorldProofs ---------------------------
(***************************************************************************)
(* What the slots of StormCore own outside of themselves: descriptors,     *)
(* protocol objects, a place in the counters, and the handles that name    *)
(* their connection; and, in the second half, that no connection with      *)
(* something to send is forgotten.  Each fact rests on IInv of             *)
(* StormCoreProofs, which says who has which slot.                         *)
(***************************************************************************)
EXTENDS StormCoreProofs, FiniteSetTheorems

\* A slot that is in nobody's hands names no descriptor and no item.
Blank == \A s \in Slots : s[1] > blocks \/ s \in free => sock[s] = 0 /\ conn[s] = 0

\* A step that touches no descriptor, item or handle, and moves no worker to or
\* from the places where they are between two owners.
Quiet ==
  /\ UNCHANGED <<sock, conn, unkid, blocks, free, open, afd, apc, alive, created,
                 witem, handle>>
  /\ \A w \in Workers :
       /\ wpc'[w] = "del" <=> wpc[w] = "del"
       /\ wpc[w] = "del" => wcur'[w] = wcur[w]
       /\ wpc'[w] = "delete" <=> wpc[w] = "delete"

LEMMA QuietWorker ==
  ASSUME TypeOK, NEW w \in Workers, WorkTake(w) \/ WorkSend(w) \/ WorkRecv(w) \/ WorkAgain(w)
  PROVE Quiet
<1> USE DEF slotVars, listVars, worldVars, pollVars, workVars, acceptVars, appVars
<1>0. wpc \in [Workers -> {"idle", "send", "recv", "again", "close", "del", "delete"}]
      /\ wcur \in [Workers -> Slots \cup {NoSlot}]
  BY DEF TypeOK
<1>1. UNCHANGED <<sock, conn, unkid, blocks, free, open, afd, apc, alive, created,
                  witem, handle>>
  BY DEF WorkTake, WorkSend, WorkRecv, WorkAgain
<1>2. \E l \in {"idle", "send", "recv", "again", "close"} : wpc' = [wpc EXCEPT ![w] = l]
  BY DEF WorkTake, WorkSend, WorkRecv, WorkAgain, GotoW
<1>3. wpc[w] \in {"idle", "send", "recv", "again"}
  BY DEF WorkTake, WorkSend, WorkRecv, WorkAgain
<1>4. \A v \in Workers \ {w} : wcur'[v] = wcur[v]
  BY <1>0 DEF WorkTake, WorkSend, WorkRecv, WorkAgain
<1>5. \A v \in Workers \ {w} : wpc'[v] = wpc[v]
  BY <1>0, <1>2
<1>6. wpc'[w] \in {"idle", "send", "recv", "again", "close"}
  BY <1>0, <1>2
<1> QED
  BY <1>1, <1>3, <1>4, <1>5, <1>6 DEF Quiet

\* What else a step may be.
LEMMA StepKinds ==
  IInv /\ [Next]_vars =>
    \/ Quiet \/ Accept \/ AddSock
    \/ \E w \in Workers : WorkClose(w) \/ WorkFree(w) \/ WorkDelete(w)
    \/ \E a \in Apps, w \in Workers : TakeHandle(a, w)
<1> SUFFICES ASSUME IInv, [Next]_vars
             PROVE \/ Quiet \/ Accept \/ AddSock
                   \/ \E w \in Workers : WorkClose(w) \/ WorkFree(w) \/ WorkDelete(w)
                   \/ \E a \in Apps, w \in Workers : TakeHandle(a, w)
  OBVIOUS
<1> USE DEF slotVars, listVars, worldVars, pollVars, workVars, acceptVars, appVars
<1>1. Poller => Quiet
  BY DEF Poller, PollDrain, PollRearm, PollEvent, PollNoEvent, PollTake, PollPush, PollTick,
         PollTimeout, PollScanEnd, Quiet
<1>2. ASSUME NEW a \in Apps, App(a) PROVE Quiet
  BY <1>2 DEF App, AppSend, AppClose, AppEnableRead, AppRetry, Call, Quiet
<1>3. UNCHANGED vars => Quiet
  BY DEF vars, Quiet
<1>4. \A w \in Workers : WorkTake(w) \/ WorkSend(w) \/ WorkRecv(w) \/ WorkAgain(w) => Quiet
  BY QuietWorker DEF IInv
<1> QED
  BY <1>1, <1>2, <1>3, <1>4 DEF Next, Worker

\* The slot of a worker that closes is not free, and no other worker has it.
LEMMA HandFacts ==
  ASSUME IInv, NEW w \in Workers, wpc[w] \in {"close", "del"}
  PROVE /\ wcur[w] \in Slots /\ sock[wcur[w]] \in Fds /\ conn[wcur[w]] \in Conns
        /\ \A v \in Workers : wcur[v] = wcur[w] /\ wpc[v] \in {"close", "del"} => v = w
<1>1. wcur[w] \in Slots
  BY DEF IInv, InHand
<1>2. Works(w, wcur[w])
  BY DEF Works
<1>3. Busy(wcur[w])
  BY <1>2 DEF Busy, Worked
<1>4. sock[wcur[w]] \in Fds /\ conn[wcur[w]] \in Conns
  BY <1>1, <1>3, ConnectedParts DEF IInv
<1>5. OneWorker
  BY OwnershipParts DEF IInv
<1> QED
  BY <1>1, <1>2, <1>4, <1>5 DEF OneWorker, Works

\* The slot that AddSock takes is one of the unused ones.
LEMMA AddSockSlot ==
  ASSUME IInv, Blank, AddSock
  PROVE \E x \in Slots :
          /\ sock[x] = 0 /\ conn[x] = 0
          /\ sock' = [sock EXCEPT ![x] = afd]
          /\ conn' = [conn EXCEPT ![x] = created + 1]
          /\ unkid' = [unkid EXCEPT ![x] = (@ + 1) % UnkidMod]
          /\ \A s \in Slots : s[1] > blocks' \/ s \in free' =>
               s # x /\ (s[1] > blocks \/ s \in free)
<1> USE DEF IInv
<1>1. PICK x \in FreeList :
        /\ free' = FreeList \ {x}
        /\ sock' = [sock EXCEPT ![x] = afd]
        /\ conn' = [conn EXCEPT ![x] = created + 1]
        /\ unkid' = [unkid EXCEPT ![x] = (@ + 1) % UnkidMod]
  BY DEF AddSock
<1>2. blocks \in Nat /\ blocks <= Blocks /\ free \subseteq Slots /\ \A s \in Slots : s[1] \in Nat
  BY CoreAssumption DEF TypeOK, Slots
<1>3. CASE free = {}
  <2>1. blocks' = blocks + 1 /\ blocks < Blocks /\ FreeList = {blocks + 1} \X (1..BlockSz)
    BY <1>3 DEF AddSock, Allocate, FreeList
  <2>2. \A s \in FreeList : s \in Slots /\ s[1] = blocks + 1
    BY <1>2, <2>1, CoreAssumption DEF Slots
  <2>3. sock[x] = 0 /\ conn[x] = 0
    BY <1>2, <2>2 DEF Blank
  <2>4. \A s \in Slots : s[1] > blocks' \/ s \in free' => s # x /\ (s[1] > blocks \/ s \in free)
    BY <1>1, <1>2, <2>1, <2>2
  <2> QED
    BY <1>1, <2>2, <2>3, <2>4
<1>4. CASE free # {}
  <2>1. blocks' = blocks /\ FreeList = free
    BY <1>4 DEF AddSock, Allocate, FreeList
  <2>2. x \in Slots /\ sock[x] = 0 /\ conn[x] = 0
    BY <1>1, <1>2, <2>1 DEF Blank
  <2>3. ~(x[1] > blocks)
    <3>1. OnePlace(x)
      BY <2>2, OwnershipParts
    <3> QED
      BY <1>1, <2>1, <3>1 DEF OnePlace
  <2>4. \A s \in Slots : s[1] > blocks' \/ s \in free' => s # x /\ (s[1] > blocks \/ s \in free)
    BY <1>1, <2>1, <2>3
  <2> QED
    BY <1>1, <2>2, <2>4
<1> QED
  BY <1>3, <1>4

\* A free slot stays blank until AddSock takes it.
LEMMA NextBlank == IInv /\ Blank /\ [Next]_vars => Blank'
<1> SUFFICES ASSUME IInv, Blank, [Next]_vars PROVE Blank'
  OBVIOUS
<1>0. sock \in [Slots -> Fds \cup {0}] /\ conn \in [Slots -> Conns \cup {0}]
  BY DEF IInv, TypeOK
<1> USE DEF slotVars, listVars, worldVars
<1>1. CASE UNCHANGED <<sock, conn, blocks, free>>
  BY <1>1 DEF Blank
<1>2. CASE AddSock
  BY <1>0, <1>2, AddSockSlot DEF Blank
<1>3. ASSUME NEW w \in Workers, WorkFree(w) PROVE Blank'
  <2>1. /\ free' = free \cup {wcur[w]} /\ UNCHANGED blocks
        /\ sock' = [sock EXCEPT ![wcur[w]] = 0]
        /\ conn' = [conn EXCEPT ![wcur[w]] = 0]
    BY <1>3 DEF WorkFree
  <2> QED
    BY <1>0, <2>1 DEF Blank
<1>4. \/ UNCHANGED <<sock, conn, blocks, free>> \/ AddSock \/ \E w \in Workers : WorkFree(w)
  BY StepKinds DEF Quiet, Accept, WorkClose, WorkDelete, TakeHandle
<1> QED
  BY <1>1, <1>2, <1>3, <1>4

------------------------------------------------------------------------------
(* Descriptors                                                             *)

\* DescriptorsOwned, told for one descriptor at a time, and strengthened: the
\* descriptor in the acceptor's hand may be a number that a slot still names,
\* but only a slot whose descriptor is closed.
Owned ==
  /\ apc = "idle" => afd = 0
  /\ \A f \in Fds : f \in open <=> f = afd \/ \E s \in Slots : sock[s] = f /\ ~HalfClosed(s)
  /\ \A s, o \in Slots : sock[s] # 0 /\ sock[s] = sock[o] /\ s # o =>
       HalfClosed(s) \/ HalfClosed(o)
  /\ afd # 0 => \A s \in Slots : sock[s] = afd => HalfClosed(s)

\* Closing a descriptor makes its slot half closed, and no other.
LEMMA CloseHalves ==
  ASSUME IInv, NEW w \in Workers, WorkClose(w)
  PROVE \A s \in Slots : HalfClosed(s)' <=> HalfClosed(s) \/ s = wcur[w]
<1>0. wpc \in [Workers -> {"idle", "send", "recv", "again", "close", "del", "delete"}]
  BY DEF IInv, TypeOK
<1>1. wpc[w] = "close" /\ wpc' = [wpc EXCEPT ![w] = "del"] /\ wcur' = wcur
  BY DEF WorkClose, GotoW
<1> QED
  BY <1>0, <1>1 DEF HalfClosed

\* Freeing a slot leaves every other slot as it was.
LEMMA FreeHalves ==
  ASSUME IInv, NEW w \in Workers, WorkFree(w)
  PROVE \A s \in Slots \ {wcur[w]} : HalfClosed(s)' <=> HalfClosed(s)
<1>0. /\ wpc \in [Workers -> {"idle", "send", "recv", "again", "close", "del", "delete"}]
      /\ wcur \in [Workers -> Slots \cup {NoSlot}]
  BY DEF IInv, TypeOK
<1>1. /\ wpc[w] = "del" /\ wpc' = [wpc EXCEPT ![w] = "delete"]
      /\ wcur' = [wcur EXCEPT ![w] = NoSlot]
  BY DEF WorkFree, GotoW
<1>2. \A v \in Workers \ {w} : wpc'[v] = wpc[v] /\ wcur'[v] = wcur[v]
  BY <1>0, <1>1
<1>3. wpc'[w] = "delete"
  BY <1>0, <1>1
<1> QED
  BY <1>1, <1>2, <1>3 DEF HalfClosed

\* No step breaks it.
LEMMA NextOwned == IInv /\ Blank /\ Owned /\ [Next]_vars => Owned'
<1> SUFFICES ASSUME IInv, Blank, Owned, [Next]_vars PROVE Owned'
  OBVIOUS
<1> USE DEF slotVars, listVars, worldVars, workVars, acceptVars
<1>0. /\ sock \in [Slots -> Fds \cup {0}] /\ open \subseteq Fds
      /\ wpc \in [Workers -> {"idle", "send", "recv", "again", "close", "del", "delete"}]
      /\ 0 \notin Fds
  BY CoreAssumption DEF IInv, TypeOK
<1>1. ASSUME UNCHANGED <<sock, open, apc, afd>>,
             \A s \in Slots : HalfClosed(s)' <=> HalfClosed(s)
      PROVE Owned'
  BY <1>1 DEF Owned
<1>2. CASE Quiet
  <2>1. \A s \in Slots : HalfClosed(s)' <=> HalfClosed(s)
    BY <1>2 DEF Quiet, HalfClosed
  <2> QED
    BY <1>1, <1>2, <2>1 DEF Quiet
<1>3. CASE Accept
  <2>1. PICK f \in Fds \ open : open' = open \cup {f} /\ afd' = f
    BY <1>3 DEF Accept
  <2>2. apc = "idle" /\ apc' = "add" /\ UNCHANGED sock
    BY <1>3 DEF Accept
  <2>3. \A s \in Slots : HalfClosed(s)' <=> HalfClosed(s)
    BY <1>3 DEF Accept, HalfClosed
  <2>4. \A s \in Slots : sock[s] = f => HalfClosed(s)
    BY <2>1 DEF Owned
  <2>5. afd = 0
    BY <2>2 DEF Owned
  <2>6. \A g \in Fds : g \in open' <=> g = afd' \/ \E s \in Slots : sock'[s] = g /\ ~HalfClosed(s)'
    BY <1>0, <2>1, <2>2, <2>3, <2>5 DEF Owned
  <2> QED
    BY <2>1, <2>2, <2>3, <2>4, <2>6 DEF Owned
<1>4. CASE AddSock
  <2>1. PICK x \in Slots : sock[x] = 0 /\ sock' = [sock EXCEPT ![x] = afd]
    BY <1>4, AddSockSlot
  <2>2. apc = "add" /\ apc' = "idle" /\ afd' = 0 /\ UNCHANGED <<open, wpc, wcur>>
    BY <1>4 DEF AddSock
  <2>3. \A s \in Slots : HalfClosed(s)' <=> HalfClosed(s)
    BY <2>2 DEF HalfClosed
  <2>4. ~HalfClosed(x)
    BY <1>0, <2>1, HandFacts DEF HalfClosed
  <2>5. afd \in Fds
    BY <2>2 DEF IInv, Acceptor
  <2>6. sock'[x] = afd /\ \A s \in Slots \ {x} : sock'[s] = sock[s]
    BY <1>0, <2>1
  <2>7. \A g \in Fds : g \in open' <=> g = afd' \/ \E s \in Slots : sock'[s] = g /\ ~HalfClosed(s)'
    BY <1>0, <2>1, <2>2, <2>3, <2>4, <2>5, <2>6 DEF Owned
  <2>8. \A s, o \in Slots : sock'[s] # 0 /\ sock'[s] = sock'[o] /\ s # o =>
          HalfClosed(s)' \/ HalfClosed(o)'
    BY <1>0, <2>3, <2>5, <2>6 DEF Owned
  <2> QED
    BY <2>2, <2>7, <2>8 DEF Owned
<1>5. ASSUME NEW w \in Workers, WorkClose(w) PROVE Owned'
  <2> DEFINE c == wcur[w]
  <2>1. wpc[w] = "close" /\ open' = open \ {sock[c]} /\ UNCHANGED <<sock, apc, afd>>
    BY <1>5 DEF WorkClose
  <2>2. c \in Slots /\ sock[c] \in Fds
    BY <2>1, HandFacts
  <2>3. ~HalfClosed(c)
    BY <2>1, HandFacts DEF HalfClosed
  <2>4. \A s \in Slots : HalfClosed(s)' <=> HalfClosed(s) \/ s = c
    BY <1>5, CloseHalves
  <2> HIDE DEF c
  <2>5. afd # sock[c] /\ \A s \in Slots : sock[s] = sock[c] /\ s # c => HalfClosed(s)
    BY <1>0, <2>2, <2>3 DEF Owned
  <2>6. \A g \in Fds : g \in open' <=> g = afd' \/ \E s \in Slots : sock'[s] = g /\ ~HalfClosed(s)'
    BY <1>0, <2>1, <2>2, <2>4, <2>5 DEF Owned
  <2> QED
    BY <2>1, <2>4, <2>6 DEF Owned
<1>6. ASSUME NEW w \in Workers, WorkFree(w) PROVE Owned'
  <2> DEFINE c == wcur[w]
  <2>1. wpc[w] = "del" /\ sock' = [sock EXCEPT ![c] = 0] /\ UNCHANGED <<open, apc, afd>>
    BY <1>6 DEF WorkFree
  <2>2. c \in Slots
    BY <2>1, HandFacts
  <2>3. HalfClosed(c)
    BY <2>1 DEF HalfClosed
  <2>4. \A s \in Slots \ {c} : HalfClosed(s)' <=> HalfClosed(s)
    BY <1>6, FreeHalves
  <2>5. sock'[c] = 0 /\ \A s \in Slots \ {c} : sock'[s] = sock[s]
    BY <1>0, <2>1, <2>2
  <2> HIDE DEF c
  <2>6. \A g \in Fds : g \in open' <=> g = afd' \/ \E s \in Slots : sock'[s] = g /\ ~HalfClosed(s)'
    BY <1>0, <2>1, <2>2, <2>3, <2>4, <2>5 DEF Owned
  <2>7. \A s, o \in Slots : sock'[s] # 0 /\ sock'[s] = sock'[o] /\ s # o =>
          HalfClosed(s)' \/ HalfClosed(o)'
    BY <2>4, <2>5 DEF Owned
  <2>8. afd' # 0 => \A s \in Slots : sock'[s] = afd' => HalfClosed(s)'
    BY <2>1, <2>4, <2>5 DEF Owned
  <2> QED
    BY <2>1, <2>6, <2>7, <2>8 DEF Owned
<1>7. ASSUME NEW w \in Workers, WorkDelete(w) PROVE Owned'
  <2>1. wpc[w] = "delete" /\ wpc' = [wpc EXCEPT ![w] = "idle"]
        /\ UNCHANGED <<sock, open, apc, afd, wcur>>
    BY <1>7 DEF WorkDelete, GotoW
  <2>2. \A s \in Slots : HalfClosed(s)' <=> HalfClosed(s)
    BY <1>0, <2>1 DEF HalfClosed
  <2> QED
    BY <1>1, <2>1, <2>2
<1>8. ASSUME NEW a \in Apps, NEW w \in Workers, TakeHandle(a, w) PROVE Owned'
  <2>1. UNCHANGED <<sock, open, apc, afd, wpc, wcur>>
    BY <1>8 DEF TakeHandle
  <2>2. \A s \in Slots : HalfClosed(s)' <=> HalfClosed(s)
    BY <2>1 DEF HalfClosed
  <2> QED
    BY <1>1, <2>1, <2>2
<1> QED
  BY <1>2, <1>3, <1>4, <1>5, <1>6, <1>7, <1>8, StepKinds

\* Owned says what DescriptorsOwned says, of sets.
LEMMA OwnedImplies == IInv /\ Owned => DescriptorsOwned
<1> SUFFICES ASSUME IInv, Owned PROVE DescriptorsOwned
  OBVIOUS
<1>1. /\ sock \in [Slots -> Fds \cup {0}] /\ open \subseteq Fds /\ afd \in Fds \cup {0}
      /\ 0 \notin Fds
  BY CoreAssumption DEF IInv, TypeOK
<1>2. ASSUME NEW f \in open
      PROVE f \in ({sock[s] : s \in {x \in Slots : ~HalfClosed(x)}} \cup {afd}) \ {0}
  BY <1>1, <1>2 DEF Owned
<1>3. ASSUME NEW f \in ({sock[s] : s \in {x \in Slots : ~HalfClosed(x)}} \cup {afd}) \ {0}
      PROVE f \in open
  BY <1>1, <1>3 DEF Owned
<1>4. open = ({sock[s] : s \in {x \in Slots : ~HalfClosed(x)}} \cup {afd}) \ {0}
  BY <1>2, <1>3
<1> QED
  BY <1>4 DEF DescriptorsOwned, Owned

\* For any number of slots, workers and descriptors the open descriptors are
\* those of the live slots and of the acceptor, and none has two owners
\* (StormAddSock, DelSocketData).
THEOREM DescriptorsHold == Spec => []DescriptorsOwned
<1>1. Init => Blank /\ Owned
  BY CoreAssumption DEF Init, Blank, Owned, HalfClosed
<1>2. IInv /\ IInv' /\ Blank /\ Owned /\ [Next]_vars => Blank' /\ Owned'
  BY NextBlank, NextOwned
<1>3. IInv /\ Owned => DescriptorsOwned
  BY OwnedImplies
<1> QED
  BY <1>1, <1>2, <1>3, Invariance, PTL DEF Spec

------------------------------------------------------------------------------
(* Protocol objects                                                        *)

\* ItemsAlive, told for one item at a time, and strengthened: no item is in two
\* slots, to be deleted twice, or in a slot and to be deleted.
Kept ==
  /\ \A c \in Conns : c \in alive <=>
       (\E s \in Slots : conn[s] = c) \/ \E w \in Workers : witem[w] = c
  /\ \A s, o \in Slots : conn[s] # 0 /\ conn[s] = conn[o] => s = o
  /\ \A w, v \in Workers : witem[w] # 0 /\ witem[w] = witem[v] => w = v
  /\ \A w \in Workers : witem[w] # 0 =>
       /\ wpc[w] = "delete" /\ witem[w] <= created
       /\ \A s \in Slots : conn[s] # witem[w]

\* The new connection's item is one that nobody has yet.
LEMMA NewItem ==
  ASSUME IInv, Kept, AddSock
  PROVE /\ created + 1 \in Conns
        /\ \A s \in Slots : conn[s] # created + 1
        /\ \A w \in Workers : witem[w] # created + 1
<1>1. /\ created \in 0..MaxConns /\ conn \in [Slots -> Conns \cup {0}]
      /\ witem \in [Workers -> Conns \cup {0}]
  BY DEF IInv, TypeOK
<1>2. created < MaxConns
  BY DEF AddSock, IInv, Acceptor
<1>3. \A s \in Slots : conn[s] <= created
  BY DEF IInv, Acceptor
<1>4. \A w \in Workers : witem[w] = 0 \/ witem[w] <= created
  BY DEF Kept
<1> QED
  BY <1>1, <1>2, <1>3, <1>4, CoreAssumption DEF Conns

\* No step breaks it.
LEMMA NextKept == IInv /\ Blank /\ Kept /\ [Next]_vars => Kept'
<1> SUFFICES ASSUME IInv, Blank, Kept, [Next]_vars PROVE Kept'
  OBVIOUS
<1> USE DEF slotVars, listVars, worldVars, workVars, acceptVars
<1>0. /\ conn \in [Slots -> Conns \cup {0}] /\ witem \in [Workers -> Conns \cup {0}]
      /\ alive \subseteq Conns /\ created \in 0..MaxConns
      /\ wpc \in [Workers -> {"idle", "send", "recv", "again", "close", "del", "delete"}]
      /\ 0 \notin Conns
  BY CoreAssumption DEF IInv, TypeOK, Conns
<1>1. ASSUME UNCHANGED <<conn, alive, witem, created>>,
             \A w \in Workers : wpc'[w] = "delete" <=> wpc[w] = "delete"
      PROVE Kept'
  BY <1>1 DEF Kept
<1>2. CASE Quiet
  BY <1>1, <1>2 DEF Quiet
<1>3. CASE Accept
  BY <1>1, <1>3 DEF Accept
<1>4. CASE AddSock
  <2> DEFINE n == created + 1
  <2>1. PICK x \in Slots : conn[x] = 0 /\ conn' = [conn EXCEPT ![x] = n]
    BY <1>4, AddSockSlot
  <2>2. alive' = alive \cup {n} /\ created' = n /\ UNCHANGED <<witem, wpc>>
    BY <1>4 DEF AddSock
  <2>3. n \in Conns /\ (\A s \in Slots : conn[s] # n) /\ \A w \in Workers : witem[w] # n
    BY <1>4, NewItem
  <2>4. \A w \in Workers : witem[w] # 0 => witem[w] <= n
    BY <1>0, CoreAssumption DEF Kept, Conns
  <2>5. conn'[x] = n /\ \A s \in Slots \ {x} : conn'[s] = conn[s]
    BY <1>0, <2>1
  <2> HIDE DEF n
  <2>6. \A c \in Conns : c \in alive' <=>
          (\E s \in Slots : conn'[s] = c) \/ \E w \in Workers : witem'[w] = c
    BY <1>0, <2>1, <2>2, <2>3, <2>5 DEF Kept
  <2>7. \A s, o \in Slots : conn'[s] # 0 /\ conn'[s] = conn'[o] => s = o
    BY <2>3, <2>5 DEF Kept
  <2>8. \A w \in Workers : witem'[w] # 0 =>
          /\ wpc'[w] = "delete" /\ witem'[w] <= created'
          /\ \A s \in Slots : conn'[s] # witem'[w]
    BY <2>2, <2>3, <2>4, <2>5 DEF Kept
  <2>9. \A w, v \in Workers : witem'[w] # 0 /\ witem'[w] = witem'[v] => w = v
    BY <2>2 DEF Kept
  <2> QED
    BY <2>6, <2>7, <2>8, <2>9 DEF Kept
<1>5. ASSUME NEW w \in Workers, WorkClose(w) PROVE Kept'
  <2>1. wpc[w] = "close" /\ wpc' = [wpc EXCEPT ![w] = "del"]
        /\ UNCHANGED <<conn, alive, witem, created>>
    BY <1>5 DEF WorkClose, GotoW
  <2>2. \A v \in Workers : wpc'[v] = "delete" <=> wpc[v] = "delete"
    BY <1>0, <2>1
  <2> QED
    BY <1>1, <2>1, <2>2
<1>6. ASSUME NEW w \in Workers, WorkFree(w) PROVE Kept'
  <2> DEFINE c == wcur[w]
  <2>1. /\ wpc[w] = "del" /\ wpc' = [wpc EXCEPT ![w] = "delete"]
        /\ witem' = [witem EXCEPT ![w] = conn[c]]
        /\ conn' = [conn EXCEPT ![c] = 0] /\ UNCHANGED <<alive, created>>
    BY <1>6 DEF WorkFree, GotoW
  <2>2. c \in Slots /\ conn[c] \in Conns
    BY <2>1, HandFacts
  <2>3. conn[c] <= created
    BY <2>2 DEF IInv, Acceptor
  <2> HIDE DEF c
  <2>4. witem[w] = 0
    BY <2>1 DEF Kept
  <2>5. witem'[w] = conn[c] /\ wpc'[w] = "delete"
        /\ \A v \in Workers \ {w} : witem'[v] = witem[v] /\ wpc'[v] = wpc[v]
    BY <1>0, <2>1
  <2>6. conn'[c] = 0 /\ \A s \in Slots \ {c} : conn'[s] = conn[s]
    BY <1>0, <2>1, <2>2
  <2>7. \A i \in Conns : i \in alive' <=>
          (\E s \in Slots : conn'[s] = i) \/ \E v \in Workers : witem'[v] = i
    BY <1>0, <2>1, <2>2, <2>4, <2>5, <2>6 DEF Kept
  <2>8. \A s, o \in Slots : conn'[s] # 0 /\ conn'[s] = conn'[o] => s = o
    BY <2>6 DEF Kept
  <2>9. \A v, u \in Workers : witem'[v] # 0 /\ witem'[v] = witem'[u] => v = u
    BY <2>2, <2>5 DEF Kept
  <2>10. \A v \in Workers : witem'[v] # 0 =>
           /\ wpc'[v] = "delete" /\ witem'[v] <= created'
           /\ \A s \in Slots : conn'[s] # witem'[v]
    BY <1>0, <2>1, <2>2, <2>3, <2>5, <2>6 DEF Kept
  <2> QED
    BY <2>7, <2>8, <2>9, <2>10 DEF Kept
<1>7. ASSUME NEW w \in Workers, WorkDelete(w) PROVE Kept'
  <2>1. /\ wpc[w] = "delete" /\ wpc' = [wpc EXCEPT ![w] = "idle"]
        /\ alive' = alive \ {witem[w]} /\ witem' = [witem EXCEPT ![w] = 0]
        /\ UNCHANGED <<conn, created>>
    BY <1>7 DEF WorkDelete, GotoW
  <2>2. witem'[w] = 0
        /\ \A v \in Workers \ {w} : witem'[v] = witem[v] /\ wpc'[v] = wpc[v]
    BY <1>0, <2>1
  <2>3. \A i \in Conns : i \in alive' <=>
          (\E s \in Slots : conn'[s] = i) \/ \E v \in Workers : witem'[v] = i
    BY <1>0, <2>1, <2>2 DEF Kept
  <2>4. \A v, u \in Workers : witem'[v] # 0 /\ witem'[v] = witem'[u] => v = u
    BY <2>2 DEF Kept
  <2>5. \A v \in Workers : witem'[v] # 0 =>
          /\ wpc'[v] = "delete" /\ witem'[v] <= created'
          /\ \A s \in Slots : conn'[s] # witem'[v]
    BY <2>1, <2>2 DEF Kept
  <2>6. \A s, o \in Slots : conn'[s] # 0 /\ conn'[s] = conn'[o] => s = o
    BY <2>1 DEF Kept
  <2> QED
    BY <2>3, <2>4, <2>5, <2>6 DEF Kept
<1>8. ASSUME NEW a \in Apps, NEW w \in Workers, TakeHandle(a, w) PROVE Kept'
  BY <1>1, <1>8 DEF TakeHandle
<1> QED
  BY <1>2, <1>3, <1>4, <1>5, <1>6, <1>7, <1>8, StepKinds

\* Kept says what ItemsAlive says, of sets.
LEMMA KeptImplies == IInv /\ Kept => ItemsAlive
<1> SUFFICES ASSUME IInv, Kept PROVE ItemsAlive
  OBVIOUS
<1> DEFINE Had == ({conn[s] : s \in Slots} \cup {witem[w] : w \in Workers}) \ {0}
<1>1. /\ conn \in [Slots -> Conns \cup {0}] /\ witem \in [Workers -> Conns \cup {0}]
      /\ alive \subseteq Conns /\ 0 \notin Conns
  BY CoreAssumption DEF IInv, TypeOK, Conns
<1>2. ASSUME NEW c \in alive PROVE c \in Had
  BY <1>1, <1>2 DEF Kept
<1>3. ASSUME NEW c \in Had PROVE c \in alive
  BY <1>1, <1>3 DEF Kept
<1>4. alive = Had
  BY <1>2, <1>3
<1> QED
  BY <1>4 DEF ItemsAlive

\* For any number of slots, workers and connections an item exists exactly
\* while a slot names it or a worker is about to delete it (StormAddSock,
\* DelSocketData): no call reaches a deleted item, none is lost.
THEOREM ItemsHold == Spec => []ItemsAlive
<1>1. Init => Blank /\ Kept
  BY CoreAssumption DEF Init, Blank, Kept, Conns
<1>2. IInv /\ Blank /\ Kept /\ [Next]_vars => Blank' /\ Kept'
  BY NextBlank, NextKept
<1>3. IInv /\ Kept => ItemsAlive
  BY KeptImplies
<1> QED
  BY <1>1, <1>2, <1>3, Invariance, PTL DEF Spec

------------------------------------------------------------------------------
(* Handles                                                                 *)

\* A handle's unkid is never ahead of its slot's, and while it is the same the
\* slot holds the handle's connection or none.  Below the wrap of unkid.
Named ==
  /\ \A s \in Slots : unkid[s] <= created
  /\ \A a \in Apps : handle[a] # NoHandle =>
       LET h == handle[a] IN
         /\ h.unkid <= unkid[h.slot]
         /\ h.unkid = unkid[h.slot] => conn[h.slot] \in {h.conn, 0}

\* A slot with a descriptor has a connection.
LEMMA SockHasConn == ASSUME IInv, Blank, NEW s \in Slots, conn[s] = 0 PROVE sock[s] = 0
<1>0. 0 \notin Conns
  BY CoreAssumption DEF Conns
<1>1. PICK p \in Places : At(s, p)
  BY DEF IInv, Ownership
<1>2. CASE p \in {"new", "free"}
  BY <1>1, <1>2 DEF At, Blank
<1>3. CASE p \in {"listed", "queued", "worked"}
  BY <1>0, <1>1, <1>3 DEF IInv, Connected
<1> QED
  BY <1>2, <1>3 DEF Places

\* No step breaks it while unkid cannot wrap.
LEMMA NextNamed ==
  ASSUME MaxConns < UnkidMod
  PROVE IInv /\ Blank /\ Named /\ [Next]_vars => Named'
<1> SUFFICES ASSUME IInv, Blank, Named, [Next]_vars PROVE Named'
  OBVIOUS
<1> USE DEF slotVars, listVars, worldVars, workVars, acceptVars, appVars
<1>0. /\ conn \in [Slots -> Conns \cup {0}] /\ unkid \in [Slots -> 0..(UnkidMod - 1)]
      /\ handle \in [Apps -> Handles \cup {NoHandle}] /\ created \in 0..MaxConns
      /\ MaxConns \in Nat /\ UnkidMod \in Nat \ {0}
  BY CoreAssumption DEF IInv, TypeOK
<1>h. \A a \in Apps : handle[a] # NoHandle =>
        handle[a].slot \in Slots /\ handle[a].unkid \in 0..(UnkidMod - 1)
  BY <1>0 DEF Handles
<1>1. CASE UNCHANGED <<conn, unkid, handle, created>>
  BY <1>1 DEF Named
<1>2. CASE AddSock
  <2>1. PICK x \in Slots :
          /\ conn[x] = 0 /\ conn' = [conn EXCEPT ![x] = created + 1]
          /\ unkid' = [unkid EXCEPT ![x] = (@ + 1) % UnkidMod]
    BY <1>2, AddSockSlot
  <2>2. created' = created + 1 /\ UNCHANGED handle /\ created < MaxConns
    BY <1>2 DEF AddSock, IInv, Acceptor
  <2>3. unkid[x] \in Nat /\ unkid[x] <= created
    BY <1>0, <2>1 DEF Named
  <2>4. (unkid[x] + 1) % UnkidMod = unkid[x] + 1
    BY <1>0, <2>2, <2>3
  <2>5. unkid'[x] = unkid[x] + 1 /\ \A s \in Slots \ {x} : unkid'[s] = unkid[s] /\ conn'[s] = conn[s]
    BY <1>0, <2>1, <2>4
  <2>6. \A s \in Slots : unkid'[s] <= created'
    BY <1>0, <2>2, <2>3, <2>5 DEF Named
  <2>7. ASSUME NEW a \in Apps, handle[a] # NoHandle
        PROVE /\ handle[a].unkid <= unkid'[handle[a].slot]
              /\ handle[a].unkid = unkid'[handle[a].slot] =>
                   conn'[handle[a].slot] \in {handle[a].conn, 0}
    <3>1. handle[a].slot \in Slots /\ handle[a].unkid \in Nat
          /\ handle[a].unkid <= unkid[handle[a].slot]
      BY <1>0, <1>h, <2>7 DEF Named
    <3>2. CASE handle[a].slot = x
      BY <2>3, <2>5, <3>1, <3>2
    <3>3. CASE handle[a].slot # x
      BY <2>5, <2>7, <3>1, <3>3 DEF Named
    <3> QED
      BY <3>2, <3>3
  <2> QED
    BY <2>2, <2>6, <2>7 DEF Named
<1>3. ASSUME NEW w \in Workers, WorkFree(w) PROVE Named'
  <2>1. conn' = [conn EXCEPT ![wcur[w]] = 0] /\ UNCHANGED <<unkid, handle, created>>
    BY <1>3 DEF WorkFree
  <2>2. \A s \in Slots : conn'[s] \in {conn[s], 0}
    BY <1>0, <2>1
  <2> QED
    BY <1>h, <2>1, <2>2 DEF Named
<1>4. ASSUME NEW a \in Apps, NEW w \in Workers, TakeHandle(a, w) PROVE Named'
  <2> DEFINE s == wcur[w]
  <2>1. handle' = [handle EXCEPT ![a] = HandleOf(s)] /\ UNCHANGED <<unkid, conn, created>>
    BY <1>4 DEF TakeHandle
  <2>2. s \in Slots
    BY <1>4 DEF TakeHandle, IInv, InHand
  <2>3. handle'[a] = HandleOf(s) /\ \A b \in Apps \ {a} : handle'[b] = handle[b]
    BY <1>0, <2>1
  <2>4. HandleOf(s).slot = s /\ HandleOf(s).unkid = unkid[s] /\ HandleOf(s).conn = conn[s]
    BY DEF HandleOf
  <2>5. unkid[s] \in Nat
    BY <1>0, <2>2
  <2> QED
    BY <2>1, <2>2, <2>3, <2>4, <2>5 DEF Named
<1> QED
  BY <1>1, <1>2, <1>3, <1>4, StepKinds DEF Quiet, Accept, WorkClose, WorkDelete

\* For any number of slots, handles and threads a call through a handle acts on
\* the connection it was set for, as long as fewer connections are accepted
\* than unkid has values (StormSockIs, StormSendData, StormCloseSocket): the
\* number is enough, although slots and descriptors are used again.
THEOREM HandlesHold ==
  ASSUME MaxConns < UnkidMod
  PROVE  Spec => []HandleNamesConnection
<1>1. Init => Blank /\ Named
  BY CoreAssumption DEF Init, Blank, Named
<1>2. IInv /\ Blank /\ Named /\ [Next]_vars => Blank' /\ Named'
  BY NextBlank, NextNamed
<1>3. IInv /\ Blank /\ Named => HandleNamesConnection
  <2> SUFFICES ASSUME IInv, Blank, Named,
                      NEW a \in Apps, handle[a] # NoHandle, Matches(handle[a])
               PROVE conn[handle[a].slot] = handle[a].conn
    BY DEF HandleNamesConnection
  <2>1. handle[a] \in Handles
    BY DEF IInv, TypeOK
  <2>2. handle[a].slot \in Slots /\ handle[a].sock \in Fds
    BY <2>1 DEF Handles
  <2>3. sock[handle[a].slot] # 0 /\ unkid[handle[a].slot] = handle[a].unkid
    BY <2>2, CoreAssumption DEF Matches
  <2>4. conn[handle[a].slot] # 0
    BY <2>2, <2>3, SockHasConn
  <2> QED
    BY <2>3, <2>4 DEF Named
<1> QED
  BY <1>1, <1>2, <1>3, Invariance, PTL DEF Spec

------------------------------------------------------------------------------
(* Counters                                                                *)

LiveSlots == {s \in Slots : Live(s)}

\* CountsAgree, and that what is counted is finite.
Counted ==
  /\ IsFiniteSet(listed) /\ listedCount = Cardinality(listed)
  /\ IsFiniteSet(LiveSlots) /\ count = Cardinality(LiveSlots)

\* A counter that goes up with a new member still counts.
LEMMA CountUp ==
  ASSUME NEW S, NEW x, x \notin S, IsFiniteSet(S), NEW n, n = Cardinality(S)
  PROVE IsFiniteSet(S \cup {x}) /\ n + 1 = Cardinality(S \cup {x})
BY FS_AddElement

\* A counter that goes down with a lost member still counts.
LEMMA CountDown ==
  ASSUME NEW S, NEW x \in S, IsFiniteSet(S), NEW n, n = Cardinality(S)
  PROVE IsFiniteSet(S \ {x}) /\ n - 1 = Cardinality(S \ {x})
BY FS_RemoveElement

\* No step breaks it.
LEMMA NextCounted == IInv /\ Blank /\ Counted /\ [Next]_vars => Counted'
<1> SUFFICES ASSUME IInv, Blank, Counted, [Next]_vars PROVE Counted'
  OBVIOUS
<1> USE DEF slotVars, listVars
<1>0. conn \in [Slots -> Conns \cup {0}] /\ listed \subseteq Slots /\ 0 \notin Conns
      /\ 0 \notin Fds
  BY CoreAssumption DEF IInv, TypeOK, Conns
<1>1. ASSUME UNCHANGED conn PROVE LiveSlots' = LiveSlots
  BY <1>1 DEF LiveSlots, Live
<1>2. CASE UNCHANGED <<conn, listed, listedCount, count>>
  BY <1>1, <1>2 DEF Counted
<1>3. CASE AddSock
  <2>1. PICK x \in FreeList :
          /\ conn' = [conn EXCEPT ![x] = created + 1]
          /\ sock' = [sock EXCEPT ![x] = afd]
          /\ listed' = listed \cup {x} /\ listedCount' = listedCount + 1
    BY <1>3 DEF AddSock, ToSelect
  <2>2. PICK y \in Slots :
          /\ sock[y] = 0 /\ conn[y] = 0 /\ sock' = [sock EXCEPT ![y] = afd]
          /\ conn' = [conn EXCEPT ![y] = created + 1]
    BY <1>3, AddSockSlot
  <2>3. count' = count + 1 /\ created + 1 # 0
    BY <1>3 DEF AddSock, IInv, TypeOK
  <2>4. x = y
    BY <1>0, <2>1, <2>2, <2>3
  <2>5. y \notin listed
    BY <1>0, <2>2, ConnectedParts DEF IInv, Busy
  <2>6. LiveSlots' = LiveSlots \cup {y} /\ y \notin LiveSlots
    BY <1>0, <2>2, <2>3 DEF LiveSlots, Live
  <2> QED
    BY <2>1, <2>3, <2>4, <2>5, <2>6, CountUp DEF Counted
<1>4. CASE PollTake
  <2>1. pcur \in listed /\ listed' = listed \ {pcur} /\ listedCount' = listedCount - 1
        /\ UNCHANGED <<conn, count>>
    BY <1>4 DEF PollTake, FromSelect, IInv, InHand, PollFlag
  <2> QED
    BY <1>1, <2>1, CountDown DEF Counted
<1>5. ASSUME NEW s \in Slots, PollTimeout(s) PROVE Counted'
  <2>1. s \in listed /\ listed' = listed \ {s} /\ listedCount' = listedCount - 1
        /\ UNCHANGED <<conn, count>>
    BY <1>5 DEF PollTimeout, FromSelect
  <2> QED
    BY <1>1, <2>1, CountDown DEF Counted
<1>6. ASSUME NEW w \in Workers, WorkAgain(w) PROVE Counted'
  <2>1. wcur[w] \in Slots /\ Works(w, wcur[w])
    BY <1>6 DEF WorkAgain, IInv, InHand, Works
  <2>2. wcur[w] \notin listed
    BY <2>1, OwnershipParts DEF IInv, OnePlace, Worked
  <2>3. listed' = listed \cup {wcur[w]} /\ listedCount' = listedCount + 1
        /\ UNCHANGED <<conn, count>>
    BY <1>6 DEF WorkAgain, ToSelect
  <2> QED
    BY <1>1, <2>2, <2>3, CountUp DEF Counted
<1>7. ASSUME NEW w \in Workers, WorkFree(w) PROVE Counted'
  <2> DEFINE c == wcur[w]
  <2>1. wpc[w] = "del" /\ conn' = [conn EXCEPT ![c] = 0] /\ count' = count - 1
        /\ UNCHANGED <<listed, listedCount>>
    BY <1>7 DEF WorkFree
  <2>2. c \in Slots /\ conn[c] \in Conns
    BY <2>1, HandFacts
  <2> HIDE DEF c
  <2>3. LiveSlots' = LiveSlots \ {c} /\ c \in LiveSlots
    BY <1>0, <2>1, <2>2, SMTT(30) DEF LiveSlots, Live
  <2> QED
    BY <2>1, <2>3, CountDown DEF Counted
<1>8. [Next]_vars =>
        \/ UNCHANGED <<conn, listed, listedCount, count>> \/ AddSock \/ PollTake
        \/ \E s \in Slots : PollTimeout(s)
        \/ \E w \in Workers : WorkAgain(w) \/ WorkFree(w)
  BY DEF Next, Poller, Worker, App, vars, Accept, PollDrain, PollRearm, PollEvent, PollNoEvent,
         PollPush, PollTick, PollScanEnd, WorkTake, WorkSend, WorkRecv, WorkClose, WorkDelete,
         TakeHandle, AppSend, AppClose, AppEnableRead, AppRetry, Call
<1> QED
  BY <1>2, <1>3, <1>4, <1>5, <1>6, <1>7, <1>8

\* For any number of slots and threads sockets_count and sockets_count_select
\* count the connections and the members of the select list
\* (NewSocketData, DelSocketData, SocketPollToSelect, SocketPollToWork).
THEOREM CountsHold == Spec => []CountsAgree
<1>1. Init => Blank /\ Counted
  <2> SUFFICES ASSUME Init PROVE Blank /\ Counted
    OBVIOUS
  <2>1. LiveSlots = {} /\ listed = {} /\ count = 0 /\ listedCount = 0
    BY DEF Init, LiveSlots, Live
  <2> QED
    BY <2>1, FS_EmptySet DEF Init, Blank, Counted
<1>2. IInv /\ Blank /\ Counted /\ [Next]_vars => Blank' /\ Counted'
  BY NextBlank, NextCounted
<1>3. Counted => CountsAgree
  BY DEF Counted, CountsAgree, LiveSlots
<1> QED
  BY <1>1, <1>2, <1>3, Invariance, PTL DEF Spec

\* What a connection that was added takes is given back once, for any number
\* of slots, connections and threads.
THEOREM ResourcesHold == Spec => []Resources
<1> QED
  BY CountsHold, ItemsHold, DescriptorsHold, PTL DEF Resources

------------------------------------------------------------------------------
(* No polled connection is deaf (NothingForgotten of StormCore), for any   *)
(* number of slots, workers and handles and any size of the rings, while   *)
(* no peer hangs up.                                                       *)
(*                                                                         *)
(* The argument follows wr, the flag that says whether the poller has      *)
(* reported the connection writable.  A worker that puts a slot back arms  *)
(* writability exactly when wr = 0 (epoll_mod_socket), so a slot with      *)
(* bytes waiting, or a close, must never come back with wr = 1: WorkDoSend *)
(* clears wr whenever it leaves bytes, and a close it leaves is carried    *)
(* out in the same pass.                                                   *)


------------------------------------------------------------------------------
(* WorkDo on one connection                                                *)

\* wr cleared, nothing else touched.
LEMMA WrCleared ==
  ASSUME NEW c \in IoStates
  PROVE /\ [c EXCEPT !.wr = 0].wr = 0
        /\ [c EXCEPT !.wr = 0].q = c.q /\ [c EXCEPT !.wr = 0].cl = c.cl
BY DEF IoStates

\* A handler's send clears wr, or nothing was sent and nothing changed.
LEMMA HandlerSendWr ==
  ASSUME NEW c \in IoStates, NEW h, h.send \in {-1, 0, 1}
  PROVE HandlerSend(c, h).wr = 0 \/ HandlerSend(c, h) = c
<1>1. CASE h.send = -1
  BY <1>1 DEF HandlerSend
<1>2. CASE h.send # -1
  <2>1. Queue(c, h.send) \in IoStates
    BY <1>2, QueueType
  <2> QED
    BY <1>2, <2>1, WrCleared DEF HandlerSend
<1> QED
  BY <1>1, <1>2

LEMMA ResumeReadFields ==
  ASSUME NEW c \in IoStates, NEW h
  PROVE ResumeRead(c, h).wr = c.wr /\ ResumeRead(c, h).q = c.q /\ ResumeRead(c, h).cl = c.cl
BY DEF ResumeRead, IoStates

LEMMA StopReadFields ==
  ASSUME NEW c \in IoStates, NEW h
  PROVE StopRead(c, h).wr = c.wr /\ StopRead(c, h).q = c.q /\ StopRead(c, h).cl = c.cl
BY DEF StopRead, IoStates

LEMMA RdClearedFields ==
  ASSUME NEW c \in IoStates
  PROVE /\ [c EXCEPT !.rd = 0].wr = c.wr /\ [c EXCEPT !.rd = 0].q = c.q
        /\ [c EXCEPT !.rd = 0].cl = c.cl
BY DEF IoStates

\* After WorkDoSend the connection is not writable any more, or there was
\* nothing to send, or the socket failed.
LEMMA SendPhaseWr ==
  ASSUME NEW c \in IoStates, NEW o \in SendPhase(c), o.io.wr = 1
  PROVE o.st = 0 \/ (o.st = -1 /\ o.io.q = 0)
<1>0. c.wr \in 0..1 /\ c.q \in 0..QMax
  BY DEF IoStates
<1>1. CASE c.wr = 0
  BY <1>1 DEF SendPhase
<1>2. CASE c.wr # 0 /\ c.q > 0
  <2>1. o \in SendQueued(c)
    BY <1>2 DEF SendPhase
  <2>2. ASSUME NEW k \in 0..c.q,
               o = [io |-> [c EXCEPT !.wr = 0, !.q = k], st |-> 1, close |-> FALSE]
        PROVE FALSE
    <3>1. o.io = [[c EXCEPT !.wr = 0] EXCEPT !.q = k]
      BY <2>2 DEF IoStates
    <3>2. [c EXCEPT !.wr = 0] \in IoStates
      BY FieldTypes
    <3> QED
      BY <3>1, <3>2, WrCleared DEF IoStates
  <2>3. CASE o = [io |-> Closed(c), st |-> 0, close |-> FALSE]
    BY <2>3
  <2>4. \/ \E k \in 0..c.q :
             o = [io |-> [c EXCEPT !.wr = 0, !.q = k], st |-> 1, close |-> FALSE]
        \/ o = [io |-> Closed(c), st |-> 0, close |-> FALSE]
    BY <2>1, Zenon DEF SendQueued
  <2> QED
    BY <2>2, <2>3, <2>4, Zenon
<1>3. CASE c.wr # 0 /\ ~(c.q > 0)
  <2>1. PICK h \in Handlers : o \in HandlerOutcomes(c, h)
    BY <1>3 DEF SendPhase, SendHandler
  <2> DEFINE done == HandlerSend(c, h)
  <2>2. h.send \in {-1, 0, 1}
    BY WorkAssumption DEF HandlerEffects
  <2>3. done \in IoStates /\ (done.wr = 0 \/ done = c)
    BY <2>2, HandlerSendType, HandlerSendWr
  <2> HIDE DEF done
  <2>4. CASE o = [io |-> ResumeRead(done, h), st |-> -1, close |-> h.close]
    <3>1. o.io.wr = done.wr /\ o.io.q = done.q /\ o.st = -1
      BY <2>3, <2>4, ResumeReadFields
    <3> QED
      BY <1>0, <1>3, <2>3, <3>1
  <2>5. ASSUME NEW k \in 0..1,
               o = [io |-> ResumeRead([Queue(done, k) EXCEPT !.wr = 0], h),
                    st |-> 1, close |-> h.close]
        PROVE o.io.wr = 0
    <3>1. Queue(done, k) \in IoStates
      BY <2>3, QueueType
    <3>2. [Queue(done, k) EXCEPT !.wr = 0] \in IoStates /\ [Queue(done, k) EXCEPT !.wr = 0].wr = 0
      BY <3>1, FieldTypes, WrCleared
    <3> DEFINE z == [Queue(done, k) EXCEPT !.wr = 0]
    <3>3. o.io = ResumeRead(z, h)
      BY <2>5
    <3>4. z \in IoStates /\ z.wr = 0
      BY <3>2
    <3> HIDE DEF z
    <3>5. ResumeRead(z, h).wr = z.wr
      BY <3>4, ResumeReadFields
    <3> QED
      BY <3>3, <3>4, <3>5
  <2>6. CASE o = [io |-> ResumeRead(Closed(done), h), st |-> 0, close |-> h.close]
    BY <2>6
  <2>7. \/ o = [io |-> ResumeRead(done, h), st |-> -1, close |-> h.close]
        \/ \E k \in 0..1 : o = [io |-> ResumeRead([Queue(done, k) EXCEPT !.wr = 0], h),
                                st |-> 1, close |-> h.close]
        \/ o = [io |-> ResumeRead(Closed(done), h), st |-> 0, close |-> h.close]
    BY <2>1 DEF HandlerOutcomes, done
  <2> QED
    BY <2>4, <2>5, <2>6, <2>7
<1> QED
  BY <1>1, <1>2, <1>3

\* WorkDoRecv leaves a writable connection's queue alone, or fails.
LEMMA RecvPhaseWr ==
  ASSUME NEW c \in IoStates, NEW o \in RecvPhase(c), o.io.wr = 1
  PROVE o.st = 0 \/ (c.wr = 1 /\ o.io.q = c.q)
<1>1. CASE o = [io |-> c, st |-> -1, close |-> FALSE]
  BY <1>1
<1>2. CASE o \in RecvHandler(c)
  <2>1. PICK h \in Handlers :
          o = [io |-> StopRead([HandlerSend(c, h) EXCEPT !.rd = 0], h), st |-> 1,
               close |-> h.close]
    BY <1>2 DEF RecvHandler
  <2> DEFINE done == HandlerSend(c, h)
  <2>2. h.send \in {-1, 0, 1}
    BY WorkAssumption DEF HandlerEffects
  <2>3. done \in IoStates /\ (done.wr = 0 \/ done = c)
    BY <2>2, HandlerSendType, HandlerSendWr
  <2>4. o.io = StopRead([done EXCEPT !.rd = 0], h)
    BY <2>1
  <2> HIDE DEF done
  <2>5. [done EXCEPT !.rd = 0] \in IoStates
    BY <2>3, FieldTypes
  <2>6. o.io.wr = done.wr /\ o.io.q = done.q
    <3> DEFINE d == [done EXCEPT !.rd = 0]
    <3>1. d.wr = done.wr /\ d.q = done.q
      BY <2>3, RdClearedFields
    <3> HIDE DEF d
    <3>2. d \in IoStates /\ o.io = StopRead(d, h)
      BY <2>4, <2>5 DEF d
    <3> QED
      BY <3>1, <3>2, StopReadFields
  <2> QED
    BY <2>3, <2>6
<1>3. CASE o = [io |-> Closed(c), st |-> 0, close |-> FALSE]
  BY <1>3
<1>4. CASE o = [io |-> [c EXCEPT !.rd = 0], st |-> -1, close |-> FALSE]
  BY <1>4, RdClearedFields
<1>5. \/ o = [io |-> c, st |-> -1, close |-> FALSE]
      \/ o \in RecvHandler(c)
      \/ o = [io |-> Closed(c), st |-> 0, close |-> FALSE]
      \/ o = [io |-> [c EXCEPT !.rd = 0], st |-> -1, close |-> FALSE]
  BY Zenon DEF RecvPhase
<1> QED
  BY <1>1, <1>2, <1>3, <1>4, <1>5

\* A connection that goes back writable has nothing to send and no close to
\* carry out.
LEMMA RecvOutcomesWr ==
  ASSUME NEW c \in IoStates, NEW sent, NEW late, NEW o \in RecvOutcomes(c, sent, late),
         c.wr = 1 => sent.st = 0 \/ (sent.st = -1 /\ c.q = 0),
         ~o.delete, o.io.wr = 1
  PROVE o.io.q = 0 /\ ~o.io.cl
<1>1. PICK got \in RecvPhase(c), t \in TimeoutEffects \cup OnTime : o = Finish(sent, got, t)
  BY DEF RecvOutcomes
<1> DEFINE done == HandlerSend(got.io, t)
           v == Verdict(sent.st, got.st)
<1>2. got.io \in IoStates /\ t.send \in {-1, 0, 1}
  BY RecvPhaseType DEF Outcomes, TimeoutEffects, OnTime
<1>3. done \in IoStates /\ (done.wr = 0 \/ done = got.io)
  BY <1>2, HandlerSendType, HandlerSendWr
<1>4. o.io = (IF sent.close \/ got.close \/ t.close THEN Closed(done) ELSE done)
      /\ o.delete = (v = 1 \/ (v = -1 /\ o.io.cl))
  BY <1>1 DEF Finish
<1> HIDE DEF done
<1>5. Closed(done).wr = done.wr /\ Closed(done).q = done.q
  BY <1>3 DEF Closed, IoStates
<1>6. o.io.wr = done.wr /\ o.io.q = done.q
  BY <1>4, <1>5
<1>7. got.io.wr = 1 /\ done = got.io
  BY <1>3, <1>6
<1>8. v # 1 /\ ~(v = -1 /\ o.io.cl)
  BY <1>4, Zenon
<1>9. sent.st # 0 /\ got.st # 0
  BY <1>8 DEF Verdict
<1>10. c.wr = 1 /\ got.io.q = c.q
  BY <1>7, <1>9, RecvPhaseWr
<1>11. sent.st = -1 /\ c.q = 0
  BY <1>9, <1>10
<1>12. v = -1
  BY <1>9, <1>11 DEF Verdict
<1>13. ~o.io.cl
  BY <1>8, <1>12, Zenon
<1> QED
  BY <1>6, <1>7, <1>10, <1>11, <1>13

------------------------------------------------------------------------------
(* The inductive invariant                                                 *)

Awaits(s) == io[s].q > 0 \/ io[s].cl

\* NothingForgotten, for one slot of the select list.
Sure(s) ==
  \/ ppc = "take" /\ pcur = s
  \/ /\ armed[s] # {}
     /\ Awaits(s) => "OUT" \in armed[s] \/ BeingTold(s)

\* What a worker knows of its writable connection, after each half of WorkDo.
Knows(w) ==
  /\ wpc[w] = "recv" /\ io[wcur[w]].wr = 1 =>
       wphase[w].st = 0 \/ (wphase[w].st = -1 /\ io[wcur[w]].q = 0)
  /\ wpc[w] = "again" /\ io[wcur[w]].wr = 1 => ~Awaits(wcur[w])

Heard == (\A s \in listed : Sure(s)) /\ \A w \in Workers : Knows(w)

\* A step that does not touch a slot of the list keeps it sure.
Untouched(s) ==
  /\ armed'[s] = armed[s] /\ io'[s].q = io[s].q /\ io'[s].cl = io[s].cl
  /\ BeingTold(s) => BeingTold(s)'
  /\ ppc = "take" /\ pcur = s => ppc' = "take" /\ pcur' = s

LEMMA SureStays == ASSUME NEW s, Sure(s), Untouched(s) PROVE Sure(s)'
BY DEF Sure, Untouched, Awaits

\* A step that leaves a worker where it is, and its connection alone or not
\* writable, keeps what the worker knows.
Left(w) ==
  wpc'[w] \in {"recv", "again"} =>
    /\ wpc'[w] = wpc[w] /\ wcur'[w] = wcur[w] /\ wphase'[w] = wphase[w]
    /\ \/ io'[wcur[w]].wr = 0
       \/ /\ io'[wcur[w]].wr = io[wcur[w]].wr /\ io'[wcur[w]].q = io[wcur[w]].q
          /\ io'[wcur[w]].cl = io[wcur[w]].cl

LEMMA KnowsStays == ASSUME NEW w, Knows(w), Left(w) PROVE Knows(w)'
BY DEF Knows, Left, Awaits

\* While the ring, the waiting apps and the poller's hand are left alone, what
\* is being told goes on being told.
LEMMA TellingStays ==
  ASSUME UNCHANGED <<sendRing, upc>>, ppc = "rearm" => ppc' = "rearm" /\ pcur' = pcur
  PROVE \A s : BeingTold(s) => BeingTold(s)'
BY DEF BeingTold

\* A step of none but one worker, on a slot that is in its hands.
LEMMA WorkerStep ==
  ASSUME IInv, NEW w \in Workers, wpc[w] \in {"send", "recv", "again", "close", "del"},
         UNCHANGED <<sendRing, upc, ppc, pcur>>,
         \A s \in Slots \ {wcur[w]} : io'[s] = io[s] /\ armed'[s] = armed[s],
         \A v \in Workers \ {w} :
           wpc'[v] = wpc[v] /\ wcur'[v] = wcur[v] /\ wphase'[v] = wphase[v]
  PROVE /\ wcur[w] \in Slots /\ wcur[w] \notin listed
        /\ \A s \in listed : Untouched(s)
        /\ \A v \in Workers \ {w} : Left(v)
<1>1. wcur[w] \in Slots /\ Works(w, wcur[w])
  BY DEF IInv, InHand, Works
<1>2. wcur[w] \notin listed
  BY <1>1, OwnershipParts DEF IInv, OnePlace, Worked
<1>3. listed \subseteq Slots
  BY DEF IInv, TypeOK
<1>4. \A s : BeingTold(s) => BeingTold(s)'
  BY TellingStays
<1>5. \A s \in listed : Untouched(s)
  BY <1>2, <1>3, <1>4 DEF Untouched
<1>6. ASSUME NEW v \in Workers \ {w}, wpc'[v] \in {"recv", "again"}
      PROVE io'[wcur[v]] = io[wcur[v]]
  <2>1. wcur[v] \in Slots /\ Works(v, wcur[v])
    BY <1>6 DEF IInv, InHand, Works
  <2>2. wcur[v] # wcur[w]
    BY <1>1, <2>1, OwnershipParts DEF IInv, OneWorker
  <2> QED
    BY <2>1, <2>2
<1>7. \A v \in Workers \ {w} : Left(v)
  BY <1>6 DEF Left
<1> QED
  BY <1>1, <1>2, <1>5, <1>7

\* An app's call leaves a connection not writable and the poller told, or as
\* it was.
LEMMA AppStep ==
  ASSUME IInv, NEW a \in Apps, AppSend(a) \/ AppClose(a) \/ AppEnableRead(a),
         NEW s, s = handle[a].slot
  PROVE /\ s \in Slots /\ \A o \in Slots \ {s} : io'[o] = io[o]
        /\ \/ io'[s].wr = 0 /\ BeingTold(s)'
           \/ io'[s].wr = io[s].wr /\ io'[s].q = io[s].q /\ io'[s].cl = io[s].cl
        /\ \A o \in Slots : BeingTold(o) => BeingTold(o)'
<1>0. /\ io \in [Slots -> IoStates] /\ sendRing \in Seq(Slots)
      /\ upc \in [Apps -> Slots \cup {NoSlot}] /\ handle \in [Apps -> Handles \cup {NoHandle}]
  BY DEF IInv, TypeOK
<1>1. Call(a)
  BY DEF AppSend, AppClose, AppEnableRead
<1>2. s \in Slots /\ upc[a] = NoSlot /\ UNCHANGED <<ppc, pcur>>
  BY <1>0, <1>1 DEF Call, Handles, pollVars
<1>3. NoSlot \notin Slots
  BY CoreAssumption DEF NoSlot, Slots
<1>4. io[s] \in IoStates
  BY <1>0, <1>2
<1>5. ASSUME TellPoller(a, s) PROVE BeingTold(s)' /\ \A o \in Slots : BeingTold(o) => BeingTold(o)'
  <2>1. CASE Len(sendRing) < RingCap
    <3>1. sendRing' = Append(sendRing, s) /\ UNCHANGED upc
      BY <1>5, <2>1 DEF TellPoller
    <3>2. Len(sendRing') = Len(sendRing) + 1 /\ sendRing'[Len(sendRing) + 1] = s
          /\ \A i \in 1..Len(sendRing) : sendRing'[i] = sendRing[i]
      BY <1>0, <1>2, <3>1
    <3>3. Len(sendRing) \in Nat
      BY <1>0
    <3>4. BeingTold(s)'
      <4>1. Len(sendRing) + 1 \in 1..Len(sendRing')
        BY <3>2, <3>3
      <4> QED
        BY <3>2, <4>1 DEF BeingTold
    <3>5. ASSUME NEW o \in Slots, BeingTold(o) PROVE BeingTold(o)'
      <4>1. CASE \E i \in 1..Len(sendRing) : sendRing[i] = o
        <5>1. \E i \in 1..Len(sendRing') : sendRing'[i] = o
          BY <3>2, <3>3, <4>1
        <5> QED
          BY <5>1 DEF BeingTold
      <4>2. CASE ~\E i \in 1..Len(sendRing) : sendRing[i] = o
        BY <1>2, <3>1, <3>5, <4>2 DEF BeingTold
      <4> QED
        BY <4>1, <4>2
    <3> QED
      BY <3>4, <3>5
  <2>2. CASE ~(Len(sendRing) < RingCap)
    <3>1. upc' = [upc EXCEPT ![a] = s] /\ UNCHANGED sendRing
      BY <1>5, <2>2 DEF TellPoller
    <3>2. upc'[a] = s /\ \A b \in Apps \ {a} : upc'[b] = upc[b]
      BY <1>0, <3>1
    <3>3. BeingTold(s)'
      BY <3>2 DEF BeingTold
    <3>4. ASSUME NEW o \in Slots, BeingTold(o) PROVE BeingTold(o)'
      <4>1. CASE \E b \in Apps : upc[b] = o
        <5>1. PICK b \in Apps \ {a} : upc[b] = o
          BY <1>2, <1>3, <4>1
        <5> QED
          BY <3>2, <5>1 DEF BeingTold
      <4>2. CASE ~\E b \in Apps : upc[b] = o
        BY <1>2, <3>1, <3>4, <4>2 DEF BeingTold
      <4> QED
        BY <4>1, <4>2
    <3> QED
      BY <3>3, <3>4
  <2> QED
    BY <2>1, <2>2
<1>6. CASE AppSend(a)
  <2>1. CASE UNCHANGED <<io, sendRing, lockBy, upc>>
    BY <1>2, <2>1 DEF BeingTold
  <2>2. CASE io' = [io EXCEPT ![s] = [Queue(@, 1) EXCEPT !.wr = 0]] /\ TellPoller(a, s)
    <3>1. Queue(io[s], 1) \in IoStates
      BY <1>4, QueueType
    <3>2. io'[s] = [Queue(io[s], 1) EXCEPT !.wr = 0] /\ \A o \in Slots \ {s} : io'[o] = io[o]
      BY <1>0, <1>2, <2>2
    <3>3. io'[s].wr = 0
      BY <3>1, <3>2, WrCleared
    <3> QED
      BY <1>2, <1>5, <2>2, <3>2, <3>3
  <2> QED
    BY <1>6, <2>1, <2>2 DEF AppSend
<1>7. CASE AppClose(a)
  <2>1. io' = [io EXCEPT ![s] = [Closed(@) EXCEPT !.wr = 0]] /\ TellPoller(a, s)
    BY <1>7 DEF AppClose
  <2>2. Closed(io[s]) \in IoStates
    BY <1>4, FieldTypes
  <2>3. io'[s] = [Closed(io[s]) EXCEPT !.wr = 0] /\ \A o \in Slots \ {s} : io'[o] = io[o]
    BY <1>0, <1>2, <2>1
  <2>4. io'[s].wr = 0
    BY <2>2, <2>3, WrCleared
  <2> QED
    BY <1>2, <1>5, <2>1, <2>3, <2>4
<1>8. CASE AppEnableRead(a)
  <2>1. io' = [io EXCEPT ![s] = EnableRead(@)] /\ UNCHANGED <<sendRing, lockBy, upc>>
    BY <1>8 DEF AppEnableRead
  <2>2. io'[s] = EnableRead(io[s]) /\ \A o \in Slots \ {s} : io'[o] = io[o]
    BY <1>0, <1>2, <2>1
  <2>3. /\ EnableRead(io[s]).wr = io[s].wr /\ EnableRead(io[s]).q = io[s].q
        /\ EnableRead(io[s]).cl = io[s].cl
    BY <1>4 DEF EnableRead, IoStates
  <2> QED
    BY <1>2, <2>1, <2>2, <2>3 DEF BeingTold
<1> QED
  BY <1>6, <1>7, <1>8

------------------------------------------------------------------------------
(* The poller                                                              *)

\* A step that leaves the workers alone, and their connections, leaves them
\* what they know.
LEMMA WorkersLeft ==
  ASSUME UNCHANGED <<wpc, wcur, wphase>>,
         \A w \in Workers : wpc[w] \in {"recv", "again"} => io'[wcur[w]] = io[wcur[w]]
  PROVE \A w \in Workers : Left(w)
BY DEF Left

\* Who works on a slot keeps it out of the select list.
LEMMA WorkedNotListed ==
  ASSUME IInv, NEW w \in Workers, wpc[w] \in {"recv", "again"}
  PROVE wcur[w] \in Slots \ listed /\ conn[wcur[w]] \in Conns
<1>1. wcur[w] \in Slots /\ Works(w, wcur[w])
  BY DEF IInv, InHand, Works
<1>2. wcur[w] \notin listed
  BY <1>1, OwnershipParts DEF IInv, OnePlace, Worked
<1>3. Busy(wcur[w])
  BY <1>1 DEF Busy, Worked
<1> QED
  BY <1>1, <1>2, <1>3, ConnectedParts DEF IInv

\* The poller drains the ring, arms a connection that has something to send, and
\* takes what epoll reports, without leaving a connection deaf.
LEMMA PollerHeard ==
  ASSUME ~HangUps, IInv, Polled, Heard, Poller PROVE Heard'
<1> USE DEF slotVars, listVars, pollVars, workVars, appVars
<1>0. /\ io \in [Slots -> IoStates] /\ armed \in [Slots -> SUBSET Events] /\ listed \subseteq Slots
      /\ stat \in [Slots -> SUBSET Flags] /\ sendRing \in Seq(Slots)
  BY DEF IInv, TypeOK
<1>1. UNCHANGED <<wpc, wcur, wphase, upc>>
  BY DEF Poller, PollDrain, PollRearm, PollEvent, PollNoEvent, PollTake, PollPush, PollTick,
         PollTimeout, PollScanEnd
<1>2. ASSUME UNCHANGED io PROVE \A w \in Workers : Left(w)
  BY <1>1, <1>2, WorkersLeft
<1>3. CASE PollDrain
  <2>1. UNCHANGED <<io, armed, listed>> /\ ppc = "drain"
    BY <1>3 DEF PollDrain
  <2>2. ASSUME NEW s \in listed, BeingTold(s) PROVE BeingTold(s)'
    <3>1. CASE sendRing = <<>>
      <4>1. UNCHANGED sendRing
        BY <1>3, <3>1 DEF PollDrain
      <4> QED
        BY <1>1, <2>1, <2>2, <4>1, TellingStays
    <3>2. CASE sendRing # <<>>
      <4>1. ppc' = "rearm" /\ pcur' = Head(sendRing) /\ sendRing' = Tail(sendRing)
        BY <1>3, <3>2 DEF PollDrain
      <4>2. CASE \E i \in 1..Len(sendRing) : sendRing[i] = s
        <5>1. PICK i \in 1..Len(sendRing) : sendRing[i] = s
          BY <4>2
        <5>2. CASE i = 1
          BY <1>0, <3>2, <4>1, <5>1, <5>2 DEF BeingTold
        <5>3. CASE i # 1
          <6>1. i - 1 \in 1..Len(sendRing') /\ sendRing'[i - 1] = s
            BY <1>0, <3>2, <4>1, <5>1, <5>3
          <6> QED
            BY <6>1 DEF BeingTold
        <5> QED
          BY <5>2, <5>3
      <4>3. CASE \E a \in Apps : upc[a] = s
        BY <1>1, <4>3 DEF BeingTold
      <4> QED
        BY <2>1, <2>2, <4>2, <4>3 DEF BeingTold
    <3> QED
      BY <3>1, <3>2
  <2>3. \A s \in listed : Untouched(s)
    BY <2>1, <2>2 DEF Untouched
  <2> QED
    BY <1>2, <2>1, <2>3, SureStays, KnowsStays DEF Heard
<1>4. CASE PollRearm
  <2>1. ppc = "rearm" /\ ppc' = "drain" /\ UNCHANGED <<io, listed, stat, sendRing>>
        /\ armed' = IF "POLL" \in stat[pcur] THEN [armed EXCEPT ![pcur] = {"OUT", "HUP"}]
                    ELSE armed
    BY <1>4 DEF PollRearm
  <2>2. pcur \in Slots
    BY <2>1 DEF IInv, InHand
  <2>3. \A s \in listed \ {pcur} : Untouched(s)
    BY <1>0, <1>1, <2>1, <2>2 DEF Untouched, BeingTold
  <2>4. ASSUME pcur \in listed PROVE \A s : s = pcur => Sure(s)'
    <3>1. armed' = [armed EXCEPT ![pcur] = {"OUT", "HUP"}]
      BY <2>1, <2>2, <2>4 DEF IInv, PollFlag
    <3>2. armed'[pcur] = {"OUT", "HUP"}
      BY <1>0, <2>2, <3>1
    <3> QED
      BY <3>2 DEF Sure
  <2> QED
    BY <1>2, <2>1, <2>3, <2>4, SureStays, KnowsStays DEF Heard
<1>5. ASSUME NEW x \in Slots, PollEvent(x) PROVE Heard'
  <2>1. /\ ppc = "epoll" /\ ppc' = "take" /\ pcur' = x /\ UNCHANGED <<listed, sendRing>>
        /\ \A s \in Slots \ {x} : io'[s] = io[s] /\ armed'[s] = armed[s]
    BY <1>0, <1>5 DEF PollEvent
  <2>2. x \in listed
    <3>1. Reportable(x) = armed[x] \ {"HUP"}
      BY DEF Reportable
    <3>2. PICK ev \in (SUBSET Reportable(x)) \ {{}} : TRUE
      BY <1>5 DEF PollEvent
    <3> QED
      BY <3>1, <3>2 DEF Polled
  <2>3. \A s \in listed \ {x} : Untouched(s)
    <3>1. \A s : BeingTold(s) => BeingTold(s)'
      BY <1>1, <2>1, TellingStays
    <3> QED
      BY <1>0, <2>1, <3>1 DEF Untouched
  <2>4. Sure(x)'
    BY <2>1 DEF Sure
  <2>5. \A w \in Workers : wpc[w] \in {"recv", "again"} => io'[wcur[w]] = io[wcur[w]]
    BY <2>1, <2>2, WorkedNotListed
  <2>6. \A w \in Workers : Left(w)
    BY <1>1, <2>5, WorkersLeft
  <2> QED
    BY <2>1, <2>3, <2>4, <2>6, SureStays, KnowsStays DEF Heard
<1>6. CASE PollTake
  <2>1. /\ ppc = "take" /\ listed' = listed \ {pcur} /\ UNCHANGED <<io, armed, sendRing>>
    BY <1>6 DEF PollTake, FromSelect
  <2>2. \A s \in listed' : Untouched(s)
    BY <1>1, <2>1, TellingStays DEF Untouched
  <2> QED
    BY <1>2, <2>1, <2>2, SureStays, KnowsStays DEF Heard
<1>7. ASSUME NEW x \in Slots, PollTimeout(x) PROVE Heard'
  <2>1. /\ ppc = "scan" /\ listed' = listed \ {x} /\ UNCHANGED <<io, sendRing>>
        /\ armed' = [armed EXCEPT ![x] = {"HUP"}]
    BY <1>7 DEF PollTimeout, FromSelect
  <2>2. \A s \in listed' : Untouched(s)
    BY <1>0, <1>1, <2>1, TellingStays DEF Untouched
  <2> QED
    BY <1>2, <2>1, <2>2, SureStays, KnowsStays DEF Heard
<1>8. CASE PollNoEvent \/ PollPush \/ PollTick \/ PollScanEnd
  <2>1. ppc \notin {"take", "rearm"} /\ UNCHANGED <<io, armed, listed, sendRing>>
    BY <1>8 DEF PollNoEvent, PollPush, PollTick, PollScanEnd
  <2>2. \A s \in listed : Untouched(s)
    BY <1>1, <2>1, TellingStays DEF Untouched
  <2> QED
    BY <1>2, <2>1, <2>2, SureStays, KnowsStays DEF Heard
<1> QED
  BY <1>3, <1>4, <1>5, <1>6, <1>7, <1>8 DEF Poller

------------------------------------------------------------------------------
(* The workers                                                             *)

\* A worker puts a slot back only with writability armed, or nothing to send.
LEMMA WorkerHeard ==
  ASSUME IInv, Heard, NEW w \in Workers, Worker(w) PROVE Heard'
<1> USE DEF slotVars, listVars, pollVars, workVars, appVars
<1>0. /\ io \in [Slots -> IoStates] /\ armed \in [Slots -> SUBSET Events] /\ listed \subseteq Slots
      /\ wpc \in [Workers -> {"idle", "send", "recv", "again", "close", "del", "delete"}]
      /\ wcur \in [Workers -> Slots \cup {NoSlot}] /\ wphase \in [Workers -> Phases]
  BY DEF IInv, TypeOK
<1>1. UNCHANGED <<sendRing, upc, ppc, pcur>>
  BY DEF Worker, WorkTake, WorkSend, WorkRecv, WorkAgain, WorkClose, WorkFree, WorkDelete
<1>2. \A v \in Workers \ {w} : wpc'[v] = wpc[v] /\ wcur'[v] = wcur[v] /\ wphase'[v] = wphase[v]
  <2>1. \E l : wpc' = [wpc EXCEPT ![w] = l]
    BY DEF Worker, WorkTake, WorkSend, WorkRecv, WorkAgain, WorkClose, WorkFree, WorkDelete,
           GotoW
  <2>2. wcur' = wcur \/ \E s : wcur' = [wcur EXCEPT ![w] = s]
    BY DEF Worker, WorkTake, WorkSend, WorkRecv, WorkAgain, WorkClose, WorkFree, WorkDelete
  <2>3. wphase' = wphase \/ \E h : wphase' = [wphase EXCEPT ![w] = h]
    BY DEF Worker, WorkTake, WorkSend, WorkRecv, WorkAgain, WorkClose, WorkFree, WorkDelete
  <2> QED
    BY <1>0, <2>1, <2>2, <2>3
<1>3. CASE WorkTake(w) \/ WorkDelete(w)
  <2>1. UNCHANGED <<io, armed, listed>> /\ wpc'[w] \notin {"recv", "again"}
    BY <1>0, <1>3 DEF WorkTake, WorkDelete, GotoW
  <2>2. \A s \in listed : Untouched(s)
    BY <1>1, <2>1, TellingStays DEF Untouched
  <2>3. \A v \in Workers : Left(v)
    BY <1>2, <2>1 DEF Left
  <2> QED
    BY <2>1, <2>2, <2>3, SureStays, KnowsStays DEF Heard
<1>4. CASE WorkSend(w)
  <2>1. PICK o \in SendPhase(io[wcur[w]]) :
          /\ io' = [io EXCEPT ![wcur[w]] = o.io]
          /\ wphase' = [wphase EXCEPT ![w] = [st |-> o.st, close |-> o.close]]
    BY <1>4 DEF WorkSend
  <2>2. wpc[w] = "send" /\ wpc' = [wpc EXCEPT ![w] = "recv"] /\ UNCHANGED <<armed, listed, wcur>>
    BY <1>4 DEF WorkSend, GotoW
  <2>3. \A s \in Slots \ {wcur[w]} : io'[s] = io[s] /\ armed'[s] = armed[s]
    BY <1>0, <2>1, <2>2
  <2>4. /\ wcur[w] \in Slots /\ wcur[w] \notin listed
        /\ (\A s \in listed : Untouched(s)) /\ \A v \in Workers \ {w} : Left(v)
    BY <1>1, <1>2, <2>2, <2>3, WorkerStep
  <2>5. io'[wcur[w]] = o.io /\ wphase'[w] = [st |-> o.st, close |-> o.close] /\ wpc'[w] = "recv"
    BY <1>0, <2>1, <2>2, <2>4
  <2>6. o.io.wr = 1 => o.st = 0 \/ (o.st = -1 /\ o.io.q = 0)
    BY <1>0, <2>4, SendPhaseWr
  <2>7. wphase'[w].st = o.st
    BY <2>5
  <2>8. Knows(w)'
    BY <2>2, <2>5, <2>6, <2>7 DEF Knows
  <2> QED
    BY <2>2, <2>4, <2>8, SureStays, KnowsStays DEF Heard
<1>5. CASE WorkRecv(w)
  <2>1. PICK o \in RecvOutcomes(io[wcur[w]], wphase[w], "TIME" \in stat[wcur[w]]) :
          /\ io' = [io EXCEPT ![wcur[w]] = o.io]
          /\ IF o.delete
               THEN GotoW(w, "close") /\ UNCHANGED stat
               ELSE GotoW(w, "again") /\ stat' = [stat EXCEPT ![wcur[w]] = @ \ {"TIME"}]
    BY <1>5 DEF WorkRecv
  <2>2. wpc[w] = "recv" /\ UNCHANGED <<armed, listed, wcur>>
    BY <1>5 DEF WorkRecv
  <2>3. \A s \in Slots \ {wcur[w]} : io'[s] = io[s] /\ armed'[s] = armed[s]
    BY <1>0, <2>1, <2>2
  <2>4. /\ wcur[w] \in Slots /\ wcur[w] \notin listed
        /\ (\A s \in listed : Untouched(s)) /\ \A v \in Workers \ {w} : Left(v)
    BY <1>1, <1>2, <2>2, <2>3, WorkerStep
  <2>5. io'[wcur[w]] = o.io /\ io[wcur[w]] \in IoStates
    BY <1>0, <2>1, <2>4
  <2>6. Knows(w)'
    <3>1. CASE o.delete
      <4>1. wpc'[w] = "close"
        BY <1>0, <2>1, <3>1 DEF GotoW
      <4> QED
        BY <4>1 DEF Knows
    <3>2. CASE ~o.delete
      <4>1. wpc'[w] = "again"
        BY <1>0, <2>1, <3>2 DEF GotoW
      <4>2. io[wcur[w]].wr = 1 =>
              wphase[w].st = 0 \/ (wphase[w].st = -1 /\ io[wcur[w]].q = 0)
        BY <2>2 DEF Heard, Knows
      <4>3. o.io.wr = 1 => o.io.q = 0 /\ ~o.io.cl
        BY <2>5, <3>2, <4>2, RecvOutcomesWr
      <4> QED
        BY <2>2, <2>5, <4>1, <4>3 DEF Knows, Awaits
    <3> QED
      BY <3>1, <3>2
  <2> QED
    BY <2>2, <2>4, <2>6, SureStays, KnowsStays DEF Heard
<1>6. CASE WorkAgain(w)
  <2> DEFINE c == wcur[w]
  <2>1. /\ wpc[w] = "again" /\ wpc' = [wpc EXCEPT ![w] = "idle"] /\ UNCHANGED io
        /\ listed' = listed \cup {c} /\ armed' = [armed EXCEPT ![c] = Wanted(io[c])]
    BY <1>6 DEF WorkAgain, ToSelect, GotoW
  <2>2. \A s \in Slots \ {c} : io'[s] = io[s] /\ armed'[s] = armed[s]
    BY <1>0, <2>1
  <2>3. c \in Slots /\ c \notin listed
        /\ (\A s \in listed : Untouched(s)) /\ \A v \in Workers \ {w} : Left(v)
    BY <1>1, <1>2, <2>1, <2>2, WorkerStep
  <2>4. io[c].wr \in 0..1 /\ armed'[c] = Wanted(io[c])
    BY <1>0, <2>1, <2>3 DEF IoStates
  <2>5. io[c].wr = 1 => ~Awaits(c)
    BY <2>1 DEF Heard, Knows
  <2>6. "HUP" \in armed'[c] /\ (io[c].wr = 0 => "OUT" \in armed'[c])
    BY <2>4 DEF Wanted
  <2>7. ASSUME NEW s, s = c PROVE Sure(s)'
    BY <2>1, <2>4, <2>5, <2>6, <2>7 DEF Sure, Awaits
  <2>8. Knows(w)'
    <3>1. wpc'[w] = "idle"
      BY <1>0, <2>1
    <3> QED
      BY <3>1 DEF Knows
  <2> QED
    BY <2>1, <2>3, <2>7, <2>8, SureStays, KnowsStays DEF Heard
<1>7. CASE WorkClose(w) \/ WorkFree(w)
  <2>1. /\ wpc[w] \in {"close", "del"} /\ UNCHANGED listed
        /\ wpc'[w] \in {"del", "delete"}
    BY <1>0, <1>7 DEF WorkClose, WorkFree, GotoW
  <2>2. \A s \in Slots \ {wcur[w]} : io'[s] = io[s] /\ armed'[s] = armed[s]
    BY <1>0, <1>7 DEF WorkClose, WorkFree
  <2>3. (\A s \in listed : Untouched(s)) /\ \A v \in Workers \ {w} : Left(v)
    BY <1>1, <1>2, <2>1, <2>2, WorkerStep
  <2>4. Knows(w)'
    BY <2>1 DEF Knows
  <2> QED
    BY <2>1, <2>3, <2>4, SureStays, KnowsStays DEF Heard
<1> QED
  BY <1>3, <1>4, <1>5, <1>6, <1>7 DEF Worker

------------------------------------------------------------------------------
(* The acceptor and the apps                                               *)

\* A new connection has everything armed and nothing to send.
LEMMA AddSockHeard ==
  ASSUME IInv, Blank, Heard, AddSock PROVE Heard'
<1> USE DEF slotVars, listVars, pollVars, workVars, appVars
<1>0. /\ io \in [Slots -> IoStates] /\ armed \in [Slots -> SUBSET Events] /\ listed \subseteq Slots
      /\ conn \in [Slots -> Conns \cup {0}] /\ 0 \notin Conns
  BY CoreAssumption DEF IInv, TypeOK, Conns
<1>1. /\ UNCHANGED <<sendRing, upc, ppc, pcur, wpc, wcur, wphase>>
      /\ ppc \in {"drain", "rearm", "epoll", "take", "push", "tick", "scan"}
  BY DEF AddSock, IInv, TypeOK
<1>2. PICK x \in FreeList :
        /\ conn' = [conn EXCEPT ![x] = created + 1]
        /\ io' = [io EXCEPT ![x] = NewIo] /\ armed' = [armed EXCEPT ![x] = Events]
        /\ listed' = listed \cup {x}
  BY DEF AddSock, ToSelect
<1>3. PICK y \in Slots : conn[y] = 0 /\ conn' = [conn EXCEPT ![y] = created + 1]
  BY AddSockSlot
<1>4. created + 1 # 0
  BY DEF IInv, TypeOK
<1>5. x = y
  BY <1>0, <1>2, <1>3, <1>4
<1>6. /\ io'[x] = NewIo /\ armed'[x] = Events
      /\ \A s \in Slots \ {x} : io'[s] = io[s] /\ armed'[s] = armed[s]
  BY <1>0, <1>2, <1>3, <1>5
<1>7. x \notin listed
  BY <1>0, <1>3, <1>5, ConnectedParts DEF IInv, Busy
<1>8. \A s \in listed : Untouched(s)
  BY <1>0, <1>1, <1>6, <1>7, TellingStays DEF Untouched
<1>9. Sure(x)'
  BY <1>6 DEF Sure, Awaits, NewIo, Events
<1>10. \A w \in Workers : wpc[w] \in {"recv", "again"} => io'[wcur[w]] = io[wcur[w]]
  BY <1>0, <1>3, <1>5, <1>6, WorkedNotListed
<1>11. \A w \in Workers : Left(w)
  BY <1>1, <1>10, WorkersLeft
<1> QED
  BY <1>2, <1>8, <1>9, <1>11, SureStays, KnowsStays DEF Heard

\* What an app queues, or the close it asks for, the poller is told of.
LEMMA AppHeard ==
  ASSUME IInv, Heard, NEW a \in Apps, App(a) PROVE Heard'
<1> USE DEF slotVars, listVars, pollVars, workVars
<1>0. /\ listed \subseteq Slots /\ sendRing \in Seq(Slots)
      /\ upc \in [Apps -> Slots \cup {NoSlot}]
  BY DEF IInv, TypeOK
<1>1. UNCHANGED <<armed, listed, ppc, pcur, wpc, wcur, wphase>>
  BY DEF App, AppSend, AppClose, AppEnableRead, AppRetry, Call
<1>2. CASE AppSend(a) \/ AppClose(a) \/ AppEnableRead(a)
  <2>1. PICK h : h = handle[a].slot
    OBVIOUS
  <2>2. /\ h \in Slots /\ \A o \in Slots \ {h} : io'[o] = io[o]
        /\ \/ io'[h].wr = 0 /\ BeingTold(h)'
           \/ io'[h].wr = io[h].wr /\ io'[h].q = io[h].q /\ io'[h].cl = io[h].cl
        /\ \A o \in Slots : BeingTold(o) => BeingTold(o)'
    BY <1>2, <2>1, AppStep
  <2>3. \A s \in listed \ {h} : Untouched(s)
    BY <1>0, <1>1, <2>2 DEF Untouched
  <2>4. ASSUME h \in listed PROVE Sure(h)'
    <3>1. CASE BeingTold(h)'
      BY <1>1, <2>4, <3>1 DEF Heard, Sure
    <3>2. CASE io'[h].q = io[h].q /\ io'[h].cl = io[h].cl
      <4>1. Untouched(h)
        BY <1>1, <2>2, <3>2 DEF Untouched
      <4> QED
        BY <2>4, <4>1, SureStays DEF Heard
    <3> QED
      BY <2>2, <3>1, <3>2
  <2>5. ASSUME NEW w \in Workers PROVE Left(w)
    <3>1. CASE wpc[w] \notin {"recv", "again"}
      BY <1>1, <3>1 DEF Left
    <3>2. CASE wpc[w] \in {"recv", "again"}
      <4>1. wcur[w] \in Slots
        BY <3>2, WorkedNotListed
      <4> QED
        BY <1>1, <2>2, <4>1 DEF Left
    <3> QED
      BY <3>1, <3>2
  <2> QED
    BY <1>1, <2>3, <2>4, <2>5, SureStays, KnowsStays DEF Heard
<1>3. CASE AppRetry(a)
  <2>1. upc' = [upc EXCEPT ![a] = NoSlot] /\ sendRing' = Append(sendRing, upc[a]) /\ UNCHANGED io
    BY <1>3 DEF AppRetry
  <2>2. upc[a] \in Slots
    BY <1>0, <1>3 DEF AppRetry
  <2>3. /\ Len(sendRing') = Len(sendRing) + 1 /\ sendRing'[Len(sendRing) + 1] = upc[a]
        /\ \A i \in 1..Len(sendRing) : sendRing'[i] = sendRing[i]
        /\ Len(sendRing) \in Nat
    BY <1>0, <2>1, <2>2
  <2>4. \A b \in Apps \ {a} : upc'[b] = upc[b]
    BY <1>0, <2>1
  <2>5. ASSUME NEW s \in listed, BeingTold(s) PROVE BeingTold(s)'
    <3>1. CASE \E i \in 1..Len(sendRing) : sendRing[i] = s
      <4>1. \E i \in 1..Len(sendRing') : sendRing'[i] = s
        BY <2>3, <3>1
      <4> QED
        BY <4>1 DEF BeingTold
    <3>2. CASE upc[a] = s
      <4>1. Len(sendRing) + 1 \in 1..Len(sendRing') /\ sendRing'[Len(sendRing) + 1] = s
        BY <2>3, <3>2
      <4> QED
        BY <4>1 DEF BeingTold
    <3>3. CASE \E b \in Apps \ {a} : upc[b] = s
      BY <2>4, <3>3 DEF BeingTold
    <3>4. CASE ppc = "rearm" /\ pcur = s
      BY <1>1, <3>4 DEF BeingTold
    <3> QED
      BY <2>5, <3>1, <3>2, <3>3, <3>4 DEF BeingTold
  <2>6. \A s \in listed : Untouched(s)
    BY <1>1, <2>1, <2>5 DEF Untouched
  <2>7. \A w \in Workers : Left(w)
    BY <1>1, <2>1, WorkersLeft
  <2> QED
    BY <1>1, <2>6, <2>7, SureStays, KnowsStays DEF Heard
<1> QED
  BY <1>2, <1>3 DEF App

\* No step leaves a connection deaf.
LEMMA NextHeard ==
  ASSUME ~HangUps
  PROVE IInv /\ Polled /\ Blank /\ Heard /\ [Next]_vars => Heard'
<1> SUFFICES ASSUME IInv, Polled, Blank, Heard, [Next]_vars PROVE Heard'
  OBVIOUS
<1>1. ASSUME UNCHANGED <<io, armed, listed, sendRing, upc, ppc, pcur, wpc, wcur, wphase>>
      PROVE Heard'
  <2>1. (\A s \in listed : Untouched(s)) /\ \A w \in Workers : Left(w)
    BY <1>1, TellingStays DEF Untouched, Left
  <2> QED
    BY <1>1, <2>1, SureStays, KnowsStays DEF Heard
<1>2. Accept \/ UNCHANGED vars \/ (\E a \in Apps, w \in Workers : TakeHandle(a, w)) => Heard'
  BY <1>1 DEF Accept, TakeHandle, vars, slotVars, listVars, worldVars, pollVars, workVars, appVars
<1> QED
  BY <1>2, PollerHeard, WorkerHeard, AddSockHeard, AppHeard DEF Next

\* While no peer hangs up, no polled connection with bytes waiting or a close
\* pending is left without writability armed or the poller being told, for any
\* number of slots, workers and handles and any ring sizes (StormSendData and
\* StormCloseSocket against WorkDo and PollSocketAgain).
THEOREM NothingForgottenHolds == ASSUME ~HangUps PROVE Spec => []NothingForgotten
<1>1. Init => Blank /\ Heard
  BY CoreAssumption DEF Init, Blank, Heard, Knows
<1>2. IInv /\ Polled /\ Blank /\ Heard /\ [Next]_vars => Blank' /\ Heard'
  BY NextBlank, NextHeard
<1>3. Heard => NothingForgotten
  BY DEF Heard, NothingForgotten, Sure, Awaits
<1> QED
  BY <1>1, <1>2, <1>3, Invariance, PolledInvariance, PTL DEF Spec
=============================================================================
