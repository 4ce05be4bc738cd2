------------------------------- MODULE MCData -------------------------------
(***************************************************************************)
(* A TLC instance of what holds data: the array, the allocators and the    *)
(* list of the library, the buffers of a connection, and the rings of the  *)
(* statistics.  Each behaviour is one of one of them, the subject, and the *)
(* others stay as they are initially.  The list comes in two uses: "list", *)
(* where creators free their elements and sweepers those that are marked,  *)
(* and "cgi", where one sweeper does, as in listen-cgi.h.                  *)
(***************************************************************************)
EXTENDS VoidVector, AListAlloc, ThreadString, OList, SendData, SendDataRing,
        StormStream, RecvData, SecondsRing, DebugRing

VARIABLE subject

listVars == <<vectorVars, allocVars, oListVars, arenaVars>>
bufferVars == <<sendVars, ringVars, streamVars, recvVars>>
statVars == <<secondsVars, debugVars>>
vars == <<listVars, bufferVars, statVars, subject>>

Init ==
  /\ subject \in {"vector", "alloc", "arena", "list", "cgi", "send", "ring", "stream",
                  "recv", "seconds", "debug"}
  /\ VectorInit /\ AllocInit /\ OListInit /\ ArenaInit
  /\ SendInit /\ RingInit /\ StreamInit /\ RecvInit
  /\ SecondsInit /\ DebugInit

OfVector == UNCHANGED <<subject, allocVars, oListVars, arenaVars, bufferVars, statVars>>
OfAlloc == UNCHANGED <<subject, vectorVars, oListVars, arenaVars, bufferVars, statVars>>
OfArena == UNCHANGED <<subject, vectorVars, allocVars, oListVars, bufferVars, statVars>>
OfList == UNCHANGED <<subject, vectorVars, allocVars, arenaVars, bufferVars, statVars>>
OfSend == UNCHANGED <<subject, listVars, ringVars, streamVars, recvVars, statVars>>
OfRing == UNCHANGED <<subject, listVars, sendVars, streamVars, recvVars, statVars>>
OfStream == UNCHANGED <<subject, listVars, sendVars, ringVars, recvVars, statVars>>
OfRecv == UNCHANGED <<subject, listVars, sendVars, ringVars, streamVars, statVars>>
OfSeconds == UNCHANGED <<subject, listVars, bufferVars, debugVars>>
OfDebug == UNCHANGED <<subject, listVars, bufferVars, secondsVars>>

Vector == subject = "vector" /\ VectorNext /\ OfVector
Alloc == subject = "alloc" /\ AllocNext /\ OfAlloc
Arena == subject = "arena" /\ ArenaNext /\ OfArena
\* Bound: two elements at a time, at three addresses.
List == subject = "list" /\ OListNext /\ OfList /\ Len(chain') <= 2
Sending == subject = "send" /\ SendNext /\ OfSend
Ring == subject = "ring" /\ RingNext /\ OfRing
Stream == subject = "stream" /\ StreamNext /\ OfStream
Receiving == subject = "recv" /\ RecvNext /\ OfRecv
Counting == subject = "seconds" /\ SecondsNext /\ OfSeconds
Debugging == subject = "debug" /\ DebugNext /\ OfDebug

\* In the list of listen-cgi.h the creators free nothing, and one thread sweeps.
CgiSweeper == CHOOSE w \in Sweepers : TRUE
Cgi ==
  /\ subject = "cgi" /\ OListNext /\ OfList
  /\ \A o \in Owners : doing'[o] # "erase"
  /\ \A w \in Walkers \ {CgiSweeper} : doing'[w] = "out"

\* A ring whose program has ended, a closed connection and statistics at their
\* bounds do nothing more.
Rests ==
  subject \in {"ring", "stream", "recv", "seconds", "debug"} /\ UNCHANGED vars

Next ==
  \/ Vector \/ Alloc \/ Arena \/ List \/ Cgi
  \/ Sending \/ Ring \/ Stream \/ Receiving
  \/ Counting \/ Debugging \/ Rests

\* The sweeping thread goes on, and a lock that is free again and again is got
\* in the end.
Fairness ==
  /\ SF_vars(subject = "cgi" /\ WalkStep(CgiSweeper) /\ OfList)
  /\ SF_vars(subject = "cgi" /\ EraseStep(CgiSweeper) /\ OfList)

Spec == Init /\ [][Next]_vars /\ Fairness

\* How many messages each source makes.
Some == [src \in Sources |-> IF src = "stream" THEN 1 ELSE 2]

DataTypeOK ==
  /\ VectorTypeOK /\ AllocTypeOK /\ OListTypeOK /\ ArenaTypeOK
  /\ SendTypeOK /\ RingTypeOK /\ StreamTypeOK /\ RecvTypeOK
  /\ SecondsTypeOK /\ DebugTypeOK

\* Whatever addresses malloc returns and whichever nodes went away: the search
\* of the array finds the node at or after an address, so that an element goes
\* back to the node it is from; a node lives exactly as long as one of its
\* elements; and the node to take from is there and has an element.  The array
\* is a sorted set.  No two temporary strings of a thread share bytes.
AllocatorSound ==
  /\ VectorIsSet
  /\ [](VectorFindsNext /\ NodeFound /\ NodesUsed /\ TakesFromRoom)
  /\ []ArenaSound

\* What the page of statistics shows and what a debug connection is told, as far
\* as it is right.
StatisticsSound == ShowsSeconds /\ InOrderAtFirst

\* A marked element is freed in the end where creators only mark: although
\* Free() moves the pointer to the next one and the walk passes over that, and
\* although freeing the last one makes the walk start over (listen_cgi::Thread).
CgiMarkedFreed == subject = "cgi" => MarkedFreed
=============================================================================
