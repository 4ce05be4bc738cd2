----------------------------- MODULE VoidVector -----------------------------
(***************************************************************************)
(* Class AListVoidVector (list/AList.h): the sorted array of the nodes of  *)
(* an allocator.  Each method is one step: its owner calls it alone.       *)
(* A node is its address; indices count from 0 as in the code.             *)
(***************************************************************************)
EXTENDS Integers, FiniteSets

CONSTANTS Addresses,   \* what malloc may return
          FirstSz      \* the size of the first array (1024)

ASSUME VectorAssumption == Addresses \subseteq Nat \ {0} /\ FirstSz \in Nat \ {0}

VARIABLES
  cell,   \* the array: cell[0] .. cell[vectorSz - 1], 0 where nothing was stored
  nsz,    \* how many of them hold a node
  vectorSz     \* how many there are

vectorVars == <<cell, nsz, vectorSz>>

VectorInit == cell = [i \in {} |-> 0] /\ nsz = 0 /\ vectorSz = 0

\* A turn of the loop of Add, Get and Del: halve the part that may hold the place.
Halve(w, pos) ==
  LET s == w.sz \div 2 IN
    IF w.sz = 0 THEN w
    ELSE IF cell[w.f + s] < pos THEN [f |-> w.f + s + 1, sz |-> w.sz - s - 1]
    ELSE [f |-> w.f, sz |-> s]

\* Each turn leaves less, so it takes no more than nsz of them.
Search(pos) ==
  LET turn[k \in 0..nsz] ==
        IF k = 0 THEN [f |-> 0, sz |-> nsz] ELSE Halve(turn[k - 1], pos)
  IN turn[nsz].f

\* Get: the first node at or after pos, 0 if there is none.
VectorGet(pos) ==
  LET f == Search(pos) IN IF f < nsz THEN cell[f] ELSE 0

\* Resize: twice the size, when the array is full.
Grown ==
  IF nsz < vectorSz THEN vectorSz ELSE IF vectorSz = 0 THEN FirstSz ELSE 2 * vectorSz

\* Slip: a copy that starts with the first node runs over those behind it.
MovedForward(c, to, from, n) ==
  [i \in DOMAIN c |-> IF to <= i /\ i < to + n THEN c[IF from < to THEN from ELSE i - to + from]
                      ELSE c[i]]

\* memcpy(c + to, c + from, n) of nodes that overlap.  memcpy of the C library promises
\* nothing of them; but in the Linux build, which is the one that is modelled here,
\* define/sys.h makes every memcpy of the program a memmove.  Windows has no such line.
Moved(c, to, from, n) ==
  [i \in DOMAIN c |-> IF to <= i /\ i < to + n THEN c[i - to + from] ELSE c[i]]

Resized == [i \in 0..(Grown - 1) |-> IF i < nsz THEN cell[i] ELSE 0]

\* Add: the nodes from the place on move up by one.
VectorAdd(node) ==
  LET f == Search(node) IN
    /\ vectorSz' = Grown
    /\ nsz' = nsz + 1
    /\ cell' = [Moved(Resized, f + 1, f, nsz - f) EXCEPT ![f] = node]

\* Del: the nodes after the place move down by one.
VectorDel(node) ==
  LET f == Search(node) IN
    /\ nsz' = nsz - 1
    /\ cell' = Moved(cell, f, f + 1, nsz - f - 1)
    /\ UNCHANGED vectorSz

Stored == {cell[i] : i \in 0..(nsz - 1)}

VectorNext ==
  \/ \E node \in Addresses \ Stored : VectorAdd(node)
  \/ \E node \in Stored : VectorDel(node)

VectorSpec == VectorInit /\ [][VectorNext]_vectorVars

------------------------------------------------------------------------------
(* Properties                                                              *)

\* Search and the moves stay inside the array, whatever was added and deleted.
VectorTypeOK ==
  /\ cell \in [0..(vectorSz - 1) -> Addresses \cup {0}]
  /\ nsz \in 0..vectorSz

\* The binary search finds what a search of the whole array would: the least
\* node at or after any address.  GetNode takes the node an element is in from
\* this, so an array out of order would put a freed element into another node.
VectorFindsNext ==
  \A pos \in Addresses \cup {n + 1 : n \in Addresses} :
    LET after == {n \in Stored : n >= pos} IN
      VectorGet(pos) = IF after = {} THEN 0
                       ELSE CHOOSE n \in after : \A k \in after : n <= k

\* The array is a set of nodes: each step adds or removes exactly the one it was
\* called with (AListAlloc takes the array as that set).
VectorIsSet ==
  [][\/ \E node \in Addresses : Stored' = Stored \cup {node} /\ node \notin Stored
     \/ \E node \in Stored : Stored' = Stored \ {node}]_vectorVars
=============================================================================
