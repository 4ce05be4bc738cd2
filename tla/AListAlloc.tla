----------------------------- MODULE AListAlloc -----------------------------
(***************************************************************************)
(* Class AListAllocOList (list/AList.h), the allocator of OList and so of  *)
(* every object of the storm server: elements are handed out of nodes of   *)
(* Els elements, and a node whose elements are all back is freed.  The     *)
(* owner of the list calls it under its lock: a method is one step.        *)
(*                                                                         *)
(* A node is its address and 0 the null pointer; an element of node n is   *)
(* <<n, i>> and lies after n and before the next node.  The sorted array   *)
(* of nodes is the set vec (module VoidVector).                            *)
(***************************************************************************)
EXTENDS Integers, FiniteSets

CONSTANTS Nodes,   \* what malloc may return
          Els      \* elements of a node

ASSUME AllocAssumption == Nodes \subseteq Nat \ {0} /\ Els \in Nat \ {0}

VARIABLES
  vec,          \* the nodes there are
  first, end,   \* _a, _e: the list of nodes
  prev, next,   \*   and its links _p, _n
  af, ef,       \* _af, _ef: the list of nodes to take elements from
  pf, nf,       \*   and its links _pf, _nf
  fel,          \* the elements of a node that are not handed out
  nodeUsed           \* how many elements of a node are

allocVars == <<vec, first, end, prev, next, af, ef, pf, nf, fel, nodeUsed>>

AllocInit ==
  /\ vec = {} /\ first = 0 /\ end = 0 /\ af = 0 /\ ef = 0
  /\ prev = [n \in Nodes |-> 0] /\ next = [n \in Nodes |-> 0]
  /\ pf = [n \in Nodes |-> 0] /\ nf = [n \in Nodes |-> 0]
  /\ fel = [n \in Nodes |-> {}] /\ nodeUsed = [n \in Nodes |-> 0]

\* vec.Get: the first node after the element or the new node, 0 if none is.
NodeAfter(n) ==
  LET after == {k \in vec : k > n} IN
    IF after = {} THEN 0 ELSE CHOOSE k \in after : \A j \in after : k <= j

\* The node of an element that lies in node n.
GetNode(n) == IF NodeAfter(n) = 0 THEN end ELSE prev[NodeAfter(n)]

------------------------------------------------------------------------------
(* The list of nodes                                                       *)

\* OMatrixTemplateAdd, when the new node is the last one.
LinkLast(n) ==
  /\ end' = n
  /\ IF first = 0
     THEN first' = n /\ prev' = [prev EXCEPT ![n] = 0] /\ next' = [next EXCEPT ![n] = 0]
     ELSE /\ first' = first
          /\ prev' = [prev EXCEPT ![n] = end]
          /\ next' = [next EXCEPT ![n] = 0, ![end] = n]

\* OMatrixTemplateAddP after the node before v, or at the start.
LinkBefore(n, v) ==
  LET p == prev[v] IN
    /\ end' = end
    /\ IF p = 0
       THEN /\ first' = n
            /\ prev' = [prev EXCEPT ![n] = 0, ![first] = n]
            /\ next' = [next EXCEPT ![n] = first]
       ELSE /\ first' = first
            /\ prev' = [prev EXCEPT ![n] = p, ![next[p]] = n]
            /\ next' = [next EXCEPT ![n] = next[p], ![p] = n]

\* OMatrixTemplateDel
Unlink(n) ==
  /\ prev' = IF next[n] # 0 THEN [prev EXCEPT ![next[n]] = prev[n]] ELSE prev
  /\ next' = IF prev[n] # 0 THEN [next EXCEPT ![prev[n]] = next[n]] ELSE next
  /\ end' = IF next[n] = 0 /\ n = end THEN prev[n] ELSE end
  /\ first' = IF prev[n] = 0 /\ n = first THEN next[n] ELSE first

\* OMatrixTemplateDelF on the free list.
UnlinkFree(n) ==
  /\ pf' = IF nf[n] # 0 THEN [pf EXCEPT ![nf[n]] = pf[n]] ELSE pf
  /\ nf' = IF pf[n] # 0 THEN [nf EXCEPT ![pf[n]] = nf[n]] ELSE nf
  /\ ef' = IF nf[n] = 0 /\ n = ef THEN pf[n] ELSE ef
  /\ af' = IF pf[n] = 0 /\ n = af THEN nf[n] ELSE af

------------------------------------------------------------------------------

\* The list to take from after an element of n was taken, free being left in n.
TakeFrom(n, free, links) == IF free = {} THEN links[n] ELSE n

\* AllocNew, with a node to take from.
AllocTake(i) ==
  /\ af # 0 /\ i \in fel[af]
  /\ fel' = [fel EXCEPT ![af] = @ \ {i}]
  /\ nodeUsed' = [nodeUsed EXCEPT ![af] = @ + 1]
  /\ af' = TakeFrom(af, fel[af] \ {i}, nf)
  /\ UNCHANGED <<vec, first, end, prev, next, ef, pf, nf>>

\* AllocNew with none: AllocNode makes one, the only one of the free list.
AllocNode(n, i) ==
  /\ af = 0 /\ n \in Nodes \ vec /\ i \in 1..Els
  /\ vec' = vec \cup {n}
  /\ IF NodeAfter(n) = 0 THEN LinkLast(n) ELSE LinkBefore(n, NodeAfter(n))
  /\ fel' = [fel EXCEPT ![n] = (1..Els) \ {i}]
  /\ nodeUsed' = [nodeUsed EXCEPT ![n] = 1]
  /\ pf' = [pf EXCEPT ![n] = 0] /\ nf' = [nf EXCEPT ![n] = 0]
  /\ ef' = n
  /\ af' = TakeFrom(n, (1..Els) \ {i}, [nf EXCEPT ![n] = 0])

\* node->nodeUsed --; if(!node->nodeUsed)
IsLast(node) == nodeUsed[node] = 1

\* AllocFree(el) and FreeNode.
AllocFree(n, i) ==
  LET node == GetNode(n) IN
    /\ n \in vec /\ i \in (1..Els) \ fel[n]
    /\ nodeUsed' = [nodeUsed EXCEPT ![node] = @ - 1]
    /\ IF IsLast(node)
       THEN /\ vec' = vec \ {node} /\ Unlink(node) /\ UnlinkFree(node)
            /\ fel' = [fel EXCEPT ![node] = {}]
       ELSE /\ fel' = [fel EXCEPT ![node] = @ \cup {i}]
            /\ UNCHANGED <<vec, first, end, prev, next, af, ef, pf, nf>>

AllocNext ==
  \/ \E i \in 1..Els : AllocTake(i)
  \/ \E n \in Nodes, i \in 1..Els : AllocNode(n, i) \/ AllocFree(n, i)

AllocSpec == AllocInit /\ [][AllocNext]_allocVars

------------------------------------------------------------------------------
(* Properties                                                              *)

AllocTypeOK ==
  /\ vec \subseteq Nodes
  /\ first \in vec \cup {0} /\ end \in vec \cup {0} /\ af \in vec \cup {0}
  /\ ef \in Nodes \cup {0}
  /\ prev \in [Nodes -> Nodes \cup {0}] /\ next \in [Nodes -> Nodes \cup {0}]
  /\ pf \in [Nodes -> Nodes \cup {0}] /\ nf \in [Nodes -> Nodes \cup {0}]
  /\ fel \in [Nodes -> SUBSET (1..Els)] /\ nodeUsed \in [Nodes -> Int]

\* The list of nodes is in the order of their addresses whatever malloc returns
\* and whichever nodes went away, so the node of an element is found by its
\* address alone: AllocFree never puts an element into another node, and never
\* frees a node for an element of another.
NodeFound == \A n \in vec : GetNode(n) = n

\* A node is there exactly while one of its elements is handed out, and what
\* nodeUsed counts is what is handed out: no node is freed under its elements.
NodesUsed ==
  /\ \A n \in Nodes : n \in vec <=> nodeUsed[n] > 0
  /\ \A n \in vec : nodeUsed[n] = Els - Cardinality(fel[n])

\* The node AllocNew takes from is one that is there and has an element, so the
\* stale ends and links of the free list are never followed.
TakesFromRoom == af # 0 => af \in vec /\ fel[af] # {}
=============================================================================
