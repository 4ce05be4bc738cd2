------------------------------ MODULE ListProofs ------------------------------
(***************************************************************************)
(* Proofs about OList, for any number of threads, elements and pointers:   *)
(* a pointer is never at an element that is gone, never moves under the    *)
(* thread that uses it, and frees what its thread saw.  About its          *)
(* allocator AListAlloc and the array VoidVector it searches, for any      *)
(* addresses: nodes are sorted, and one is freed with the last of its      *)
(* elements.  About SendData, for blocks of any size: its list of blocks   *)
(* is a queue of bytes, and its sums agree with it.                        *)
(***************************************************************************)
EXTENDS OList, AListAlloc, VoidVector, SendData, DataProofs, FiniteSetTheorems

Unique(s) == \A i, j \in 1..Len(s) : s[i] = s[j] => i = j
Has(s, x) == \E i \in 1..Len(s) : s[i] = x
Before(s, x, y) == \E i, j \in 1..Len(s) : i < j /\ s[i] = x /\ s[j] = y

------------------------------------------------------------------------------
(* Sequences without repetitions                                           *)

LEMMA Appended ==
  ASSUME NEW S, NEW s \in Seq(S), NEW x \in S, Unique(s), ~Has(s, x)
  PROVE  /\ Append(s, x) \in Seq(S) /\ Unique(Append(s, x))
         /\ \A y : Has(Append(s, x), y) <=> Has(s, y) \/ y = x
         /\ \A a, b : Before(s, a, b) => Before(Append(s, x), a, b)
         /\ \A a : Has(s, a) => Before(Append(s, x), a, x)
<1> DEFINE t == Append(s, x)
<1>1. /\ t \in Seq(S) /\ Len(t) = Len(s) + 1 /\ Len(s) \in Nat
      /\ \A i \in 1..Len(s) : t[i] = s[i]
      /\ t[Len(s) + 1] = x
  OBVIOUS
<1> HIDE DEF t
<1>2. Unique(t)
  BY <1>1 DEF Unique, Has
<1>3. \A y : Has(t, y) <=> Has(s, y) \/ y = x
  BY <1>1 DEF Has
<1>4. \A a, b : Before(s, a, b) => Before(t, a, b)
  BY <1>1 DEF Before
<1>5. ASSUME NEW a, Has(s, a) PROVE Before(t, a, x)
  <2>1. PICK i \in 1..Len(s) : s[i] = a
    BY <1>5 DEF Has
  <2>2. i \in 1..Len(t) /\ Len(s) + 1 \in 1..Len(t) /\ i < Len(s) + 1 /\ t[i] = a
    BY <1>1, <2>1
  <2> QED
    BY <1>1, <2>2 DEF Before
<1> QED
  BY <1>1, <1>2, <1>3, <1>4, <1>5 DEF t

LEMMA Removed ==
  ASSUME NEW S, NEW s \in Seq(S), NEW k \in 1..Len(s), Unique(s)
  PROVE  /\ RemoveAt(s, k) \in Seq(S) /\ Unique(RemoveAt(s, k))
         /\ \A y : Has(RemoveAt(s, k), y) <=> Has(s, y) /\ y # s[k]
         /\ \A a, b : Before(s, a, b) /\ a # s[k] /\ b # s[k]
                      => Before(RemoveAt(s, k), a, b)
<1> DEFINE t == RemoveAt(s, k)
<1>1. /\ t \in Seq(S) /\ Len(t) = Len(s) - 1 /\ Len(s) \in Nat
      /\ \A i \in 1..(Len(s) - 1) : t[i] = IF i < k THEN s[i] ELSE s[i + 1]
  <2> DEFINE u == SubSeq(s, 1, k - 1)
             v == SubSeq(s, k + 1, Len(s))
  <2>1. /\ u \in Seq(S) /\ Len(u) = k - 1 /\ \A i \in 1..(k - 1) : u[i] = s[i]
    OBVIOUS
  <2>2. /\ v \in Seq(S) /\ Len(v) = Len(s) - k
        /\ \A i \in 1..(Len(s) - k) : v[i] = s[i + k]
    OBVIOUS
  <2>3. t = u \o v
    BY DEF RemoveAt
  <2> HIDE DEF t, u, v
  <2>4. /\ u \o v \in Seq(S) /\ Len(u \o v) = Len(u) + Len(v)
        /\ \A i \in 1 .. Len(u) + Len(v) :
             (u \o v)[i] = IF i <= Len(u) THEN u[i] ELSE v[i - Len(u)]
    BY <2>1, <2>2, ConcatProperties, Zenon
  <2>5. t \in Seq(S) /\ Len(t) = Len(s) - 1 /\ Len(s) \in Nat
    BY <2>1, <2>2, <2>3, <2>4
  <2>6. ASSUME NEW i \in 1..(Len(s) - 1) PROVE t[i] = IF i < k THEN s[i] ELSE s[i + 1]
    <3>1. t[i] = IF i <= Len(u) THEN u[i] ELSE v[i - Len(u)]
      <4>1. i \in 1 .. Len(u) + Len(v)
        BY <2>1, <2>2
      <4> QED
        BY <2>3, <2>4, <4>1
    <3>2. CASE i < k
      BY <2>1, <3>1, <3>2
    <3>3. CASE i >= k
      <4>1. i - (k - 1) \in 1..(Len(s) - k) /\ i - (k - 1) + k = i + 1
        BY <3>3
      <4>2. t[i] = v[i - (k - 1)]
        BY <2>1, <3>1, <3>3
      <4> QED
        BY <2>2, <3>3, <4>1, <4>2
    <3> QED
      BY <3>2, <3>3
  <2> QED
    BY <2>5, <2>6
<1> HIDE DEF t
<1>2. Unique(t)
  <2> SUFFICES ASSUME NEW i \in 1..Len(t), NEW j \in 1..Len(t), t[i] = t[j]
               PROVE  i = j
    BY DEF Unique
  <2> DEFINE p == IF i < k THEN i ELSE i + 1
             q == IF j < k THEN j ELSE j + 1
  <2>1. p \in 1..Len(s) /\ t[i] = s[p]
    BY <1>1, SMTT(30)
  <2>2. q \in 1..Len(s) /\ t[j] = s[q]
    BY <1>1
  <2>3. p = q
    <3> HIDE DEF p, q
    <3> QED
      BY <2>1, <2>2 DEF Unique
  <2> QED
    BY <1>1, <2>3
<1>3. \A y : Has(t, y) <=> Has(s, y) /\ y # s[k]
  <2>1. ASSUME NEW y, Has(t, y) PROVE Has(s, y) /\ y # s[k]
    <3>1. PICK i \in 1..Len(t) : t[i] = y
      BY <2>1 DEF Has
    <3>2. CASE i < k
      BY <1>1, <3>1, <3>2 DEF Has, Unique
    <3>3. CASE i >= k
      BY <1>1, <3>1, <3>3 DEF Has, Unique
    <3> QED
      BY <1>1, <3>2, <3>3
  <2>2. ASSUME NEW y, Has(s, y), y # s[k] PROVE Has(t, y)
    <3>1. PICK i \in 1..Len(s) : s[i] = y
      BY <2>2 DEF Has
    <3>2. CASE i < k
      BY <1>1, <3>1, <3>2 DEF Has
    <3>3. CASE i > k
      <4>1. i - 1 \in 1..Len(t) /\ t[i - 1] = y
        BY <1>1, <3>1, <3>3
      <4> QED
        BY <4>1 DEF Has
    <3> QED
      BY <1>1, <2>2, <3>1, <3>2, <3>3
  <2> QED
    BY <2>1, <2>2
<1>4. ASSUME NEW a, NEW b, Before(s, a, b), a # s[k], b # s[k]
      PROVE Before(t, a, b)
  <2>1. PICK i \in 1..Len(s), j \in 1..Len(s) : i < j /\ s[i] = a /\ s[j] = b
    BY <1>4 DEF Before
  <2> DEFINE p == IF i < k THEN i ELSE i - 1
             q == IF j < k THEN j ELSE j - 1
  <2>2. p \in 1..Len(t) /\ q \in 1..Len(t) /\ p < q /\ t[p] = a /\ t[q] = b
    BY <1>1, <1>4, <2>1
  <2> QED
    BY <2>2 DEF Before
<1> QED
  BY <1>1, <1>2, <1>3, <1>4 DEF t

\* Where an element of a sequence is.
LEMMA PlaceFound ==
  ASSUME NEW S, NEW s \in Seq(S), NEW x, Has(s, x),
         NEW k, k = CHOOSE i \in DOMAIN s : s[i] = x
  PROVE  k \in 1..Len(s) /\ s[k] = x
<1>1. DOMAIN s = 1..Len(s)
  OBVIOUS
<1> QED
  BY <1>1 DEF Has

LEMMA BeforeTrans ==
  ASSUME NEW S, NEW s \in Seq(S), Unique(s), NEW x, NEW y, NEW z,
         Before(s, x, y), Before(s, y, z)
  PROVE  Before(s, x, z)
<1>1. PICK i \in 1..Len(s), j \in 1..Len(s) : i < j /\ s[i] = x /\ s[j] = y
  BY DEF Before
<1>2. PICK k \in 1..Len(s), l \in 1..Len(s) : k < l /\ s[k] = y /\ s[l] = z
  BY DEF Before
<1>3. i < l
  BY <1>1, <1>2 DEF Unique
<1> QED
  BY <1>1, <1>2, <1>3 DEF Before

LEMMA BeforeIsOther ==
  ASSUME NEW S, NEW s \in Seq(S), Unique(s), NEW x, NEW y, Before(s, x, y)
  PROVE  x # y /\ Has(s, x) /\ Has(s, y)
<1>1. PICK i \in 1..Len(s), j \in 1..Len(s) : i < j /\ s[i] = x /\ s[j] = y
  BY DEF Before
<1> QED
  BY <1>1 DEF Unique, Has

LEMMA InRange ==
  ASSUME NEW S, NEW s \in Seq(S), NEW x
  PROVE  x \in Range(s) <=> Has(s, x)
<1>1. DOMAIN s = 1..Len(s)
  OBVIOUS
<1> QED
  BY <1>1 DEF Range, Has

------------------------------------------------------------------------------
(* The invariant                                                           *)

Lists ==
  /\ Unique(chain) /\ \A c \in Cells : Has(chain, c) <=> state[c] # "none"
  /\ Unique(links) /\ \A w \in Walkers : Has(links, w) <=> doing[w] # "out"
  /\ \A w \in Walkers : doing[w] = "out" => el[w] = Null

ElementsAlive == \A w \in Walkers : el[w] # Null => Has(chain, el[w])

\* The thread with the lock of the list, between two steps, goes through the
\* pointers, and those it has passed are not at what it frees.
Erasing ==
  /\ \A t \in Threads : doing[t] = "erase" <=> held = t
  /\ \A t \in Threads : held = t =>
       /\ del[t] \in Cells /\ state[del[t]] = "dying" /\ cursor[t] >= 1
       /\ \A i \in 1..Len(links) : i < cursor[t] => el[links[i]] # del[t]

\* What a walker asked to free and another freed meanwhile is gone, or is there
\* again behind the place to which its pointer was moved.
Seen ==
  \A w \in Walkers : doing[w] = "free" =>
    /\ del[w] \in Cells
    /\ ~same[w] => \/ el[w] = Null \/ ~Has(chain, del[w])
                   \/ Before(chain, el[w], del[w])

IInv == OListTypeOK /\ Lists /\ ElementsAlive /\ Erasing /\ Seen

LEMMA InitInv == OListInit => IInv
<1> SUFFICES ASSUME OListInit PROVE IInv
  OBVIOUS
<1>1. OListTypeOK
  BY OListAssumption DEF OListInit, OListTypeOK
<1>2. Lists /\ ElementsAlive /\ Seen
  BY DEF OListInit, Lists, ElementsAlive, Seen, Unique, Has, Threads
<1>3. Erasing
  BY OListAssumption DEF OListInit, Erasing
<1> QED
  BY <1>1, <1>2, <1>3 DEF IInv

------------------------------------------------------------------------------
(* The steps of a walker                                                   *)

LEMMA NobodyErases ==
  ASSUME IInv, held = NoOne
  PROVE  \A t \in Threads : doing[t] # "erase" /\ held # t
BY OListAssumption DEF IInv, Erasing

LEMMA NewLinkInv ==
  ASSUME IInv, NEW w \in Walkers, NewLink(w)
  PROVE  IInv'
<1> USE OListAssumption DEF Threads
<1>1. links \in Seq(Walkers) /\ Unique(links) /\ ~Has(links, w)
  BY DEF IInv, OListTypeOK, Lists, NewLink
<1>2. /\ links' \in Seq(Walkers) /\ Unique(links')
      /\ \A y : Has(links', y) <=> Has(links, y) \/ y = w
  BY <1>1, Appended DEF NewLink
<1>3. OListTypeOK'
  BY <1>2 DEF IInv, OListTypeOK, NewLink
<1>4. Lists'
  BY <1>2 DEF IInv, OListTypeOK, Lists, NewLink
<1>5. ElementsAlive'
  BY DEF IInv, OListTypeOK, ElementsAlive, NewLink, Has
<1>6. Erasing'
  BY NobodyErases DEF IInv, OListTypeOK, Erasing, NewLink
<1>7. Seen'
  BY DEF IInv, OListTypeOK, Seen, NewLink
<1> QED
  BY <1>3, <1>4, <1>5, <1>6, <1>7 DEF IInv

LEMMA UnLockInv ==
  ASSUME IInv, NEW w \in Walkers, NEW do \in {"next", "free", "clean"}, UnLock(w, do)
  PROVE  IInv'
<1> USE OListAssumption DEF Threads
<1>1. /\ doing[w] \in {"start", "use"} /\ doing' = [doing EXCEPT ![w] = do]
      /\ del' = [del EXCEPT ![w] = IF do = "free" THEN el[w] ELSE Null]
      /\ same' = [same EXCEPT ![w] = TRUE]
      /\ do = "free" => el[w] # Null
      /\ UNCHANGED <<chain, state, links, el, cursor, held>>
  BY DEF UnLock, Sweeps
<1>2. w \in Threads /\ held # w
  BY <1>1 DEF IInv, Erasing
<1>3. OListTypeOK'
  BY <1>1 DEF IInv, OListTypeOK
<1>4. Lists'
  BY <1>1 DEF IInv, OListTypeOK, Lists, Unique, Has
<1>5. ElementsAlive'
  BY <1>1 DEF IInv, OListTypeOK, ElementsAlive, Has
<1>6. Erasing'
  BY <1>1, <1>2 DEF IInv, OListTypeOK, Erasing
<1>7. Seen'
  BY <1>1 DEF IInv, OListTypeOK, Seen, Has, Before
<1> QED
  BY <1>3, <1>4, <1>5, <1>6, <1>7 DEF IInv

\* Where Next goes is in the list, and not where it went from.
LEMMA NextInList ==
  ASSUME IInv, NEW c \in Cells \cup {Null}, c # Null => Has(chain, c)
  PROVE  /\ NextOf(c) \in Cells \cup {Null}
         /\ NextOf(c) # Null => Has(chain, NextOf(c))
         /\ c # Null => NextOf(c) # c
<1>1. chain \in Seq(Cells) /\ Unique(chain) /\ Null \notin Cells
  BY OListAssumption DEF IInv, OListTypeOK, Lists
<1>2. CASE c = Null
  BY <1>1, <1>2 DEF NextOf, Has
<1>3. CASE c # Null
  <2>1. Place(c) \in 1..Len(chain) /\ chain[Place(c)] = c
    BY <1>1, <1>3, PlaceFound DEF Place
  <2>2. NextOf(c) = IF Place(c) < Len(chain) THEN chain[Place(c) + 1] ELSE Null
    BY <1>3 DEF NextOf
  <2> QED
    BY <1>1, <1>3, <2>1, <2>2 DEF Has, Unique
<1> QED
  BY <1>2, <1>3

LEMMA MoveNextInv ==
  ASSUME IInv, NEW w \in Walkers, MoveNext(w)
  PROVE  IInv'
<1> USE OListAssumption DEF Threads
<1>1. /\ NextOf(el[w]) \in Cells \cup {Null}
      /\ NextOf(el[w]) # Null => Has(chain, NextOf(el[w]))
  BY NextInList DEF IInv, OListTypeOK, ElementsAlive
<1>2. OListTypeOK'
  BY <1>1 DEF IInv, OListTypeOK, MoveNext
<1>3. Lists'
  BY DEF IInv, OListTypeOK, Lists, MoveNext, Unique, Has
<1>4. ElementsAlive'
  BY <1>1 DEF IInv, OListTypeOK, ElementsAlive, MoveNext, Has
<1>5. Erasing'
  BY NobodyErases DEF IInv, OListTypeOK, Erasing, MoveNext
<1>6. Seen'
  BY DEF IInv, OListTypeOK, Seen, MoveNext
<1> QED
  BY <1>2, <1>3, <1>4, <1>5, <1>6 DEF IInv

\* The element where a walker's pointer is, is the one it saw.
LEMMA SameHere ==
  ASSUME IInv, NEW w \in Walkers, doing[w] = "free", del[w] = el[w]
  PROVE  same[w] /\ del[w] \in Cells /\ Has(chain, del[w])
<1>1. chain \in Seq(Cells) /\ Unique(chain)
  BY DEF IInv, OListTypeOK, Lists
<1>2. el[w] \in Cells /\ el[w] # Null /\ Has(chain, el[w])
  BY OListAssumption DEF IInv, Seen, ElementsAlive
<1>3. ~Before(chain, el[w], el[w])
  BY <1>1, BeforeIsOther
<1> QED
  BY <1>2, <1>3 DEF IInv, Seen

LEMMA FreeHereInv ==
  ASSUME IInv, NEW w \in Walkers, FreeHere(w)
  PROVE  IInv'
<1> USE OListAssumption DEF Threads
<1>0. \A t \in Threads : doing[t] # "erase" /\ held # t
  BY NobodyErases DEF FreeHere
<1>1. CASE del[w] = el[w]
  <2>1. /\ del[w] \in Cells /\ Has(chain, del[w]) /\ del[w] # Null
        /\ NextOf(el[w]) \in Cells \cup {Null}
        /\ NextOf(el[w]) # Null => Has(chain, NextOf(el[w]))
        /\ NextOf(el[w]) # el[w]
    BY <1>1, SameHere, NextInList DEF FreeHere
  <2>2. /\ el' = [el EXCEPT ![w] = NextOf(el[w])] /\ held' = w
        /\ cursor' = [cursor EXCEPT ![w] = 1]
        /\ doing' = [doing EXCEPT ![w] = "erase"]
        /\ state' = [state EXCEPT ![del[w]] = "dying"]
        /\ UNCHANGED <<del, chain, links, same>> /\ doing[w] = "free"
    BY <1>1 DEF FreeHere, StillThere
  <2>3. OListTypeOK'
    BY <2>1, <2>2 DEF IInv, OListTypeOK
  <2>4. Lists'
    BY <2>1, <2>2 DEF IInv, OListTypeOK, Lists
  <2>5. ElementsAlive'
    BY <2>1, <2>2 DEF IInv, OListTypeOK, ElementsAlive
  <2>6. Erasing'
    BY <1>0, <2>1, <2>2 DEF IInv, OListTypeOK, Erasing
  <2>7. Seen'
    BY <2>2 DEF IInv, OListTypeOK, Seen
  <2> QED
    BY <2>3, <2>4, <2>5, <2>6, <2>7 DEF IInv
<1>2. CASE del[w] # el[w]
  <2>1. /\ doing' = [doing EXCEPT ![w] = "start"] /\ del' = [del EXCEPT ![w] = Null]
        /\ UNCHANGED <<el, held, cursor, state, chain, links, same>>
        /\ doing[w] = "free"
    BY <1>2 DEF FreeHere, StillThere
  <2>2. OListTypeOK'
    BY <2>1 DEF IInv, OListTypeOK
  <2>3. Lists'
    BY <2>1 DEF IInv, OListTypeOK, Lists
  <2>4. ElementsAlive'
    BY <2>1 DEF IInv, OListTypeOK, ElementsAlive
  <2>5. Erasing'
    BY <1>0, <2>1 DEF IInv, OListTypeOK, Erasing
  <2>6. Seen'
    BY <2>1 DEF IInv, OListTypeOK, Seen
  <2> QED
    BY <2>2, <2>3, <2>4, <2>5, <2>6 DEF IInv
<1> QED
  BY <1>1, <1>2

LEMMA FreeLinkInv ==
  ASSUME IInv, NEW w \in Walkers, FreeLink(w)
  PROVE  IInv'
<1> USE OListAssumption DEF Threads
<1>0. \A t \in Threads : doing[t] # "erase" /\ held # t
  BY NobodyErases DEF FreeLink
<1>1. links \in Seq(Walkers) /\ Unique(links) /\ Has(links, w)
  BY DEF IInv, OListTypeOK, Lists, FreeLink
<1>2. LinkOf(w) \in 1..Len(links) /\ links[LinkOf(w)] = w
  BY <1>1, PlaceFound DEF LinkOf
<1>3. /\ links' \in Seq(Walkers) /\ Unique(links')
      /\ \A y : Has(links', y) <=> Has(links, y) /\ y # w
  BY <1>1, <1>2, Removed DEF FreeLink
<1>4. OListTypeOK'
  BY <1>3 DEF IInv, OListTypeOK, FreeLink
<1>5. Lists'
  BY <1>3 DEF IInv, OListTypeOK, Lists, FreeLink
<1>6. ElementsAlive'
  BY DEF IInv, OListTypeOK, ElementsAlive, FreeLink
<1>7. Erasing'
  BY <1>0 DEF IInv, OListTypeOK, Erasing, FreeLink
<1>8. Seen'
  BY DEF IInv, OListTypeOK, Seen, FreeLink
<1> QED
  BY <1>4, <1>5, <1>6, <1>7, <1>8 DEF IInv

------------------------------------------------------------------------------
(* The steps of an owner                                                   *)

LEMMA NewEInv ==
  ASSUME IInv, NEW o \in Owners, NEW c \in Cells, NewE(o, c)
  PROVE  IInv'
<1> USE OListAssumption DEF Threads
<1>0. \A t \in Threads : doing[t] # "erase" /\ held # t
  BY NobodyErases DEF NewE
<1>1. chain \in Seq(Cells) /\ Unique(chain) /\ ~Has(chain, c)
  BY DEF IInv, OListTypeOK, Lists, NewE
<1>2. /\ chain' \in Seq(Cells) /\ Unique(chain')
      /\ \A y : Has(chain', y) <=> Has(chain, y) \/ y = c
      /\ \A a, b : Before(chain, a, b) => Before(chain', a, b)
      /\ \A a : Has(chain, a) => Before(chain', a, c)
  BY <1>1, Appended DEF NewE
<1>3. OListTypeOK'
  BY <1>2 DEF IInv, OListTypeOK, NewE
<1>4. Lists'
  BY <1>2 DEF IInv, OListTypeOK, Lists, NewE
<1>5. ElementsAlive'
  BY <1>2 DEF IInv, OListTypeOK, ElementsAlive, NewE
<1>6. Erasing'
  BY <1>0 DEF IInv, OListTypeOK, Erasing, NewE
<1>7. Seen'
  BY <1>2 DEF IInv, OListTypeOK, ElementsAlive, Seen, NewE
<1> QED
  BY <1>3, <1>4, <1>5, <1>6, <1>7 DEF IInv

LEMMA MarkInv ==
  ASSUME IInv, NEW c \in Cells, Mark(c)
  PROVE  IInv'
<1>1. OListTypeOK'
  BY DEF IInv, OListTypeOK, Mark
<1>2. Lists'
  BY DEF IInv, OListTypeOK, Lists, Mark
<1>3. ElementsAlive'
  BY DEF IInv, ElementsAlive, Mark
<1>4. Erasing'
  BY DEF IInv, OListTypeOK, Erasing, Mark
<1>5. Seen'
  BY DEF IInv, Seen, Mark
<1> QED
  BY <1>1, <1>2, <1>3, <1>4, <1>5 DEF IInv

LEMMA FreeInv ==
  ASSUME IInv, NEW o \in Owners, NEW c \in Cells, Free(o, c)
  PROVE  IInv'
<1> USE OListAssumption DEF Threads
<1>0. \A t \in Threads : doing[t] # "erase" /\ held # t
  BY NobodyErases DEF Free
<1>1. OListTypeOK'
  BY DEF IInv, OListTypeOK, Free
<1>2. Lists'
  BY DEF IInv, OListTypeOK, Lists, Free
<1>3. ElementsAlive'
  BY DEF IInv, ElementsAlive, Free
<1>4. Erasing'
  BY <1>0 DEF IInv, OListTypeOK, Erasing, Free
<1>5. Seen'
  BY DEF IInv, OListTypeOK, Seen, Free
<1> QED
  BY <1>1, <1>2, <1>3, <1>4, <1>5 DEF IInv

------------------------------------------------------------------------------
(* The loop over the pointers                                              *)

LEMMA PrevInList ==
  ASSUME IInv, NEW c \in Cells, Has(chain, c)
  PROVE  /\ PrevOf(c) \in Cells \cup {Null} /\ PrevOf(c) # c
         /\ PrevOf(c) # Null => Has(chain, PrevOf(c)) /\ Before(chain, PrevOf(c), c)
<1>1. chain \in Seq(Cells) /\ Unique(chain) /\ Null \notin Cells
  BY OListAssumption DEF IInv, OListTypeOK, Lists
<1>2. Place(c) \in 1..Len(chain) /\ chain[Place(c)] = c
  BY <1>1, PlaceFound DEF Place
<1>3. CASE Place(c) = 1
  BY <1>1, <1>3 DEF PrevOf
<1>4. CASE Place(c) # 1
  <2>1. PrevOf(c) = chain[Place(c) - 1] /\ Place(c) - 1 \in 1..Len(chain)
    BY <1>2, <1>4 DEF PrevOf
  <2>2. PrevOf(c) \in Cells /\ Has(chain, PrevOf(c)) /\ Before(chain, PrevOf(c), c)
    BY <1>1, <1>2, <2>1 DEF Has, Before
  <2>3. PrevOf(c) # c
    BY <1>1, <2>2, BeforeIsOther
  <2> QED
    BY <2>2, <2>3
<1> QED
  BY <1>3, <1>4

LEMMA ErasePointerInv ==
  ASSUME IInv, NEW t \in Threads, ErasePointer(t)
  PROVE  IInv'
<1> USE OListAssumption DEF Threads
<1>1. /\ held = t /\ del[t] \in Cells /\ state[del[t]] = "dying"
      /\ cursor[t] \in 1..Len(links)
      /\ \A i \in 1..Len(links) : i < cursor[t] => el[links[i]] # del[t]
  BY DEF IInv, OListTypeOK, Erasing, ErasePointer
<1>2. Has(chain, del[t]) /\ chain \in Seq(Cells) /\ Unique(chain)
  BY <1>1 DEF IInv, OListTypeOK, Lists
<1>3. PICK w \in Walkers : w = links[cursor[t]]
  BY <1>1 DEF IInv, OListTypeOK
<1>4. /\ cursor' = [cursor EXCEPT ![t] = @ + 1]
      /\ UNCHANGED <<chain, state, links, doing, del, held, same>>
      /\ \/ el[w] = del[t] /\ el' = [el EXCEPT ![w] = PrevOf(del[t])]
         \/ el[w] # del[t] /\ UNCHANGED el
  BY <1>3 DEF ErasePointer
<1>5. /\ PrevOf(del[t]) \in Cells \cup {Null} /\ PrevOf(del[t]) # del[t]
      /\ PrevOf(del[t]) # Null => /\ Has(chain, PrevOf(del[t]))
                                  /\ Before(chain, PrevOf(del[t]), del[t])
  BY <1>1, <1>2, PrevInList
<1>6. OListTypeOK'
  <2>1. cursor \in [Threads -> Nat] /\ el \in [Walkers -> Cells \cup {Null}]
    BY DEF IInv, OListTypeOK
  <2>2. cursor' \in [Threads -> Nat]
    BY <1>4, <2>1
  <2>3. el' \in [Walkers -> Cells \cup {Null}]
    BY <1>4, <1>5, <2>1
  <2> QED
    BY <1>4, <2>2, <2>3 DEF IInv, OListTypeOK
<1>7. Lists'
  BY <1>1, <1>4 DEF IInv, OListTypeOK, Lists
<1>8. ElementsAlive'
  BY <1>4, <1>5 DEF IInv, OListTypeOK, ElementsAlive
<1>9. Erasing'
  <2>1. cursor \in [Threads -> Nat] /\ el \in [Walkers -> Cells \cup {Null}]
        /\ links \in Seq(Walkers)
    BY DEF IInv, OListTypeOK
  <2>2. cursor'[t] = cursor[t] + 1
    BY <1>4, <2>1
  <2>3. \A x \in Walkers : el'[x] = el[x] \/ el'[x] # del[t]
    BY <1>4, <1>5, <2>1
  <2>4. el'[w] # del[t]
    BY <1>4, <1>5, <2>1
  <2>5. ASSUME NEW i \in 1..Len(links), i < cursor'[t] PROVE el'[links[i]] # del[t]
    <3>1. links[i] \in Walkers
      BY <2>1
    <3>2. CASE i < cursor[t]
      BY <1>1, <2>3, <3>1, <3>2
    <3>3. CASE i = cursor[t]
      BY <1>3, <2>4, <3>3
    <3> QED
      BY <1>1, <2>2, <2>5, <3>2, <3>3
  <2>6. cursor'[t] >= 1
    BY <1>1, <2>2
  <2>7. \A x \in Threads : doing[x] = "erase" <=> held = x
    BY DEF IInv, Erasing
  <2> QED
    BY <1>1, <1>4, <2>5, <2>6, <2>7 DEF Erasing
<1>10. Seen'
  BY <1>1, <1>4, <1>5, <1>2, BeforeTrans DEF IInv, OListTypeOK, Seen
<1> QED
  BY <1>6, <1>7, <1>8, <1>9, <1>10 DEF IInv

LEMMA EraseEndInv ==
  ASSUME IInv, NEW t \in Threads, EraseEnd(t)
  PROVE  IInv'
<1> USE OListAssumption DEF Threads
<1>1. /\ held = t /\ del[t] \in Cells /\ state[del[t]] = "dying"
      /\ \A i \in 1..Len(links) : el[links[i]] # del[t]
  BY DEF IInv, OListTypeOK, Erasing, EraseEnd
<1>2. Has(chain, del[t]) /\ chain \in Seq(Cells) /\ Unique(chain)
  BY <1>1 DEF IInv, OListTypeOK, Lists
<1>3. Place(del[t]) \in 1..Len(chain) /\ chain[Place(del[t])] = del[t]
  BY <1>2, PlaceFound DEF Place
<1>4. /\ chain' \in Seq(Cells) /\ Unique(chain')
      /\ \A y : Has(chain', y) <=> Has(chain, y) /\ y # del[t]
      /\ \A a, b : Before(chain, a, b) /\ a # del[t] /\ b # del[t]
                   => Before(chain', a, b)
  BY <1>2, <1>3, Removed DEF EraseEnd
<1>5. /\ state' = [state EXCEPT ![del[t]] = "none"]
      /\ same' = [w \in Walkers |-> same[w] /\ ~(doing[w] = "free" /\ del[w] = del[t])]
      /\ doing' = [doing EXCEPT ![t] = IF t \in Walkers THEN "start" ELSE "out"]
      /\ held' = NoOne /\ cursor' = [cursor EXCEPT ![t] = 0]
      /\ del' = [del EXCEPT ![t] = Null]
      /\ UNCHANGED <<links, el>>
      /\ doing[t] = "erase"
  BY DEF EraseEnd
<1>6. ASSUME NEW w \in Walkers PROVE el[w] # del[t]
  <2>1. CASE doing[w] = "out"
    BY <1>1, <2>1 DEF IInv, Lists
  <2>2. CASE doing[w] # "out"
    <3>1. PICK i \in 1..Len(links) : links[i] = w
      BY <2>2 DEF IInv, Lists, Has
    <3> QED
      BY <1>1, <3>1
  <2> QED
    BY <2>1, <2>2
<1>7. OListTypeOK'
  <2>1. same' \in [Walkers -> BOOLEAN]
    BY <1>5, Zenon DEF IInv, OListTypeOK
  <2>2. /\ state' \in [Cells -> {"none", "kept", "marked", "dying"}]
        /\ doing' \in [Threads -> {"out", "start", "use", "next", "free", "clean", "erase"}]
        /\ del' \in [Threads -> Cells \cup {Null}] /\ cursor' \in [Threads -> Nat]
    BY <1>5 DEF IInv, OListTypeOK
  <2> QED
    BY <1>4, <1>5, <2>1, <2>2 DEF IInv, OListTypeOK
<1>8. Lists'
  BY <1>1, <1>4, <1>5 DEF IInv, OListTypeOK, Lists
<1>9. ElementsAlive'
  BY <1>4, <1>5, <1>6 DEF IInv, OListTypeOK, ElementsAlive
<1>10. Erasing'
  BY <1>1, <1>5 DEF IInv, OListTypeOK, Erasing
<1>11. Seen'
  <2> SUFFICES ASSUME NEW w \in Walkers, doing'[w] = "free"
               PROVE  /\ del'[w] \in Cells
                      /\ ~same'[w] => \/ el'[w] = Null \/ ~Has(chain', del'[w])
                                      \/ Before(chain', el'[w], del'[w])
    BY DEF Seen
  <2>1. doing[w] = "free" /\ del'[w] = del[w] /\ w # t
    BY <1>5 DEF IInv, OListTypeOK
  <2>2. /\ del[w] \in Cells
        /\ ~same[w] => \/ el[w] = Null \/ ~Has(chain, del[w])
                       \/ Before(chain, el[w], del[w])
    BY <2>1 DEF IInv, Seen
  <2>3. CASE del[w] = del[t]
    BY <1>4, <2>1, <2>2, <2>3
  <2>4. CASE del[w] # del[t]
    <3>1. same'[w] = same[w]
      <4>1. same'[w] = (same[w] /\ ~(doing[w] = "free" /\ del[w] = del[t]))
        BY <1>5
      <4> QED
        BY <2>4, <4>1 DEF IInv, OListTypeOK
    <3>2. el[w] # del[t]
      BY <1>6
    <3> QED
      BY <1>4, <1>5, <2>1, <2>2, <2>4, <3>1, <3>2
  <2> QED
    BY <2>3, <2>4
<1> QED
  BY <1>7, <1>8, <1>9, <1>10, <1>11 DEF IInv

------------------------------------------------------------------------------
(* The theorems                                                            *)

LEMMA StutterInv ==
  ASSUME IInv, UNCHANGED oListVars
  PROVE  IInv'
BY DEF IInv, OListTypeOK, Lists, ElementsAlive, Erasing, Seen, oListVars

LEMMA NextInv ==
  ASSUME IInv, [OListNext]_oListVars
  PROVE  IInv'
<1>1. ASSUME NEW w \in Walkers, WalkStep(w) PROVE IInv'
  BY <1>1, NewLinkInv, MoveNextInv, FreeHereInv, FreeLinkInv, UnLockInv DEF WalkStep
<1>2. ASSUME NEW t \in Threads, EraseStep(t) PROVE IInv'
  BY <1>2, ErasePointerInv, EraseEndInv DEF EraseStep
<1>3. ASSUME NEW o \in Owners, NEW c \in Cells, NewE(o, c) \/ Free(o, c) PROVE IInv'
  BY <1>3, NewEInv, FreeInv
<1>4. CASE UNCHANGED oListVars
  BY <1>4, StutterInv
<1> QED
  BY <1>1, <1>2, <1>3, <1>4, MarkInv DEF OListNext

LEMMA Invariant == OListSpec => []IInv
BY InitInv, NextInv, PTL DEF OListSpec

\* The variables have their types, whatever the number of threads, elements and
\* pointers.
THEOREM TypeCorrect == OListSpec => []OListTypeOK
<1>1. IInv => OListTypeOK
  BY DEF IInv
<1> QED
  BY Invariant, <1>1, PTL

\* No pointer is ever at an element that has been freed (OList::Free, OListP).
THEOREM PointerAliveHolds == OListSpec => []PointerAlive
<1>1. IInv => PointerAlive
  BY InRange DEF IInv, OListTypeOK, ElementsAlive, PointerAlive
<1> QED
  BY Invariant, <1>1, PTL

\* A pointer stays where it is while its thread has its lock (OListP::Lock), so
\* what the thread uses is not freed under it.
THEOREM UseStableHolds == OListSpec => UseStable
<1>1. ASSUME IInv, [OListNext]_oListVars, NEW w \in Walkers, Uses(w), Uses(w)'
      PROVE  el'[w] = el[w]
  <2>1. el \in [Walkers -> Cells \cup {Null}] /\ links \in Seq(Walkers)
        /\ doing \in [Threads -> {"out", "start", "use", "next", "free", "clean", "erase"}]
    BY <1>1 DEF IInv, OListTypeOK
  <2>2. doing[w] \in {"start", "use"}
    BY <1>1 DEF Uses
  <2>3. ASSUME NEW x \in Walkers, WalkStep(x) PROVE el'[w] = el[w]
    BY <2>1, <2>2, <2>3 DEF WalkStep, NewLink, MoveNext, FreeHere, FreeLink, UnLock
  <2>4. ASSUME NEW t \in Threads, EraseStep(t) PROVE el'[w] = el[w]
    <3>1. CASE ErasePointer(t)
      BY <2>1, <2>2, <3>1 DEF ErasePointer, MayMove, Uses
    <3>2. CASE EraseEnd(t)
      BY <3>2 DEF EraseEnd
    <3> QED
      BY <2>4, <3>1, <3>2 DEF EraseStep
  <2> QED
    BY <1>1, <2>3, <2>4 DEF OListNext, NewE, Free, Mark, oListVars
<1>2. IInv /\ [OListNext]_oListVars
      => [\A w \in Walkers : Uses(w) /\ Uses(w)' => el'[w] = el[w]]_oListVars
  BY <1>1
<1> QED
  BY Invariant, <1>2, PTL DEF OListSpec, UseStable

\* Free() of a pointer frees the element its thread saw, although it compares
\* addresses and the memory of an element is used again: when another thread
\* frees it meanwhile the pointer is moved off it, before it in the list, and an
\* element that is made since is behind it.
THEOREM FreesWhatItSawHolds == OListSpec => FreesWhatItSaw
<1>1. ASSUME IInv, [OListNext]_oListVars, NEW w \in Walkers,
             doing[w] = "free", doing'[w] = "erase"
      PROVE  same[w]
  <2>1. doing \in [Threads -> {"out", "start", "use", "next", "free", "clean", "erase"}]
        /\ w \in Threads /\ w \notin Owners
    BY <1>1, OListAssumption DEF IInv, OListTypeOK, Threads
  <2>2. ASSUME NEW x \in Walkers, WalkStep(x) PROVE del[w] = el[w]
    <3>1. CASE NewLink(x)
      BY <1>1, <2>1, <3>1 DEF NewLink, Threads
    <3>2. CASE MoveNext(x)
      BY <1>1, <2>1, <3>2 DEF MoveNext, Threads
    <3>3. CASE FreeLink(x)
      BY <1>1, <2>1, <3>3 DEF FreeLink, Threads
    <3>4. ASSUME NEW do \in {"next", "free", "clean"}, UnLock(x, do) PROVE FALSE
      BY <1>1, <2>1, <3>4 DEF UnLock, Threads
    <3>5. CASE FreeHere(x)
      BY <1>1, <2>1, <3>5 DEF FreeHere, StillThere, Threads
    <3> QED
      BY <2>2, <3>1, <3>2, <3>3, <3>4, <3>5 DEF WalkStep
  <2>3. ASSUME NEW t \in Threads, EraseStep(t) PROVE FALSE
    BY <1>1, <2>1, <2>3 DEF EraseStep, ErasePointer, EraseEnd
  <2>4. ASSUME NEW o \in Owners, NEW c \in Cells, NewE(o, c) \/ Free(o, c) PROVE FALSE
    BY <1>1, <2>1, <2>4 DEF NewE, Free, Threads
  <2>5. ~UNCHANGED doing
    BY <1>1
  <2>6. del[w] = el[w]
    BY <1>1, <2>2, <2>3, <2>4, <2>5 DEF OListNext, Mark, oListVars
  <2> QED
    BY <1>1, <2>6, SameHere
<1>2. IInv /\ [OListNext]_oListVars
      => [\A w \in Walkers : doing[w] = "free" /\ doing'[w] = "erase" => same[w]]_oListVars
  BY <1>1
<1> QED
  BY Invariant, <1>2, PTL DEF OListSpec, FreesWhatItSaw

------------------------------------------------------------------------------
(* AListAlloc: the nodes                                                   *)

\* The list of nodes is in the order of their addresses, from first to end.
Upward(n) ==
  IF next[n] = 0 THEN n = end
  ELSE /\ next[n] \in vec /\ n < next[n] /\ prev[next[n]] = n
       /\ \A k \in vec : k <= n \/ next[n] <= k

Downward(n) ==
  IF prev[n] = 0 THEN n = first
  ELSE prev[n] \in vec /\ prev[n] < n /\ next[prev[n]] = n

Ends ==
  /\ first = 0 => vec = {}
  /\ first # 0 => first \in vec /\ prev[first] = 0 /\ \A k \in vec : first <= k
  /\ end = 0 => vec = {}
  /\ end # 0 => end \in vec /\ next[end] = 0 /\ \A k \in vec : k <= end

Linked == Ends /\ \A n \in vec : Upward(n) /\ Downward(n)

\* The free list never has a second node.
FreeAlone == \A n \in Nodes : pf[n] = 0 /\ nf[n] = 0

AllocInv == AllocTypeOK /\ Linked /\ FreeAlone /\ NodesUsed /\ TakesFromRoom

LEMMA AfterIs ==
  ASSUME vec \subseteq Nodes, NEW n \in Nat
  PROVE  \/ NodeAfter(n) = 0 /\ \A k \in vec : k <= n
         \/ /\ NodeAfter(n) \in vec /\ n < NodeAfter(n)
            /\ \A k \in vec : k <= n \/ NodeAfter(n) <= k
<1> DEFINE T == {k \in vec : k > n}
<1>1. Nodes \subseteq Nat \ {0}
  BY AllocAssumption
<1>2. CASE T = {}
  <2>1. NodeAfter(n) = 0
    BY <1>2 DEF NodeAfter
  <2>2. \A k \in vec : ~(k > n) /\ k \in Nat
    BY <1>1, <1>2
  <2> QED
    BY <2>1, <2>2
<1>3. CASE T # {}
  <2>1. T \subseteq Nat
    BY <1>1
  <2>2. \E x \in T : \A y \in T : x <= y
    <3> HIDE DEF T
    <3> QED
      BY <1>3, <2>1, NatLeast
  <2>3. NodeAfter(n) = CHOOSE x \in T : \A y \in T : x <= y
    BY <1>3 DEF NodeAfter
  <2>4. NodeAfter(n) \in T /\ \A y \in T : NodeAfter(n) <= y
    BY <2>2, <2>3
  <2>5. \A k \in vec : k <= n \/ k \in T
    BY <1>1
  <2> QED
    BY <2>4, <2>5
<1> QED
  BY <1>2, <1>3

\* The node of an element is found by its address.
LEMMA FoundIs ==
  ASSUME AllocTypeOK, Linked, NEW n \in vec
  PROVE  GetNode(n) = n
<1>1. vec \subseteq Nodes /\ Nodes \subseteq Nat \ {0}
  BY AllocAssumption DEF AllocTypeOK
<1>2. n \in Nat /\ \A k \in vec : k \in Nat
  BY <1>1
<1>3. Upward(n) /\ Ends
  BY DEF Linked
<1>4. CASE NodeAfter(n) = 0
  <2>1. \A k \in vec : k <= n
    BY <1>1, <1>2, <1>4, AfterIs
  <2>2. next[n] = 0
    <3>1. \A k \in vec : ~(n < k)
      BY <1>2, <2>1
    <3> QED
      BY <1>3, <3>1 DEF Upward
  <2> QED
    BY <1>3, <1>4, <2>2 DEF Upward, GetNode
<1>5. CASE NodeAfter(n) # 0
  <2> DEFINE m == NodeAfter(n)
  <2>1. m \in vec /\ n < m /\ \A k \in vec : k <= n \/ m <= k
    BY <1>1, <1>2, <1>5, AfterIs
  <2> HIDE DEF m
  <2>2. next[n] # 0
    BY <1>1, <1>2, <1>3, <2>1 DEF Upward, Ends
  <2>3. next[n] \in vec /\ n < next[n] /\ next[n] <= m
    BY <1>1, <1>2, <1>3, <2>1, <2>2 DEF Upward
  <2>4. m \in Nat /\ next[n] \in Nat /\ (next[n] <= n \/ m <= next[n])
    BY <1>2, <2>1, <2>3
  <2>5. m = next[n]
    BY <1>2, <2>3, <2>4
  <2> QED
    BY <1>3, <1>5, <2>2, <2>5 DEF Upward, GetNode, m
<1> QED
  BY <1>4, <1>5

LEMMA LinkLastKeeps ==
  ASSUME AllocTypeOK, Linked, NEW n \in Nodes \ vec, \A k \in vec : k <= n,
         vec' = vec \cup {n}, LinkLast(n)
  PROVE  /\ Linked' /\ first' \in vec' /\ end' \in vec'
         /\ prev' \in [Nodes -> Nodes \cup {0}] /\ next' \in [Nodes -> Nodes \cup {0}]
<1>1. /\ vec \subseteq Nodes /\ Nodes \subseteq Nat \ {0}
      /\ prev \in [Nodes -> Nodes \cup {0}] /\ next \in [Nodes -> Nodes \cup {0}]
      /\ first \in vec \cup {0} /\ end \in vec \cup {0}
  BY AllocAssumption DEF AllocTypeOK
<1>2. n \in Nat /\ n # 0 /\ n \in Nodes /\ n \notin vec /\ \A k \in vec : k < n /\ k \in Nat
  BY <1>1
<1>3. CASE first = 0
  <2>1. vec' = {n}
    BY <1>3 DEF Linked, Ends
  <2>2. first' = n /\ end' = n /\ prev'[n] = 0 /\ next'[n] = 0
    BY <1>1, <1>2, <1>3 DEF LinkLast
  <2>3. prev' \in [Nodes -> Nodes \cup {0}] /\ next' \in [Nodes -> Nodes \cup {0}]
    BY <1>1, <1>3 DEF LinkLast
  <2> QED
    BY <1>1, <1>2, <2>1, <2>2, <2>3 DEF Linked, Ends, Upward, Downward
<1>4. CASE first # 0
  <2>1. first' = first /\ end' = n /\ prev' = [prev EXCEPT ![n] = end]
        /\ next' = [next EXCEPT ![n] = 0, ![end] = n]
    BY <1>4 DEF LinkLast
  <2>2. end \in vec /\ end # n /\ next[end] = 0 /\ first \in vec /\ first # n
    BY <1>1, <1>2, <1>4 DEF Linked, Ends
  <2>3. /\ \A k \in vec : prev'[k] = prev[k]
        /\ \A k \in vec : k # end => next'[k] = next[k]
        /\ prev'[n] = end /\ next'[n] = 0 /\ next'[end] = n
        /\ prev' \in [Nodes -> Nodes \cup {0}] /\ next' \in [Nodes -> Nodes \cup {0}]
    BY <1>1, <1>2, <2>1, <2>2
  <2>4. Ends'
    BY <1>1, <1>2, <2>1, <2>2, <2>3 DEF Linked, Ends
  <2>5. ASSUME NEW k \in vec' PROVE Upward(k)'
    <3>1. CASE k = n
      BY <2>1, <2>3, <3>1 DEF Upward
    <3>2. CASE k = end
      BY <1>2, <2>1, <2>2, <2>3, <3>2 DEF Linked, Ends, Upward
    <3>3. CASE k \in vec /\ k # end
      <4>1. next'[k] = next[k] /\ next[k] # 0
        BY <2>3, <3>3 DEF Linked, Upward
      <4>2. /\ next[k] \in vec /\ k < next[k] /\ prev[next[k]] = k
            /\ \A l \in vec : l <= k \/ next[k] <= l
        BY <3>3, <4>1 DEF Linked, Upward
      <4>3. prev'[next[k]] = k /\ next[k] <= n
        BY <1>2, <2>3, <4>2
      <4> QED
        BY <4>1, <4>2, <4>3 DEF Upward
    <3> QED
      BY <3>1, <3>2, <3>3
  <2>6. ASSUME NEW k \in vec' PROVE Downward(k)'
    <3>1. CASE k = n
      BY <1>1, <1>2, <2>1, <2>2, <2>3, <3>1 DEF Downward
    <3>2. CASE k \in vec
      <4>1. prev'[k] = prev[k]
        BY <2>3, <3>2
      <4>2. Downward(k)
        BY <3>2 DEF Linked
      <4>3. prev[k] # 0 => prev[k] # end
        BY <1>1, <1>2, <2>2, <3>2, <4>2 DEF Downward
      <4>4. prev[k] = 0 => k = first'
        BY <2>1, <4>2 DEF Downward
      <4>5. prev[k] # 0 => prev[k] \in vec' /\ prev[k] < k /\ next'[prev[k]] = k
        BY <2>3, <4>2, <4>3 DEF Downward
      <4> QED
        BY <4>1, <4>4, <4>5 DEF Downward
    <3> QED
      BY <3>1, <3>2
  <2> QED
    BY <2>1, <2>2, <2>3, <2>4, <2>5, <2>6 DEF Linked
<1> QED
  BY <1>3, <1>4

LEMMA LinkBeforeKeeps ==
  ASSUME AllocTypeOK, Linked, NEW n \in Nodes \ vec, NEW v \in vec, n < v,
         \A k \in vec : k <= n \/ v <= k,
         vec' = vec \cup {n}, LinkBefore(n, v)
  PROVE  /\ Linked' /\ first' \in vec' /\ end' \in vec'
         /\ prev' \in [Nodes -> Nodes \cup {0}] /\ next' \in [Nodes -> Nodes \cup {0}]
<1>1. /\ vec \subseteq Nodes /\ Nodes \subseteq Nat \ {0}
      /\ prev \in [Nodes -> Nodes \cup {0}] /\ next \in [Nodes -> Nodes \cup {0}]
      /\ first \in vec \cup {0} /\ end \in vec \cup {0}
  BY AllocAssumption DEF AllocTypeOK
<1>2. n \in Nat /\ n # 0 /\ n \in Nodes /\ n \notin vec /\ \A k \in vec : k \in Nat /\ k # n
  BY <1>1
<1>3. end \in vec /\ next[end] = 0 /\ first \in vec /\ prev[first] = 0
  BY <1>1 DEF Linked, Ends
<1>4. Downward(v)
  BY DEF Linked
<1>5. CASE prev[v] = 0
  <2>1. /\ v = first /\ first' = n /\ end' = end
        /\ prev' = [prev EXCEPT ![n] = 0, ![first] = n]
        /\ next' = [next EXCEPT ![n] = first]
    BY <1>4, <1>5 DEF LinkBefore, Downward
  <2>2. /\ \A k \in vec : next'[k] = next[k]
        /\ \A k \in vec : k # first => prev'[k] = prev[k]
        /\ prev'[n] = 0 /\ next'[n] = first /\ prev'[first] = n
        /\ prev' \in [Nodes -> Nodes \cup {0}] /\ next' \in [Nodes -> Nodes \cup {0}]
    BY <1>1, <1>2, <1>3, <2>1
  <2>3. \A k \in vec : n < k
    BY <1>1, <1>2, <1>3, <2>1 DEF Linked, Ends
  <2>4. Ends'
    BY <1>1, <1>2, <1>3, <2>1, <2>2, <2>3 DEF Linked, Ends
  <2>5. ASSUME NEW k \in vec' PROVE Upward(k)'
    <3>1. CASE k = n
      BY <1>1, <1>2, <1>3, <2>1, <2>2, <2>3, <3>1 DEF Linked, Ends, Upward
    <3>2. CASE k \in vec
      <4>1. next'[k] = next[k] /\ Upward(k)
        BY <2>2, <3>2 DEF Linked
      <4>2. next[k] # 0 => next[k] \in vec /\ next[k] # first
        BY <1>1, <1>2, <1>3, <3>2, <4>1 DEF Upward
      <4>3. next[k] # 0 => prev'[next[k]] = k
        BY <2>2, <4>1, <4>2 DEF Upward
      <4>4. n <= k
        BY <1>2, <2>3, <3>2
      <4> QED
        BY <2>1, <4>1, <4>2, <4>3, <4>4 DEF Upward
    <3> QED
      BY <3>1, <3>2
  <2>6. ASSUME NEW k \in vec' PROVE Downward(k)'
    BY <1>1, <1>2, <1>3, <2>1, <2>2, <2>3 DEF Linked, Ends, Upward, Downward
  <2> QED
    BY <1>3, <2>1, <2>2, <2>4, <2>5, <2>6 DEF Linked
<1>6. CASE prev[v] # 0
  <2> DEFINE p == prev[v]
  <2>1. p \in vec /\ p < v /\ next[p] = v
    BY <1>4, <1>6 DEF Downward
  <2>2. /\ first' = first /\ end' = end
        /\ prev' = [prev EXCEPT ![n] = p, ![v] = n]
        /\ next' = [next EXCEPT ![n] = v, ![p] = n]
    BY <1>6, <2>1 DEF LinkBefore
  <2>7. prev[v] = p
    OBVIOUS
  <2> HIDE DEF p
  <2>3. p < n /\ \A k \in vec : k <= p \/ v <= k
    BY <1>1, <1>2, <2>1 DEF Linked, Upward
  <2>4. /\ \A k \in vec : k # p => next'[k] = next[k]
        /\ \A k \in vec : k # v => prev'[k] = prev[k]
        /\ prev'[n] = p /\ next'[n] = v /\ prev'[v] = n /\ next'[p] = n
        /\ prev' \in [Nodes -> Nodes \cup {0}] /\ next' \in [Nodes -> Nodes \cup {0}]
    BY <1>1, <1>2, <2>1, <2>2
  <2>8. first # v /\ end # p /\ first < n /\ n < end
    BY <1>1, <1>2, <1>3, <1>6, <2>1, <2>3 DEF Linked, Ends
  <2>5. Ends'
    BY <1>1, <1>2, <1>3, <2>2, <2>4, <2>8 DEF Linked, Ends
  <2>6. ASSUME NEW k \in vec' PROVE Upward(k)'
    <3>1. CASE k = n
      <4>1. next'[n] = v /\ v \in vec /\ v # 0 /\ prev'[v] = n
        BY <1>1, <2>4
      <4>2. \A l \in vec' : l <= n \/ v <= l
        BY <1>2
      <4> QED
        BY <3>1, <4>1, <4>2 DEF Upward
    <3>2. CASE k = p
      <4>1. next'[p] = n /\ prev'[n] = p /\ p < n /\ n # 0
        BY <1>2, <2>3, <2>4
      <4>2. \A l \in vec' : l <= p \/ n <= l
        BY <1>2, <2>3
      <4> QED
        BY <3>2, <4>1, <4>2 DEF Upward
    <3>3. CASE k \in vec /\ k # p
      <4>1. next'[k] = next[k] /\ Upward(k)
        BY <2>4, <3>3 DEF Linked
      <4>2. next[k] # 0 => next[k] \in vec /\ next[k] # v
        BY <2>7, <3>3, <4>1 DEF Upward
      <4>3. next[k] # 0 => prev'[next[k]] = k
        BY <2>4, <4>1, <4>2 DEF Upward
      <4>4. next[k] # 0 => n <= k \/ next[k] <= n
        <5> SUFFICES ASSUME next[k] # 0 PROVE n <= k \/ next[k] <= n
          OBVIOUS
        <5>1. next[k] \in vec /\ (p <= k \/ next[k] <= p) /\ (k <= p \/ v <= k)
          BY <2>1, <2>3, <3>3, <4>1 DEF Upward
        <5>2. (p <= k /\ k <= p) => k = p
          BY <1>2, <2>1, <3>3
        <5>3. k \in Nat /\ v \in Nat /\ p \in Nat /\ next[k] \in Nat
          BY <1>2, <2>1, <3>3, <5>1
        <5> QED
          BY <1>2, <2>3, <3>3, <5>1, <5>2, <5>3
      <4>5. next[k] = 0 => k = end'
        BY <2>2, <4>1 DEF Upward
      <4> QED
        BY <4>1, <4>2, <4>3, <4>4, <4>5 DEF Upward
    <3> QED
      BY <3>1, <3>2, <3>3
  <2>9. ASSUME NEW k \in vec' PROVE Downward(k)'
    <3>1. CASE k = n
      BY <1>1, <2>1, <2>3, <2>4, <3>1 DEF Downward
    <3>2. CASE k = v
      BY <1>2, <2>4, <3>2 DEF Downward
    <3>3. CASE k \in vec /\ k # v
      <4>1. prev'[k] = prev[k] /\ Downward(k)
        BY <2>4, <3>3 DEF Linked
      <4>2. prev[k] # 0 => prev[k] # p
        BY <2>1, <3>3, <4>1 DEF Downward
      <4>3. prev[k] = 0 => k = first'
        BY <2>2, <4>1 DEF Downward
      <4>4. prev[k] # 0 => prev[k] \in vec' /\ prev[k] < k /\ next'[prev[k]] = k
        BY <2>4, <4>1, <4>2 DEF Downward
      <4> QED
        BY <4>1, <4>3, <4>4 DEF Downward
    <3> QED
      BY <3>1, <3>2, <3>3
  <2> QED
    BY <1>3, <2>2, <2>4, <2>5, <2>6, <2>9 DEF Linked
<1> QED
  BY <1>5, <1>6

LEMMA UnlinkKeeps ==
  ASSUME AllocTypeOK, Linked, NEW n \in vec, vec' = vec \ {n}, Unlink(n)
  PROVE  /\ Linked' /\ first' \in vec' \cup {0} /\ end' \in vec' \cup {0}
         /\ prev' \in [Nodes -> Nodes \cup {0}] /\ next' \in [Nodes -> Nodes \cup {0}]
<1> DEFINE p == prev[n]
           q == next[n]
<1>1. /\ vec \subseteq Nodes /\ Nodes \subseteq Nat \ {0} /\ n \in Nodes
      /\ prev \in [Nodes -> Nodes \cup {0}] /\ next \in [Nodes -> Nodes \cup {0}]
      /\ first \in vec \cup {0} /\ end \in vec \cup {0}
  BY AllocAssumption DEF AllocTypeOK
<1>2. /\ prev' = IF q # 0 THEN [prev EXCEPT ![q] = p] ELSE prev
      /\ next' = IF p # 0 THEN [next EXCEPT ![p] = q] ELSE next
      /\ end' = IF q = 0 /\ n = end THEN p ELSE end
      /\ first' = IF p = 0 /\ n = first THEN q ELSE first
  BY DEF Unlink
<1>3. Upward(n) /\ Downward(n) /\ Ends
  BY DEF Linked
<1>4. q = 0 <=> n = end
  BY <1>1, <1>3 DEF Upward, Ends
<1>5. p = 0 <=> n = first
  BY <1>1, <1>3 DEF Downward, Ends
<1>6. q # 0 => q \in vec /\ n < q /\ prev[q] = n /\ \A k \in vec : k <= n \/ q <= k
  BY <1>3 DEF Upward
<1>7. p # 0 => /\ p \in vec /\ p < n /\ next[p] = n /\ \A k \in vec : k <= p \/ n <= k
  <2> SUFFICES ASSUME p # 0
      PROVE /\ p \in vec /\ p < n /\ next[p] = n /\ \A k \in vec : k <= p \/ n <= k
    OBVIOUS
  <2>1. p \in vec /\ p < n /\ next[p] = n
    BY <1>3 DEF Downward
  <2>2. Upward(p) /\ n # 0
    BY <1>1, <2>1 DEF Linked
  <2> QED
    BY <2>1, <2>2 DEF Upward
<1>8. next[n] = q /\ prev[n] = p /\ p \in Nodes \cup {0} /\ q \in Nodes \cup {0}
  BY <1>1
<1> HIDE DEF p, q
<1>9. /\ \A k \in Nodes : k # q => prev'[k] = prev[k]
      /\ \A k \in Nodes : k # p => next'[k] = next[k]
      /\ q # 0 => prev'[q] = p
      /\ p # 0 => next'[p] = q
      /\ prev' \in [Nodes -> Nodes \cup {0}] /\ next' \in [Nodes -> Nodes \cup {0}]
  BY <1>1, <1>2, <1>8
<1>10. Ends'
  <2>1. (first' = 0 => vec' = {})
        /\ (first' # 0 => first' \in vec' /\ prev'[first'] = 0 /\ \A k \in vec' : first' <= k)
    BY <1>1, <1>2, <1>3, <1>4, <1>5, <1>6, <1>7, <1>8, <1>9 DEF Ends, Linked, Upward
  <2>2. (end' = 0 => vec' = {})
        /\ (end' # 0 => end' \in vec' /\ next'[end'] = 0 /\ \A k \in vec' : k <= end')
    BY <1>1, <1>2, <1>3, <1>4, <1>5, <1>6, <1>7, <1>8, <1>9 DEF Ends, Linked, Upward
  <2> QED
    BY <2>1, <2>2 DEF Ends
<1>11. ASSUME NEW k \in vec' PROVE Upward(k)'
  BY <1>1, <1>2, <1>3, <1>4, <1>6, <1>7, <1>8, <1>9 DEF Linked, Upward
<1>12. ASSUME NEW k \in vec' PROVE Downward(k)'
  BY <1>1, <1>2, <1>3, <1>5, <1>6, <1>7, <1>8, <1>9 DEF Linked, Upward, Downward
<1> QED
  BY <1>9, <1>10, <1>11, <1>12 DEF Linked, Ends

------------------------------------------------------------------------------
(* AListAlloc: the elements                                                *)

LEMMA Counted ==
  ASSUME NEW f, f \subseteq 1..Els
  PROVE  /\ Cardinality(f) \in 0..Els
         /\ f = {} <=> Cardinality(f) = 0
         /\ \A i \in f : Cardinality(f \ {i}) = Cardinality(f) - 1
         /\ \A i \in (1..Els) \ f : Cardinality(f \cup {i}) = Cardinality(f) + 1
<1>1. Els \in Nat \ {0}
  BY AllocAssumption
<1>2. IsFiniteSet(1..Els) /\ Cardinality(1..Els) = Els
  BY <1>1, FS_Interval
<1>3. IsFiniteSet(f) /\ Cardinality(f) <= Els /\ Cardinality(f) \in Nat
  BY <1>2, FS_Subset, FS_CardinalityType
<1>4. f = {} <=> Cardinality(f) = 0
  BY <1>3, FS_EmptySet
<1>5. \A i \in f : Cardinality(f \ {i}) = Cardinality(f) - 1
  BY <1>3, FS_RemoveElement
<1>6. \A i \in (1..Els) \ f : Cardinality(f \cup {i}) = Cardinality(f) + 1
  BY <1>3, FS_AddElement
<1> QED
  BY <1>1, <1>3, <1>4, <1>5, <1>6

LEMMA AllocStart ==
  ASSUME AllocInit
  PROVE  AllocInv
<1>1. AllocTypeOK
  BY DEF AllocInit, AllocTypeOK
<1>2. Linked /\ FreeAlone /\ NodesUsed /\ TakesFromRoom
  BY DEF AllocInit, Linked, Ends, FreeAlone, NodesUsed, TakesFromRoom
<1> QED
  BY <1>1, <1>2 DEF AllocInv

LEMMA TakeKeeps ==
  ASSUME AllocInv, NEW i \in 1..Els, AllocTake(i)
  PROVE  AllocInv'
<1> DEFINE f == fel[af]
<1>1. /\ AllocTypeOK /\ Linked /\ FreeAlone /\ NodesUsed /\ TakesFromRoom
      /\ af \in vec /\ af \in Nodes /\ af # 0 /\ i \in f /\ f \subseteq 1..Els
      /\ nodeUsed[af] \in Int
  BY DEF AllocInv, AllocTake, AllocTypeOK
<1>2. /\ UNCHANGED <<vec, first, end, prev, next, ef, pf, nf>>
      /\ fel' = [fel EXCEPT ![af] = f \ {i}] /\ nodeUsed' = [nodeUsed EXCEPT ![af] = @ + 1]
      /\ af' = IF f \ {i} = {} THEN 0 ELSE af
  BY <1>1 DEF AllocTake, TakeFrom, FreeAlone
<1>3. Cardinality(f \ {i}) = Cardinality(f) - 1 /\ Cardinality(f) \in 0..Els
  BY <1>1, Counted
<1>4. AllocTypeOK'
  BY <1>1, <1>2 DEF AllocTypeOK
<1>5. Linked' /\ FreeAlone'
  BY <1>1, <1>2 DEF Linked, Ends, Upward, Downward, FreeAlone
<1>6. NodesUsed'
  <2>1. nodeUsed[af] = Els - Cardinality(f) /\ nodeUsed[af] > 0 /\ Els \in Nat
    BY <1>1, AllocAssumption DEF NodesUsed
  <2>2. fel'[af] = f \ {i} /\ nodeUsed'[af] = nodeUsed[af] + 1
    BY <1>1, <1>2 DEF AllocTypeOK
  <2>3. \A n \in Nodes : n # af => fel'[n] = fel[n] /\ nodeUsed'[n] = nodeUsed[n]
    BY <1>1, <1>2 DEF AllocTypeOK
  <2>4. nodeUsed'[af] = Els - Cardinality(fel'[af]) /\ nodeUsed'[af] > 0
    BY <1>1, <1>3, <2>1, <2>2
  <2> QED
    BY <1>1, <1>2, <2>3, <2>4 DEF NodesUsed, AllocTypeOK
<1>7. TakesFromRoom'
  BY <1>1, <1>2 DEF TakesFromRoom, AllocTypeOK
<1> QED
  BY <1>4, <1>5, <1>6, <1>7 DEF AllocInv

LEMMA NodeKeeps ==
  ASSUME AllocInv, NEW n \in Nodes, NEW i \in 1..Els, AllocNode(n, i)
  PROVE  AllocInv'
<1> DEFINE f == (1..Els) \ {i}
<1>1. /\ AllocTypeOK /\ Linked /\ FreeAlone /\ NodesUsed /\ n \notin vec /\ vec \subseteq Nodes
  BY DEF AllocInv, AllocNode, AllocTypeOK
<1>2. n \in Nat /\ n # 0
  BY AllocAssumption
<1>3. vec' = vec \cup {n}
  BY DEF AllocNode
<1>4. /\ Linked' /\ first' \in vec' /\ end' \in vec'
      /\ prev' \in [Nodes -> Nodes \cup {0}] /\ next' \in [Nodes -> Nodes \cup {0}]
  <2>1. CASE NodeAfter(n) = 0
    <3>1. \A k \in vec : k <= n
      BY <1>1, <1>2, <2>1, AfterIs, AllocAssumption
    <3>2. LinkLast(n)
      BY <2>1 DEF AllocNode
    <3> QED
      BY <1>1, <1>3, <3>1, <3>2, LinkLastKeeps
  <2>2. CASE NodeAfter(n) # 0
    <3> DEFINE v == NodeAfter(n)
    <3>1. v \in vec /\ n < v /\ \A k \in vec : k <= n \/ v <= k
      BY <1>1, <1>2, <2>2, AfterIs
    <3>2. LinkBefore(n, v)
      BY <2>2 DEF AllocNode
    <3> HIDE DEF v
    <3> QED
      BY <1>1, <1>3, <3>1, <3>2, LinkBeforeKeeps
  <2> QED
    BY <2>1, <2>2
<1>5. /\ fel' = [fel EXCEPT ![n] = f] /\ nodeUsed' = [nodeUsed EXCEPT ![n] = 1]
      /\ pf' = [pf EXCEPT ![n] = 0] /\ nf' = [nf EXCEPT ![n] = 0] /\ ef' = n
      /\ af' = IF f = {} THEN 0 ELSE n
  BY <1>1 DEF AllocNode, TakeFrom, FreeAlone, AllocTypeOK
<1>6. AllocTypeOK'
  BY <1>1, <1>3, <1>4, <1>5 DEF AllocTypeOK
<1>7. FreeAlone'
  BY <1>1, <1>5 DEF FreeAlone, AllocTypeOK
<1>8. NodesUsed'
  <2>1. Cardinality(f) = Els - 1 /\ Els \in Nat
    <3>1. Els \in Nat \ {0} /\ 1..Els \subseteq 1..Els
      BY AllocAssumption
    <3>2. Cardinality(1..Els) = Els
      BY <3>1, FS_Interval
    <3> QED
      BY <3>1, <3>2, Counted, ZenonT(60)
  <2>2. fel'[n] = f /\ nodeUsed'[n] = 1
    BY <1>1, <1>5 DEF AllocTypeOK
  <2>3. \A m \in Nodes : m # n => fel'[m] = fel[m] /\ nodeUsed'[m] = nodeUsed[m]
    BY <1>1, <1>5 DEF AllocTypeOK
  <2>4. nodeUsed'[n] = Els - Cardinality(fel'[n]) /\ nodeUsed'[n] > 0
    BY <2>1, <2>2
  <2> QED
    BY <1>1, <1>3, <2>3, <2>4 DEF NodesUsed
<1>9. TakesFromRoom'
  BY <1>1, <1>3, <1>5 DEF TakesFromRoom, AllocTypeOK
<1> QED
  BY <1>4, <1>6, <1>7, <1>8, <1>9 DEF AllocInv

LEMMA FreeKeeps ==
  ASSUME AllocInv, NEW n \in Nodes, NEW i \in 1..Els, AllocFree(n, i)
  PROVE  AllocInv'
<1> DEFINE f == fel[n]
<1>1. /\ AllocTypeOK /\ Linked /\ FreeAlone /\ NodesUsed /\ TakesFromRoom
      /\ n \in vec /\ i \in (1..Els) \ f /\ f \subseteq 1..Els /\ nodeUsed[n] \in Int
  BY DEF AllocInv, AllocFree, AllocTypeOK
<1>2. GetNode(n) = n
  BY <1>1, FoundIs
<1>3. nodeUsed' = [nodeUsed EXCEPT ![n] = @ - 1]
  BY <1>2 DEF AllocFree
<1>4. nodeUsed[n] = Els - Cardinality(f) /\ nodeUsed[n] > 0 /\ Els \in Nat
  BY <1>1, AllocAssumption DEF NodesUsed
<1>5. CASE IsLast(n)
  <2>1. /\ vec' = vec \ {n} /\ Unlink(n) /\ UnlinkFree(n) /\ fel' = [fel EXCEPT ![n] = {}]
    BY <1>2, <1>5 DEF AllocFree
  <2>2. /\ Linked' /\ first' \in vec' \cup {0} /\ end' \in vec' \cup {0}
        /\ prev' \in [Nodes -> Nodes \cup {0}] /\ next' \in [Nodes -> Nodes \cup {0}]
    BY <1>1, <2>1, UnlinkKeeps
  <2>3. /\ pf' = pf /\ nf' = nf /\ ef' = (IF n = ef THEN 0 ELSE ef)
        /\ af' = IF n = af THEN 0 ELSE af
    BY <1>1, <2>1 DEF UnlinkFree, FreeAlone
  <2>4. AllocTypeOK'
    <3>1. vec' \subseteq Nodes /\ af' \in vec' \cup {0} /\ ef' \in Nodes \cup {0}
      BY <1>1, <2>1, <2>3 DEF AllocTypeOK
    <3>2. fel' \in [Nodes -> SUBSET (1..Els)] /\ nodeUsed' \in [Nodes -> Int]
      BY <1>1, <1>3, <2>1 DEF AllocTypeOK
    <3>3. pf' \in [Nodes -> Nodes \cup {0}] /\ nf' \in [Nodes -> Nodes \cup {0}]
      BY <1>1, <2>3 DEF AllocTypeOK
    <3> QED
      BY <2>2, <3>1, <3>2, <3>3 DEF AllocTypeOK
  <2>5. NodesUsed'
    <3>1. nodeUsed'[n] = 0 /\ \A m \in Nodes : m # n => fel'[m] = fel[m] /\ nodeUsed'[m] = nodeUsed[m]
      BY <1>1, <1>3, <1>5, <2>1 DEF AllocTypeOK, IsLast
    <3> QED
      BY <1>1, <2>1, <3>1 DEF NodesUsed, AllocTypeOK
  <2>6. FreeAlone' /\ TakesFromRoom'
    BY <1>1, <2>1, <2>3 DEF FreeAlone, TakesFromRoom, AllocTypeOK
  <2> QED
    BY <2>2, <2>4, <2>5, <2>6 DEF AllocInv
<1>6. CASE ~IsLast(n)
  <2>1. /\ fel' = [fel EXCEPT ![n] = f \cup {i}]
        /\ UNCHANGED <<vec, first, end, prev, next, af, ef, pf, nf>>
    BY <1>2, <1>6 DEF AllocFree
  <2>2. AllocTypeOK'
    BY <1>1, <1>3, <2>1 DEF AllocTypeOK
  <2>3. Linked' /\ FreeAlone'
    BY <1>1, <2>1 DEF Linked, Ends, Upward, Downward, FreeAlone
  <2>4. NodesUsed'
    <3>1. Cardinality(f \cup {i}) = Cardinality(f) + 1 /\ Cardinality(f) \in 0..Els
      BY <1>1, Counted
    <3>2. fel'[n] = f \cup {i} /\ nodeUsed'[n] = nodeUsed[n] - 1
      BY <1>1, <1>3, <2>1 DEF AllocTypeOK
    <3>3. \A m \in Nodes : m # n => fel'[m] = fel[m] /\ nodeUsed'[m] = nodeUsed[m]
      BY <1>1, <1>3, <2>1 DEF AllocTypeOK
    <3>4. nodeUsed'[n] = Els - Cardinality(fel'[n]) /\ nodeUsed'[n] > 0
      BY <1>1, <1>4, <1>6, <3>1, <3>2 DEF IsLast
    <3> QED
      BY <1>1, <2>1, <3>3, <3>4 DEF NodesUsed, AllocTypeOK
  <2>5. TakesFromRoom'
    BY <1>1, <2>1 DEF TakesFromRoom, AllocTypeOK
  <2> QED
    BY <2>2, <2>3, <2>4, <2>5 DEF AllocInv
<1> QED
  BY <1>5, <1>6

LEMMA AllocInvariant == AllocSpec => []AllocInv
<1>1. AllocInit => AllocInv
  BY AllocStart
<1>2. AllocInv /\ [AllocNext]_allocVars => AllocInv'
  <2> SUFFICES ASSUME AllocInv, [AllocNext]_allocVars PROVE AllocInv'
    OBVIOUS
  <2>1. CASE AllocNext
    BY <2>1, TakeKeeps, NodeKeeps, FreeKeeps DEF AllocNext
  <2>2. CASE UNCHANGED allocVars
    BY <2>2 DEF allocVars, AllocInv, AllocTypeOK, Linked, Ends, Upward, Downward,
                FreeAlone, NodesUsed, TakesFromRoom
  <2> QED
    BY <2>1, <2>2
<1> QED
  BY <1>1, <1>2, PTL DEF AllocSpec

\* An element goes back to the node it was taken from, found by its address
\* alone, whatever addresses malloc returned and whichever nodes are gone.
THEOREM NodeIsFound == AllocSpec => []NodeFound
<1>1. AllocInv => NodeFound
  BY FoundIs DEF AllocInv, NodeFound
<1> QED
  BY <1>1, AllocInvariant, PTL

\* A node is freed with the last of its elements and not before.
THEOREM NodesUsedHolds == AllocSpec => []NodesUsed
<1>1. AllocInv => NodesUsed
  BY DEF AllocInv
<1> QED
  BY <1>1, AllocInvariant, PTL

\* AllocNew takes from a node that is there and has an element.
THEOREM TakesFromRoomHolds == AllocSpec => []TakesFromRoom
<1>1. AllocInv => TakesFromRoom
  BY DEF AllocInv
<1> QED
  BY <1>1, AllocInvariant, PTL

------------------------------------------------------------------------------
(* VoidVector: the sorted array of nodes                                   *)

\* The nodes are in the order of their addresses.
VectorInv ==
  /\ nsz \in Nat /\ vectorSz \in Nat /\ nsz <= vectorSz
  /\ cell \in [0..(vectorSz - 1) -> Addresses \cup {0}]
  /\ \A i \in 0..(nsz - 1) : cell[i] \in Addresses
  /\ \A i, j \in 0..(nsz - 1) : i < j => cell[i] < cell[j]

\* What the loop may still look at: before it the nodes are less, behind it not.
Parts(pos) ==
  {w \in [f : Nat, sz : Nat] :
     /\ w.f + w.sz <= nsz
     /\ \A i \in 0..(nsz - 1) :
          (i < w.f => cell[i] < pos) /\ (i >= w.f + w.sz => ~(cell[i] < pos))}

LEMMA CellsAre ==
  ASSUME VectorInv
  PROVE  /\ nsz \in Nat /\ vectorSz \in Nat /\ nsz <= vectorSz
         /\ \A i \in 0..(nsz - 1) : cell[i] \in Nat /\ cell[i] \in Addresses /\ cell[i] # 0
BY VectorAssumption DEF VectorInv

\* A turn keeps the place in the part, and makes the part smaller.
LEMMA HalveIs ==
  ASSUME VectorInv, NEW pos \in Nat, NEW w \in Parts(pos)
  PROVE  /\ Halve(w, pos) \in Parts(pos)
         /\ w.sz # 0 => Halve(w, pos).sz < w.sz
         /\ w.sz = 0 => Halve(w, pos) = w
<1>1. /\ w.f \in Nat /\ w.sz \in Nat /\ w.f + w.sz <= nsz /\ nsz \in Nat
      /\ \A i \in 0..(nsz - 1) :
           (i < w.f => cell[i] < pos) /\ (i >= w.f + w.sz => ~(cell[i] < pos))
  BY DEF Parts, VectorInv
<1>2. CASE w.sz = 0
  BY <1>2 DEF Halve
<1>3. CASE w.sz # 0
  <2> DEFINE s == w.sz \div 2
             p == w.f + s
  <2>1. s \in Nat /\ s < w.sz
    <3> DEFINE n == w.sz
    <3>1. n \in Nat \ {0}
      BY <1>1, <1>3
    <3> HIDE DEF n
    <3>2. n \div 2 \in Nat /\ n \div 2 < n
      BY <3>1
    <3> QED
      BY <3>2 DEF n
  <2>2. Halve(w, pos) = IF cell[p] < pos THEN [f |-> p + 1, sz |-> w.sz - s - 1]
                                         ELSE [f |-> w.f, sz |-> s]
    BY <1>3 DEF Halve
  <2> HIDE DEF s
  <2>3. p \in 0..(nsz - 1)
    BY <1>1, <2>1
  <2>4. \A i, j \in 0..(nsz - 1) : i < j => cell[i] < cell[j]
    BY DEF VectorInv
  <2>5. \A i \in 0..(nsz - 1) : cell[i] \in Nat
    BY CellsAre
  <2>6. CASE cell[p] < pos
    <3> DEFINE v == [f |-> p + 1, sz |-> w.sz - s - 1]
    <3>1. v \in [f : Nat, sz : Nat] /\ v.f = p + 1 /\ v.sz = w.sz - s - 1
      BY <1>1, <2>1, <2>3
    <3>2. v.f + v.sz = w.f + w.sz /\ v.sz < w.sz
      BY <1>1, <2>1, <3>1
    <3> HIDE DEF v, p
    <3>3. ASSUME NEW i \in 0..(nsz - 1), i < p + 1 PROVE cell[i] < pos
      <4>1. i = p \/ i < p
        BY <1>1, <2>3, <3>3
      <4>2. i < p => cell[i] < cell[p]
        BY <2>3, <2>4
      <4> QED
        BY <2>3, <2>5, <2>6, <4>1, <4>2
    <3>4. v \in Parts(pos)
      BY <1>1, <3>1, <3>2, <3>3 DEF Parts
    <3> QED
      BY <1>3, <2>2, <2>6, <3>2, <3>4 DEF v, p
  <2>7. CASE ~(cell[p] < pos)
    <3> DEFINE v == [f |-> w.f, sz |-> s]
    <3>1. v \in [f : Nat, sz : Nat] /\ v.f = w.f /\ v.sz = s
      BY <1>1, <2>1
    <3>2. v.f + v.sz = p /\ v.sz < w.sz /\ p <= nsz
      BY <1>1, <2>1, <2>3, <3>1
    <3> HIDE DEF v, p
    <3>3. ASSUME NEW i \in 0..(nsz - 1), i >= p PROVE ~(cell[i] < pos)
      <4>1. i = p \/ p < i
        BY <1>1, <2>3, <3>3
      <4>2. p < i => cell[p] < cell[i]
        BY <2>3, <2>4
      <4> QED
        BY <2>3, <2>5, <2>7, <4>1, <4>2
    <3>4. v \in Parts(pos)
      BY <1>1, <3>1, <3>2, <3>3 DEF Parts
    <3> QED
      BY <1>3, <2>2, <2>7, <3>2, <3>4 DEF v, p
  <2> QED
    BY <2>6, <2>7
<1> QED
  BY <1>2, <1>3

\* The binary search finds the place before which the nodes are less than pos.
LEMMA SearchIs ==
  ASSUME VectorInv, NEW pos \in Nat
  PROVE  /\ Search(pos) \in 0..nsz
         /\ \A i \in 0..(nsz - 1) : i < Search(pos) <=> cell[i] < pos
<1> DEFINE m == nsz
           D == Parts(pos)
           base == [f |-> 0, sz |-> nsz]
           step == [k \in Nat |-> [w \in D |-> Halve(w, pos)]]
           Is(h) == h = [k \in 0..m |-> IF k = 0 THEN base ELSE Halve(h[k - 1], pos)]
<1>1. Search(pos) = (CHOOSE h : Is(h))[m].f
  BY Zenon DEF Search
<1>2. m \in Nat /\ nsz = m
  BY DEF VectorInv
<1>3. base \in D /\ base.sz = m
  BY <1>2 DEF Parts
<1>4. step \in StepsOn(D)
  <2>1. \A w \in D : Halve(w, pos) \in D
    BY HalveIs
  <2> HIDE DEF D
  <2> QED
    BY <2>1 DEF StepsOn
<1>5. \A k \in Nat, w \in D : step[k][w] = Halve(w, pos)
  <2> HIDE DEF D
  <2> QED
    OBVIOUS
<1> HIDE DEF step, D, base, m
<1>6. PICK f \in [Nat -> D] : f[0] = base /\ \A k \in Nat : f[k + 1] = step[k][f[k]]
  <2>1. PICK f : f \in Runs(D, base, step)
    BY <1>3, <1>4, Recursive
  <2> QED
    BY <2>1 DEF Runs
<1> DEFINE g == [k \in 0..m |-> f[k]]
<1>7. Is(g)
  <2>1. \A k \in 0..m : g[k] = IF k = 0 THEN base ELSE Halve(g[k - 1], pos)
    <3> SUFFICES ASSUME NEW k \in 0..m PROVE g[k] = IF k = 0 THEN base ELSE Halve(g[k - 1], pos)
      OBVIOUS
    <3>1. k # 0 => k - 1 \in 0..m /\ k - 1 \in Nat /\ (k - 1) + 1 = k
      BY <1>2
    <3>2. \A j \in Nat : f[j + 1] = Halve(f[j], pos)
      <4>1. \A j \in Nat : f[j] \in D
        BY <1>6
      <4> QED
        BY <1>5, <1>6, <4>1
    <3> QED
      BY <1>6, <3>1, <3>2
  <2>2. g = [k \in 0..m |-> g[k]]
    OBVIOUS
  <2> HIDE DEF g
  <2> QED
    BY <2>1, <2>2
<1> DEFINE h == CHOOSE h : Is(h)
<1>8. Is(h)
  <2> HIDE DEF Is, g
  <2> QED
    BY <1>7
<1>9. \A k \in 0..m : h[k] = IF k = 0 THEN base ELSE Halve(h[k - 1], pos)
  <2> HIDE DEF h
  <2> QED
    BY <1>8
<1>10. h[m].f = Search(pos)
  BY <1>1
<1> HIDE DEF h, Is, g
<1>11. \A k \in Nat : k <= m => h[k] \in D /\ h[k].sz \in Nat /\ (h[k].sz = 0 \/ h[k].sz + k <= m)
  <2> DEFINE Small(k) == h[k] \in D /\ h[k].sz \in Nat /\ (h[k].sz = 0 \/ h[k].sz + k <= m)
             I == {k \in Nat : k <= m => Small(k)}
  <2>1. 0 \in I
    BY <1>2, <1>3, <1>9
  <2>2. ASSUME NEW k \in Nat, k \in I PROVE k + 1 \in I
    <3> SUFFICES ASSUME k + 1 <= m
                 PROVE  Small(k + 1)
      OBVIOUS
    <3>1. k + 1 \in 0..m /\ k + 1 # 0 /\ (k + 1) - 1 = k
      BY <1>2
    <3>2. Small(k)
      BY <1>2, <2>2
    <3>3. h[k + 1] = Halve(h[k], pos)
      BY <1>9, <3>1
    <3>4. /\ Halve(h[k], pos) \in D
          /\ h[k].sz # 0 => Halve(h[k], pos).sz < h[k].sz
          /\ h[k].sz = 0 => Halve(h[k], pos) = h[k]
      BY <3>2, HalveIs DEF D
    <3>5. Halve(h[k], pos).sz \in Nat
      BY <3>4 DEF D, Parts
    <3> QED
      BY <1>2, <3>2, <3>3, <3>4, <3>5
  <2> HIDE DEF I
  <2>3. Nat \subseteq I
    BY <2>1, <2>2, Inductive
  <2> QED
    BY <2>3 DEF I
<1>12. h[m] \in D /\ h[m].sz = 0
  BY <1>2, <1>11
<1> DEFINE w == h[m]
<1>13. /\ w.f \in Nat /\ w.sz = 0 /\ w.f + w.sz <= nsz
       /\ \A i \in 0..(nsz - 1) :
            (i < w.f => cell[i] < pos) /\ (i >= w.f + w.sz => ~(cell[i] < pos))
  BY <1>12 DEF D, Parts
<1> HIDE DEF w
<1>14. w.f \in 0..nsz /\ \A i \in 0..(nsz - 1) : i < w.f <=> cell[i] < pos
  <2>1. nsz \in Nat /\ w.f + w.sz = w.f
    BY <1>2, <1>13
  <2> QED
    BY <1>13, <2>1
<1> QED
  BY <1>10, <1>14 DEF w

LEMMA VectorStarts == VectorInit => VectorInv
<1>1. 0..(0 - 1) = {}
  OBVIOUS
<1> QED
  BY <1>1 DEF VectorInit, VectorInv

\* Add moves up what is behind the place: the order is kept, one node is added.
LEMMA AddKeeps ==
  ASSUME VectorInv, NEW node \in Addresses \ Stored, VectorAdd(node)
  PROVE  VectorInv' /\ Stored' = Stored \cup {node}
<1> DEFINE f == Search(node)
           m == nsz
           z == vectorSz'
<1>1. /\ m \in Nat /\ vectorSz \in Nat /\ m <= vectorSz /\ node \in Nat
      /\ \A i \in 0..(m - 1) : cell[i] \in Nat /\ cell[i] \in Addresses /\ cell[i] # 0
      /\ \A i, j \in 0..(m - 1) : i < j => cell[i] < cell[j]
      /\ cell \in [0..(vectorSz - 1) -> Addresses \cup {0}]
  BY CellsAre, VectorAssumption DEF VectorInv
<1>2. f \in 0..m /\ \A i \in 0..(m - 1) : i < f <=> cell[i] < node
  BY <1>1, SearchIs
<1>3. z \in Nat /\ m + 1 <= z
  <2>1. z = Grown
    BY DEF VectorAdd
  <2> QED
    BY <1>1, <2>1, VectorAssumption DEF Grown
<1>4. nsz' = m + 1
  BY DEF VectorAdd
<1>5. cell' = [i \in 0..(z - 1) |-> IF i = f THEN node
                                ELSE IF f < i /\ i <= m THEN cell[i - 1]
                                ELSE IF i < m THEN cell[i] ELSE 0]
  <2>1. z = Grown /\ z \in Nat
    BY <1>3 DEF VectorAdd
  <2> DEFINE c == [i \in 0..(z - 1) |-> IF i < m THEN cell[i] ELSE 0]
             d == [i \in 0..(z - 1) |-> IF f + 1 <= i /\ i < (f + 1) + (m - f)
                                        THEN c[i - (f + 1) + f] ELSE c[i]]
  <2>2. cell' = [d EXCEPT ![f] = node]
    BY <2>1 DEF VectorAdd, Moved, Resized
  <2> HIDE DEF f, m, z
  <2>3. ASSUME NEW i \in 0..(z - 1), i # f
        PROVE  d[i] = IF f < i /\ i <= m THEN cell[i - 1] ELSE IF i < m THEN cell[i] ELSE 0
    <3>1. CASE f < i /\ i <= m
      <4>1. /\ f + 1 <= i /\ i < (f + 1) + (m - f) /\ i - (f + 1) + f = i - 1
            /\ i - 1 \in 0..(z - 1) /\ i - 1 < m
        BY <1>1, <1>2, <2>1, <3>1
      <4> QED
        BY <3>1, <4>1
    <3>2. CASE ~(f < i /\ i <= m)
      <4>1. ~(f + 1 <= i /\ i < (f + 1) + (m - f))
        BY <1>1, <1>2, <2>1, <3>2
      <4> QED
        BY <3>2, <4>1
    <3> QED
      BY <3>1, <3>2
  <2> HIDE DEF d
  <2> QED
    BY <2>2, <2>3 DEF d
<1>6. \A i \in 0..(m - 1) : cell[i] # node
  BY <1>1 DEF Stored
<1> HIDE DEF f, z, m
<1>7. /\ cell'[f] = node
      /\ \A i \in 0..(f - 1) : cell'[i] = cell[i]
      /\ \A i \in (f + 1)..m : cell'[i] = cell[i - 1]
  <2>1. f \in 0..(z - 1) /\ f \in Nat
    BY <1>1, <1>2, <1>3
  <2>2. ASSUME NEW i \in 0..(f - 1) PROVE cell'[i] = cell[i]
    <3>1. i \in 0..(z - 1) /\ i # f /\ ~(f < i) /\ i < m
      BY <1>1, <1>2, <1>3, <2>1
    <3> QED
      BY <1>5, <3>1
  <2>3. ASSUME NEW i \in (f + 1)..m PROVE cell'[i] = cell[i - 1]
    <3>1. i \in 0..(z - 1) /\ i # f /\ f < i /\ i <= m
      BY <1>1, <1>2, <1>3, <2>1
    <3> QED
      BY <1>5, <3>1
  <2> QED
    BY <1>5, <2>1, <2>2, <2>3
<1>8. ASSUME NEW i \in 0..m
      PROVE  \/ i = f /\ cell'[i] = node
             \/ i \in 0..(f - 1) /\ i \in 0..(m - 1) /\ cell'[i] = cell[i] /\ cell[i] < node
             \/ /\ i \in (f + 1)..m /\ i - 1 \in 0..(m - 1)
                /\ cell'[i] = cell[i - 1] /\ node < cell[i - 1]
  <2>1. f \in Nat /\ i \in Nat /\ f <= m /\ i <= m
    BY <1>1, <1>2
  <2>2. CASE i < f
    <3>1. i \in 0..(f - 1) /\ i \in 0..(m - 1)
      BY <1>1, <2>1, <2>2
    <3> QED
      BY <1>2, <1>7, <2>2, <3>1
  <2>3. CASE f < i
    <3>1. i \in (f + 1)..m /\ i - 1 \in 0..(m - 1) /\ ~(i - 1 < f)
      BY <1>1, <2>1, <2>3
    <3>2. cell[i - 1] \in Nat /\ cell[i - 1] # node /\ ~(cell[i - 1] < node)
      BY <1>1, <1>2, <1>6, <3>1
    <3> QED
      BY <1>1, <1>7, <3>1, <3>2
  <2> QED
    BY <1>7, <2>1, <2>2, <2>3
<1>9. \A i \in 0..m : cell'[i] \in Addresses
  BY <1>1, <1>8
<1>10. \A i, j \in 0..m : i < j => cell'[i] < cell'[j]
  <2> SUFFICES ASSUME NEW i \in 0..m, NEW j \in 0..m, i < j PROVE cell'[i] < cell'[j]
    OBVIOUS
  <2>1. f \in Nat /\ i \in Nat /\ j \in Nat
    BY <1>1, <1>2
  <2>2. CASE i \in 0..(f - 1) /\ i \in 0..(m - 1) /\ cell'[i] = cell[i] /\ cell[i] < node
    <3>1. CASE j \in 0..(f - 1)
      BY <1>1, <1>8, <2>1, <2>2, <3>1
    <3>2. CASE j = f
      BY <1>8, <2>1, <2>2, <3>2
    <3>3. CASE j \in (f + 1)..m
      <4>1. j - 1 \in 0..(m - 1) /\ cell'[j] = cell[j - 1] /\ node < cell[j - 1]
        BY <1>8, <2>1, <3>3
      <4> QED
        BY <1>1, <2>2, <4>1
    <3> QED
      BY <1>8, <3>1, <3>2, <3>3
  <2>3. CASE i = f /\ cell'[i] = node
    BY <1>8, <2>1, <2>3
  <2>4. CASE i \in (f + 1)..m /\ i - 1 \in 0..(m - 1) /\ cell'[i] = cell[i - 1]
    <3>1. j \in (f + 1)..m
      BY <2>1, <2>4
    <3>2. j - 1 \in 0..(m - 1) /\ cell'[j] = cell[j - 1] /\ i - 1 < j - 1
      BY <1>8, <2>1, <3>1
    <3> QED
      BY <1>1, <2>4, <3>2
  <2> QED
    BY <1>8, <2>2, <2>3, <2>4
<1>11. cell' \in [0..(z - 1) -> Addresses \cup {0}]
  <2> SUFFICES ASSUME NEW i \in 0..(z - 1) PROVE cell'[i] \in Addresses \cup {0}
    BY <1>5
  <2>1. CASE i <= m
    <3>1. i \in 0..m
      BY <1>1, <2>1
    <3> QED
      BY <1>9, <3>1
  <2>2. CASE ~(i <= m)
    <3>1. i # f /\ ~(i < m)
      BY <1>1, <1>2, <2>2
    <3> QED
      BY <1>5, <2>2, <3>1
  <2> QED
    BY <2>1, <2>2
<1>12. m + 1 \in Nat /\ (m + 1) - 1 = m
  BY <1>1
<1>13. VectorInv'
  <2>1. z = vectorSz'
    BY DEF z
  <2> QED
    BY <1>3, <1>4, <1>9, <1>10, <1>11, <1>12, <2>1 DEF VectorInv
<1>14. Stored' = {cell'[i] : i \in 0..m}
  BY <1>4, <1>12 DEF Stored
<1>15. Stored = {cell[i] : i \in 0..(m - 1)}
  BY DEF Stored, m
<1>16. ASSUME NEW i \in 0..(m - 1) PROVE \E j \in 0..m : cell'[j] = cell[i]
  <2>1. f \in Nat /\ i \in Nat
    BY <1>1, <1>2
  <2>2. CASE i < f
    <3>1. i \in 0..m /\ i \in 0..(f - 1)
      BY <1>1, <2>1, <2>2
    <3> QED
      BY <1>7, <3>1
  <2>3. CASE ~(i < f)
    <3>1. i + 1 \in 0..m /\ i + 1 \in (f + 1)..m /\ (i + 1) - 1 = i
      BY <1>1, <2>1, <2>3
    <3> QED
      BY <1>7, <3>1
  <2> QED
    BY <2>2, <2>3
<1>17. \A i \in 0..m : cell'[i] = node \/ cell'[i] \in Stored
  BY <1>8, <1>15
<1>18. f \in 0..m /\ cell'[f] = node
  BY <1>2, <1>7
<1> QED
  BY <1>13, <1>14, <1>15, <1>16, <1>17, <1>18

\* Del finds the node and moves down what is behind it.
LEMMA DelKeeps ==
  ASSUME VectorInv, NEW node \in Stored, VectorDel(node)
  PROVE  VectorInv' /\ Stored' = Stored \ {node}
<1> DEFINE f == Search(node)
           m == nsz
           z == vectorSz
<1>1. /\ m \in Nat /\ z \in Nat /\ m <= z
      /\ \A i \in 0..(m - 1) : cell[i] \in Nat /\ cell[i] \in Addresses /\ cell[i] # 0
      /\ \A i, j \in 0..(m - 1) : i < j => cell[i] < cell[j]
      /\ cell \in [0..(z - 1) -> Addresses \cup {0}]
  BY CellsAre DEF VectorInv
<1>2. PICK k \in 0..(m - 1) : cell[k] = node
  BY DEF Stored
<1>3. node \in Nat
  BY <1>1, <1>2
<1>4. f \in 0..m /\ \A i \in 0..(m - 1) : i < f <=> cell[i] < node
  BY <1>3, SearchIs
<1>5. /\ nsz' = m - 1 /\ vectorSz' = z
      /\ cell' = [i \in 0..(z - 1) |-> IF f <= i /\ i < m - 1 THEN cell[i + 1] ELSE cell[i]]
  <2>1. /\ nsz' = m - 1 /\ vectorSz' = z
        /\ cell' = [i \in 0..(z - 1) |-> IF f <= i /\ i < f + (m - f - 1)
                                         THEN cell[i - f + (f + 1)] ELSE cell[i]]
    BY <1>1 DEF VectorDel, Moved
  <2> HIDE DEF f, m, z
  <2>2. ASSUME NEW i \in 0..(z - 1)
        PROVE  f + (m - f - 1) = m - 1 /\ i - f + (f + 1) = i + 1
    BY <1>1, <1>4
  <2> QED
    BY <2>1, <2>2
<1> HIDE DEF f, z, m
<1>6. f = k
  <2>1. ~(k < f)
    BY <1>1, <1>2, <1>3, <1>4
  <2>2. ~(f < k)
    <3> SUFFICES ASSUME f < k PROVE FALSE
      OBVIOUS
    <3>1. f \in 0..(m - 1) /\ ~(f < f)
      BY <1>1, <1>2, <1>4
    <3> QED
      BY <1>1, <1>2, <1>4, <3>1
  <2> QED
    BY <1>1, <1>2, <1>4, <2>1, <2>2
<1>7. ASSUME NEW i \in 0..(m - 2)
      PROVE  \/ i < k /\ i \in 0..(m - 1) /\ cell'[i] = cell[i]
             \/ k <= i /\ i + 1 \in 0..(m - 1) /\ cell'[i] = cell[i + 1]
  <2>1. /\ i \in 0..(z - 1) /\ i \in 0..(m - 1) /\ i + 1 \in 0..(m - 1) /\ i < m - 1
        /\ i < k \/ k <= i
    BY <1>1
  <2> QED
    BY <1>5, <1>6, <2>1
<1>17. ASSUME NEW i \in 0..(m - 2)
       PROVE  \E a \in 0..(m - 1) : cell'[i] = cell[a] /\ ((a = i /\ i < k) \/ (a = i + 1 /\ k <= i))
  <2>1. CASE i < k /\ i \in 0..(m - 1) /\ cell'[i] = cell[i]
    BY <2>1
  <2>2. CASE k <= i /\ i + 1 \in 0..(m - 1) /\ cell'[i] = cell[i + 1]
    BY <2>2
  <2> QED
    BY <1>7, <2>1, <2>2
<1>8. \A i \in 0..(m - 2) : cell'[i] \in Addresses
  BY <1>1, <1>7
<1>9. \A i, j \in 0..(m - 2) : i < j => cell'[i] < cell'[j]
  <2> SUFFICES ASSUME NEW i \in 0..(m - 2), NEW j \in 0..(m - 2), i < j PROVE cell'[i] < cell'[j]
    OBVIOUS
  <2>1. PICK a \in 0..(m - 1) : cell'[i] = cell[a] /\ ((a = i /\ i < k) \/ (a = i + 1 /\ k <= i))
    BY <1>17
  <2>2. PICK b \in 0..(m - 1) : cell'[j] = cell[b] /\ ((b = j /\ j < k) \/ (b = j + 1 /\ k <= j))
    BY <1>17
  <2>3. a < b
    BY <1>1, <1>2, <2>1, <2>2
  <2> QED
    BY <1>1, <2>1, <2>2, <2>3
<1>10. cell' \in [0..(z - 1) -> Addresses \cup {0}]
  <2> SUFFICES ASSUME NEW i \in 0..(z - 1) PROVE cell'[i] \in Addresses \cup {0}
    BY <1>5
  <2>1. f <= i /\ i < m - 1 => i + 1 \in 0..(z - 1)
    BY <1>1, <1>2, <1>6
  <2>2. cell'[i] = cell[i] \/ (i + 1 \in 0..(z - 1) /\ cell'[i] = cell[i + 1])
    BY <1>5, <2>1
  <2> QED
    BY <1>1, <2>2
<1>11. m - 1 \in Nat /\ m - 1 <= z /\ (m - 1) - 1 = m - 2
  BY <1>1, <1>2
<1>12. VectorInv'
  BY <1>1, <1>5, <1>8, <1>9, <1>10, <1>11 DEF VectorInv
<1>13. Stored' = {cell'[i] : i \in 0..(m - 2)}
  BY <1>5, <1>11 DEF Stored
<1>14. Stored = {cell[i] : i \in 0..(m - 1)}
  BY DEF Stored, m
<1>15. ASSUME NEW i \in 0..(m - 1), i # k PROVE \E j \in 0..(m - 2) : cell'[j] = cell[i]
  <2>1. CASE i < k
    <3>1. i \in 0..(m - 2)
      BY <1>1, <1>2, <2>1
    <3>2. ~(k <= i)
      BY <1>2, <2>1
    <3> QED
      BY <1>7, <3>1, <3>2
  <2>2. CASE ~(i < k)
    <3>1. i - 1 \in 0..(m - 2) /\ ~(i - 1 < k) /\ (i - 1) + 1 = i
      BY <1>1, <1>2, <1>15, <2>2
    <3> QED
      BY <1>7, <3>1
  <2> QED
    BY <2>1, <2>2
<1>16. \A i \in 0..(m - 2) : cell'[i] \in Stored /\ cell'[i] # node
  <2> SUFFICES ASSUME NEW i \in 0..(m - 2) PROVE cell'[i] \in Stored /\ cell'[i] # node
    OBVIOUS
  <2>1. PICK a \in 0..(m - 1) : cell'[i] = cell[a] /\ ((a = i /\ i < k) \/ (a = i + 1 /\ k <= i))
    BY <1>17
  <2>2. a < k \/ k < a
    BY <1>1, <1>2, <2>1
  <2>3. cell[a] # cell[k]
    BY <1>1, <1>2, <2>1, <2>2
  <2> QED
    BY <1>2, <1>14, <2>1, <2>3
<1> QED
  BY <1>2, <1>12, <1>13, <1>14, <1>15, <1>16

LEMMA VectorSteps == VectorInv /\ [VectorNext]_vectorVars => VectorInv'
<1> SUFFICES ASSUME VectorInv, [VectorNext]_vectorVars PROVE VectorInv'
  OBVIOUS
<1>1. ASSUME NEW node \in Addresses \ Stored, VectorAdd(node) PROVE VectorInv'
  BY <1>1, AddKeeps
<1>2. ASSUME NEW node \in Stored, VectorDel(node) PROVE VectorInv'
  BY <1>2, DelKeeps
<1>3. CASE UNCHANGED vectorVars
  BY <1>3 DEF vectorVars, VectorInv
<1> QED
  BY <1>1, <1>2, <1>3 DEF VectorNext

\* The nodes of an AListVoidVector stay in the order of their addresses
\* (AList.h: Add, Resize, Del).
THEOREM VectorInvHolds == VectorSpec => []VectorInv
<1>1. VectorInit => VectorInv
  BY VectorStarts
<1>2. VectorInv /\ [VectorNext]_vectorVars => VectorInv'
  BY VectorSteps
<1> QED
  BY <1>1, <1>2, PTL DEF VectorSpec

\* Search and the moves stay inside the array, of any first size.
THEOREM VectorTypeCorrect == VectorSpec => []VectorTypeOK
<1>1. VectorInv => VectorTypeOK
  BY DEF VectorInv, VectorTypeOK
<1> QED
  BY <1>1, VectorInvHolds, PTL

\* For any addresses the binary search of Get finds the least node at or after the
\* address that AllocFree looks for.
THEOREM VectorFinds == VectorSpec => []VectorFindsNext
<1>1. ASSUME VectorInv, NEW pos \in Nat
      PROVE  LET after == {n \in Stored : n >= pos} IN
             VectorGet(pos) = IF after = {} THEN 0 ELSE CHOOSE n \in after : \A k \in after : n <= k
  <2> DEFINE f == Search(pos)
             m == nsz
             after == {n \in Stored : n >= pos}
  <2>1. /\ m \in Nat
        /\ \A i \in 0..(m - 1) : cell[i] \in Nat
        /\ \A i, j \in 0..(m - 1) : i < j => cell[i] < cell[j]
    BY <1>1, CellsAre DEF VectorInv
  <2>2. f \in 0..m /\ \A i \in 0..(m - 1) : i < f <=> cell[i] < pos
    BY <1>1, SearchIs
  <2>3. VectorGet(pos) = IF f < m THEN cell[f] ELSE 0
    BY DEF VectorGet
  <2>4. Stored = {cell[i] : i \in 0..(m - 1)}
    BY DEF Stored
  <2> HIDE DEF f, m
  <2>5. ASSUME NEW n \in after PROVE f < m /\ cell[f] <= n
    <3>1. PICK i \in 0..(m - 1) : n = cell[i] /\ ~(cell[i] < pos)
      BY <2>1, <2>4, <2>5
    <3>2. f <= i /\ f < m /\ f \in 0..(m - 1)
      BY <2>1, <2>2, <3>1
    <3>3. f = i \/ f < i
      BY <2>2, <3>2
    <3> QED
      BY <2>1, <3>1, <3>2, <3>3
  <2>6. CASE f < m
    <3>1. f \in 0..(m - 1)
      BY <2>1, <2>2, <2>6
    <3>2. cell[f] \in after
      BY <2>1, <2>2, <2>4, <3>1
    <3>3. \A n \in after : n \in Nat
      BY <2>1, <2>4
    <3> DEFINE c == cell[f]
    <3> HIDE DEF c, after
    <3>4. c \in after /\ \A n \in after : c <= n
      BY <2>5, <3>2 DEF c
    <3>5. ASSUME NEW n \in after, \A k \in after : n <= k PROVE n = c
      BY <3>3, <3>4, <3>5
    <3>6. (CHOOSE n \in after : \A k \in after : n <= k) = c
      BY <3>4, <3>5
    <3> QED
      BY <2>3, <2>6, <3>4, <3>6 DEF c, after
  <2>7. CASE ~(f < m)
    <3>1. after = {}
      BY <2>5, <2>7
    <3> QED
      BY <2>3, <2>7, <3>1
  <2> QED
    BY <2>6, <2>7
<1>2. VectorInv => VectorFindsNext
  <2>0. \A n \in Addresses : n \in Nat /\ n + 1 \in Nat
    BY VectorAssumption
  <2>1. \A pos \in Addresses \cup {n + 1 : n \in Addresses} : pos \in Nat
    BY <2>0, Zenon
  <2> QED
    BY <1>1, <2>1 DEF VectorFindsNext
<1> QED
  BY <1>2, VectorInvHolds, PTL

\* Each Add and Del of the array adds or removes exactly the node it is called with.
THEOREM VectorKeepsNodes == VectorSpec => VectorIsSet
<1> DEFINE A == \/ \E node \in Addresses : Stored' = Stored \cup {node} /\ node \notin Stored
                \/ \E node \in Stored : Stored' = Stored \ {node}
<1>1. VectorInv /\ [VectorNext]_vectorVars => [A]_vectorVars
  <2> SUFFICES ASSUME VectorInv, VectorNext PROVE A
    OBVIOUS
  <2>1. ASSUME NEW node \in Addresses \ Stored, VectorAdd(node) PROVE A
    BY <2>1, AddKeeps
  <2>2. ASSUME NEW node \in Stored, VectorDel(node) PROVE A
    BY <2>2, DelKeeps
  <2> QED
    BY <2>1, <2>2 DEF VectorNext
<1> QED
  BY <1>1, VectorInvHolds, PTL DEF VectorSpec, VectorIsSet

------------------------------------------------------------------------------
(* SendData: sums and blocks                                               *)

\* The sums of the beginnings of a sequence.
Summing(s) ==
  {f \in [0..Len(s) -> Nat] :
     /\ f[0] = 0 /\ f[Len(s)] = SumOf(s)
     /\ \A n \in 0..(Len(s) - 1) : f[n + 1] = f[n] + s[n + 1]}

\* SumOf is defined for every sequence of numbers.
LEMMA SumSteps ==
  ASSUME NEW s \in Seq(Nat)
  PROVE  \E f : f \in Summing(s)
<1> DEFINE m == Len(s)
           step == [n \in Nat |-> [r \in Nat |-> IF n < m THEN r + s[n + 1] ELSE r]]
           Is(f) == f = [k \in 0..m |-> IF k = 0 THEN 0 ELSE f[k - 1] + s[k]]
<1>1. m \in Nat /\ \A n \in 0..(m - 1) : s[n + 1] \in Nat
  OBVIOUS
<1>2. SumOf(s) = (CHOOSE f : Is(f))[m]
  BY Zenon DEF SumOf
<1> HIDE DEF m
<1>3. step \in StepsOn(Nat)
  BY <1>1 DEF StepsOn
<1>4. \A n \in 0..(m - 1), r \in Nat : step[n][r] = r + s[n + 1]
  BY <1>1
<1> HIDE DEF step
<1>5. PICK h \in [Nat -> Nat] : h[0] = 0 /\ \A n \in Nat : h[n + 1] = step[n][h[n]]
  <2>1. PICK h : h \in Runs(Nat, 0, step)
    BY <1>3, Recursive
  <2> QED
    BY <2>1 DEF Runs
<1> DEFINE g == [k \in 0..m |-> h[k]]
<1>6. Is(g)
  <2>1. \A k \in 0..m : g[k] = IF k = 0 THEN 0 ELSE g[k - 1] + s[k]
    <3> SUFFICES ASSUME NEW k \in 0..m PROVE g[k] = IF k = 0 THEN 0 ELSE g[k - 1] + s[k]
      OBVIOUS
    <3>1. k # 0 => k - 1 \in 0..(m - 1) /\ k - 1 \in 0..m /\ (k - 1) + 1 = k
      BY <1>1
    <3>2. ASSUME NEW j \in 0..(m - 1) PROVE h[j + 1] = h[j] + s[j + 1]
      <4>1. j \in Nat /\ h[j] \in Nat
        BY <1>1
      <4>2. h[j + 1] = step[j][h[j]]
        BY <1>5, <4>1
      <4> QED
        BY <1>4, <4>1, <4>2, Zenon
    <3> QED
      BY <1>5, <3>1, <3>2
  <2>2. g = [k \in 0..m |-> g[k]]
    OBVIOUS
  <2> HIDE DEF g
  <2> QED
    BY <2>1, <2>2
<1> DEFINE f == CHOOSE f : Is(f)
<1>7. Is(f)
  <2> HIDE DEF Is, g
  <2> QED
    BY <1>6
<1>8. f[m] = SumOf(s)
  BY <1>2
<1> HIDE DEF f, g
<1>9. \A k \in 0..m : f[k] = IF k = 0 THEN 0 ELSE f[k - 1] + s[k]
  BY <1>7
<1>10. f = [k \in 0..m |-> f[k]]
  BY <1>7
<1> HIDE DEF Is
<1>11. f[0] = 0 /\ \A n \in 0..(m - 1) : f[n + 1] = f[n] + s[n + 1]
  <2>1. 0 \in 0..m
    BY <1>1
  <2>2. ASSUME NEW n \in 0..(m - 1) PROVE f[n + 1] = f[n] + s[n + 1]
    <3>1. n + 1 \in 0..m /\ n + 1 # 0 /\ (n + 1) - 1 = n
      BY <1>1
    <3> QED
      BY <1>9, <3>1
  <2> QED
    BY <1>9, <2>1, <2>2
<1>12. \A n \in Nat : n <= m => f[n] \in Nat
  <2> DEFINE I == {n \in Nat : n <= m => f[n] \in Nat}
  <2>1. 0 \in I
    BY <1>11
  <2>2. ASSUME NEW n \in Nat, n \in I PROVE n + 1 \in I
    <3>1. n + 1 <= m => n <= m /\ n \in 0..(m - 1)
      BY <1>1
    <3>2. n + 1 <= m => f[n] \in Nat /\ f[n + 1] = f[n] + s[n + 1] /\ s[n + 1] \in Nat
      BY <1>1, <1>11, <2>2, <3>1
    <3>3. n + 1 <= m => f[n + 1] \in Nat
      <4>1. \A a, b \in Nat : a + b \in Nat
        OBVIOUS
      <4> QED
        BY <3>2, <4>1, Zenon
    <3> QED
      BY <3>3
  <2> HIDE DEF I
  <2>3. Nat \subseteq I
    BY <2>1, <2>2, Inductive
  <2> QED
    BY <2>3 DEF I
<1>13. f \in [0..m -> Nat]
  BY <1>1, <1>10, <1>12
<1> QED
  BY <1>8, <1>11, <1>13 DEF Summing, m

LEMMA SumType ==
  ASSUME NEW s \in Seq(Nat)
  PROVE  SumOf(s) \in Nat
<1>1. PICK f : f \in Summing(s)
  BY SumSteps
<1> QED
  BY <1>1 DEF Summing

LEMMA SumEmpty == SumOf(<<>>) = 0
<1>1. <<>> \in Seq(Nat) /\ Len(<<>>) = 0
  OBVIOUS
<1>2. PICK f : f \in Summing(<<>>)
  BY <1>1, SumSteps
<1> QED
  BY <1>1, <1>2 DEF Summing

\* One number more at the end.
LEMMA SumAppend ==
  ASSUME NEW s \in Seq(Nat), NEW x \in Nat
  PROVE  SumOf(Append(s, x)) = SumOf(s) + x
<1> DEFINE r == Append(s, x)
           m == Len(s)
<1>1. /\ r \in Seq(Nat) /\ m \in Nat /\ Len(r) = m + 1
      /\ r[m + 1] = x /\ \A n \in 1..m : r[n] = s[n]
  BY AppendProperties
<1> HIDE DEF r, m
<1>2. PICK f : f \in Summing(s)
  BY SumSteps
<1>3. PICK g : g \in Summing(r)
  BY <1>1, SumSteps
<1>4. /\ f[0] = 0 /\ f[m] = SumOf(s)
      /\ \A n \in 0..(m - 1) : f[n + 1] = f[n] + s[n + 1]
  BY <1>2 DEF Summing, m
<1>5. /\ g[0] = 0 /\ g[m + 1] = SumOf(r)
      /\ \A n \in 0..m : g[n + 1] = g[n] + r[n + 1]
  BY <1>1, <1>3 DEF Summing
<1>6. \A n \in Nat : n <= m => g[n] = f[n]
  <2> DEFINE I == {n \in Nat : n <= m => g[n] = f[n]}
  <2>1. 0 \in I
    BY <1>4, <1>5
  <2>2. ASSUME NEW n \in Nat, n \in I PROVE n + 1 \in I
    <3> SUFFICES ASSUME n + 1 <= m PROVE g[n + 1] = f[n + 1]
      OBVIOUS
    <3>1. n \in 0..(m - 1) /\ n \in 0..m /\ r[n + 1] = s[n + 1] /\ g[n] = f[n]
      BY <1>1, <2>2
    <3> QED
      BY <1>4, <1>5, <3>1
  <2> HIDE DEF I
  <2>3. Nat \subseteq I
    BY <2>1, <2>2, Inductive
  <2> QED
    BY <2>3 DEF I
<1>7. g[m + 1] = g[m] + x
  BY <1>1, <1>5
<1>8. g[m] = f[m]
  BY <1>1, <1>6
<1> QED
  BY <1>4, <1>5, <1>7, <1>8 DEF r

\* The same for a number in front.
LEMMA SumFirst ==
  ASSUME NEW s \in Seq(Nat), NEW x \in Nat
  PROVE  SumOf(<<x>> \o s) = SumOf(s) + x
<1> DEFINE I == {n \in Nat : \A t \in Seq(Nat) : Len(t) = n => SumOf(<<x>> \o t) = SumOf(t) + x}
<1>1. 0 \in I
  <2> SUFFICES ASSUME NEW t \in Seq(Nat), Len(t) = 0 PROVE SumOf(<<x>> \o t) = SumOf(t) + x
    OBVIOUS
  <2>1. t = <<>> /\ <<x>> \o t = Append(<<>>, x) /\ <<>> \in Seq(Nat)
    OBVIOUS
  <2>2. SumOf(Append(<<>>, x)) = 0 + x
    BY <2>1, SumAppend, SumEmpty
  <2> QED
    BY <2>1, <2>2, SumEmpty
<1>2. ASSUME NEW n \in Nat, n \in I PROVE n + 1 \in I
  <2> SUFFICES ASSUME NEW t \in Seq(Nat), Len(t) = n + 1
               PROVE  SumOf(<<x>> \o t) = SumOf(t) + x
    OBVIOUS
  <2> DEFINE u == SubSeq(t, 1, n)
             y == t[n + 1]
  <2>1. u \in Seq(Nat) /\ Len(u) = n /\ y \in Nat /\ t = Append(u, y)
    OBVIOUS
  <2> HIDE DEF u, y
  <2>2. <<x>> \o u \in Seq(Nat) /\ <<x>> \o Append(u, y) = Append(<<x>> \o u, y)
    BY <2>1
  <2>3. SumOf(<<x>> \o u) = SumOf(u) + x
    BY <1>2, <2>1
  <2>4. SumOf(Append(u, y)) = SumOf(u) + y /\ SumOf(u) \in Nat
    BY <2>1, SumAppend, SumType
  <2>5. SumOf(Append(<<x>> \o u, y)) = SumOf(<<x>> \o u) + y
    BY <2>1, <2>2, SumAppend
  <2>6. SumOf(<<x>> \o t) = SumOf(<<x>> \o u) + y /\ SumOf(t) = SumOf(u) + y
    BY <2>1, <2>2, <2>4, <2>5, Zenon
  <2> QED
    BY <2>1, <2>3, <2>4, <2>6
<1> HIDE DEF I
<1>3. Nat \subseteq I
  BY <1>1, <1>2, Inductive
<1>4. Len(s) \in Nat
  OBVIOUS
<1> QED
  BY <1>3, <1>4 DEF I

\* A block of memory as New makes it: whole BufSz with its head.
Blocks ==
  {b \in [asz : Nat \ {0}, ssz : Nat, data : Seq(Nat)] :
     /\ b.ssz <= Len(b.data) /\ Len(b.data) <= b.asz
     /\ (b.asz + HeadSz) % BufSz = 0}

\* The bytes of a block that wait.
WaitingIn(b) == SubSeq(b.data, b.ssz + 1, Len(b.data))

BytesOf(blocks) == FlattenSeq(BytesIn(blocks))

LEMMA BlockIs ==
  ASSUME NEW a \in Nat \ {0}, NEW n \in Nat, NEW d \in Seq(Nat),
         n <= Len(d), Len(d) <= a, (a + HeadSz) % BufSz = 0
  PROVE  [asz |-> a, ssz |-> n, data |-> d] \in Blocks
BY DEF Blocks

LEMMA BlockType ==
  ASSUME NEW b \in Blocks
  PROVE  /\ b.asz \in Nat \ {0} /\ b.ssz \in Nat /\ b.data \in Seq(Nat)
         /\ Len(b.data) \in Nat /\ Rest(b) \in Nat /\ b.ssz <= Len(b.data) /\ Len(b.data) <= b.asz
         /\ Rest(b) <= Len(b.data) /\ (b.asz + HeadSz) % BufSz = 0
         /\ b = [asz |-> b.asz, ssz |-> b.ssz, data |-> b.data]
         /\ WaitingIn(b) \in Seq(Nat) /\ Len(WaitingIn(b)) = Rest(b)
<1>1. /\ b.asz \in Nat \ {0} /\ b.ssz \in Nat /\ b.data \in Seq(Nat)
      /\ Len(b.data) \in Nat /\ b.ssz <= Len(b.data) /\ Len(b.data) <= b.asz
      /\ (b.asz + HeadSz) % BufSz = 0
      /\ b = [asz |-> b.asz, ssz |-> b.ssz, data |-> b.data]
  BY DEF Blocks
<1>2. Rest(b) \in Nat /\ Rest(b) <= Len(b.data)
  BY <1>1 DEF Rest
<1>3. b.ssz \in 0..Len(b.data)
  BY <1>1
<1>4. WaitingIn(b) \in Seq(Nat) /\ Len(WaitingIn(b)) = Len(b.data) - b.ssz
  BY <1>1, <1>3, PartsIs DEF WaitingIn
<1> QED
  BY <1>1, <1>2, <1>4 DEF Rest

LEMMA PartsType ==
  ASSUME NEW q \in Seq(Blocks)
  PROVE  /\ RoomOf(q) \in Seq(Nat) /\ UseOf(q) \in Seq(Nat) /\ RestOf(q) \in Seq(Nat)
         /\ BytesIn(q) \in Seq(Seq(Nat))
<1>1. Len(q) \in Nat /\ \A i \in 1..Len(q) : q[i] \in Blocks
  OBVIOUS
<1>2. \A i \in 1..Len(q) : /\ q[i].asz \in Nat /\ Len(q[i].data) \in Nat
                           /\ Rest(q[i]) \in Nat /\ WaitingIn(q[i]) \in Seq(Nat)
  BY <1>1, BlockType
<1>3. RoomOf(q) \in Seq(Nat)
  BY <1>1, <1>2, IsASeq DEF RoomOf
<1>4. UseOf(q) \in Seq(Nat)
  BY <1>1, <1>2, IsASeq DEF UseOf
<1>5. RestOf(q) \in Seq(Nat)
  BY <1>1, <1>2, IsASeq DEF RestOf
<1>6. BytesIn(q) \in Seq(Seq(Nat))
  BY <1>1, <1>2, IsASeq DEF BytesIn, WaitingIn
<1> QED
  BY <1>3, <1>4, <1>5, <1>6

\* What q has more than p: the block b.
Adds(q, p, b) ==
  /\ SumOf(RoomOf(q)) = SumOf(RoomOf(p)) + b.asz
  /\ SumOf(UseOf(q)) = SumOf(UseOf(p)) + Len(b.data)
  /\ SumOf(RestOf(q)) = SumOf(RestOf(p)) + Rest(b)

LEMMA BytesInIs ==
  ASSUME NEW q \in Seq(Blocks)
  PROVE  /\ Len(BytesIn(q)) = Len(q)
         /\ \A i \in 1..Len(q) : BytesIn(q)[i] = WaitingIn(q[i])
<1>1. BytesIn(q) = [i \in 1..Len(q) |-> WaitingIn(q[i])]
  BY DEF BytesIn, WaitingIn
<1> QED
  BY <1>1

\* A block behind the others adds its part to each sum and its bytes at the end.
LEMMA LastAdds ==
  ASSUME NEW q \in Seq(Blocks), NEW b \in Blocks
  PROVE  /\ Adds(Append(q, b), q, b)
         /\ BytesOf(Append(q, b)) = BytesOf(q) \o WaitingIn(b)
<1> DEFINE r == Append(q, b)
<1>1. /\ Len(q) \in Nat /\ r \in Seq(Blocks) /\ Len(r) = Len(q) + 1 /\ r[Len(q) + 1] = b
      /\ \A i \in 1..Len(q) : r[i] = q[i]
  BY AppendProperties
<1> HIDE DEF r
<1>2. b.asz \in Nat /\ Len(b.data) \in Nat /\ Rest(b) \in Nat /\ WaitingIn(b) \in Seq(Nat)
  BY BlockType
<1>3. /\ RoomOf(q) \in Seq(Nat) /\ UseOf(q) \in Seq(Nat) /\ RestOf(q) \in Seq(Nat)
      /\ BytesIn(q) \in Seq(Seq(Nat))
  BY PartsType
<1>4. RoomOf(r) = Append(RoomOf(q), b.asz)
  BY <1>1, <1>2, <1>3, AppendIs DEF RoomOf
<1>5. UseOf(r) = Append(UseOf(q), Len(b.data))
  BY <1>1, <1>2, <1>3, AppendIs DEF UseOf
<1>6. RestOf(r) = Append(RestOf(q), Rest(b))
  BY <1>1, <1>2, <1>3, AppendIs DEF RestOf
<1>7. BytesIn(r) = Append(BytesIn(q), WaitingIn(b))
  <2>1. /\ BytesIn(r) \in Seq(Seq(Nat)) /\ Len(BytesIn(r)) = Len(BytesIn(q)) + 1
        /\ BytesIn(r)[Len(BytesIn(q)) + 1] = WaitingIn(b)
        /\ \A i \in 1..Len(BytesIn(q)) : BytesIn(r)[i] = BytesIn(q)[i]
    <3>1. /\ Len(BytesIn(r)) = Len(r) /\ Len(BytesIn(q)) = Len(q)
          /\ \A i \in 1..Len(r) : BytesIn(r)[i] = WaitingIn(r[i])
          /\ \A i \in 1..Len(q) : BytesIn(q)[i] = WaitingIn(q[i])
      BY <1>1, BytesInIs
    <3> QED
      BY <1>1, <3>1, PartsType
  <2> QED
    BY <1>2, <1>3, <2>1, AppendIs, SMTT(30)
<1>8. Adds(r, q, b)
  BY <1>2, <1>3, <1>4, <1>5, <1>6, SumAppend DEF Adds
<1>9. BytesOf(r) = BytesOf(q) \o WaitingIn(b)
  BY <1>2, <1>3, <1>7, FlattenAppend DEF BytesOf
<1> QED
  BY <1>8, <1>9 DEF r

\* A block in front adds its part to each sum and its bytes at the start.
LEMMA FirstAdds ==
  ASSUME NEW q \in Seq(Blocks), NEW b \in Blocks
  PROVE  /\ Adds(<<b>> \o q, q, b)
         /\ BytesOf(<<b>> \o q) = WaitingIn(b) \o BytesOf(q)
<1> DEFINE r == <<b>> \o q
<1>1. /\ Len(q) \in Nat /\ r \in Seq(Blocks) /\ Len(r) = Len(q) + 1 /\ r[1] = b
      /\ \A i \in 2..Len(r) : r[i] = q[i - 1]
  OBVIOUS
<1> HIDE DEF r
<1>2. b.asz \in Nat /\ Len(b.data) \in Nat /\ Rest(b) \in Nat /\ WaitingIn(b) \in Seq(Nat)
  BY BlockType
<1>3. /\ RoomOf(q) \in Seq(Nat) /\ UseOf(q) \in Seq(Nat) /\ RestOf(q) \in Seq(Nat)
      /\ BytesIn(q) \in Seq(Seq(Nat))
      /\ RoomOf(r) \in Seq(Nat) /\ UseOf(r) \in Seq(Nat) /\ RestOf(r) \in Seq(Nat)
      /\ BytesIn(r) \in Seq(Seq(Nat))
  BY <1>1, PartsType
<1>4. RoomOf(r) = <<b.asz>> \o RoomOf(q)
  <2>1. /\ Len(RoomOf(r)) = Len(RoomOf(q)) + 1 /\ RoomOf(r)[1] = b.asz
        /\ \A i \in 2..Len(RoomOf(r)) : RoomOf(r)[i] = RoomOf(q)[i - 1]
    BY <1>1 DEF RoomOf
  <2> QED
    BY <1>2, <1>3, <2>1, FirstIs
<1>5. UseOf(r) = <<Len(b.data)>> \o UseOf(q)
  <2>1. /\ Len(UseOf(r)) = Len(UseOf(q)) + 1 /\ UseOf(r)[1] = Len(b.data)
        /\ \A i \in 2..Len(UseOf(r)) : UseOf(r)[i] = UseOf(q)[i - 1]
    BY <1>1, SMTT(30) DEF UseOf
  <2> QED
    BY <1>2, <1>3, <2>1, FirstIs
<1>6. RestOf(r) = <<Rest(b)>> \o RestOf(q)
  <2>1. /\ Len(RestOf(r)) = Len(RestOf(q)) + 1 /\ RestOf(r)[1] = Rest(b)
        /\ \A i \in 2..Len(RestOf(r)) : RestOf(r)[i] = RestOf(q)[i - 1]
    BY <1>1 DEF RestOf
  <2> QED
    BY <1>2, <1>3, <2>1, FirstIs
<1>7. BytesIn(r) = <<WaitingIn(b)>> \o BytesIn(q)
  <2>1. /\ Len(BytesIn(r)) = Len(BytesIn(q)) + 1 /\ BytesIn(r)[1] = WaitingIn(b)
        /\ \A i \in 2..Len(BytesIn(r)) : BytesIn(r)[i] = BytesIn(q)[i - 1]
    <3>1. /\ Len(BytesIn(r)) = Len(r) /\ Len(BytesIn(q)) = Len(q)
          /\ \A i \in 1..Len(r) : BytesIn(r)[i] = WaitingIn(r[i])
          /\ \A i \in 1..Len(q) : BytesIn(q)[i] = WaitingIn(q[i])
      BY <1>1, BytesInIs
    <3> QED
      BY <1>1, <3>1
  <2> QED
    BY <1>2, <1>3, <2>1, FirstIs
<1>8. Adds(r, q, b)
  <2>1. SumOf(RoomOf(r)) = SumOf(RoomOf(q)) + b.asz
    BY <1>2, <1>3, <1>4, SumFirst
  <2>2. SumOf(UseOf(r)) = SumOf(UseOf(q)) + Len(b.data)
    BY <1>2, <1>3, <1>5, SumFirst
  <2>3. SumOf(RestOf(r)) = SumOf(RestOf(q)) + Rest(b)
    BY <1>2, <1>3, <1>6, SumFirst
  <2> QED
    BY <2>1, <2>2, <2>3 DEF Adds
<1>9. BytesOf(r) = WaitingIn(b) \o BytesOf(q)
  BY <1>2, <1>3, <1>7, FlattenFirst DEF BytesOf
<1> QED
  BY <1>8, <1>9 DEF r

\* A block that has no room and that is not sent up.
Full(b) == UsedUp(b) /\ Rest(b) > 0

AllFull(q) == \A i \in 1..Len(q) : Full(q[i])
FrontFull(q) == \A i \in 1..(Len(q) - 1) : Full(q[i])

\* An operation in its course.
Works(L) == [list : Seq(Blocks), asz : Nat, usz : Nat, dsz : Nat, left : L]

\* The sums agree with the blocks, of which only the last is open.
Sound(w) ==
  /\ w.asz = SumOf(RoomOf(w.list))
  /\ w.usz = SumOf(UseOf(w.list))
  /\ w.dsz = SumOf(RestOf(w.list))
  /\ FrontFull(w.list)

\* Soundness, seen from the last block.
LEMMA SoundLast ==
  ASSUME NEW p \in Seq(Blocks), NEW b \in Blocks, NEW w, w.list = Append(p, b)
  PROVE  Sound(w) <=> /\ w.asz = SumOf(RoomOf(p)) + b.asz
                      /\ w.usz = SumOf(UseOf(p)) + Len(b.data)
                      /\ w.dsz = SumOf(RestOf(p)) + Rest(b)
                      /\ AllFull(p)
<1>1. FrontFull(Append(p, b)) <=> AllFull(p)
  BY DEF FrontFull, AllFull
<1>2. Adds(Append(p, b), p, b)
  BY LastAdds
<1> QED
  BY <1>1, <1>2 DEF Sound, Adds

\* Soundness, seen from the first block.
LEMMA SoundFirst ==
  ASSUME NEW q \in Seq(Blocks), NEW b \in Blocks, NEW w, w.list = <<b>> \o q
  PROVE  Sound(w) <=> /\ w.asz = SumOf(RoomOf(q)) + b.asz
                      /\ w.usz = SumOf(UseOf(q)) + Len(b.data)
                      /\ w.dsz = SumOf(RestOf(q)) + Rest(b)
                      /\ FrontFull(q) /\ (q # <<>> => Full(b))
<1> DEFINE r == <<b>> \o q
<1>1. FrontFull(r) <=> FrontFull(q) /\ (q # <<>> => Full(b))
  <2>1. /\ Len(q) \in Nat /\ (q # <<>> <=> Len(q) > 0) /\ Len(r) = Len(q) + 1
        /\ r[1] = b /\ \A i \in 2..Len(r) : r[i] = q[i - 1]
    OBVIOUS
  <2> HIDE DEF r
  <2>2. ASSUME FrontFull(r) PROVE FrontFull(q) /\ (q # <<>> => Full(b))
    <3>1. ASSUME NEW i \in 1..(Len(q) - 1) PROVE Full(q[i])
      <4>1. i + 1 \in 1..(Len(r) - 1) /\ i + 1 \in 2..Len(r) /\ (i + 1) - 1 = i
        BY <2>1
      <4> QED
        BY <2>1, <2>2, <4>1 DEF FrontFull
    <3>2. ASSUME q # <<>> PROVE Full(b)
      <4>1. 1 \in 1..(Len(r) - 1)
        BY <2>1, <3>2
      <4> QED
        BY <2>1, <2>2, <4>1 DEF FrontFull
    <3> QED
      BY <3>1, <3>2 DEF FrontFull
  <2>3. ASSUME FrontFull(q), q # <<>> => Full(b) PROVE FrontFull(r)
    <3>1. ASSUME NEW i \in 1..(Len(r) - 1) PROVE Full(r[i])
      <4>1. CASE i = 1
        BY <2>1, <2>3, <4>1
      <4>2. CASE i # 1
        <5>1. i \in 2..Len(r) /\ i - 1 \in 1..(Len(q) - 1)
          BY <2>1, <4>2
        <5> QED
          BY <2>1, <2>3, <5>1 DEF FrontFull
      <4> QED
        BY <4>1, <4>2
    <3> QED
      BY <3>1 DEF FrontFull
  <2> QED
    BY <2>2, <2>3
<1>2. Adds(r, q, b)
  BY FirstAdds
<1> QED
  BY <1>1, <1>2 DEF Sound, Adds

------------------------------------------------------------------------------
(* SendData: Set                                                           *)

\* A last block that nothing waits in has room.
Ready(q) == q # <<>> => Rest(Last(q)) > 0 \/ Len(Last(q).data) < Last(q).asz

\* Set in its course: what is left are bytes.
Setting == Works(Seq(Nat))

LEMMA WorksAre ==
  ASSUME NEW L, NEW w \in Works(L)
  PROVE  /\ w.list \in Seq(Blocks) /\ w.asz \in Nat /\ w.usz \in Nat /\ w.dsz \in Nat
         /\ w.left \in L
BY DEF Works

LEMMA WorkIs ==
  ASSUME NEW L, NEW q \in Seq(Blocks), NEW a \in Nat, NEW u \in Nat, NEW d \in Nat, NEW l \in L
  PROVE  [list |-> q, asz |-> a, usz |-> u, dsz |-> d, left |-> l] \in Works(L)
BY DEF Works

LEMMA SumsAre ==
  ASSUME NEW q \in Seq(Blocks)
  PROVE  /\ SumOf(RoomOf(q)) \in Nat /\ SumOf(UseOf(q)) \in Nat /\ SumOf(RestOf(q)) \in Nat
         /\ BytesOf(q) \in Seq(Nat)
BY PartsType, SumType, FlattenType DEF BytesOf

\* An operation that changes the last block b into c.
LastTo(w, p, b, c, l) ==
  [list |-> Append(p, c), asz |-> w.asz, usz |-> w.usz + Len(c.data) - Len(b.data),
   dsz |-> w.dsz + Rest(c) - Rest(b), left |-> l]

\* The sums follow the last block.
LEMMA LastBecomes ==
  ASSUME NEW L, NEW w \in Works(L), Sound(w), NEW p \in Seq(Blocks), NEW b \in Blocks,
         w.list = Append(p, b), NEW c \in Blocks, c.asz = b.asz, NEW l \in L
  PROVE  LastTo(w, p, b, c, l) \in Works(L) /\ Sound(LastTo(w, p, b, c, l))
<1> DEFINE v == LastTo(w, p, b, c, l)
<1>0. v = [list |-> Append(p, c), asz |-> w.asz, usz |-> w.usz + Len(c.data) - Len(b.data),
           dsz |-> w.dsz + Rest(c) - Rest(b), left |-> l]
  BY DEF LastTo
<1> HIDE DEF v
<1>1. /\ w.asz = SumOf(RoomOf(p)) + b.asz /\ w.usz = SumOf(UseOf(p)) + Len(b.data)
      /\ w.dsz = SumOf(RestOf(p)) + Rest(b) /\ AllFull(p)
  BY SoundLast
<1>2. /\ Len(b.data) \in Nat /\ Rest(b) \in Nat /\ b.asz \in Nat
      /\ Len(c.data) \in Nat /\ Rest(c) \in Nat
  BY BlockType
<1>3. SumOf(RoomOf(p)) \in Nat /\ SumOf(UseOf(p)) \in Nat /\ SumOf(RestOf(p)) \in Nat
  BY SumsAre
<1>4. v.list = Append(p, c) /\ v.list \in Seq(Blocks)
  BY <1>0, AppendProperties
<1>5. v.asz = w.asz /\ v.usz = SumOf(UseOf(p)) + Len(c.data) /\ v.dsz = SumOf(RestOf(p)) + Rest(c)
  <2>1. /\ v.asz = w.asz /\ v.usz = w.usz + Len(c.data) - Len(b.data)
        /\ v.dsz = w.dsz + Rest(c) - Rest(b)
    BY <1>0
  <2>2. \A x, y, z \in Nat : (x + y) + z - y = x + z
    OBVIOUS
  <2>3. /\ w.usz + Len(c.data) - Len(b.data) = SumOf(UseOf(p)) + Len(c.data)
        /\ w.dsz + Rest(c) - Rest(b) = SumOf(RestOf(p)) + Rest(c)
    <3>1. (SumOf(UseOf(p)) + Len(b.data)) + Len(c.data) - Len(b.data) = SumOf(UseOf(p)) + Len(c.data)
      BY <1>2, <1>3, <2>2, ZenonT(60)
    <3>2. (SumOf(RestOf(p)) + Rest(b)) + Rest(c) - Rest(b) = SumOf(RestOf(p)) + Rest(c)
      BY <1>2, <1>3, <2>2, ZenonT(60)
    <3> QED
      BY <1>1, <3>1, <3>2, Zenon
  <2> QED
    BY <2>1, <2>3, Zenon
<1>6. Sound(v)
  BY <1>1, <1>4, <1>5, SoundLast
<1>7. w.asz \in Nat /\ v.usz \in Nat /\ v.dsz \in Nat
  <2>1. w.asz \in Nat
    BY WorksAre
  <2>2. \A x, y \in Nat : x + y \in Nat
    OBVIOUS
  <2> QED
    BY <1>2, <1>3, <1>5, <2>1, <2>2, Zenon
<1>8. v \in Works(L)
  <2>1. v = [list |-> v.list, asz |-> v.asz, usz |-> v.usz, dsz |-> v.dsz, left |-> l]
    BY <1>0
  <2> QED
    BY <1>4, <1>5, <1>7, <2>1, WorkIs
<1> QED
  BY <1>6, <1>8 DEF v

\* A block that is sent up is used again: no byte waited in it.
LEMMA ReuseIs ==
  ASSUME NEW w \in Setting, Sound(w)
  PROVE  /\ Reuse(w) \in Setting /\ Sound(Reuse(w)) /\ Ready(Reuse(w).list)
         /\ Reuse(w).left = w.left /\ BytesOf(Reuse(w).list) = BytesOf(w.list)
<1>0. w.list \in Seq(Blocks) /\ w.left \in Seq(Nat)
  BY WorksAre DEF Setting
<1>1. CASE w.list = <<>> \/ Rest(Last(w.list)) # 0
  <2>1. Reuse(w) = w
    BY <1>1 DEF Reuse
  <2>2. Ready(w.list)
    <3> SUFFICES ASSUME w.list # <<>> PROVE Rest(Last(w.list)) > 0
      BY DEF Ready
    <3>1. Last(w.list) \in Blocks
      BY <1>0, FrontAndLast
    <3>2. Rest(Last(w.list)) \in Nat
      BY <3>1, BlockType
    <3> QED
      BY <1>1, <3>2
  <2> QED
    BY <2>1, <2>2
<1>2. CASE w.list # <<>> /\ Rest(Last(w.list)) = 0
  <2> DEFINE p == Front(w.list)
             b == Last(w.list)
             c == EmptyBlock(b.asz)
             v == Reuse(w)
  <2>1. p \in Seq(Blocks) /\ b \in Blocks /\ w.list = Append(p, b)
    BY <1>0, <1>2, FrontAndLast
  <2>2. Rest(b) = 0
    BY <1>2
  <2>0. <<>> \in Seq(Nat) /\ Len(<<>>) = 0
    OBVIOUS
  <2> HIDE DEF p, b
  <2>3. /\ b.asz \in Nat \ {0} /\ b.data \in Seq(Nat) /\ Len(b.data) \in Nat
        /\ (b.asz + HeadSz) % BufSz = 0
        /\ WaitingIn(b) \in Seq(Nat) /\ Len(WaitingIn(b)) = 0
        /\ b = [asz |-> b.asz, ssz |-> b.ssz, data |-> b.data]
    BY <2>1, <2>2, BlockType
  <2>4. c \in Blocks /\ c.asz = b.asz /\ Len(c.data) = 0
    <3>1. 0 <= Len(<<>>) /\ Len(<<>>) <= b.asz /\ 0 \in Nat
      BY <2>0, <2>3
    <3>2. [asz |-> b.asz, ssz |-> 0, data |-> <<>>] \in Blocks
      BY <2>0, <2>3, <3>1, BlockIs
    <3> QED
      BY <2>0, <3>2 DEF EmptyBlock
  <2>5. Rest(c) = 0
    BY <2>4 DEF Rest, EmptyBlock
  <2>6. v = [list |-> Append(p, c), asz |-> w.asz, usz |-> w.usz - Len(b.data),
             dsz |-> w.dsz, left |-> w.left]
    <3>1. v = [w EXCEPT !.list = Emptied(@), !.usz = @ - Len(b.data)]
      BY <1>2 DEF Reuse, b
    <3>2. Emptied(w.list) = Append(p, c)
      BY DEF Emptied, p, b
    <3> HIDE DEF v, c
    <3> QED
      BY <3>1, <3>2 DEF Setting, Works
  <2>7. v.left = w.left
    BY <2>6
  <2> HIDE DEF c, v
  <2>8. w.usz \in Nat /\ w.dsz \in Nat
    BY WorksAre DEF Setting
  <2>9. w.usz + Len(c.data) - Len(b.data) = w.usz - Len(b.data) /\ w.dsz + Rest(c) - Rest(b) = w.dsz
    BY <2>2, <2>3, <2>4, <2>5, <2>8
  <2>10. v \in Setting /\ Sound(v)
    <3>1. v = LastTo(w, p, b, c, w.left)
      BY <2>6, <2>9, Zenon DEF LastTo
    <3>2. w \in Works(Seq(Nat))
      BY DEF Setting
    <3>3. LastTo(w, p, b, c, w.left) \in Works(Seq(Nat)) /\ Sound(LastTo(w, p, b, c, w.left))
      BY <1>0, <2>1, <2>4, <3>2, LastBecomes
    <3> QED
      BY <3>1, <3>3 DEF Setting
  <2>11. v.list = Append(p, c)
    BY <2>6
  <2>12. WaitingIn(c) = WaitingIn(b)
    <3>1. WaitingIn(c) \in Seq(Nat) /\ Len(WaitingIn(c)) = 0
      BY <2>4, <2>5, BlockType
    <3> QED
      BY <2>3, <3>1
  <2>13. BytesOf(v.list) = BytesOf(w.list)
    BY <2>1, <2>4, <2>11, <2>12, LastAdds
  <2>14. Ready(v.list)
    <3>1. Last(v.list) = c
      BY <2>1, <2>4, <2>11, FrontOfAppend
    <3> QED
      BY <2>3, <2>4, <3>1 DEF Ready
  <2> QED
    BY <2>7, <2>10, <2>13, <2>14 DEF v
<1> QED
  BY <1>1, <1>2

\* Bytes written behind those that wait.
LEMMA WaitingGrows ==
  ASSUME NEW d \in Seq(Nat), NEW x \in Seq(Nat), NEW n \in 0..Len(d)
  PROVE  SubSeq(d \o x, n + 1, Len(d \o x)) = SubSeq(d, n + 1, Len(d)) \o x
<1> DEFINE t == d \o x
           u == SubSeq(t, n + 1, Len(t))
           y == SubSeq(d, n + 1, Len(d))
           z == y \o x
<1>1. /\ t \in Seq(Nat) /\ Len(t) = Len(d) + Len(x)
      /\ \A i \in 1..(Len(d) + Len(x)) : t[i] = IF i <= Len(d) THEN d[i] ELSE x[i - Len(d)]
  BY ConcatProperties
<1>2. Len(d) \in Nat /\ Len(x) \in Nat /\ n \in Nat /\ n <= Len(d)
  OBVIOUS
<1> HIDE DEF t
<1>3. /\ u \in Seq(Nat) /\ Len(u) = Len(t) - n
      /\ \A i \in 1..(Len(t) - n) : u[i] = t[n + i]
  <2>1. n \in 0..Len(t)
    BY <1>1, <1>2
  <2> QED
    BY <1>1, <2>1, LaterPart
<1>4. /\ y \in Seq(Nat) /\ Len(y) = Len(d) - n
      /\ \A i \in 1..(Len(d) - n) : y[i] = d[n + i]
  BY <1>2
<1> HIDE DEF u, y
<1>5. /\ z \in Seq(Nat) /\ Len(z) = Len(y) + Len(x)
      /\ \A i \in 1..(Len(y) + Len(x)) : z[i] = IF i <= Len(y) THEN y[i] ELSE x[i - Len(y)]
  BY <1>4, ConcatProperties
<1> HIDE DEF z
<1>6. Len(u) = Len(z)
  BY <1>1, <1>2, <1>3, <1>4, <1>5
<1>7. ASSUME NEW i \in 1..Len(u) PROVE u[i] = z[i]
  <2>1. i \in 1..(Len(t) - n) /\ i \in 1..(Len(y) + Len(x)) /\ n + i \in 1..(Len(d) + Len(x))
    BY <1>1, <1>2, <1>3, <1>4
  <2>2. u[i] = t[n + i]
    BY <1>3, <2>1
  <2>3. CASE i <= Len(y)
    <3>1. n + i <= Len(d) /\ i \in 1..(Len(d) - n)
      BY <1>2, <1>4, <2>1, <2>3
    <3> QED
      BY <1>1, <1>4, <1>5, <2>1, <2>2, <2>3, <3>1
  <2>4. CASE ~(i <= Len(y))
    <3>1. ~(n + i <= Len(d)) /\ n + i - Len(d) = i - Len(y)
      BY <1>2, <1>4, <2>1, <2>4
    <3> QED
      <4>1. t[n + i] = x[n + i - Len(d)]
        <5> DEFINE j == n + i
        <5>1. j \in 1..(Len(d) + Len(x)) /\ ~(j <= Len(d))
          BY <2>1, <3>1
        <5> HIDE DEF j
        <5>2. t[j] = x[j - Len(d)]
          BY <1>1, <5>1
        <5> QED
          BY <5>2 DEF j
      <4>2. z[i] = x[i - Len(y)]
        BY <1>5, <2>1, <2>4
      <4> QED
        BY <2>2, <3>1, <4>1, <4>2, Zenon
  <2> QED
    BY <2>3, <2>4
<1> QED
  BY <1>3, <1>5, <1>6, <1>7, SeqEqual DEF t, u, y, z

\* An operation that writes x into the last block.
LEMMA BlockGrows ==
  ASSUME NEW b \in Blocks, NEW x \in Seq(Nat), Len(x) <= b.asz - Len(b.data), NEW c,
         c = [b EXCEPT !.data = @ \o x]
  PROVE  /\ c \in Blocks /\ c.asz = b.asz /\ Len(c.data) = Len(b.data) + Len(x)
         /\ Rest(c) = Rest(b) + Len(x) /\ WaitingIn(c) = WaitingIn(b) \o x
<1>1. /\ b.asz \in Nat \ {0} /\ b.ssz \in Nat /\ b.data \in Seq(Nat)
      /\ Len(b.data) \in Nat /\ b.ssz <= Len(b.data) /\ Len(b.data) <= b.asz
      /\ (b.asz + HeadSz) % BufSz = 0
      /\ b = [asz |-> b.asz, ssz |-> b.ssz, data |-> b.data]
  BY BlockType
<1> DEFINE d == b.data \o x
<1>2. d \in Seq(Nat) /\ Len(d) = Len(b.data) + Len(x) /\ Len(x) \in Nat
  BY <1>1, ConcatProperties
<1> HIDE DEF d
<1>3. c = [asz |-> b.asz, ssz |-> b.ssz, data |-> d]
  <2>1. c = [b EXCEPT !.data = d]
    BY DEF d
  <2>2. \A a, n, e, f : [[asz |-> a, ssz |-> n, data |-> e] EXCEPT !.data = f]
                        = [asz |-> a, ssz |-> n, data |-> f]
    OBVIOUS
  <2> QED
    BY <1>1, <2>1, <2>2, Zenon
<1>4. b.ssz <= Len(d) /\ Len(d) <= b.asz
  BY <1>1, <1>2
<1>5. c \in Blocks
  <2>1. b.asz \in Nat \ {0} /\ b.ssz \in Nat /\ (b.asz + HeadSz) % BufSz = 0
    BY BlockType
  <2>2. [asz |-> b.asz, ssz |-> b.ssz, data |-> d] \in Blocks
    BY <1>2, <1>4, <2>1, BlockIs
  <2> QED
    BY <1>3, <2>2, Zenon
<1>6. c.asz = b.asz /\ c.ssz = b.ssz /\ c.data = d
  BY <1>3
<1>7. Rest(c) = Rest(b) + Len(x)
  BY <1>1, <1>2, <1>6 DEF Rest
<1>8. WaitingIn(c) = WaitingIn(b) \o x
  <2>1. b.ssz \in 0..Len(b.data)
    BY <1>1
  <2>2. SubSeq(d, b.ssz + 1, Len(d)) = SubSeq(b.data, b.ssz + 1, Len(b.data)) \o x
    BY <1>1, <2>1, WaitingGrows DEF d
  <2> QED
    BY <1>6, <2>2 DEF WaitingIn
<1> QED
  BY <1>2, <1>5, <1>6, <1>7, <1>8

\* The state v comes after w in the loop of Set.
Carries(w, v) ==
  /\ v \in Setting /\ Sound(v)
  /\ BytesOf(v.list) \o v.left = BytesOf(w.list) \o w.left
  /\ v.left # <<>> => AllFull(v.list)

\* A turn of the loop fills the last block or ends.
LEMMA FillIs ==
  ASSUME NEW w \in Setting, Sound(w), Ready(w.list)
  PROVE  /\ Carries(w, Fill(w))
         /\ w.list # <<>> /\ Fill(w).left # <<>> =>
              Len(Fill(w).left) = Len(w.left) - (Last(w.list).asz - Len(Last(w.list).data))
<1>0. w \in Works(Seq(Nat)) /\ w.list \in Seq(Blocks) /\ w.left \in Seq(Nat) /\ Len(w.left) \in Nat
  BY WorksAre DEF Setting
<1>1. CASE w.list = <<>>
  <2>1. Fill(w) = w
    BY <1>1 DEF Fill
  <2>2. AllFull(w.list)
    BY <1>1 DEF AllFull
  <2> QED
    BY <1>1, <2>1, <2>2 DEF Carries
<1>2. CASE w.list # <<>>
  <2> DEFINE p == Front(w.list)
             b == Last(w.list)
             room == b.asz - Len(b.data)
             fit == MinOf(room, Len(w.left))
             x == SubSeq(w.left, 1, fit)
             y == SubSeq(w.left, fit + 1, Len(w.left))
             c == [b EXCEPT !.data = @ \o x]
             v == Fill(w)
  <2>1. p \in Seq(Blocks) /\ b \in Blocks /\ w.list = Append(p, b)
    BY <1>0, <1>2, FrontAndLast
  <2>2. v = [w EXCEPT !.list = Append(Front(@), c), !.dsz = @ + fit, !.usz = @ + fit, !.left = y]
    BY <1>2 DEF Fill
  <2>3. Rest(b) > 0 \/ Len(b.data) < b.asz
    BY <1>2 DEF Ready
  <2> HIDE DEF b, v
  <2>4. b.asz \in Nat /\ Len(b.data) \in Nat /\ Len(b.data) <= b.asz /\ Rest(b) \in Nat /\ WaitingIn(b) \in Seq(Nat)
    BY <2>1, BlockType
  <2>5. /\ room \in Nat /\ fit \in 0..Len(w.left) /\ fit <= room
        /\ fit = Len(w.left) \/ fit = room
    BY <1>0, <2>4 DEF MinOf
  <2> HIDE DEF fit
  <2>6. /\ x \in Seq(Nat) /\ y \in Seq(Nat) /\ Len(x) = fit /\ Len(y) = Len(w.left) - fit
        /\ x \o y = w.left
    <3> DEFINE l == w.left
    <3>1. l \in Seq(Nat) /\ fit \in 0..Len(l)
      BY <1>0, <2>5
    <3> HIDE DEF l
    <3>2. /\ SubSeq(l, 1, fit) \in Seq(Nat) /\ SubSeq(l, fit + 1, Len(l)) \in Seq(Nat)
          /\ Len(SubSeq(l, 1, fit)) = fit /\ Len(SubSeq(l, fit + 1, Len(l))) = Len(l) - fit
          /\ SubSeq(l, 1, fit) \o SubSeq(l, fit + 1, Len(l)) = l
      BY <3>1, PartsIs
    <3> QED
      BY <3>2 DEF l
  <2> HIDE DEF x, y
  <2>7. /\ c \in Blocks /\ c.asz = b.asz /\ Len(c.data) = Len(b.data) + fit
        /\ Rest(c) = Rest(b) + fit /\ WaitingIn(c) = WaitingIn(b) \o x
    <3>1. Len(x) <= b.asz - Len(b.data)
      BY <2>5, <2>6
    <3> HIDE DEF c
    <3>2. /\ c \in Blocks /\ c.asz = b.asz /\ Len(c.data) = Len(b.data) + Len(x)
          /\ Rest(c) = Rest(b) + Len(x) /\ WaitingIn(c) = WaitingIn(b) \o x
      BY <2>1, <2>6, <3>1, BlockGrows DEF c
    <3> QED
      BY <2>6, <3>2
  <2> HIDE DEF c
  <2>8. v = LastTo(w, p, b, c, y)
    <3>1. w.usz \in Nat /\ w.dsz \in Nat
      BY <1>0, WorksAre
    <3>2. w.usz + Len(c.data) - Len(b.data) = w.usz + fit /\ w.dsz + Rest(c) - Rest(b) = w.dsz + fit
      BY <2>4, <2>5, <2>7, <3>1
    <3>3. v = [list |-> Append(p, c), asz |-> w.asz, usz |-> w.usz + fit, dsz |-> w.dsz + fit, left |-> y]
      BY <1>0, <2>2 DEF Works
    <3> QED
      BY <3>2, <3>3, Zenon DEF LastTo
  <2>9. v \in Setting /\ Sound(v)
    BY <1>0, <2>1, <2>6, <2>7, <2>8, LastBecomes DEF Setting
  <2>10. v.list = Append(p, c) /\ v.left = y
    BY <2>8 DEF LastTo
  <2> HIDE DEF p
  <2>11. BytesOf(v.list) \o v.left = BytesOf(w.list) \o w.left
    <3>1. /\ BytesOf(v.list) = BytesOf(p) \o WaitingIn(c)
          /\ BytesOf(w.list) = BytesOf(p) \o WaitingIn(b)
      BY <2>1, <2>7, <2>10, LastAdds
    <3> DEFINE a == BytesOf(p)
               u == WaitingIn(b)
    <3>2. a \in Seq(Nat) /\ u \in Seq(Nat)
      BY <2>1, <2>4, SumsAre
    <3> HIDE DEF a, u
    <3>3. (a \o (u \o x)) \o y = (a \o u) \o (x \o y)
      <4>1. x \in Seq(Nat) /\ y \in Seq(Nat)
        BY <2>6
      <4>2. (a \o u) \in Seq(Nat)
        BY <3>2, ConcatProperties
      <4>3. Associates(a, u, x)
        BY <3>2, <4>1, Association
      <4>4. Associates(a \o u, x, y)
        BY <4>1, <4>2, Association
      <4> QED
        BY <4>3, <4>4, Zenon DEF Associates
    <3> QED
      BY <2>6, <2>7, <2>10, <3>1, <3>3, Zenon DEF a, u
  <2>12. ASSUME y # <<>> PROVE AllFull(v.list) /\ fit = room
    <3>1. fit = room
      <4>1. Len(y) # 0
        BY <2>6, <2>12
      <4> QED
        BY <1>0, <2>5, <2>6, <4>1
    <3>2. Full(c)
      <4>1. Len(c.data) = c.asz
        BY <2>4, <2>7, <3>1
      <4>2. Rest(c) > 0
        BY <2>3, <2>4, <2>5, <2>7, <3>1
      <4> QED
        BY <4>1, <4>2 DEF Full, UsedUp
    <3>3. AllFull(p)
      BY <2>1, SoundLast
    <3> QED
      BY <2>1, <2>7, <2>10, <3>1, <3>2, <3>3 DEF AllFull
  <2>13. Carries(w, v)
    BY <2>9, <2>10, <2>11, <2>12 DEF Carries
  <2>14. v.left # <<>> => Len(v.left) = Len(w.left) - room
    BY <2>6, <2>10, <2>12
  <2> QED
    BY <2>13, <2>14 DEF v, b
<1> QED
  BY <1>1, <1>2

\* What New asks malloc for.
LEMMA Rounded ==
  ASSUME NEW B \in Nat \ {0}, NEW n \in Nat \ {0}, NEW m,
         m = IF n % B = 0 THEN n ELSE n + B - (n % B)
  PROVE  m \in Nat /\ m >= n /\ m >= B /\ m % B = 0
<1> DEFINE k == n \div B
           r == n % B
<1>1. k \in Nat /\ r \in 0..(B - 1) /\ n = B * k + r
  OBVIOUS
<1> HIDE DEF k
<1>2. CASE r = 0
  <2>1. k >= 1
    BY <1>1, <1>2
  <2>2. m = n /\ n >= B
    BY <1>1, <1>2, <2>1
  <2> QED
    BY <1>2, <2>2
<1>3. CASE r # 0
  <2>1. m = n + B - r
    BY <1>3
  <2>2. m = B * (k + 1)
    BY <1>1, <2>1
  <2>3. m \in Nat /\ m >= n /\ m >= B
    BY <1>1, <2>1
  <2>4. (B * (k + 1)) % B = 0
    <3>1. k + 1 \in Nat
      BY <1>1
    <3> QED
      BY <3>1
  <2> QED
    BY <2>2, <2>3, <2>4
<1> QED
  BY <1>2, <1>3

\* New makes a block that is empty, and short of what is left by its head at most.
LEMMA NewIs ==
  ASSUME NEW w \in Setting, Sound(w), AllFull(w.list), w.left # <<>>
  PROVE  LET c == Last(New(w).list) IN
         /\ New(w) \in Setting /\ Sound(New(w)) /\ Ready(New(w).list) /\ New(w).list # <<>>
         /\ New(w).left = w.left /\ BytesOf(New(w).list) = BytesOf(w.list)
         /\ Len(c.data) = 0 /\ c.asz \in Nat
         /\ c.asz >= Len(w.left) - HeadSz /\ c.asz >= HeadSz
<1> DEFINE n == Len(w.left)
           ns == IF n % BufSz = 0 THEN n ELSE n + BufSz - (n % BufSz)
           c == EmptyBlock(ns - HeadSz)
           v == New(w)
<1>1. /\ w.list \in Seq(Blocks) /\ w.asz \in Nat /\ w.usz \in Nat /\ w.dsz \in Nat
      /\ w.left \in Seq(Nat) /\ n \in Nat \ {0}
  <2>1. /\ w.list \in Seq(Blocks) /\ w.asz \in Nat /\ w.usz \in Nat /\ w.dsz \in Nat
        /\ w.left \in Seq(Nat)
    BY WorksAre DEF Setting
  <2> QED
    BY <2>1
<1>2. v = [w EXCEPT !.list = Append(@, c), !.asz = @ + ns - HeadSz]
  BY DEF New
<1> HIDE DEF v, n
<1>3. BufSz \in Nat \ {0} /\ HeadSz \in Nat \ {0} /\ 2 * HeadSz <= BufSz
  BY SendAssumption
<1>4. ns \in Nat /\ ns >= n /\ ns >= BufSz /\ ns % BufSz = 0
  BY <1>1, <1>3, Rounded
<1> HIDE DEF ns
<1> DEFINE a == ns - HeadSz
<1>5. /\ a \in Nat \ {0} /\ a >= n - HeadSz /\ a >= HeadSz /\ a + HeadSz = ns
      /\ \A x \in Nat : x + ns - HeadSz = x + a
  BY <1>1, <1>3, <1>4
<1>6. c = EmptyBlock(a)
  OBVIOUS
<1> HIDE DEF a, c
<1>7. c \in Blocks /\ c.asz = a /\ Len(c.data) = 0 /\ Rest(c) = 0
  <2>1. <<>> \in Seq(Nat) /\ Len(<<>>) = 0 /\ 0 \in Nat
    OBVIOUS
  <2>2. 0 <= Len(<<>>) /\ Len(<<>>) <= a /\ (a + HeadSz) % BufSz = 0
    BY <1>4, <1>5, <2>1
  <2>3. [asz |-> a, ssz |-> 0, data |-> <<>>] \in Blocks
    BY <1>5, <2>1, <2>2, BlockIs
  <2> QED
    BY <1>6, <2>1, <2>3 DEF EmptyBlock, Rest
<1>8. v = [list |-> Append(w.list, c), asz |-> w.asz + a, usz |-> w.usz, dsz |-> w.dsz, left |-> w.left]
  <2>1. w.asz + ns - HeadSz = w.asz + a
    BY <1>1, <1>5
  <2> QED
    BY <1>2, <2>1 DEF Setting, Works
<1>9. v.list = Append(w.list, c) /\ v.left = w.left
  BY <1>8
<1>10. Append(w.list, c) \in Seq(Blocks) /\ w.asz + a \in Nat
  <2>1. w.asz + a \in Nat
    <3>1. w.asz \in Nat /\ a \in Nat
      BY <1>1, <1>5
    <3> QED
      BY <3>1
  <2>2. Append(w.list, c) \in Seq(Blocks)
    BY <1>1, <1>7, AppendProperties
  <2> QED
    BY <2>1, <2>2
<1>11. v \in Setting
  BY <1>1, <1>8, <1>10, WorkIs DEF Setting
<1>12. Sound(v)
  <2>1. /\ w.asz = SumOf(RoomOf(w.list)) /\ w.usz = SumOf(UseOf(w.list))
        /\ w.dsz = SumOf(RestOf(w.list))
    BY DEF Sound
  <2>2. /\ v.asz = SumOf(RoomOf(w.list)) + c.asz /\ v.usz = SumOf(UseOf(w.list)) + Len(c.data)
        /\ v.dsz = SumOf(RestOf(w.list)) + Rest(c)
    BY <1>1, <1>7, <1>8, <2>1
  <2> QED
    BY <1>1, <1>7, <1>9, <2>2, SoundLast
<1>13. BytesOf(v.list) = BytesOf(w.list)
  <2>1. BytesOf(v.list) = BytesOf(w.list) \o WaitingIn(c)
    BY <1>1, <1>7, <1>9, LastAdds
  <2>2. WaitingIn(c) = <<>>
    <3>1. WaitingIn(c) \in Seq(Nat) /\ Len(WaitingIn(c)) = 0
      BY <1>7, BlockType
    <3> QED
      BY <3>1
  <2>3. BytesOf(w.list) \in Seq(Nat)
    BY <1>1, SumsAre
  <2> QED
    BY <2>1, <2>2, <2>3, ConcatEmptySeq
<1>14. Last(v.list) = c /\ v.list # <<>>
  BY <1>1, <1>7, <1>9, FrontOfAppend
<1>15. Ready(v.list)
  <2>1. Len(c.data) < c.asz
    BY <1>5, <1>7
  <2> QED
    BY <1>14, <2>1 DEF Ready
<1> QED
  BY <1>5, <1>7, <1>9, <1>11, <1>12, <1>13, <1>14, <1>15 DEF v, n

\* A turn with a new block: it leaves no more bytes than a head has, if it began with more.
LEMMA GrowIs ==
  ASSUME NEW w \in Setting, Sound(w), w.left # <<>> => AllFull(w.list)
  PROVE  /\ Carries(w, Grow(w))
         /\ Grow(w).left # <<>> => Len(Grow(w).left) <= HeadSz /\ Len(w.left) > HeadSz
<1>1. CASE w.left = <<>>
  <2>1. Grow(w) = w
    BY <1>1 DEF Grow
  <2> QED
    BY <1>1, <2>1 DEF Carries
<1>2. CASE w.left # <<>>
  <2> DEFINE u == New(w)
             v == Fill(u)
             c == Last(u.list)
  <2>1. Grow(w) = v
    BY <1>2 DEF Grow
  <2>2. /\ u \in Setting /\ Sound(u) /\ Ready(u.list) /\ u.list # <<>>
        /\ u.left = w.left /\ BytesOf(u.list) = BytesOf(w.list)
        /\ Len(c.data) = 0 /\ c.asz \in Nat
        /\ c.asz >= Len(w.left) - HeadSz /\ c.asz >= HeadSz
    BY <1>2, NewIs
  <2> HIDE DEF u
  <2>3. /\ Carries(u, v)
        /\ v.left # <<>> => Len(v.left) = Len(u.left) - (c.asz - Len(c.data))
    BY <2>2, FillIs
  <2> HIDE DEF v, c
  <2>4. Carries(w, v)
    BY <2>2, <2>3 DEF Carries
  <2>5. ASSUME v.left # <<>> PROVE Len(v.left) <= HeadSz /\ Len(w.left) > HeadSz
    <3>1. Len(v.left) \in Nat \ {0} /\ Len(w.left) \in Nat
      <4>1. v.left \in Seq(Nat) /\ w.left \in Seq(Nat)
        BY <2>4, WorksAre DEF Carries, Setting
      <4> QED
        BY <2>5, <4>1
    <3>2. Len(v.left) = Len(w.left) - c.asz
      BY <2>2, <2>3, <2>5, <3>1
    <3>3. HeadSz \in Nat
      BY SendAssumption
    <3> QED
      BY <2>2, <3>1, <3>2, <3>3
  <2> QED
    BY <2>1, <2>4, <2>5
<1> QED
  BY <1>1, <1>2

\* What the loop of Set leaves: every byte is in a block.
LEMMA SetIs ==
  ASSUME NEW w \in Setting, Sound(w)
  PROVE  LET v == Grow(Grow(Fill(Reuse(w)))) IN
         v \in Setting /\ Sound(v) /\ BytesOf(v.list) = BytesOf(w.list) \o w.left
<1> DEFINE a == Reuse(w)
           b == Fill(a)
           c == Grow(b)
           v == Grow(c)
<1>1. /\ a \in Setting /\ Sound(a) /\ Ready(a.list)
      /\ a.left = w.left /\ BytesOf(a.list) = BytesOf(w.list)
  BY ReuseIs
<1> HIDE DEF a
<1>2. Carries(a, b)
  BY <1>1, FillIs
<1> HIDE DEF b
<1>3. Carries(b, c) /\ (c.left # <<>> => Len(c.left) <= HeadSz /\ Len(b.left) > HeadSz)
  BY <1>2, GrowIs DEF Carries
<1> HIDE DEF c
<1>4. Carries(c, v) /\ (v.left # <<>> => Len(v.left) <= HeadSz /\ Len(c.left) > HeadSz)
  BY <1>3, GrowIs DEF Carries
<1> HIDE DEF v
<1>5. v.left = <<>>
  <2> SUFFICES ASSUME v.left # <<>> PROVE FALSE
    OBVIOUS
  <2>1. Len(c.left) > HeadSz /\ HeadSz \in Nat
    BY <1>4, SendAssumption
  <2>2. c.left \in Seq(Nat)
    BY <1>3, WorksAre DEF Carries, Setting
  <2>3. c.left # <<>>
    BY <2>1, <2>2
  <2> QED
    BY <1>3, <2>1, <2>2, <2>3
<1>6. BytesOf(v.list) \o v.left = BytesOf(a.list) \o a.left
  BY <1>2, <1>3, <1>4, Zenon DEF Carries
<1>7. v \in Setting /\ Sound(v)
  BY <1>4 DEF Carries
<1>8. BytesOf(v.list) \in Seq(Nat)
  BY <1>7, WorksAre, SumsAre DEF Setting
<1>9. BytesOf(v.list) \o <<>> = BytesOf(v.list)
  BY <1>8, ConcatEmptySeq
<1>10. BytesOf(v.list) = BytesOf(w.list) \o w.left
  BY <1>1, <1>5, <1>6, <1>9, Zenon
<1> QED
  BY <1>7, <1>10 DEF a, b, c, v

------------------------------------------------------------------------------
(* SendData: Get and Del                                                   *)

\* Bytes taken first of a, then of x.
LEMMA LeastOfBoth ==
  ASSUME NEW n \in Nat, NEW a \in Nat, NEW x \in Nat
  PROVE  /\ MinOf(n, a) \in 0..a /\ MinOf(x, n - MinOf(n, a)) \in 0..x
         /\ MinOf(x, n - MinOf(n, a)) > 0 => MinOf(n, a) = a
         /\ MinOf(n, a + x) = MinOf(n, a) + MinOf(x, n - MinOf(n, a))
<1> DEFINE m == MinOf(n, a)
           l == MinOf(x, n - m)
<1>1. CASE n < a
  <2>1. m = n /\ l = 0
    BY <1>1 DEF MinOf
  <2> QED
    BY <1>1, <2>1 DEF MinOf
<1>2. CASE ~(n < a)
  <2>1. m = a
    BY <1>2 DEF MinOf
  <2>2. l = IF x < n - a THEN x ELSE n - a
    BY <2>1 DEF MinOf
  <2>3. MinOf(n, a + x) = IF n < a + x THEN n ELSE a + x
    BY DEF MinOf
  <2> QED
    BY <1>2, <2>1, <2>2, <2>3
<1> QED
  BY <1>1, <1>2

\* The first bytes of those in a and then x.
FirstOf(s, n) == SubSeq(s, 1, MinOf(n, Len(s)))

LEMMA FirstOfBoth ==
  ASSUME NEW a \in Seq(Nat), NEW x \in Seq(Nat), NEW n \in Nat
  PROVE  FirstOf(a, n) \o SubSeq(x, 1, MinOf(Len(x), n - MinOf(n, Len(a)))) = FirstOf(a \o x, n)
<1> DEFINE m == MinOf(n, Len(a))
           l == MinOf(Len(x), n - m)
<1>1. /\ Len(a) \in Nat /\ Len(x) \in Nat /\ m \in 0..Len(a) /\ l \in 0..Len(x)
      /\ l > 0 => m = Len(a)
      /\ MinOf(n, Len(a) + Len(x)) = m + l
  <2>1. Len(a) \in Nat /\ Len(x) \in Nat
    OBVIOUS
  <2> QED
    BY <2>1, LeastOfBoth
<1> HIDE DEF m, l
<1> DEFINE t == a \o x
           u == SubSeq(a, 1, m)
           v == SubSeq(x, 1, l)
           z == u \o v
           y == SubSeq(t, 1, m + l)
<1>2. /\ t \in Seq(Nat) /\ Len(t) = Len(a) + Len(x)
      /\ \A i \in 1..(Len(a) + Len(x)) : t[i] = IF i <= Len(a) THEN a[i] ELSE x[i - Len(a)]
  BY ConcatProperties
<1> HIDE DEF t
<1>3. u \in Seq(Nat) /\ Len(u) = m /\ \A i \in 1..m : u[i] = a[i]
  BY <1>1, FirstPart
<1>4. v \in Seq(Nat) /\ Len(v) = l /\ \A i \in 1..l : v[i] = x[i]
  BY <1>1, FirstPart
<1>5. y \in Seq(Nat) /\ Len(y) = m + l /\ \A i \in 1..(m + l) : y[i] = t[i]
  <2> DEFINE k == m + l
  <2>1. k \in 0..Len(t)
    BY <1>1, <1>2
  <2> HIDE DEF k
  <2>2. SubSeq(t, 1, k) \in Seq(Nat) /\ Len(SubSeq(t, 1, k)) = k
        /\ \A i \in 1..k : SubSeq(t, 1, k)[i] = t[i]
    BY <1>2, <2>1, FirstPart
  <2> QED
    BY <2>2 DEF k
<1> HIDE DEF u, v, y
<1>6. /\ z \in Seq(Nat) /\ Len(z) = Len(u) + Len(v)
      /\ \A i \in 1..(Len(u) + Len(v)) : z[i] = IF i <= Len(u) THEN u[i] ELSE v[i - Len(u)]
  BY <1>3, <1>4, ConcatProperties
<1> HIDE DEF z
<1>7. ASSUME NEW i \in 1..Len(y) PROVE y[i] = z[i]
  <2>1. i \in 1..(m + l) /\ m \in Nat /\ l \in Nat
    BY <1>1, <1>5
  <2>4. Len(u) = m /\ Len(v) = l /\ m <= Len(a) /\ l <= Len(x) /\ Len(a) \in Nat /\ Len(x) \in Nat
    BY <1>1, <1>3, <1>4
  <2>2. CASE i <= m
    <3>1. i \in 1..m /\ i <= Len(a) /\ i \in 1..(Len(a) + Len(x)) /\ i \in 1..(Len(u) + Len(v))
      <4>1. i \in Nat /\ i >= 1 /\ i <= m + l
        BY <2>1
      <4> QED
        BY <2>1, <2>2, <2>4, <4>1
    <3> QED
      BY <1>2, <1>3, <1>5, <1>6, <2>1, <2>2, <3>1
  <2>3. CASE ~(i <= m)
    <3>1. /\ l > 0 /\ i - m \in 1..l /\ i \in 1..(Len(a) + Len(x)) /\ i \in 1..(Len(u) + Len(v))
      <4>1. i \in Nat /\ i >= 1 /\ i <= m + l
        BY <2>1
      <4> QED
        <5>1. l > 0 /\ i - m \in 1..l
          BY <2>1, <2>3, <4>1
        <5>2. i \in 1..(Len(a) + Len(x)) /\ i \in 1..(Len(u) + Len(v))
          BY <2>1, <2>4, <4>1
        <5> QED
          BY <5>1, <5>2
    <3>2. m = Len(a)
      BY <1>1, <3>1
    <3>3. t[i] = x[i - m]
      BY <1>2, <2>3, <3>1, <3>2
    <3>4. z[i] = v[i - m]
      BY <1>3, <1>6, <2>3, <3>1
    <3> QED
      BY <1>4, <1>5, <2>1, <3>1, <3>3, <3>4
  <2> QED
    BY <2>2, <2>3
<1>8. y = z
  <2>1. Len(y) = Len(z)
    BY <1>1, <1>3, <1>4, <1>5, <1>6
  <2> QED
    BY <1>5, <1>6, <1>7, <2>1, SeqEqual
<1> QED
  BY <1>1, <1>2, <1>8 DEF t, u, v, y, z, m, l, FirstOf

\* What Get takes from one block.
LEMMA WaitingFirst ==
  ASSUME NEW b \in Blocks, NEW l \in 0..Rest(b)
  PROVE  SubSeq(b.data, b.ssz + 1, b.ssz + l) = SubSeq(WaitingIn(b), 1, l)
<1>1. /\ b.ssz \in Nat /\ b.data \in Seq(Nat) /\ Len(b.data) \in Nat
      /\ b.ssz \in 0..Len(b.data) /\ Rest(b) = Len(b.data) - b.ssz
      /\ WaitingIn(b) \in Seq(Nat) /\ Len(WaitingIn(b)) = Rest(b) /\ l \in 0..Len(WaitingIn(b))
  BY BlockType DEF Rest
<1> DEFINE d == b.data
           n == b.ssz
           m == n + 1
           k == n + l
           u == SubSeq(d, m, k)
           v == SubSeq(WaitingIn(b), 1, l)
<1>2. \A i \in 1..(Len(d) - n) : WaitingIn(b)[i] = d[n + i]
  BY <1>1, LaterPart DEF WaitingIn
<1>3. v \in Seq(Nat) /\ Len(v) = l /\ \A i \in 1..l : v[i] = WaitingIn(b)[i]
  BY <1>1, FirstPart
<1>4. m \in Int /\ k \in Int /\ \A i \in m..k : d[i] \in Nat
  <2>1. m \in Int /\ k \in Int /\ m >= 1 /\ k <= Len(d)
    BY <1>1
  <2>2. d \in Seq(Nat) /\ Len(d) \in Nat
    BY <1>1
  <2> HIDE DEF m, k, d
  <2>3. \A i \in m..k : i \in 1..Len(d)
    BY <2>1, <2>2
  <2> QED
    BY <2>1, <2>2, <2>3, ElementOfSeq
<1>5. m = n + 1 /\ k = n + l /\ n \in Nat /\ l \in Nat /\ l <= Len(d) - n /\ Len(d) \in Nat
  BY <1>1
<1> HIDE DEF m, k, d, n
<1>6. /\ u \in Seq(Nat) /\ Len(u) = IF m <= k THEN k - m + 1 ELSE 0
      /\ \A i \in 1..(k - m + 1) : u[i] = d[m + i - 1]
  BY <1>4, SubSeqProperties
<1>7. Len(u) = l
  BY <1>5, <1>6
<1> HIDE DEF u, v
<1>8. ASSUME NEW i \in 1..Len(u) PROVE u[i] = v[i]
  <2>1. i \in 1..l /\ i \in 1..(k - m + 1) /\ m + i - 1 = n + i /\ i \in 1..(Len(d) - n)
    BY <1>5, <1>7
  <2> QED
    BY <1>2, <1>3, <1>6, <2>1
<1>9. u = v
  BY <1>3, <1>6, <1>7, <1>8, SeqEqual
<1> QED
  BY <1>9 DEF u, v, m, k, d, n

\* Get finds all the bytes that wait, oldest first, across the blocks.
LEMMA CopyIs ==
  ASSUME list \in Seq(Blocks), NEW n \in Nat
  PROVE  Copy(n) = SubSeq(Contents, 1, MinOf(n, Len(Contents)))
<1> DEFINE m == Len(list)
           joined(dt, b) == dt \o SubSeq(b.data, b.ssz + 1, b.ssz + MinOf(Rest(b), n - Len(dt)))
           Is(h) == h = [k \in 0..m |-> IF k = 0 THEN <<>> ELSE joined(h[k - 1], list[k])]
           begun(s) == FirstOf(s, n)
<1>1. Copy(n) = (CHOOSE h : Is(h))[m]
  BY Zenon DEF Copy
<1>2. m \in Nat /\ \A k \in 1..m : list[k] \in Blocks
  OBVIOUS
<1>3. PICK f : /\ f \in [0..m -> Seq(Nat)] /\ f[0] = <<>> /\ f[m] = Contents
               /\ \A k \in 0..(m - 1) : f[k + 1] = f[k] \o WaitingIn(list[k + 1])
  <2>1. BytesIn(list) \in Seq(Seq(Nat))
    BY PartsType
  <2>2. PICK f : f \in Flattening(Nat, BytesIn(list))
    BY <2>1, FlattenSteps
  <2>3. Len(BytesIn(list)) = m /\ \A k \in 1..m : BytesIn(list)[k] = WaitingIn(list[k])
    BY BytesInIs
  <2>4. \A k \in 0..(m - 1) : k + 1 \in 1..m
    BY <1>2
  <2>5. /\ f \in [0..m -> Seq(Nat)] /\ f[0] = <<>> /\ f[m] = Contents
        /\ \A k \in 0..(m - 1) : f[k + 1] = f[k] \o BytesIn(list)[k + 1]
    BY <2>2, <2>3 DEF Flattening, Contents
  <2> HIDE DEF m
  <2> QED
    BY <2>3, <2>4, <2>5
<1> HIDE DEF m
<1>4. ASSUME NEW a \in Seq(Nat), NEW b \in Blocks PROVE joined(begun(a), b) = begun(a \o WaitingIn(b))
  <2> DEFINE l == MinOf(Rest(b), n - MinOf(n, Len(a)))
             x == WaitingIn(b)
  <2>1. x \in Seq(Nat) /\ Len(x) = Rest(b) /\ Rest(b) \in Nat /\ Len(a) \in Nat
    BY BlockType
  <2>2. MinOf(n, Len(a)) \in 0..Len(a) /\ l \in 0..Rest(b)
    BY <2>1, LeastOfBoth
  <2>3. Len(begun(a)) = MinOf(n, Len(a))
    BY <2>1, <2>2, FirstPart DEF FirstOf
  <2>4. joined(begun(a), b) = begun(a) \o SubSeq(b.data, b.ssz + 1, b.ssz + l)
    BY <2>3
  <2>5. SubSeq(b.data, b.ssz + 1, b.ssz + l) = SubSeq(x, 1, l)
    BY <2>2, WaitingFirst
  <2>6. begun(a) \o SubSeq(x, 1, l) = begun(a \o x)
    <3> HIDE DEF x
    <3> QED
      BY <2>1, FirstOfBoth, ZenonT(60)
  <2> HIDE DEF joined, begun, l, x
  <2> QED
    BY <2>4, <2>5, <2>6 DEF x
<1> HIDE DEF joined
<1>5. begun(<<>>) = <<>>
  <2>1. <<>> \in Seq(Nat) /\ Len(<<>>) = 0 /\ MinOf(n, 0) = 0
    BY DEF MinOf
  <2> QED
    BY <2>1 DEF FirstOf
<1> HIDE DEF begun
<1> DEFINE g == [k \in 0..m |-> begun(f[k])]
<1>6. Is(g)
  <2>1. \A k \in 0..m : g[k] = IF k = 0 THEN <<>> ELSE joined(g[k - 1], list[k])
    <3> SUFFICES ASSUME NEW k \in 0..m
                 PROVE  g[k] = IF k = 0 THEN <<>> ELSE joined(g[k - 1], list[k])
      OBVIOUS
    <3>1. CASE k = 0
      BY <1>3, <1>5, <3>1
    <3>2. CASE k # 0
      <4> DEFINE j == k - 1
      <4>1. j \in 0..(m - 1) /\ j \in 0..m /\ j + 1 = k /\ k \in 1..m
        BY <1>2, <3>2
      <4> HIDE DEF j
      <4>2. f[k] = f[j] \o WaitingIn(list[k]) /\ f[j] \in Seq(Nat) /\ list[k] \in Blocks
        BY <1>2, <1>3, <4>1
      <4>3. begun(f[k]) = joined(begun(f[j]), list[k])
        BY <1>4, <4>2
      <4>4. g[k] = joined(g[j], list[k])
        BY <4>1, <4>3
      <4> HIDE DEF g
      <4> QED
        BY <3>2, <4>4 DEF j
    <3> QED
      BY <3>1, <3>2
  <2>2. g = [k \in 0..m |-> g[k]]
    OBVIOUS
  <2> HIDE DEF g
  <2> QED
    BY <2>1, <2>2
<1> DEFINE h == CHOOSE h : Is(h)
<1>7. Is(h)
  <2> HIDE DEF Is, g
  <2> QED
    BY <1>6
<1>8. \A k \in 0..m : h[k] = IF k = 0 THEN <<>> ELSE joined(h[k - 1], list[k])
  <2> HIDE DEF h, g
  <2> QED
    BY <1>7
<1>9. \A k \in 0..m : g[k] = IF k = 0 THEN <<>> ELSE joined(g[k - 1], list[k])
  <2> HIDE DEF h, g
  <2> QED
    BY <1>6
<1>10. h[m] = Copy(n) /\ g[m] = begun(Contents)
  BY <1>1, <1>2, <1>3
<1> HIDE DEF h, g, Is
<1>11. \A k \in Nat : k <= m => h[k] = g[k]
  <2> DEFINE I == {k \in Nat : k <= m => h[k] = g[k]}
  <2>1. 0 \in I
    BY <1>2, <1>8, <1>9
  <2>2. ASSUME NEW k \in Nat, k \in I PROVE k + 1 \in I
    <3> SUFFICES ASSUME k + 1 <= m PROVE h[k + 1] = g[k + 1]
      OBVIOUS
    <3>1. k + 1 \in 0..m /\ k + 1 # 0 /\ (k + 1) - 1 = k /\ h[k] = g[k]
      BY <1>2, <2>2
    <3> QED
      BY <1>8, <1>9, <3>1
  <2> HIDE DEF I
  <2>3. Nat \subseteq I
    BY <2>1, <2>2, Inductive
  <2> QED
    BY <2>3 DEF I
<1> QED
  BY <1>2, <1>10, <1>11 DEF begun, FirstOf

LEMMA WaitingAt ==
  ASSUME NEW b \in Blocks
  PROVE  \A i \in 1..Rest(b) : WaitingIn(b)[i] = b.data[b.ssz + i]
<1>1. b.data \in Seq(Nat) /\ b.ssz \in 0..Len(b.data)
  <2>1. b.data \in Seq(Nat) /\ b.ssz \in Nat /\ Len(b.data) \in Nat /\ b.ssz <= Len(b.data)
    BY BlockType
  <2> QED
    BY <2>1
<1>2. \A i \in 1..(Len(b.data) - b.ssz) : WaitingIn(b)[i] = b.data[b.ssz + i]
  BY <1>1, LaterPart DEF WaitingIn
<1> QED
  BY <1>2 DEF Rest

\* v has less to delete than w, and the bytes of w but for these.
TakesOff(w, v) ==
  /\ v \in Works(Nat) /\ Sound(v) /\ v.left <= w.left
  /\ \E y \in Seq(Nat) : Len(y) = w.left - v.left /\ BytesOf(w.list) = y \o BytesOf(v.list)

\* t bytes of a block are sent.
LEMMA BlockSent ==
  ASSUME NEW b \in Blocks, NEW t \in 0..Rest(b), NEW c, c = [b EXCEPT !.ssz = @ + t]
  PROVE  /\ c \in Blocks /\ c.asz = b.asz /\ c.data = b.data /\ Rest(c) = Rest(b) - t
         /\ \E y \in Seq(Nat) : Len(y) = t /\ WaitingIn(b) = y \o WaitingIn(c)
<1>1. /\ b.asz \in Nat \ {0} /\ b.ssz \in Nat /\ b.data \in Seq(Nat)
      /\ Len(b.data) \in Nat /\ b.ssz <= Len(b.data) /\ Len(b.data) <= b.asz
      /\ (b.asz + HeadSz) % BufSz = 0
  BY BlockType
<1>0. b = [asz |-> b.asz, ssz |-> b.ssz, data |-> b.data]
  BY BlockType
<1>2. Rest(b) = Len(b.data) - b.ssz
  BY DEF Rest
<1>10. /\ WaitingIn(b) \in Seq(Nat) /\ Len(WaitingIn(b)) = Rest(b) /\ t \in 0..Len(WaitingIn(b))
  BY BlockType
<1>11. b.ssz \in 0..Len(b.data)
  BY <1>1
<1> DEFINE s == b.ssz + t
<1>3. s \in Nat /\ s <= Len(b.data) /\ t \in Nat
  BY <1>1, <1>2
<1>4. c = [asz |-> b.asz, ssz |-> s, data |-> b.data]
  <2>1. \A a, n, d, k : [[asz |-> a, ssz |-> n, data |-> d] EXCEPT !.ssz = @ + k]
                        = [asz |-> a, ssz |-> n + k, data |-> d]
    OBVIOUS
  <2> QED
    BY <1>0, <2>1, Zenon
<1> HIDE DEF s
<1>5. c \in Blocks
  <2>1. [asz |-> b.asz, ssz |-> s, data |-> b.data] \in Blocks
    BY <1>1, <1>3, BlockIs
  <2> QED
    BY <1>4, <2>1, Zenon
<1>6. c.asz = b.asz /\ c.ssz = s /\ c.data = b.data
  BY <1>4
<1>7. Rest(c) = Rest(b) - t
  BY <1>1, <1>2, <1>3, <1>6 DEF Rest, s
<1>8. /\ SubSeq(WaitingIn(b), 1, t) \in Seq(Nat) /\ Len(SubSeq(WaitingIn(b), 1, t)) = t
      /\ SubSeq(WaitingIn(b), 1, t) \o SubSeq(WaitingIn(b), t + 1, Len(WaitingIn(b))) = WaitingIn(b)
  BY <1>10, PartsIs
<1>9. SubSeq(WaitingIn(b), t + 1, Len(WaitingIn(b))) = WaitingIn(c)
  <2> DEFINE u == SubSeq(WaitingIn(b), t + 1, Len(WaitingIn(b)))
             v == WaitingIn(c)
             d == b.data
             n == b.ssz
  <2>1. /\ u \in Seq(Nat) /\ Len(u) = Rest(b) - t
        /\ \A i \in 1..(Rest(b) - t) : u[i] = WaitingIn(b)[t + i]
    BY <1>10, LaterPart
  <2>2. \A i \in 1..(Len(d) - n) : WaitingIn(b)[i] = d[n + i]
    BY <1>2, WaitingAt
  <2>3. /\ v \in Seq(Nat) /\ Len(v) = Len(d) - s /\ \A i \in 1..(Len(d) - s) : v[i] = d[s + i]
    <3>1. /\ v \in Seq(Nat) /\ Len(v) = Rest(c)
          /\ \A i \in 1..Rest(c) : v[i] = c.data[c.ssz + i]
      BY <1>5, BlockType, WaitingAt
    <3>2. Rest(c) = Len(d) - s
      BY <1>6 DEF Rest
    <3> QED
      BY <1>6, <3>1, <3>2
  <2>4. s = n + t /\ n \in Nat /\ t \in Nat /\ Len(d) \in Nat /\ Rest(b) = Len(d) - n /\ s \in Nat
    BY <1>1, <1>2, <1>3 DEF s
  <2> HIDE DEF u, v, d, n
  <2>5. Len(u) = Len(v)
    BY <2>1, <2>3, <2>4
  <2>6. ASSUME NEW i \in 1..Len(u) PROVE u[i] = v[i]
    <3>1. i \in Nat /\ i >= 1 /\ i <= Len(d) - s
      BY <2>3, <2>4, <2>5
    <3>2. /\ i \in 1..(Rest(b) - t) /\ t + i \in 1..(Len(d) - n) /\ n + (t + i) = s + i
          /\ i \in 1..(Len(d) - s)
      BY <2>4, <3>1
    <3> QED
      BY <2>1, <2>2, <2>3, <3>2
  <2>7. u = v
    BY <2>1, <2>3, <2>5, <2>6, SeqEqual
  <2> QED
    BY <2>7 DEF u, v
<1> QED
  BY <1>5, <1>6, <1>7, <1>8, <1>9

\* Part of the first block is sent, or all of the only one.
LEMMA SendIs ==
  ASSUME NEW w \in Works(Nat), Sound(w), w.list # <<>>,
         NEW t \in 0..Rest(Head(w.list)), t <= w.left,
         t < Rest(Head(w.list)) \/ Tail(w.list) = <<>>
  PROVE  /\ TakesOff(w, Send(w, t)) /\ Send(w, t).left = w.left - t
         /\ Len(Send(w, t).list) = Len(w.list)
         /\ Send(w, t).list # <<>> /\ Rest(Head(Send(w, t).list)) = Rest(Head(w.list)) - t
<1> DEFINE b == Head(w.list)
           q == Tail(w.list)
           c == [b EXCEPT !.ssz = @ + t]
           v == Send(w, t)
<1>1. /\ w.list \in Seq(Blocks) /\ w.asz \in Nat /\ w.usz \in Nat /\ w.dsz \in Nat /\ w.left \in Nat
  BY WorksAre
<1>2. b \in Blocks /\ q \in Seq(Blocks) /\ w.list = <<b>> \o q /\ Len(q) = Len(w.list) - 1
  BY <1>1, HeadAndTail
<1>3. v = [w EXCEPT !.list = <<c>> \o q, !.dsz = @ - t, !.left = @ - t]
  BY Zenon DEF Send
<1>4. t \in 0..Rest(b) /\ t <= w.left /\ (t < Rest(b) \/ q = <<>>)
  OBVIOUS
<1> HIDE DEF b, q, v
<1>5. /\ c \in Blocks /\ c.asz = b.asz /\ c.data = b.data /\ Rest(c) = Rest(b) - t
      /\ \E y \in Seq(Nat) : Len(y) = t /\ WaitingIn(b) = y \o WaitingIn(c)
  <2> HIDE DEF c
  <2> QED
    BY <1>2, <1>4, BlockSent DEF c
<1> HIDE DEF c
<1>6. v = [list |-> <<c>> \o q, asz |-> w.asz, usz |-> w.usz, dsz |-> w.dsz - t, left |-> w.left - t]
  BY <1>3 DEF Works
<1>7. /\ w.asz = SumOf(RoomOf(q)) + b.asz
      /\ w.usz = SumOf(UseOf(q)) + Len(b.data)
      /\ w.dsz = SumOf(RestOf(q)) + Rest(b)
      /\ FrontFull(q) /\ (q # <<>> => Full(b))
  BY <1>2, SoundFirst
<1>8. /\ Rest(b) \in Nat /\ Rest(c) \in Nat /\ t \in Nat /\ SumOf(RestOf(q)) \in Nat
  BY <1>2, <1>4, <1>5, BlockType, SumsAre
<1>9. v.list = <<c>> \o q /\ v.left = w.left - t /\ v.dsz = SumOf(RestOf(q)) + Rest(c)
      /\ v.asz = w.asz /\ v.usz = w.usz /\ v.dsz \in Nat /\ v.left \in Nat
  <2>1. v.list = <<c>> \o q /\ v.left = w.left - t /\ v.dsz = w.dsz - t /\ v.asz = w.asz /\ v.usz = w.usz
    BY <1>6
  <2>2. w.dsz - t = SumOf(RestOf(q)) + Rest(c) /\ w.left - t \in Nat
    <3>1. \A i, j, k \in Nat : (i + j) - k = i + (j - k)
      OBVIOUS
    <3>2. (SumOf(RestOf(q)) + Rest(b)) - t = SumOf(RestOf(q)) + (Rest(b) - t)
      BY <1>8, <3>1, Zenon
    <3>3. w.left - t \in Nat
      BY <1>1, <1>4, <1>8
    <3> QED
      BY <1>5, <1>7, <3>2, <3>3, Zenon
  <2>3. SumOf(RestOf(q)) + Rest(c) \in Nat
    BY <1>8
  <2> QED
    BY <2>1, <2>2, <2>3, Zenon
<1>10. v \in Works(Nat)
  <2>1. <<c>> \o q \in Seq(Blocks)
    BY <1>2, <1>5
  <2>2. w.dsz - t \in Nat /\ w.left - t \in Nat
    BY <1>6, <1>9
  <2> DEFINE d == w.dsz - t
             l == w.left - t
  <2> HIDE DEF d, l
  <2>3. [list |-> <<c>> \o q, asz |-> w.asz, usz |-> w.usz, dsz |-> d, left |-> l] \in Works(Nat)
    BY <1>1, <2>1, <2>2, WorkIs DEF d, l
  <2> QED
    BY <1>6, <2>3, Zenon DEF d, l
<1>11. Sound(v)
  <2>1. q # <<>> => Full(c)
    <3> SUFFICES ASSUME q # <<>> PROVE Full(c)
      OBVIOUS
    <3>1. Rest(c) > 0
      BY <1>4, <1>5, <1>8
    <3> QED
      BY <1>5, <1>7, <3>1 DEF Full, UsedUp
  <2>2. /\ v.asz = SumOf(RoomOf(q)) + c.asz /\ v.usz = SumOf(UseOf(q)) + Len(c.data)
        /\ v.dsz = SumOf(RestOf(q)) + Rest(c)
    BY <1>5, <1>7, <1>9, Zenon
  <2> QED
    BY <1>2, <1>5, <1>7, <1>9, <2>1, <2>2, SoundFirst
<1>12. \E y \in Seq(Nat) : Len(y) = t /\ BytesOf(w.list) = y \o BytesOf(v.list)
  <2>1. PICK y \in Seq(Nat) : Len(y) = t /\ WaitingIn(b) = y \o WaitingIn(c)
    BY <1>5
  <2>2. BytesOf(w.list) = WaitingIn(b) \o BytesOf(q) /\ BytesOf(v.list) = WaitingIn(c) \o BytesOf(q)
    BY <1>2, <1>5, <1>9, FirstAdds
  <2>3. WaitingIn(c) \in Seq(Nat) /\ BytesOf(q) \in Seq(Nat)
    BY <1>2, <1>5, BlockType, SumsAre
  <2>4. Associates(y, WaitingIn(c), BytesOf(q))
    BY <2>3, Association
  <2>5. BytesOf(w.list) = y \o BytesOf(v.list)
    BY <2>1, <2>2, <2>4, Zenon DEF Associates
  <2> QED
    BY <2>1, <2>5
<1>13. w.left - v.left = t /\ v.left <= w.left
  <2>1. w.left - (w.left - t) = t /\ w.left - t <= w.left
    BY <1>1, <1>8
  <2> QED
    BY <1>9, <2>1, Zenon
<1>14. TakesOff(w, v)
  BY <1>10, <1>11, <1>12, <1>13 DEF TakesOff
<1>15. Head(v.list) = c /\ v.list # <<>> /\ Len(v.list) = Len(w.list)
  <2>1. Head(<<c>> \o q) = c
    BY <1>2, <1>5, OfFirst
  <2>2. <<c>> \o q # <<>> /\ Len(<<c>> \o q) = Len(q) + 1
    BY <1>2, <1>5
  <2>3. Len(w.list) = Len(q) + 1
    BY <1>1, <1>2
  <2> QED
    BY <1>9, <2>1, <2>2, <2>3, Zenon
<1> QED
  BY <1>5, <1>9, <1>14, <1>15 DEF v, b

\* Del in its course: of the contents, those it need not keep are gone.
Deleting(n) ==
  {w \in Works(Nat) :
     /\ Sound(w) /\ w.left <= n /\ w.left <= Len(BytesOf(w.list))
     /\ \E x \in Seq(Nat) : Len(x) = n - w.left /\ Contents = x \o BytesOf(w.list)}

\* Taking bytes off is progress of Del.
LEMMA DeletingIs ==
  ASSUME NEW n \in Nat, NEW w \in Deleting(n), NEW v, TakesOff(w, v)
  PROVE  v \in Deleting(n)
<1> DEFINE B == BytesOf(w.list)
           C == BytesOf(v.list)
<1>1. /\ w \in Works(Nat) /\ w.left <= n /\ w.left <= Len(B)
      /\ \E x \in Seq(Nat) : Len(x) = n - w.left /\ Contents = x \o B
  BY DEF Deleting
<1>2. /\ v \in Works(Nat) /\ Sound(v) /\ v.left <= w.left
      /\ \E y \in Seq(Nat) : Len(y) = w.left - v.left /\ B = y \o C
  BY DEF TakesOff
<1>3. w.left \in Nat /\ v.left \in Nat /\ B \in Seq(Nat) /\ C \in Seq(Nat)
  BY <1>1, <1>2, WorksAre, SumsAre
<1> HIDE DEF B, C
<1>4. PICK x \in Seq(Nat) : Len(x) = n - w.left /\ Contents = x \o B
  BY <1>1
<1>5. PICK y \in Seq(Nat) : Len(y) = w.left - v.left /\ B = y \o C
  BY <1>2
<1>6. Associates(x, y, C)
  BY <1>3, Association
<1>7. Contents = (x \o y) \o C
  BY <1>4, <1>5, <1>6, Zenon DEF Associates
<1>8. x \o y \in Seq(Nat) /\ Len(x \o y) = Len(x) + Len(y) /\ Len(y \o C) = Len(y) + Len(C)
      /\ Len(C) \in Nat
  BY <1>3
<1>9. Len(x) + Len(y) = n - v.left /\ v.left <= n
  BY <1>1, <1>2, <1>3, <1>4, <1>5, SMTT(30)
<1>10. v.left <= Len(C)
  <2>1. Len(B) = (w.left - v.left) + Len(C)
    BY <1>5, <1>8, Zenon
  <2> QED
    BY <1>1, <1>3, <1>8, <2>1, SMTT(30)
<1>11. Len(x \o y) = n - v.left
  BY <1>8, <1>9, Zenon
<1> QED
  BY <1>2, <1>7, <1>8, <1>9, <1>10, <1>11 DEF Deleting, C

\* A used-up block that is sent is removed.
LEMMA BlockGoes ==
  ASSUME NEW w \in Works(Nat), Sound(w), w.list # <<>>, Rest(Head(w.list)) <= w.left
  PROVE  LET v == DelA(Send(w, Rest(Head(w.list)))) IN
         TakesOff(w, v) /\ Len(v.list) = Len(w.list) - 1
<1> DEFINE b == Head(w.list)
           q == Tail(w.list)
           t == Rest(b)
           c == [b EXCEPT !.ssz = @ + t]
           v == DelA(Send(w, t))
<1>1. /\ w.list \in Seq(Blocks) /\ w.asz \in Nat /\ w.usz \in Nat /\ w.dsz \in Nat /\ w.left \in Nat
  BY WorksAre
<1>2. b \in Blocks /\ q \in Seq(Blocks) /\ w.list = <<b>> \o q /\ Len(q) = Len(w.list) - 1
  BY <1>1, HeadAndTail
<1>3. Send(w, t) = [w EXCEPT !.list = <<c>> \o q, !.dsz = @ - t, !.left = @ - t]
  BY Zenon DEF Send
<1>4. t \in Nat /\ t <= w.left /\ t \in 0..Rest(b)
  BY <1>2, BlockType
<1> HIDE DEF b, q, v
<1>5. /\ c \in Blocks /\ c.asz = b.asz /\ c.data = b.data /\ Rest(c) = t - t
  <2> HIDE DEF c
  <2> QED
    BY <1>2, <1>4, BlockSent DEF c
<1> HIDE DEF c, t
<1>6. Send(w, t) = [list |-> <<c>> \o q, asz |-> w.asz, usz |-> w.usz, dsz |-> w.dsz - t, left |-> w.left - t]
  BY <1>3 DEF Works
<1>7. Head(<<c>> \o q) = c /\ Tail(<<c>> \o q) = q
  BY <1>2, <1>5, OfFirst
<1> DEFINE s == Send(w, t)
<1>8. v = [s EXCEPT !.list = q, !.asz = @ - c.asz, !.usz = @ - Len(c.data), !.dsz = @ - Rest(c)]
  <2>1. s.list = <<c>> \o q
    BY <1>6
  <2>2. Head(s.list) = c /\ Tail(s.list) = q
    BY <1>7, <2>1, Zenon
  <2>3. v = DelA(s)
    BY DEF v, t, b
  <2> HIDE DEF s
  <2> QED
    BY <2>2, <2>3, Zenon DEF DelA
<1>9. v = [list |-> q, asz |-> w.asz - b.asz, usz |-> w.usz - Len(b.data),
           dsz |-> w.dsz - t - (t - t), left |-> w.left - t]
  <2>1. s \in Works(Nat)
    <3> DEFINE d == w.dsz - t
               l == w.left - t
    <3>1. d \in Nat /\ l \in Nat /\ <<c>> \o q \in Seq(Blocks)
      <4>1. w.dsz = SumOf(RestOf(q)) + t /\ SumOf(RestOf(q)) \in Nat
        BY <1>2, SoundFirst, SumsAre DEF t
      <4> QED
        BY <1>1, <1>2, <1>4, <1>5, <4>1, SMTT(30)
    <3>2. s = [list |-> <<c>> \o q, asz |-> w.asz, usz |-> w.usz, dsz |-> d, left |-> l]
      BY <1>6
    <3> HIDE DEF d, l, s
    <3> QED
      BY <1>1, <3>1, <3>2, WorkIs
  <2>2. v = [list |-> q, asz |-> s.asz - c.asz, usz |-> s.usz - Len(c.data),
             dsz |-> s.dsz - Rest(c), left |-> s.left]
    <3> HIDE DEF s
    <3> QED
      BY <1>8, <2>1 DEF Works
  <2>3. s.asz = w.asz /\ s.usz = w.usz /\ s.dsz = w.dsz - t /\ s.left = w.left - t
    BY <1>6
  <2> QED
    BY <1>5, <2>2, <2>3, Zenon
<1>10. /\ w.asz = SumOf(RoomOf(q)) + b.asz
       /\ w.usz = SumOf(UseOf(q)) + Len(b.data)
       /\ w.dsz = SumOf(RestOf(q)) + t
       /\ FrontFull(q)
  BY <1>2, SoundFirst DEF t
<1>11. /\ SumOf(RoomOf(q)) \in Nat /\ SumOf(UseOf(q)) \in Nat /\ SumOf(RestOf(q)) \in Nat
       /\ b.asz \in Nat /\ Len(b.data) \in Nat
  BY <1>2, BlockType, SumsAre
<1>12. /\ w.asz - b.asz = SumOf(RoomOf(q)) /\ w.usz - Len(b.data) = SumOf(UseOf(q))
       /\ w.dsz - t - (t - t) = SumOf(RestOf(q)) /\ w.left - t \in Nat /\ w.left - t <= w.left
       /\ w.left - (w.left - t) = t
  <2>1. w.asz - b.asz = SumOf(RoomOf(q)) /\ w.usz - Len(b.data) = SumOf(UseOf(q))
    BY <1>10, <1>11
  <2>2. w.dsz - t - (t - t) = SumOf(RestOf(q))
    BY <1>4, <1>10, <1>11
  <2>3. w.left - t \in Nat /\ w.left - t <= w.left /\ w.left - (w.left - t) = t
    BY <1>1, <1>4
  <2> QED
    BY <2>1, <2>2, <2>3
<1>13. /\ v.list = q /\ v.asz = SumOf(RoomOf(q)) /\ v.usz = SumOf(UseOf(q))
       /\ v.dsz = SumOf(RestOf(q)) /\ v.left = w.left - t
  BY <1>9, <1>12
<1>14. v \in Works(Nat)
  <2> DEFINE l == w.left - t
             a == SumOf(RoomOf(q))
             u == SumOf(UseOf(q))
             d == SumOf(RestOf(q))
  <2>1. v = [list |-> q, asz |-> a, usz |-> u, dsz |-> d, left |-> l]
    BY <1>9, <1>12, Zenon
  <2>2. l \in Nat /\ a \in Nat /\ u \in Nat /\ d \in Nat
    BY <1>11, <1>12
  <2> HIDE DEF l, a, u, d
  <2> QED
    BY <1>2, <2>1, <2>2, WorkIs
<1>15. Sound(v)
  BY <1>10, <1>13 DEF Sound
<1>16. BytesOf(w.list) = WaitingIn(b) \o BytesOf(v.list) /\ WaitingIn(b) \in Seq(Nat) /\ Len(WaitingIn(b)) = t
  <2>1. BytesOf(<<b>> \o q) = WaitingIn(b) \o BytesOf(q)
    BY <1>2, FirstAdds
  <2>2. WaitingIn(b) \in Seq(Nat) /\ Len(WaitingIn(b)) = t
    BY <1>2, BlockType DEF t
  <2> QED
    BY <1>2, <1>13, <2>1, <2>2, Zenon
<1>17. w.left - v.left = t /\ v.left <= w.left
  BY <1>12, <1>13, Zenon
<1>18. TakesOff(w, v)
  BY <1>14, <1>15, <1>16, <1>17 DEF TakesOff
<1> QED
  BY <1>2, <1>13, <1>18 DEF v, t, b

\* The loop of Del ends.
Done(w) == w.list = <<>> \/ w.left = 0 \/ w.left < Rest(Head(w.list))

\* A turn of Del's loop ends it or takes a block off.
LEMMA SendUpIs ==
  ASSUME NEW n \in Nat, NEW w \in Deleting(n)
  PROVE  /\ SendUp(w) \in Deleting(n)
         /\ Done(w) => SendUp(w) = w
         /\ Done(SendUp(w)) \/ Len(SendUp(w).list) = Len(w.list) - 1
<1>1. CASE Done(w)
  <2>1. SendUp(w) = w
    BY <1>1 DEF SendUp, Done
  <2> QED
    BY <1>1, <2>1
<1>2. CASE ~Done(w)
  <2> DEFINE b == Head(w.list)
             q == Tail(w.list)
             t == Rest(b)
  <2>1. w \in Works(Nat) /\ Sound(w) /\ w.left <= Len(BytesOf(w.list))
    BY DEF Deleting
  <2>2. w.list \in Seq(Blocks) /\ w.left \in Nat /\ w.list # <<>> /\ w.left # 0 /\ ~(w.left < t)
    BY <1>2, <2>1, WorksAre DEF Done
  <2>3. b \in Blocks /\ q \in Seq(Blocks) /\ w.list = <<b>> \o q
    BY <2>2, HeadAndTail
  <2>4. t \in Nat /\ t <= w.left /\ t \in 0..t
    <3>1. t \in Nat
      BY <2>3, BlockType
    <3> HIDE DEF t
    <3> QED
      BY <2>2, <3>1
  <2>5. SendUp(w) = IF UsedUp(b) THEN DelA(Send(w, t)) ELSE Send(w, t)
    BY <2>2 DEF SendUp
  <2>6. CASE UsedUp(b)
    <3>1. TakesOff(w, DelA(Send(w, t))) /\ Len(DelA(Send(w, t)).list) = Len(w.list) - 1
      BY <2>1, <2>2, <2>4, BlockGoes
    <3> HIDE DEF t
    <3> QED
      BY <1>2, <2>5, <2>6, <3>1, DeletingIs
  <2>7. CASE ~UsedUp(b)
    <3> HIDE DEF b, q
    <3>1. q = <<>>
      BY <2>1, <2>3, <2>7, SoundFirst DEF Full
    <3>2. BytesOf(w.list) = WaitingIn(b) \o BytesOf(q) /\ WaitingIn(b) \in Seq(Nat) /\ Len(WaitingIn(b)) = t
      BY <2>3, BlockType, FirstAdds DEF Adds
    <3>3. BytesOf(q) \in Seq(Nat) /\ Len(BytesOf(q)) = 0
      <4>1. BytesOf(<<>>) = <<>>
        BY BytesInIs, FlattenEmpty DEF BytesOf, BytesIn
      <4>2. BytesOf(q) = <<>>
        BY <3>1, <4>1
      <4> QED
        BY <2>3, <4>2, SumsAre
    <3>4. w.left <= t
      <4>1. Len(WaitingIn(b) \o BytesOf(q)) = Len(WaitingIn(b)) + Len(BytesOf(q))
        BY <3>2, <3>3
      <4>2. Len(BytesOf(w.list)) = t + 0
        BY <3>2, <3>3, <4>1, Zenon
      <4> QED
        BY <2>1, <2>2, <2>4, <4>2
    <3>5. TakesOff(w, Send(w, t)) /\ Send(w, t).left = w.left - t
      BY <2>1, <2>2, <2>4, <3>1, SendIs DEF b, q
    <3>6. w.left - t = 0
      BY <2>2, <2>4, <3>4
    <3> HIDE DEF t
    <3>7. Send(w, t) \in Deleting(n) /\ Done(Send(w, t))
      BY <3>5, <3>6, DeletingIs DEF Done
    <3> QED
      BY <1>2, <2>5, <2>7, <3>7
  <2> QED
    BY <2>6, <2>7
<1> QED
  BY <1>1, <1>2

------------------------------------------------------------------------------
(* SendData: the invariant                                                 *)

LEMMA ContentsIs ==
  ASSUME list \in Seq(Blocks)
  PROVE  Contents = BytesOf(list) /\ Contents \in Seq(Nat)
<1>1. Contents = BytesOf(list)
  BY DEF Contents, BytesOf
<1>2. BytesOf(list) \in Seq(Nat)
  BY SumsAre
<1> QED
  BY <1>1, <1>2

\* The inductive invariant: the blocks are whole, their sums are SendData's, and
\* all but the last are full and wait to be sent.
SendInv ==
  /\ list \in Seq(Blocks) /\ asz \in Nat /\ usz \in Nat /\ dsz \in Nat
  /\ written \in 0..MaxWritten
  /\ SumsAgree /\ FrontFull(list)

LEMMA StartIs ==
  ASSUME SendInv, NEW L, NEW l \in L
  PROVE  /\ Start(l) \in Works(L) /\ Sound(Start(l))
         /\ Start(l).list = list /\ Start(l).left = l
<1>1. Start(l) = [list |-> list, asz |-> asz, usz |-> usz, dsz |-> dsz, left |-> l]
  BY DEF Start
<1>2. Start(l) \in Works(L)
  BY <1>1, WorkIs DEF SendInv
<1>3. /\ Start(l).list = list /\ Start(l).asz = asz /\ Start(l).usz = usz /\ Start(l).dsz = dsz
      /\ Start(l).left = l
  BY <1>1
<1>4. Sound(Start(l))
  BY <1>3, Zenon DEF Sound, SendInv, SumsAgree
<1> QED
  BY <1>2, <1>3, <1>4

\* The loop of Del ends with less to delete than waits in the first block.
LEMMA DrainIs ==
  ASSUME SendInv, NEW n \in Nat, n <= Len(Contents)
  PROVE  Drain(n) \in Deleting(n) /\ Done(Drain(n))
<1> DEFINE m == Len(list)
           D == Deleting(n)
           base == Start(n)
           step == [k \in Nat |-> [w \in D |-> SendUp(w)]]
           Is(h) == h = [k \in 0..m |-> IF k = 0 THEN base ELSE SendUp(h[k - 1])]
<1>0. list \in Seq(Blocks)
  BY DEF SendInv
<1>1. Drain(n) = (CHOOSE h : Is(h))[m]
  BY Zenon DEF Drain
<1>2. m \in Nat
  BY <1>0
<1>3. base \in D /\ Len(base.list) = m
  <2>1. base \in Works(Nat) /\ Sound(base) /\ base.list = list /\ base.left = n
    BY StartIs
  <2>2. Contents = BytesOf(list) /\ Contents \in Seq(Nat)
    BY <1>0, ContentsIs
  <2>3. <<>> \in Seq(Nat) /\ Len(<<>>) = n - n /\ Contents = <<>> \o Contents
    BY <2>2
  <2> HIDE DEF base
  <2>4. base.left <= n /\ base.left <= Len(BytesOf(base.list))
    BY <2>1, <2>2
  <2> QED
    BY <2>1, <2>2, <2>3, <2>4 DEF Deleting
<1>4. step \in StepsOn(D)
  <2>1. \A w \in D : SendUp(w) \in D
    BY SendUpIs
  <2> HIDE DEF D
  <2> QED
    BY <2>1 DEF StepsOn
<1>5. \A k \in Nat, w \in D : step[k][w] = SendUp(w)
  <2> HIDE DEF D
  <2> QED
    OBVIOUS
<1> HIDE DEF step, D, base, m
<1>6. PICK f \in [Nat -> D] : f[0] = base /\ \A k \in Nat : f[k + 1] = step[k][f[k]]
  <2>1. PICK f : f \in Runs(D, base, step)
    BY <1>3, <1>4, Recursive
  <2> QED
    BY <2>1 DEF Runs
<1> DEFINE g == [k \in 0..m |-> f[k]]
<1>7. Is(g)
  <2>1. \A k \in 0..m : g[k] = IF k = 0 THEN base ELSE SendUp(g[k - 1])
    <3> SUFFICES ASSUME NEW k \in 0..m PROVE g[k] = IF k = 0 THEN base ELSE SendUp(g[k - 1])
      OBVIOUS
    <3>1. k # 0 => k - 1 \in 0..m /\ k - 1 \in Nat /\ (k - 1) + 1 = k
      BY <1>2
    <3>2. \A j \in Nat : f[j + 1] = SendUp(f[j])
      <4>1. \A j \in Nat : f[j] \in D
        BY <1>6
      <4> QED
        BY <1>5, <1>6, <4>1
    <3> QED
      BY <1>6, <3>1, <3>2
  <2>2. g = [k \in 0..m |-> g[k]]
    OBVIOUS
  <2> HIDE DEF g
  <2> QED
    BY <2>1, <2>2
<1> DEFINE h == CHOOSE h : Is(h)
<1>8. Is(h)
  <2> HIDE DEF Is, g
  <2> QED
    BY <1>7
<1>9. \A k \in 0..m : h[k] = IF k = 0 THEN base ELSE SendUp(h[k - 1])
  <2> HIDE DEF h
  <2> QED
    BY <1>8
<1>10. h[m] = Drain(n)
  BY <1>1
<1> HIDE DEF h, Is, g
<1>11. \A k \in Nat : k <= m => h[k] \in D /\ (Done(h[k]) \/ Len(h[k].list) = m - k)
  <2> DEFINE I == {k \in Nat : k <= m => h[k] \in D /\ (Done(h[k]) \/ Len(h[k].list) = m - k)}
  <2>1. 0 \in I
    BY <1>2, <1>3, <1>9
  <2>2. ASSUME NEW k \in Nat, k \in I PROVE k + 1 \in I
    <3> SUFFICES ASSUME k + 1 <= m
                 PROVE  h[k + 1] \in D /\ (Done(h[k + 1]) \/ Len(h[k + 1].list) = m - (k + 1))
      OBVIOUS
    <3>1. k + 1 \in 0..m /\ k + 1 # 0 /\ (k + 1) - 1 = k
      BY <1>2
    <3>2. h[k] \in D /\ (Done(h[k]) \/ Len(h[k].list) = m - k)
      BY <1>2, <2>2
    <3>3. h[k + 1] = SendUp(h[k])
      BY <1>9, <3>1
    <3>4. /\ SendUp(h[k]) \in D /\ (Done(h[k]) => SendUp(h[k]) = h[k])
          /\ Done(SendUp(h[k])) \/ Len(SendUp(h[k]).list) = Len(h[k].list) - 1
      BY <3>2, SendUpIs DEF D
    <3>5. (m - k) - 1 = m - (k + 1)
      BY <1>2
    <3> QED
      BY <3>2, <3>3, <3>4, <3>5
  <2> HIDE DEF I
  <2>3. Nat \subseteq I
    BY <2>1, <2>2, Inductive
  <2> QED
    BY <2>3 DEF I
<1>12. Drain(n) \in D /\ (Done(Drain(n)) \/ Len(Drain(n).list) = m - m)
  BY <1>2, <1>10, <1>11
<1>13. Drain(n).list \in Seq(Blocks)
  BY <1>12, WorksAre DEF D, Deleting
<1>14. Len(Drain(n).list) = m - m => Drain(n).list = <<>>
  BY <1>2, <1>13
<1> QED
  BY <1>12, <1>14 DEF Done, D

\* What is left is sent of the next block.
LEMMA SendPartIs ==
  ASSUME NEW n \in Nat, NEW w \in Deleting(n), Done(w)
  PROVE  SendPart(w) \in Deleting(n) /\ SendPart(w).left = 0
<1> DEFINE b == Head(w.list)
           q == Tail(w.list)
           t == MinOf(w.left, Rest(b))
<1>1. w \in Works(Nat) /\ Sound(w) /\ w.left <= Len(BytesOf(w.list))
  BY DEF Deleting
<1>2. w.list \in Seq(Blocks) /\ w.left \in Nat
  BY <1>1, WorksAre
<1>3. CASE w.list = <<>>
  <2>1. Len(BytesOf(<<>>)) = 0
    BY BytesInIs, FlattenEmpty DEF BytesOf, BytesIn
  <2> QED
    BY <1>1, <1>2, <1>3, <2>1 DEF SendPart
<1>4. CASE w.list # <<>>
  <2>1. b \in Blocks /\ q \in Seq(Blocks) /\ w.list = <<b>> \o q
    BY <1>2, <1>4, HeadAndTail
  <2>2. Rest(b) \in Nat
    BY <2>1, BlockType
  <2>3. q # <<>> => Rest(b) > 0
    <3> HIDE DEF b, q
    <3> QED
      BY <1>1, <2>1, SoundFirst DEF Full
  <2>4. w.left = 0 \/ w.left < Rest(b)
    BY <1>4 DEF Done
  <2>5. t = w.left /\ t \in 0..Rest(b) /\ t <= w.left /\ (t < Rest(b) \/ q = <<>>) /\ w.left - t = 0
    <3> HIDE DEF b, q
    <3> QED
      BY <1>2, <2>2, <2>3, <2>4 DEF MinOf
  <2>6. SendPart(w) = Send(w, t)
    BY <1>4 DEF SendPart
  <2>7. TakesOff(w, Send(w, t)) /\ Send(w, t).left = w.left - t
    <3> HIDE DEF t
    <3> QED
      BY <1>1, <1>4, <2>5, SendIs
  <2> HIDE DEF t
  <2> QED
    BY <2>5, <2>6, <2>7, DeletingIs
<1> QED
  BY <1>3, <1>4

\* Get's answer has no more than waits.
LEMMA LengthIs ==
  ASSUME NEW q \in Seq(Blocks)
  PROVE  Len(BytesOf(q)) = SumOf(RestOf(q))
<1> DEFINE m == Len(q)
<1>1. BytesIn(q) \in Seq(Seq(Nat)) /\ RestOf(q) \in Seq(Nat)
  BY PartsType
<1>2. /\ m \in Nat /\ Len(BytesIn(q)) = m /\ Len(RestOf(q)) = m
      /\ \A k \in 1..m : Len(BytesIn(q)[k]) = RestOf(q)[k]
  <2>1. Len(BytesIn(q)) = m /\ \A k \in 1..m : BytesIn(q)[k] = WaitingIn(q[k]) /\ q[k] \in Blocks
    BY BytesInIs
  <2>2. Len(RestOf(q)) = m /\ \A k \in 1..m : RestOf(q)[k] = Rest(q[k])
    BY DEF RestOf
  <2>3. \A b \in Blocks : Len(WaitingIn(b)) = Rest(b)
    BY BlockType
  <2> QED
    BY <2>1, <2>2, <2>3
<1> HIDE DEF m
<1>3. PICK f : /\ f \in [0..m -> Seq(Nat)] /\ f[0] = <<>> /\ f[m] = BytesOf(q)
               /\ \A k \in 0..(m - 1) : f[k + 1] = f[k] \o BytesIn(q)[k + 1]
  <2>1. PICK f : f \in Flattening(Nat, BytesIn(q))
    BY <1>1, FlattenSteps
  <2> QED
    BY <1>2, <2>1 DEF Flattening, BytesOf
<1>4. PICK g : /\ g \in [0..m -> Nat] /\ g[0] = 0 /\ g[m] = SumOf(RestOf(q))
               /\ \A k \in 0..(m - 1) : g[k + 1] = g[k] + RestOf(q)[k + 1]
  <2>1. PICK g : g \in Summing(RestOf(q))
    BY <1>1, SumSteps
  <2> QED
    BY <1>2, <2>1 DEF Summing
<1>5. \A k \in Nat : k <= m => Len(f[k]) = g[k]
  <2> DEFINE I == {k \in Nat : k <= m => Len(f[k]) = g[k]}
  <2>1. 0 \in I
    BY <1>3, <1>4
  <2>2. ASSUME NEW k \in Nat, k \in I PROVE k + 1 \in I
    <3> SUFFICES ASSUME k + 1 <= m PROVE Len(f[k + 1]) = g[k + 1]
      OBVIOUS
    <3>1. k \in 0..(m - 1) /\ k \in 0..m /\ k + 1 \in 1..m /\ Len(f[k]) = g[k]
      BY <1>2, <2>2
    <3>2. f[k] \in Seq(Nat) /\ BytesIn(q)[k + 1] \in Seq(Nat)
      <4>1. k + 1 \in 1..Len(BytesIn(q))
        BY <1>2, <3>1
      <4>2. BytesIn(q)[k + 1] \in Seq(Nat)
        BY <1>1, <4>1, ElementOfSeq
      <4> QED
        BY <1>3, <3>1, <4>2
    <3>3. Len(f[k] \o BytesIn(q)[k + 1]) = Len(f[k]) + Len(BytesIn(q)[k + 1])
      BY <3>2
    <3> QED
      BY <1>2, <1>3, <1>4, <3>1, <3>3
  <2> HIDE DEF I
  <2>3. Nat \subseteq I
    BY <2>1, <2>2, Inductive
  <2> QED
    BY <2>3 DEF I
<1> QED
  BY <1>2, <1>3, <1>4, <1>5

LEMMA SendStarts == SendInit => SendInv
<1> SUFFICES ASSUME SendInit PROVE SendInv
  OBVIOUS
<1>1. <<>> \in Seq(Blocks)
  OBVIOUS
<1>2. RoomOf(<<>>) = <<>> /\ UseOf(<<>>) = <<>> /\ RestOf(<<>>) = <<>>
  BY DEF RoomOf, UseOf, RestOf
<1>3. SumsAgree
  BY <1>2, SumEmpty, Zenon DEF SendInit, SumsAgree
<1>4. FrontFull(list)
  BY DEF SendInit, FrontFull
<1> QED
  BY <1>1, <1>3, <1>4, SendAssumption DEF SendInit, SendInv

\* What an operation leaves.
LEMMA BecomeIs ==
  ASSUME NEW L, NEW w \in Works(L), Sound(w), Become(w), written' \in 0..MaxWritten
  PROVE  SendInv' /\ Contents' = BytesOf(w.list)
<1>1. /\ w.list \in Seq(Blocks) /\ w.asz \in Nat /\ w.usz \in Nat /\ w.dsz \in Nat
  BY WorksAre
<1>2. list' = w.list /\ asz' = w.asz /\ usz' = w.usz /\ dsz' = w.dsz
  BY DEF Become
<1>3. SumsAgree' /\ FrontFull(list)'
  <2>1. /\ asz' = SumOf(RoomOf(list')) /\ usz' = SumOf(UseOf(list')) /\ dsz' = SumOf(RestOf(list'))
        /\ FrontFull(list')
    BY <1>2, Zenon DEF Sound
  <2> QED
    BY <2>1, Zenon DEF SumsAgree
<1>4. list' \in Seq(Blocks) /\ asz' \in Nat /\ usz' \in Nat /\ dsz' \in Nat
  BY <1>1, <1>2
<1>5. Contents' = BytesOf(w.list)
  BY <1>2, Zenon DEF Contents, BytesOf
<1> QED
  BY <1>3, <1>4, <1>5 DEF SendInv

\* Get finds all the bytes that wait, oldest first, across the blocks.
LEMMA GetIs ==
  ASSUME SendInv, NEW n \in Nat
  PROVE  Get(n) = SubSeq(Contents, 1, MinOf(n, Len(Contents)))
<1>1. list \in Seq(Blocks) /\ dsz = SumOf(RestOf(list))
  BY DEF SendInv, SumsAgree
<1>2. Contents = BytesOf(list) /\ Contents \in Seq(Nat) /\ Len(Contents) = dsz
  BY <1>1, ContentsIs, LengthIs
<1>3. CASE list # <<>> /\ dsz # 0
  BY <1>1, <1>3, CopyIs DEF Get
<1>4. CASE list = <<>> \/ dsz = 0
  <2>1. Len(Contents) = 0
    <3>1. Len(BytesOf(<<>>)) = 0
      BY BytesInIs, FlattenEmpty DEF BytesOf, BytesIn
    <3> QED
      BY <1>2, <1>4, <3>1
  <2>2. MinOf(n, Len(Contents)) = 0
    BY <2>1 DEF MinOf
  <2>3. SubSeq(Contents, 1, 0) = <<>>
    BY <1>2
  <2>4. Get(n) = <<>>
    BY <1>4 DEF Get
  <2> QED
    BY <2>2, <2>3, <2>4
<1> QED
  BY <1>3, <1>4

\* What Set is given.
Line(s, n) == [i \in 1..n |-> s + i]

\* Set puts its bytes behind those that wait.
LEMMA SetSteps ==
  ASSUME SendInv, NEW n \in 1..MaxSet, Set(n)
  PROVE  SendInv' /\ Contents' = Contents \o Line(written, n)
<1> DEFINE l == Line(written, n)
           w == Start(l)
           v == Grow(Grow(Fill(Reuse(w))))
<1>1. written \in Nat /\ n \in Nat /\ MaxWritten \in Nat
  BY SendAssumption DEF SendInv
<1>2. l \in Seq(Nat)
  <2>1. \A i \in 1..n : written + i \in Nat
    BY <1>1
  <2> QED
    BY <1>1, <2>1 DEF Line
<1>3. Become(v) /\ written' = written + n /\ written + n <= MaxWritten
  BY DEF Set, Line
<1> HIDE DEF l
<1>4. w \in Setting /\ Sound(w) /\ w.list = list /\ w.left = l
  BY <1>2, StartIs DEF Setting
<1> HIDE DEF w
<1>5. v \in Setting /\ Sound(v) /\ BytesOf(v.list) = BytesOf(w.list) \o w.left
  BY <1>4, SetIs
<1> HIDE DEF v
<1>6. written' \in 0..MaxWritten
  BY <1>1, <1>3
<1>7. SendInv' /\ Contents' = BytesOf(v.list)
  BY <1>3, <1>5, <1>6, BecomeIs DEF Setting
<1>8. Contents = BytesOf(list)
  BY ContentsIs DEF SendInv
<1> QED
  BY <1>4, <1>5, <1>7, <1>8, Zenon DEF l

\* Del takes as many off as it is told to, which never is more than wait.
LEMMA DelSteps ==
  ASSUME SendInv, NEW n \in 1..MaxSet, Del(n)
  PROVE  /\ SendInv' /\ n \in 1..Len(Contents)
         /\ Contents' = SubSeq(Contents, n + 1, Len(Contents))
<1> DEFINE w == Drain(n)
           v == SendPart(w)
<1>1. Contents \in Seq(Nat) /\ MaxSet \in Nat /\ n \in Nat /\ n >= 1 /\ Len(Contents) \in Nat
  BY ContentsIs, SendAssumption DEF SendInv
<1>2. n <= Len(Contents) /\ n \in 1..Len(Contents) /\ n \in 0..Len(Contents)
  <2> DEFINE k == MinOf(MaxSet, Len(Contents))
  <2>1. k \in 0..Len(Contents)
    BY <1>1, LeastOfBoth
  <2>2. Len(SubSeq(Contents, 1, k)) = k
    <3> HIDE DEF k
    <3> QED
      BY <1>1, <2>1, PartsIs
  <2>3. n <= k
    BY <1>1, <2>2, GetIs DEF Del
  <2> HIDE DEF k
  <2> QED
    BY <1>1, <2>1, <2>3
<1>3. Become(v) /\ written' = written
  BY DEF Del
<1>4. w \in Deleting(n) /\ Done(w)
  BY <1>1, <1>2, DrainIs
<1> HIDE DEF w
<1>5. v \in Deleting(n) /\ v.left = 0
  BY <1>1, <1>4, SendPartIs
<1> HIDE DEF v
<1>6. v \in Works(Nat) /\ Sound(v) /\ v.list \in Seq(Blocks)
  BY <1>5, WorksAre DEF Deleting
<1>7. written' \in 0..MaxWritten
  BY <1>3 DEF SendInv
<1>8. SendInv' /\ Contents' = BytesOf(v.list)
  BY <1>3, <1>6, <1>7, BecomeIs
<1>9. PICK x \in Seq(Nat) : Len(x) = n - v.left /\ Contents = x \o BytesOf(v.list)
  BY <1>5 DEF Deleting
<1> DEFINE a == SubSeq(Contents, 1, n)
           c == SubSeq(Contents, n + 1, Len(Contents))
           B == BytesOf(v.list)
<1>10. a \in Seq(Nat) /\ c \in Seq(Nat) /\ Len(a) = n /\ a \o c = Contents
  BY <1>1, <1>2, PartsIs
<1>11. B \in Seq(Nat) /\ Len(x) = n
  BY <1>1, <1>5, <1>6, <1>9, SumsAre
<1> HIDE DEF a, c
<1>12. x \o B = a \o c /\ Len(x) = Len(a)
  BY <1>9, <1>10, <1>11
<1> HIDE DEF B
<1>13. B = c
  BY <1>10, <1>11, <1>12, CancelFirst
<1> QED
  BY <1>2, <1>8, <1>13 DEF B, c

LEMMA CleanSteps ==
  ASSUME SendInv, Clean
  PROVE  SendInv' /\ Contents' = <<>>
<1> DEFINE w == [list |-> <<>>, asz |-> 0, usz |-> 0, dsz |-> 0, left |-> 0]
<1>1. w \in Works(Nat)
  <2>1. <<>> \in Seq(Blocks)
    OBVIOUS
  <2> QED
    BY <2>1, WorkIs
<1>2. Sound(w)
  <2>1. RoomOf(<<>>) = <<>> /\ UseOf(<<>>) = <<>> /\ RestOf(<<>>) = <<>> /\ FrontFull(<<>>)
    BY DEF RoomOf, UseOf, RestOf, FrontFull
  <2>2. w.list = <<>> /\ w.asz = 0 /\ w.usz = 0 /\ w.dsz = 0
    OBVIOUS
  <2> HIDE DEF w
  <2> QED
    BY <2>1, <2>2, SumEmpty, Zenon DEF Sound
<1>3. Become(w) /\ written' \in 0..MaxWritten /\ w.list = <<>>
  BY DEF Clean, Become, SendInv
<1> HIDE DEF w
<1>4. SendInv' /\ Contents' = BytesOf(w.list)
  BY <1>1, <1>2, <1>3, BecomeIs
<1>5. BytesOf(<<>>) = <<>>
  BY FlattenEmpty DEF BytesOf, BytesIn
<1> QED
  BY <1>3, <1>4, <1>5

\* Each operation keeps the invariant.
LEMMA SendSteps == SendInv /\ [SendNext]_sendVars => SendInv'
<1> SUFFICES ASSUME SendInv, [SendNext]_sendVars PROVE SendInv'
  OBVIOUS
<1>1. ASSUME NEW n \in 1..MaxSet, Set(n) PROVE SendInv'
  BY <1>1, SetSteps
<1>2. ASSUME NEW n \in 1..MaxSet, Del(n) PROVE SendInv'
  BY <1>2, DelSteps
<1>3. CASE Clean
  BY <1>3, CleanSteps
<1>4. CASE UNCHANGED sendVars
  BY <1>4 DEF sendVars, SendInv, SumsAgree, FrontFull
<1> QED
  BY <1>1, <1>2, <1>3, <1>4 DEF SendNext

\* The blocks of a SendData keep the invariant through any mix of operations
\* (send.cpp: Set, Del, DelA, New, Clean).
THEOREM SendInvHolds == SendSpec => []SendInv
<1>1. SendInit => SendInv
  BY SendStarts
<1>2. SendInv /\ [SendNext]_sendVars => SendInv'
  BY SendSteps
<1> QED
  BY <1>1, <1>2, PTL DEF SendSpec

\* For blocks of any size, no block is filled past its memory or sent past what is
\* in it, and no sum of SendData goes below zero.
THEOREM SendTypeCorrect == SendSpec => []SendTypeOK
<1>1. SendInv => SendTypeOK
  <2> SUFFICES ASSUME SendInv PROVE SendTypeOK
    OBVIOUS
  <2>1. ASSUME NEW i \in DOMAIN list
        PROVE  /\ Len(list[i].data) \in 0..list[i].asz
               /\ list[i].ssz \in 0..Len(list[i].data)
               /\ (list[i].asz + HeadSz) % BufSz = 0
    <3>1. list[i] \in Blocks
      BY DEF SendInv
    <3> DEFINE b == list[i]
    <3> HIDE DEF b
    <3>2. b \in Blocks
      BY <3>1 DEF b
    <3>3. /\ Len(b.data) \in 0..b.asz /\ b.ssz \in 0..Len(b.data)
          /\ (b.asz + HeadSz) % BufSz = 0
      BY <3>2, BlockType
    <3> QED
      BY <3>3 DEF b
  <2> QED
    BY <2>1 DEF SendTypeOK, SendInv
<1> QED
  BY <1>1, SendInvHolds, PTL

\* For blocks of any size the sums of SendData agree with its blocks after any mix
\* of Set, Del and Clean, only the last block is open, and Get finds the oldest bytes.
THEOREM SendIsSound == SendSpec => []SendDataSound
<1>1. SendInv => SendDataSound
  <2> SUFFICES ASSUME SendInv PROVE SendDataSound
    OBVIOUS
  <2>1. SumsAgree
    BY DEF SendInv
  <2>2. OnlyLastOpen
    BY DEF SendInv, FrontFull, Full, OnlyLastOpen
  <2>3. GetIsOldest
    <3>1. \A n \in 0..MaxSet : n \in Nat
      BY SendAssumption
    <3> QED
      BY <3>1, GetIs DEF GetIsOldest
  <2> QED
    BY <2>1, <2>2, <2>3 DEF SendDataSound
<1> QED
  BY <1>1, SendInvHolds, PTL

\* SendData is a queue of bytes: splitting a line over blocks, using one again and
\* deleting part of one neither lose, repeat nor reorder a byte.
THEOREM SendRefines == SendSpec => ImplementsByteQueue
<1>1. SendInit => Queue!Init
  <2>1. BytesOf(<<>>) = <<>>
    BY FlattenEmpty DEF BytesOf, BytesIn
  <2> QED
    BY <2>1 DEF SendInit, Queue!Init, Contents, BytesOf
<1>2. SendInv /\ [SendNext]_sendVars => [Queue!Next]_Contents
  <2> SUFFICES ASSUME SendInv, SendNext, Contents' # Contents PROVE Queue!Next
    <3>1. UNCHANGED sendVars => Contents' = Contents
      BY DEF sendVars, Contents
    <3> QED
      BY <3>1
  <2>1. ASSUME NEW n \in 1..MaxSet, Set(n) PROVE Queue!Next
    <3>1. Contents' = Contents \o Line(written, n) /\ written \in 0..MaxWritten
      BY <2>1, SetSteps DEF SendInv
    <3>2. Line(written, n) \in Lines
      BY <3>1 DEF Line, Lines
    <3> QED
      BY <3>1, <3>2 DEF Queue!Next, Queue!Put
  <2>2. ASSUME NEW n \in 1..MaxSet, Del(n) PROVE Queue!Next
    BY <2>2, DelSteps DEF Queue!Next, Queue!Drop
  <2>3. CASE Clean
    BY <2>3, CleanSteps DEF Queue!Next, Queue!Clear
  <2> QED
    BY <2>1, <2>2, <2>3 DEF SendNext
<1> QED
  BY <1>1, <1>2, SendInvHolds, PTL DEF SendSpec, ImplementsByteQueue, Queue!Spec
=============================================================================
