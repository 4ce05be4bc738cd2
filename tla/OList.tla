------------------------------- MODULE OList -------------------------------
(***************************************************************************)
(* Class OList with its pointers OListP (list/OList.h): a list with a lock *)
(* whose elements are used through pointers with a lock each.  A thread    *)
(* holds the lock of its pointer while it uses the element, and gives it   *)
(* back to take the lock of the list; a thread that frees an element holds *)
(* the lock of the list and takes those of the pointers to it.             *)
(*                                                                         *)
(* Who frees what is as in the repository: the creator of an element frees *)
(* it by itself (storm_delete), or marks it and leaves it alone, and a     *)
(* sweeper frees it through its pointer (listen_cgi::Thread); a finder     *)
(* looks for an element and returns at it (TgBots::GetBotByIdr).           *)
(***************************************************************************)
EXTENDS Integers, SequencesExt

CONSTANTS
  Sweepers, Finders,   \* threads that walk the list, each with its pointer
  Owners,    \* threads that make elements and let them go
  NoOne,     \* nobody holds the lock of the list
  Cells,     \* memory of elements: an address is used again
  Null

Walkers == Sweepers \cup Finders
Threads == Walkers \cup Owners

ASSUME OListAssumption ==
  /\ Sweepers \cap Finders = {} /\ Walkers \cap Owners = {}
  /\ NoOne \notin Threads /\ Null \notin Cells

VARIABLES
  chain,   \* the elements from _a to _e
  state,   \* what an element is: "none", "kept", "marked", "dying"
  links,   \* the pointers from _ap to _ep, each the walker it belongs to
  el,      \* where a pointer is
  doing,   \* what a thread does: "out" of the list; "start", "use": it has
           \*   its pointer's lock, before and after a Next; "next", "free",
           \*   "clean": it gave it back and waits for the list's lock;
           \*   "erase": it has that and goes through the pointers
  del,     \* what it frees
  cursor,  \* which pointer it looks at
  held,    \* who has the lock of the list
  same     \* is what a walker asked to free still what it was looking at

oListVars == <<chain, state, links, el, doing, del, cursor, held, same>>

OListInit ==
  /\ chain = <<>> /\ state = [c \in Cells |-> "none"] /\ links = <<>>
  /\ el = [w \in Walkers |-> Null] /\ doing = [t \in Threads |-> "out"]
  /\ del = [t \in Threads |-> Null] /\ cursor = [t \in Threads |-> 0]
  /\ held = NoOne /\ same = [w \in Walkers |-> TRUE]

\* A walker has the lock of its pointer.
Uses(w) == doing[w] \in {"start", "use"}

Place(c) == CHOOSE i \in DOMAIN chain : chain[i] = c
LinkOf(w) == CHOOSE i \in DOMAIN links : links[i] = w

\* Slip: after no element comes none.
NextOfNone(c) ==
  LET i == IF c = Null THEN Len(chain) ELSE Place(c) IN
    IF i < Len(chain) THEN chain[i + 1] ELSE Null

\* The element after c; the first of the list after none.
NextOf(c) ==
  LET i == IF c = Null THEN 0 ELSE Place(c) IN
    IF i < Len(chain) THEN chain[i + 1] ELSE Null

PrevOf(c) == IF Place(c) = 1 THEN Null ELSE chain[Place(c) - 1]

------------------------------------------------------------------------------
(* The pointer                                                             *)

\* OListP p(list): its lock first, then that of the list for NewLink.
NewLink(w) ==
  /\ doing[w] = "out" /\ held = NoOne
  /\ links' = Append(links, w)
  /\ el' = [el EXCEPT ![w] = Null]
  /\ doing' = [doing EXCEPT ![w] = "start"]
  /\ UNCHANGED <<chain, state, del, cursor, held, same>>

\* if(el->GetState() == STORM_LISTEN_CGI_DELETE)
Sweeps(w) == w \in Sweepers /\ el[w] # Null /\ state[el[w]] = "marked"

\* UnLock(), and then: Next while it returns an element, Free of a marked one,
\* the destructor at the end or where a finder returns.
UnLock(w, do) ==
  /\ CASE do = "next"  -> doing[w] = "start" \/ (doing[w] = "use" /\ el[w] # Null /\ ~Sweeps(w))
       [] do = "free"  -> doing[w] = "use" /\ Sweeps(w)
       [] do = "clean" -> doing[w] = "use" /\ (el[w] = Null \/ w \in Finders)
  /\ doing' = [doing EXCEPT ![w] = do]
  /\ del' = [del EXCEPT ![w] = IF do = "free" THEN el[w] ELSE Null]
  /\ same' = [same EXCEPT ![w] = TRUE]
  /\ UNCHANGED <<chain, state, links, el, cursor, held>>

\* Next() in the lock of the list; its own lock is free, so Lock() goes on.
MoveNext(w) ==
  /\ doing[w] = "next" /\ held = NoOne
  /\ el' = [el EXCEPT ![w] = NextOf(el[w])]
  /\ doing' = [doing EXCEPT ![w] = "use"]
  /\ UNCHANGED <<chain, state, links, del, cursor, held, same>>

\* Slip: what is freed is not compared with where the pointer is now.
StillThereAny(w) == TRUE

\* if(del == el)
StillThere(w) == del[w] = el[w]

\* Free() in the lock of the list, up to the call of OList::Free.
FreeHere(w) ==
  /\ doing[w] = "free" /\ held = NoOne
  /\ IF StillThere(w)
     THEN /\ el' = [el EXCEPT ![w] = NextOf(el[w])]
          /\ held' = w /\ cursor' = [cursor EXCEPT ![w] = 1]
          /\ doing' = [doing EXCEPT ![w] = "erase"]
          /\ state' = [state EXCEPT ![del[w]] = "dying"]
          /\ UNCHANGED del
     ELSE /\ doing' = [doing EXCEPT ![w] = "start"] /\ del' = [del EXCEPT ![w] = Null]
          /\ UNCHANGED <<el, held, cursor, state>>
  /\ UNCHANGED <<chain, links, same>>

\* Clean() and the destructor.
FreeLink(w) ==
  /\ doing[w] = "clean" /\ held = NoOne
  /\ links' = RemoveAt(links, LinkOf(w))
  /\ el' = [el EXCEPT ![w] = Null]
  /\ doing' = [doing EXCEPT ![w] = "out"]
  /\ UNCHANGED <<chain, state, del, cursor, held, same>>

------------------------------------------------------------------------------
(* The list                                                                *)

\* NewE
NewE(o, c) ==
  /\ doing[o] = "out" /\ held = NoOne /\ state[c] = "none"
  /\ chain' = Append(chain, c)
  /\ state' = [state EXCEPT ![c] = "kept"]
  /\ UNCHANGED <<links, el, doing, del, cursor, held, same>>

\* The creator marks its element and does not use it again.
Mark(c) ==
  /\ state[c] = "kept"
  /\ state' = [state EXCEPT ![c] = "marked"]
  /\ UNCHANGED <<chain, links, el, doing, del, cursor, held, same>>

\* OList::Free by the creator.
Free(o, c) ==
  /\ doing[o] = "out" /\ held = NoOne /\ state[c] = "kept"
  /\ held' = o /\ del' = [del EXCEPT ![o] = c] /\ cursor' = [cursor EXCEPT ![o] = 1]
  /\ doing' = [doing EXCEPT ![o] = "erase"]
  /\ state' = [state EXCEPT ![c] = "dying"]
  /\ UNCHANGED <<chain, links, el, same>>

\* Slip: the pointer is moved while its thread may be using the element.
MayMoveAny(w) == TRUE

\* p->Lock(): not while its thread uses the element.
MayMove(w) == ~Uses(w)

\* Slip: the loop stops at the first pointer of the list of pointers.
EraseFirstPointer(t) ==
  /\ doing[t] = "erase" /\ cursor[t] <= Len(links)
  /\ LET w == links[cursor[t]] IN
       IF el[w] = del[t] THEN MayMove(w) /\ el' = [el EXCEPT ![w] = PrevOf(del[t])]
                         ELSE UNCHANGED el
  /\ cursor' = [cursor EXCEPT ![t] = Len(links) + 1]
  /\ UNCHANGED <<chain, state, links, doing, del, held, same>>

\* The loop of OList::Free, one pointer.
ErasePointer(t) ==
  /\ doing[t] = "erase" /\ cursor[t] <= Len(links)
  /\ LET w == links[cursor[t]] IN
       IF el[w] = del[t] THEN MayMove(w) /\ el' = [el EXCEPT ![w] = PrevOf(del[t])]
                         ELSE UNCHANGED el
  /\ cursor' = [cursor EXCEPT ![t] = @ + 1]
  /\ UNCHANGED <<chain, state, links, doing, del, held, same>>

\* After the loop: the element goes, and the locks.
EraseEnd(t) ==
  /\ doing[t] = "erase" /\ cursor[t] > Len(links)
  /\ chain' = RemoveAt(chain, Place(del[t]))
  /\ state' = [state EXCEPT ![del[t]] = "none"]
  /\ same' = [w \in Walkers |-> same[w] /\ ~(doing[w] = "free" /\ del[w] = del[t])]
  /\ doing' = [doing EXCEPT ![t] = IF t \in Walkers THEN "start" ELSE "out"]
  /\ held' = NoOne /\ cursor' = [cursor EXCEPT ![t] = 0]
  /\ del' = [del EXCEPT ![t] = Null]
  /\ UNCHANGED <<links, el>>

WalkStep(w) ==
  \/ NewLink(w) \/ MoveNext(w) \/ FreeHere(w) \/ FreeLink(w)
  \/ \E do \in {"next", "free", "clean"} : UnLock(w, do)

EraseStep(t) == ErasePointer(t) \/ EraseEnd(t)

OListNext ==
  \/ \E w \in Walkers : WalkStep(w)
  \/ \E t \in Threads : EraseStep(t)
  \/ \E o \in Owners, c \in Cells : NewE(o, c) \/ Free(o, c)
  \/ \E c \in Cells : Mark(c)

OListSpec == OListInit /\ [][OListNext]_oListVars

------------------------------------------------------------------------------
(* Properties                                                              *)

OListTypeOK ==
  /\ chain \in Seq(Cells) /\ links \in Seq(Walkers)
  /\ state \in [Cells -> {"none", "kept", "marked", "dying"}]
  /\ el \in [Walkers -> Cells \cup {Null}]
  /\ doing \in [Threads -> {"out", "start", "use", "next", "free", "clean", "erase"}]
  /\ del \in [Threads -> Cells \cup {Null}] /\ cursor \in [Threads -> Nat]
  /\ held \in Threads \cup {NoOne} /\ same \in [Walkers -> BOOLEAN]

\* A pointer is at an element of the list, or at none, whatever other threads
\* free: also while it waits for the lock of the list with its own lock given
\* back, and so Next never goes on from an element that is gone.
PointerAlive ==
  \A w \in Walkers : el[w] # Null => el[w] \in Range(chain)

\* A pointer does not move while its thread has its lock, so that with
\* PointerAlive no element is freed under the one who uses it.
UseStable ==
  [][\A w \in Walkers : Uses(w) /\ Uses(w)' => el'[w] = el[w]]_oListVars

\* A walker frees the element it saw, not one that was made since at the same
\* address after another thread freed the first: Free() compares addresses only.
FreesWhatItSaw ==
  [][\A w \in Walkers : doing[w] = "free" /\ doing'[w] = "erase" => same[w]]_oListVars

\* A marked element is freed in the end.
MarkedFreed == \A c \in Cells : state[c] = "marked" ~> state[c] = "none"
=============================================================================
