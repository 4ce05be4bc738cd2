---------------------------- MODULE ThreadString ----------------------------
(***************************************************************************)
(* The memory of the temporary strings of one thread (TString.cpp).  A     *)
(* TString takes its bytes from the blocks of its thread (class            *)
(* ThreadStringUList), of which the first is part of that object and the   *)
(* others are malloc'ed; nothing is given back until the thread has no     *)
(* TString any more, and then everything is.                               *)
(***************************************************************************)
EXTENDS Integers, Sequences, FiniteSetsExt

CONSTANTS
  Strings,    \* the places a TString may live at
  Mallocs,    \* what malloc may return
  Stack,      \* the block that is in the object, buff
  NoBlock,
  BlockHead,  \* sizeof(ThreadStringUListData)
  StackSz,    \* THREADSTRING_STACK_SIZE
  BuffSz,     \* THREADSTRING_BUFF_SIZE
  Lengths,    \* lengths of strings
  WordSz      \* the range of an unsigned int

ASSUME ArenaAssumption ==
  /\ Stack \notin Mallocs /\ NoBlock \notin Mallocs \cup {Stack}
  /\ BlockHead \in Nat /\ StackSz \in Nat /\ BuffSz \in Nat /\ WordSz \in Nat
  /\ 0 < BlockHead /\ BlockHead < StackSz /\ StackSz <= BuffSz /\ BuffSz < WordSz
  /\ Lengths \subseteq 0..(WordSz - 2)

VARIABLES
  blocks,     \* the list from data on: [at, asz, usz, fsz]
  stackused,
  count,      \* do_tstring_core_count
  str,        \* of each place: NoString, or [at, off, sz] with at = NoBlock if empty
  bytes       \* the bytes that New returned since the last Clear: [at, off, len]

arenaVars == <<blocks, stackused, count, str, bytes>>

NoString == [at |-> NoBlock, off |-> 0, sz |-> -1]
Empty == [at |-> NoBlock, off |-> 0, sz |-> 0]
Alive(n) == str[n] # NoString

ArenaInit ==
  /\ blocks = <<>> /\ stackused = FALSE /\ count = 0 /\ bytes = {}
  /\ str = [n \in Strings |-> NoString]

------------------------------------------------------------------------------
(* ThreadStringUList::New                                                  *)

Gives(n, len, at, off) ==
  /\ str' = [str EXCEPT ![n] = [at |-> at, off |-> off, sz |-> len - 1]]
  /\ bytes' = bytes \cup {[at |-> at, off |-> off, len |-> len]}

\* data && data->fsz >= sz
Fits(len) == blocks # <<>> /\ blocks[1].fsz >= len

\* sz > THREADSTRING_BUFF_SIZE - sizeof(ThreadStringUListData)
Large(len) == len > BuffSz - BlockHead

Used(b, len) == [b EXCEPT !.usz = @ + len, !.fsz = @ - len]

FromFirst(n, len) ==
  /\ Fits(len)
  /\ blocks' = [blocks EXCEPT ![1] = Used(@, len)]
  /\ Gives(n, len, blocks[1].at, blocks[1].usz)
  /\ UNCHANGED stackused

Second(d) == <<Head(blocks), d>> \o Tail(blocks)

\* Bound: malloc has what Mallocs has.
Malloced == Mallocs \ {blocks[i].at : i \in DOMAIN blocks}

OwnBlock(n, len) ==
  /\ ~Fits(len) /\ Large(len)
  /\ \E at \in Malloced :
       LET d == [at |-> at, asz |-> len, usz |-> len, fsz |-> 0] IN
         /\ blocks' = IF blocks = <<>> THEN <<d>> ELSE Second(d)
         /\ Gives(n, len, at, 0)
  /\ UNCHANGED stackused

\* The first block is buff.  The one with more room comes first; a length that
\* buff is too small for, though a malloc'ed block is not, would wrap its fsz.
NewBlock(n, len) ==
  /\ ~Fits(len) /\ ~Large(len)
  /\ \E at \in IF stackused THEN Malloced ELSE {Stack} :
       LET asz == (IF stackused THEN BuffSz ELSE StackSz) - BlockHead
           d == [at |-> at, asz |-> asz, usz |-> len, fsz |-> (asz - len) % WordSz]
       IN
         /\ blocks' = IF blocks = <<>> \/ d.fsz > blocks[1].fsz
                      THEN <<d>> \o blocks ELSE Second(d)
         /\ Gives(n, len, at, 0)
  /\ stackused' = TRUE

\* A string of no bytes has no memory; others have one byte more, for the 0.
StringNew(n, sz) ==
  IF sz = 0
  THEN str' = [str EXCEPT ![n] = Empty] /\ UNCHANGED <<blocks, stackused, bytes>>
  ELSE FromFirst(n, sz + 1) \/ OwnBlock(n, sz + 1) \/ NewBlock(n, sz + 1)

------------------------------------------------------------------------------
(* TString                                                                 *)

\* A constructor of a string of sz bytes.
Construct(n, sz) ==
  /\ ~Alive(n) /\ count' = count + 1
  /\ StringNew(n, sz)

\* TString(TString &&line)
ConstructFrom(n, m) ==
  /\ ~Alive(n) /\ Alive(m) /\ count' = count + 1
  /\ str' = [str EXCEPT ![n] = str[m], ![m] = Empty]
  /\ UNCHANGED <<blocks, stackused, bytes>>

\* operator=, operator+=, Add, Reserve: StringDel of the old bytes does nothing.
Assign(n, sz) ==
  /\ Alive(n) /\ StringNew(n, sz)
  /\ UNCHANGED count

\* operator-=, move: of itself, it leaves nothing.
MoveFrom(n, m) ==
  /\ Alive(n) /\ Alive(m)
  /\ str' = [str EXCEPT ![n] = str[m], ![m] = Empty]
  /\ UNCHANGED <<blocks, stackused, count, bytes>>

\* ~TString, ThreadStringDest: the last one frees everything (Clear).
Destroy(n) ==
  /\ Alive(n) /\ count' = count - 1
  /\ str' = [str EXCEPT ![n] = NoString]
  /\ IF count = 1
     THEN blocks' = <<>> /\ stackused' = FALSE /\ bytes' = {}
     ELSE UNCHANGED <<blocks, stackused, bytes>>

ArenaNext ==
  \E n \in Strings :
    \/ \E sz \in Lengths : Construct(n, sz) \/ Assign(n, sz)
    \/ \E m \in Strings : ConstructFrom(n, m) \/ MoveFrom(n, m)
    \/ Destroy(n)

ArenaSpec == ArenaInit /\ [][ArenaNext]_arenaVars

------------------------------------------------------------------------------
BlockNames == Mallocs \cup {Stack}
MaxLen == BuffSz + Max(Lengths \cup {0})

ArenaTypeOK ==
  /\ stackused \in BOOLEAN /\ count \in Nat
  /\ \A i \in DOMAIN blocks :
       /\ blocks[i].at \in BlockNames /\ blocks[i].fsz \in 0..(WordSz - 1)
       /\ blocks[i].asz \in 1..MaxLen /\ blocks[i].usz \in 1..MaxLen
  /\ \A n \in Strings : str[n].at \in BlockNames \cup {NoBlock} /\ str[n].sz >= -1

\* A length that the first block is too small for gets a block of its own; not so
\* in the code for the lengths of the 32 bytes that buff is smaller by.
NoGap == \A sz \in Lengths : sz + 1 <= StackSz - BlockHead \/ Large(sz + 1)

Within(b, r) == r.at = b.at /\ r.off + r.len <= b.usz

\* The bytes of every string, and those it had before, which a view (VString)
\* may still show or an assignment copies from, lie in a block that is still
\* there and are nobody else's: until the last string is gone, whatever the
\* order in which strings end.  The bytes given out fill what blocks have used,
\* and that is within their size.
ArenaSound ==
  /\ \A r \in bytes : \E i \in DOMAIN blocks : Within(blocks[i], r)
  /\ \A r, s \in bytes :
       r.at = s.at => r = s \/ r.off + r.len <= s.off \/ s.off + s.len <= r.off
  /\ \A i \in DOMAIN blocks :
       LET b == blocks[i] IN
         /\ b.usz <= b.asz /\ b.fsz = b.asz - b.usz
         /\ \A p \in 0..(b.usz - 1) :
              \E r \in bytes : r.at = b.at /\ p \in r.off..(r.off + r.len - 1)
         /\ \A j \in DOMAIN blocks : blocks[j].at = b.at => i = j
  /\ \A n \in Strings :
       str[n].sz > 0 =>
         /\ [at |-> str[n].at, off |-> str[n].off, len |-> str[n].sz + 1] \in bytes
         /\ \A m \in Strings \ {n} :
              str[m].sz > 0 => <<str[m].at, str[m].off>> # <<str[n].at, str[n].off>>
  /\ (\A n \in Strings : ~Alive(n)) <=> count = 0
  /\ count = 0 => blocks = <<>>
=============================================================================
