------------------------------- MODULE SendData -------------------------------
(***************************************************************************)
(* Class SendData (crossplatform/send.cpp): the bytes a connection still   *)
(* has to send, in a list of blocks a..e.  Every operation holds           *)
(* SendDataLock from its first change to its last, so each is one step.    *)
(* A byte is its number in the stream.  The memory of a block is data;     *)
(* its bytes ssz+1..Len(data) are waiting, usz is Len(data).               *)
(***************************************************************************)
EXTENDS Integers, SequencesExt

CONSTANTS BufSz,      \* MSVCORE_SENDDATA_BUFSZ
          HeadSz,     \* sizeof(SendDataD)
          MaxSet,     \* bound: bytes of one Set or Get
          MaxWritten    \* bound: bytes ever set

ASSUME SendAssumption ==
  /\ BufSz \in Nat /\ HeadSz \in Nat \ {0} /\ 2 * HeadSz <= BufSz
  /\ MaxSet \in Nat /\ MaxWritten \in Nat

VARIABLES
  list,           \* the blocks, oldest first: [asz, ssz, data]
  asz, usz, dsz,  \* SendData's sums: room, bytes in blocks, bytes waiting
  written         \* bytes ever set

sendVars == <<list, asz, usz, dsz, written>>

SendInit == list = <<>> /\ asz = 0 /\ usz = 0 /\ dsz = 0 /\ written = 0

\* An operation at its start: the object, and what there is to set or delete.
Start(left) == [list |-> list, asz |-> asz, usz |-> usz, dsz |-> dsz, left |-> left]

Become(w) == list' = w.list /\ asz' = w.asz /\ usz' = w.usz /\ dsz' = w.dsz

Rest(b) == Len(b.data) - b.ssz

MinOf(m, n) == IF m < n THEN m ELSE n

EmptyBlock(n) == [asz |-> n, ssz |-> 0, data |-> <<>>]

\* SendData::New: the bytes and the block's head, in whole BufSz.
New(w) ==
  LET n == Len(w.left)
      ns == IF n % BufSz = 0 THEN n ELSE n + BufSz - (n % BufSz)
  IN [w EXCEPT !.list = Append(@, EmptyBlock(ns - HeadSz)), !.asz = @ + ns - HeadSz]

\* The last block, from its start.
Emptied(blocks) == Append(Front(blocks), EmptyBlock(Last(blocks).asz))

\* Slip: the last block is used again although bytes wait in it.
ReuseAny(w) ==
  IF w.list = <<>> THEN w
  ELSE [w EXCEPT !.list = Emptied(@), !.usz = @ - Len(Last(w.list).data)]

\* Slip: usz keeps the bytes that were sent.
ReuseUncounted(w) ==
  IF w.list = <<>> \/ Rest(Last(w.list)) # 0 THEN w
  ELSE [w EXCEPT !.list = Emptied(@)]

\* Set uses a last block that is sent up from its start again.
Reuse(w) ==
  IF w.list = <<>> \/ Rest(Last(w.list)) # 0 THEN w
  ELSE [w EXCEPT !.list = Emptied(@), !.usz = @ - Len(Last(w.list).data)]

\* A turn of the loop of Set: what the last block has room for.
Fill(w) ==
  IF w.list = <<>> THEN w
  ELSE LET b == Last(w.list)
           ef == MinOf(b.asz - Len(b.data), Len(w.left))
       IN [w EXCEPT !.list = Append(Front(@), [b EXCEPT !.data = @ \o SubSeq(w.left, 1, ef)]),
                    !.dsz = @ + ef, !.usz = @ + ef,
                    !.left = SubSeq(@, ef + 1, Len(@))]

\* The next turn, if bytes are left.
Grow(w) == IF w.left = <<>> THEN w ELSE Fill(New(w))

\* A new block may be short of its own head, and then a second one is not: the
\* loop ends in its third turn at the latest.
Set(n) ==
  /\ written + n <= MaxWritten
  /\ Become(Grow(Grow(Fill(Reuse(Start([i \in 1..n |-> written + i]))))))
  /\ written' = written + n

\* SendData::Get(dt, se): up to n bytes, from as many blocks as it takes.
Copy(n) ==
  LET copied[k \in 0..Len(list)] ==
        IF k = 0 THEN <<>>
        ELSE LET dt == copied[k - 1]
                 b == list[k]
             IN dt \o SubSeq(b.data, b.ssz + 1, b.ssz + MinOf(Rest(b), n - Len(dt)))
  IN copied[Len(list)]

Get(n) == IF list = <<>> \/ dsz = 0 THEN <<>> ELSE Copy(n)

\* SendData::DelA
DelA(w) ==
  LET d == Head(w.list) IN
    [w EXCEPT !.list = Tail(@), !.asz = @ - d.asz,
              !.usz = @ - Len(d.data), !.dsz = @ - Rest(d)]

\* if(a->asz == a->usz)
UsedUp(b) == b.asz = Len(b.data)

\* t bytes of the first block are sent.
Send(w, t) ==
  LET b == Head(w.list) IN
    [w EXCEPT !.list = <<[b EXCEPT !.ssz = @ + t]>> \o Tail(@),
              !.dsz = @ - t, !.left = @ - t]

\* A turn of the loop of Del: a block that is sent up, if there is one.
SendUp(w) ==
  IF w.list = <<>> \/ w.left = 0 \/ w.left < Rest(Head(w.list)) THEN w
  ELSE LET sent == Send(w, Rest(Head(w.list)))
       IN IF UsedUp(Head(w.list)) THEN DelA(sent) ELSE sent

\* Each turn but the last deletes a block, so it takes no more than there are.
Drain(n) ==
  LET turn[k \in 0..Len(list)] == IF k = 0 THEN Start(n) ELSE SendUp(turn[k - 1])
  IN turn[Len(list)]

\* What is left, in part of the next block.
SendPart(w) ==
  IF w.list = <<>> THEN w ELSE Send(w, MinOf(w.left, Rest(Head(w.list))))

\* The callers delete what Get gave them and the socket took.
Del(n) ==
  /\ n <= Len(Get(MaxSet))
  /\ Become(SendPart(Drain(n)))
  /\ UNCHANGED written

Clean ==
  /\ list' = <<>> /\ asz' = 0 /\ usz' = 0 /\ dsz' = 0
  /\ UNCHANGED written

SendNext == (\E n \in 1..MaxSet : Set(n) \/ Del(n)) \/ Clean

SendSpec == SendInit /\ [][SendNext]_sendVars

------------------------------------------------------------------------------
(* Properties                                                              *)

\* The sum of a sequence of numbers.
SumOf(s) ==
  LET sum[k \in 0..Len(s)] == IF k = 0 THEN 0 ELSE sum[k - 1] + s[k] IN sum[Len(s)]

RoomOf(blocks) == [i \in 1..Len(blocks) |-> blocks[i].asz]
UseOf(blocks) == [i \in 1..Len(blocks) |-> Len(blocks[i].data)]
RestOf(blocks) == [i \in 1..Len(blocks) |-> Rest(blocks[i])]

\* A block is never filled past its memory, nor sent past what is in it, and
\* no sum goes below zero (they are unsigned).
SendTypeOK ==
  /\ \A i \in DOMAIN list :
       /\ Len(list[i].data) \in 0..list[i].asz
       /\ list[i].ssz \in 0..Len(list[i].data)
       /\ (list[i].asz + HeadSz) % BufSz = 0
  /\ asz \in Nat /\ usz \in Nat /\ dsz \in Nat /\ written \in 0..MaxWritten

\* The three sums agree with the blocks after any mix of operations, so that
\* Size(), which storm asks before every send, is what is really waiting.
SumsAgree ==
  asz = SumOf(RoomOf(list)) /\ usz = SumOf(UseOf(list)) /\ dsz = SumOf(RestOf(list))

\* Only the last block has room, and only the last may be sent up: a used-up
\* block at the front is always removed, so Del's loop never stays at one.
OnlyLastOpen ==
  \A i \in 1..(Len(list) - 1) : UsedUp(list[i]) /\ Rest(list[i]) > 0

BytesIn(blocks) ==
  [i \in 1..Len(blocks) |->
    SubSeq(blocks[i].data, blocks[i].ssz + 1, Len(blocks[i].data))]

Contents == FlattenSeq(BytesIn(list))

\* Get finds all the bytes that wait, oldest first, across blocks: a short
\* answer would make WorkDoSend take the connection for sent up.
GetIsOldest ==
  \A n \in 0..MaxSet :
    Get(n) = SubSeq(Contents, 1, MinOf(n, Len(Contents)))

\* What the blocks are at any time, the three together.
SendDataSound == SumsAgree /\ OnlyLastOpen /\ GetIsOldest

\* What Set may be given: the next bytes of the stream.
Lines == {[i \in 1..n |-> s + i] : n \in 1..MaxSet, s \in 0..MaxWritten}

\* The blocks implement a queue of bytes: using a block again, splitting a line
\* over blocks and deleting part of one neither lose, repeat nor reorder bytes.
Queue == INSTANCE ByteQueue WITH bytes <- Contents
ImplementsByteQueue == Queue!Spec
=============================================================================
