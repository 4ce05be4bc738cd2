------------------------------ MODULE DebugRing ------------------------------
(***************************************************************************)
(* The debug records of the storm server: workers write them into a        *)
(* storm_binary_ring (server/storm/listen-http-modstate.h) under a lock,   *)
(* and a connection of LightServerWebDebug (server/light/light.h) reads    *)
(* them with ReadDebug, which takes none.  Sizes are in words of four      *)
(* bytes; a record's first word is 0xdeadf00d, its second its size.        *)
(***************************************************************************)
EXTENDS Integers, SequencesExt

CONSTANTS
  DebugSz,    \* ring_sz
  RecordSz,   \* sizes of the records, of three words or more
  MaxRecords, \* bound: records written
  MaxTold     \* bound: words ReadDebug gives

ASSUME DebugAssumption ==
  /\ DebugSz \in Nat \ {0} /\ RecordSz \subseteq 3..DebugSz
  /\ MaxRecords \in Nat /\ MaxTold \in Nat

VARIABLES
  data, dpos,     \* storm_binary_ring
  pending,        \* words of a record that write() has still to copy
  records,        \* every record that was begun
  rid, begun,     \* debug_rid; how many records there were at StartDebug, or -1
  head,           \* head[1] of ReadDebug, -1 before it is read
  told, failed,   \* what ReadDebug gave; its error
  lapped          \* the reader was more than a ring behind

debugVars == <<data, dpos, pending, records, rid, begun, head, told, failed, lapped>>
readerVars == <<rid, begun, head, told, failed>>

Word(record, at, value) == [record |-> record, at |-> at, value |-> value]
NoWord == Word(0, 0, 0)

\* The words of record k, of n words.
WordsOf(k, n) == [i \in 1..n |-> Word(k, i, IF i = 2 THEN n ELSE 0)]
Words(from) == FlattenSeq([k \in 1..(Len(records) - from) |-> records[from + k]])

DebugInit ==
  /\ data = [i \in 0..(DebugSz - 1) |-> NoWord] /\ dpos = 0
  /\ pending = <<>> /\ records = <<>> /\ rid = 0 /\ begun = -1
  /\ head = -1 /\ told = <<>> /\ failed = "no" /\ lapped = FALSE

------------------------------------------------------------------------------
(* OnRecv, OnSend, OnAccept, OnDisconnect: the lock is kept until write()  *)
(* has copied the record.                                                  *)

WriteRecord(n) ==
  /\ pending = <<>> /\ Len(records) < MaxRecords
  /\ pending' = WordsOf(Len(records) + 1, n)
  /\ records' = Append(records, pending')
  /\ UNCHANGED <<data, dpos, readerVars, lapped>>

Lesser(a, b) == IF a < b THEN a ELSE b

Wrapped == IF dpos = DebugSz THEN 0 ELSE dpos

\* memcpy of the loop of write(), up to the end of the ring.
DataWith(n) ==
  [i \in DOMAIN data |->
     IF i \in Wrapped..(Wrapped + n - 1) THEN pending[i - Wrapped + 1] ELSE data[i]]

CopyWords ==
  /\ pending # <<>>
  /\ LET n == Lesser(Len(pending), DebugSz - Wrapped) IN
       /\ data' = DataWith(n) /\ dpos' = Wrapped + n
       /\ pending' = SubSeq(pending, n + 1, Len(pending))
  /\ lapped' = (lapped \/ (begun # -1 /\ Len(Words(begun)) - Len(told) > DebugSz))
  /\ UNCHANGED <<records, readerVars>>

------------------------------------------------------------------------------
(* StartDebug and ReadDebug                                                *)

\* The reader begins with the record that is being written, when none of it is
\* copied yet.
StartDebug ==
  /\ begun = -1 /\ rid' = dpos
  /\ begun' = IF records # <<>> /\ pending = Last(records)
              THEN Len(records) - 1 ELSE Len(records)
  /\ UNCHANGED <<data, dpos, pending, records, head, told, failed, lapped>>

\* Past the array lies pos, then what is of no interest here.
WordAt(i) ==
  IF i < DebugSz THEN data[i] ELSE IF i = DebugSz THEN Word(0, 0, dpos) ELSE NoWord

\* read() takes no more than up to pos, or as much as is from pos to the end when
\* rid is above it; its loop leaves rid alone and copies the same words again.
ReadWords(n) ==
  LET most == IF rid < dpos THEN dpos - rid ELSE DebugSz - dpos IN
    [i \in 1..n |-> WordAt(rid + ((i - 1) % most))]

\* is(rid), and read() of the head; 0xdeadf00d as a size is more than any buffer.
ReadHead ==
  /\ begun # -1 /\ failed = "no" /\ head = -1 /\ rid # dpos /\ Len(told) < MaxTold
  /\ LET first == ReadWords(2)[1]
         size == ReadWords(2)[2]
     IN CASE first.at # 1 -> failed' = "corrupt" /\ UNCHANGED head
          [] first.at = 1 /\ size.at = 1 -> failed' = "small" /\ UNCHANGED head
          [] OTHER -> head' = size.value /\ UNCHANGED failed
  /\ UNCHANGED <<data, dpos, pending, records, rid, begun, told, lapped>>

RidAfter(n) == IF rid + n >= DebugSz THEN rid + n - DebugSz ELSE rid + n

\* read() of the record, head and all, and readed().
ReadBody ==
  /\ head # -1 /\ head' = -1
  /\ IF rid = dpos THEN UNCHANGED <<told, rid>>
                   ELSE told' = told \o ReadWords(head) /\ rid' = RidAfter(head)
  /\ UNCHANGED <<data, dpos, pending, records, begun, failed, lapped>>

DebugNext ==
  \/ \E n \in RecordSz : WriteRecord(n)
  \/ CopyWords \/ StartDebug \/ ReadHead \/ ReadBody

DebugSpec == DebugInit /\ [][DebugNext]_debugVars

------------------------------------------------------------------------------
(* Properties                                                              *)

DebugTypeOK ==
  /\ dpos \in 0..DebugSz /\ rid \in 0..DebugSz /\ begun \in -1..MaxRecords
  /\ Len(records) <= MaxRecords /\ head \in -1..DebugSz
  /\ failed \in {"no", "corrupt", "small"} /\ lapped \in BOOLEAN

\* Until the ring has been written once to its end, a reader without a lock gets
\* the records from StartDebug on, each whole and once, and in order.
InOrderAtFirst ==
  Len(Words(0)) < DebugSz /\ begun # -1 =>
    failed = "no" /\ IsPrefix(told, Words(begun))

\* `StormState.ReadDebug() head corrypt!` is for what cannot be: a reader that
\* was there before the first record and keeps up never finds a head that is none.
HeadIntact == begun = 0 /\ failed = "corrupt" => lapped
=============================================================================
