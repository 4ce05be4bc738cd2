---------------------------- MODULE SendDataRing ----------------------------
(***************************************************************************)
(* Class SendDataRing (crossplatform/send.cpp) between the two sides that  *)
(* use it: PipeLine2::Process (crossplatform/console.cpp), which moves the *)
(* output of a CGI program into the ring, and the application that takes   *)
(* it out.  Write, Read, ReadData and Readed hold SendDataRingLock; IsFree *)
(* does not, and loads pread twice.                                        *)
(***************************************************************************)
EXTENDS Integers, Sequences

CONSTANTS N,         \* SENDDATALOCK_BUFSZ
          BufMax,    \* sizeof(buf) - 1 in Process
          Iscont,    \* iscont: Process loops by itself, another thread reads
          Ahead,     \* bound: bytes the program is ahead of the reader
          MaxOutput   \* bound: bytes the program puts out

ASSUME RingAssumption ==
  /\ N \in Nat \ {0} /\ BufMax \in 1..N /\ Iscont \in BOOLEAN
  /\ Ahead \in Nat /\ MaxOutput \in Nat

VARIABLES
  buf, pread, pwrite,  \* SendDataRing; a byte is its number, 0 is no byte
  at, tested, s,       \* Process: where, what IsRead compared, the size to read
  block,                \* Process: what it read of the program
  output,                \* bytes read of the program so far
  seen,                \* the reader: what it took from the ring
  got                  \* the bytes the reader is done with

ringVars == <<buf, pread, pwrite, at, tested, s, block, output, seen, got>>

RingInit ==
  /\ buf = [i \in 0..(N - 1) |-> 0] /\ pread = 0 /\ pwrite = 0
  /\ at = "select" /\ tested = "no" /\ s = 0 /\ block = <<>> /\ output = 0
  /\ seen = <<>> /\ got = <<>>

Least(a, b) == IF a <= b THEN a ELSE b

IsRead(r, w) == IF w >= r THEN w - r ELSE N - r + w

Advance(p, n) == (p + n) % N

------------------------------------------------------------------------------
(* PipeLine2::Process                                                      *)

\* select: the program has output to read.
Select ==
  /\ at = "select" /\ output < MaxOutput /\ output - Len(got) < Ahead
  /\ at' = "if"
  /\ UNCHANGED <<buf, pread, pwrite, tested, s, block, output, seen, got>>

\* IsFree, first half: IsRead compares the indices.
Test ==
  /\ at \in {"if", "min", "size"} /\ tested = "no"
  /\ tested' = IF pwrite >= pread THEN "above" ELSE "below"
  /\ UNCHANGED <<buf, pread, pwrite, at, s, block, output, seen, got>>

\* IsFree, second half: it loads pread again.
IsFree ==
  N - (IF tested = "above" THEN pwrite - pread ELSE N - pread + pwrite)

Tested(where) == at = where /\ tested # "no" /\ tested' = "no"

\* if(output.IsFree())
If ==
  /\ Tested("if")
  /\ at' = IF IsFree = 0 THEN "select" ELSE "min"
  /\ UNCHANGED <<buf, pread, pwrite, s, block, output, seen, got>>

\* The comparison of minel is unsigned; minel then asks IsFree once more.
MinEl ==
  /\ Tested("min")
  /\ IF IsFree \in 0..BufMax THEN at' = "size" /\ s' = s
                             ELSE at' = "read" /\ s' = BufMax
  /\ UNCHANGED <<buf, pread, pwrite, block, output, seen, got>>

Size ==
  /\ Tested("size")
  /\ at' = "read"
  /\ s' = IF IsFree < 0 THEN MaxOutput ELSE IsFree
  /\ UNCHANGED <<buf, pread, pwrite, block, output, seen, got>>

\* read(p_stdout[0], buf, s); nothing is written unless bread > 0.
ReadProgram(n) ==
  /\ at = "read" /\ n <= s /\ (n = 0 => s = 0)
  /\ output + n <= MaxOutput /\ output + n - Len(got) <= Ahead
  /\ block' = [i \in 1..n |-> output + i] /\ output' = output + n
  /\ at' = IF n > 0 THEN "write" ELSE "select"
  /\ UNCHANGED <<buf, pread, pwrite, tested, s, seen, got>>

\* The loop of SendDataRing::Write copies up to the end of the ring, or up to
\* IsFree, each time.  IsRead is at most N - 1, so IsFree is never 0: the loop
\* ends with all of line in the ring from w on, the last byte of each place.
Copied(w, line) ==
  [i \in DOMAIN buf |->
     LET here == {k \in 1..Len(line) : Advance(w, k - 1) = i}
     IN IF here = {} THEN buf[i] ELSE line[CHOOSE k \in here : \A l \in here : l <= k]]

Write ==
  /\ at = "write"
  /\ buf' = Copied(pwrite, block) /\ pwrite' = Advance(pwrite, Len(block))
  /\ block' = <<>> /\ s' = 0 /\ at' = "select"
  /\ UNCHANGED <<pread, tested, output, seen, got>>

Process ==
  \/ Select \/ Test \/ If \/ MinEl \/ Size \/ Write
  \/ \E n \in 0..MaxOutput : ReadProgram(n)

------------------------------------------------------------------------------
(* The reader.  Without iscont it calls Process itself, one round each.    *)

MayRead == Iscont \/ at = "select"

\* The bytes from pread up to pwrite or the end of the ring.
ReadData ==
  LET ms == IF pwrite >= pread THEN pwrite - pread ELSE N - pread
  IN [i \in 1..ms |-> buf[pread + i - 1]]

\* Read copies n bytes, the rest of them from the start of the ring.
Read(n) ==
  LET ns == IF pwrite < pread /\ n > Len(ReadData)
            THEN Least(pwrite, n - Len(ReadData)) ELSE 0
  IN SubSeq(ReadData, 1, Least(Len(ReadData), n)) \o [i \in 1..ns |-> buf[i - 1]]

Take ==
  /\ MayRead /\ seen = <<>>
  /\ seen' \in {ReadData} \cup {Read(n) : n \in 1..N}
  /\ seen' # <<>>
  /\ UNCHANGED <<buf, pread, pwrite, at, tested, s, block, output, got>>

\* Slip: all that was taken is removed, whatever was used of it.
ReadedAll(n) ==
  /\ pread' = Advance(pread, Least(Len(seen), IsRead(pread, pwrite)))
  /\ got' = got \o SubSeq(seen, 1, n)

\* Readed: the reader used n of the bytes it took.
Readed(n) ==
  /\ pread' = Advance(pread, Least(n, IsRead(pread, pwrite)))
  /\ got' = got \o SubSeq(seen, 1, n)

Reader ==
  \/ Take
  \/ /\ MayRead
     /\ \E n \in 1..Len(seen) : Readed(n)
     /\ seen' = <<>>
     /\ UNCHANGED <<buf, pwrite, at, tested, s, block, output>>

RingNext == Process \/ Reader

RingSpec == RingInit /\ [][RingNext]_ringVars

------------------------------------------------------------------------------
(* Properties                                                              *)

\* The indices stay in the ring.
RingTypeOK ==
  /\ buf \in [0..(N - 1) -> 0..MaxOutput]
  /\ pread \in 0..(N - 1) /\ pwrite \in 0..(N - 1)
  /\ at \in {"select", "if", "min", "size", "read", "write"}
  /\ tested \in {"no", "above", "below"}
  /\ s \in Nat /\ output \in 0..MaxOutput
  /\ Len(block) <= MaxOutput /\ Len(seen) <= N /\ Len(got) <= MaxOutput

Waiting ==
  [i \in 1..IsRead(pread, pwrite) |-> buf[(pread + i - 1) % N]]

\* What the program put out is, in order, what the reader had, what the ring
\* holds and what Process is about to write: over any number of turns of the
\* ring no byte is lost, repeated or overwritten.
NothingLost == got \o Waiting \o block = [i \in 1..output |-> i]

\* When Process reads the program, the size it asks for fits in the ring
\* beside the bytes the reader has not had.
RoomIsReal == at = "read" => s <= N - (output - Len(got))

RingSound == NothingLost /\ RoomIsReal
=============================================================================
