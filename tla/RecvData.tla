------------------------------ MODULE RecvData ------------------------------
(***************************************************************************)
(* Classes RecvData and RecvDataD (crossplatform/send.cpp), as             *)
(* StormCore::WorkDoRecv uses them: a RecvData lives for one pass on the   *)
(* worker's stack, with the worker's buffer; what the handler has not used *)
(* up stays in the connection's RecvDataD for the next pass.  A byte is    *)
(* its number in the stream of the peer.                                   *)
(***************************************************************************)
EXTENDS Integers, Sequences

CONSTANTS RecvBuf,   \* STORMSERVER_STACK_BUFF
          MaxPeer    \* bound: bytes the peer sends

ASSUME RecvAssumption == RecvBuf \in Nat \ {0} /\ MaxPeer \in Nat

VARIABLES
  rest,            \* RecvDataD: what the last pass left
  buff, deleted,   \* RecvData: the bytes in the buffer, and how many are used up
  lotAt,           \* where the worker is
  peerSent,        \* bytes the peer has sent
  peerEnds,        \* the peer sends no more
  received,        \* bytes recv() has returned
  used             \* what the handlers have used up, in order

recvVars == <<rest, buff, deleted, lotAt, peerSent, peerEnds, received, used>>
peerVars == <<peerSent, peerEnds>>

RecvInit ==
  /\ rest = <<>> /\ buff = <<>> /\ deleted = 0 /\ lotAt = "idle"
  /\ peerSent = 0 /\ peerEnds = FALSE /\ received = 0 /\ used = <<>>

Least2(a, b) == IF a < b THEN a ELSE b

PeerSends ==
  /\ ~peerEnds /\ peerSent < MaxPeer
  /\ peerSent' = peerSent + 1
  /\ UNCHANGED <<rest, buff, deleted, lotAt, peerEnds, received, used>>

PeerEnds ==
  /\ ~peerEnds /\ peerEnds' = TRUE
  /\ UNCHANGED <<rest, buff, deleted, lotAt, peerSent, received, used>>

\* lot.Read(el->rv, buffer, VString()): 0, and the connection closes, when the
\* rest is longer than the buffer.
LotRead ==
  /\ lotAt = "idle"
  /\ deleted' = 0
  /\ IF Len(rest) > RecvBuf THEN lotAt' = "refused" /\ buff' = <<>>
                            ELSE lotAt' \in {"recv", "rest only"} /\ buff' = rest
  /\ UNCHANGED <<rest, peerVars, received, used>>

GetFree == RecvBuf - Len(buff)

\* RecvData::Add, which keeps to the buffer.
Add(n) ==
  buff' = SubSeq(buff \o [i \in 1..n |-> received + i], 1, Least2(Len(buff) + n, RecvBuf))

\* Slip: recv() is offered the whole buffer, and Add trusts it.
RecvOverruns(n) ==
  /\ lotAt = "recv" /\ n <= RecvBuf /\ n <= peerSent - received
  /\ buff' = buff \o [i \in 1..n |-> received + i]
  /\ received' = received + n
  /\ lotAt' = "handle"
  /\ UNCHANGED <<rest, deleted, peerVars, used>>

\* recv() into what is free.
Recv(n) ==
  /\ lotAt = "recv" /\ n <= GetFree /\ n <= peerSent - received
  /\ Add(n)
  /\ received' = received + n
  /\ lotAt' = "handle"
  /\ UNCHANGED <<rest, deleted, peerVars, used>>

\* OPENSSL_RECV_WAIT: nothing is there yet; the destructor keeps the rest.
RecvWaits ==
  /\ lotAt = "recv" /\ GetFree > 0 /\ peerSent = received /\ ~peerEnds
  /\ lotAt' = "end"
  /\ UNCHANGED <<rest, buff, deleted, peerVars, received, used>>

\* recv() says 0: the peer has ended, or the buffer had no room left.
RecvEnds ==
  /\ lotAt = "recv"
  /\ GetFree = 0 \/ (peerEnds /\ peerSent = received)
  /\ lotAt' = "closed"
  /\ UNCHANGED <<rest, buff, deleted, peerVars, received, used>>

\* storm_recv gets the buffer and lot.Del what it says it used up: with
\* storm_work_el::readed that may be more than there was.  With rd & 2 the
\* buffer is only the rest.
StormRecvUses(n) ==
  /\ lotAt \in {"handle", "rest only"}
  /\ deleted' = deleted + n
  /\ used' = used \o SubSeq(buff, 1, Least2(n, Len(buff)))
  /\ lotAt' = "end"
  /\ UNCHANGED <<rest, buff, peerVars, received>>

\* Slip: a buffer that is used up in part is kept whole.
LeftOrAll == IF deleted >= Len(buff) THEN <<>> ELSE buff

Left == IF deleted >= Len(buff) THEN <<>> ELSE SubSeq(buff, deleted + 1, Len(buff))

\* RecvData::End, by the destructor.
End ==
  /\ lotAt = "end"
  /\ rest' = Left /\ buff' = <<>> /\ deleted' = 0
  /\ lotAt' = "idle"
  /\ UNCHANGED <<peerVars, received, used>>

RecvNext ==
  \/ PeerSends \/ PeerEnds \/ LotRead \/ RecvWaits \/ RecvEnds \/ End
  \/ \E n \in 1..MaxPeer : Recv(n)
  \/ \E n \in 0..(RecvBuf + 1) : StormRecvUses(n)

RecvSpec == RecvInit /\ [][RecvNext]_recvVars

------------------------------------------------------------------------------
(* Properties                                                              *)

RecvTypeOK ==
  /\ Len(rest) <= RecvBuf /\ Len(buff) <= RecvBuf /\ deleted \in 0..(RecvBuf + 1)
  /\ lotAt \in {"idle", "recv", "rest only", "handle", "end", "refused", "closed"}
  /\ peerSent \in 0..MaxPeer /\ received \in 0..peerSent /\ peerEnds \in BOOLEAN

\* What is received and not used up: between passes in the RecvDataD, during
\* one in the buffer of the RecvData.
Held == IF lotAt = "idle" THEN rest ELSE SubSeq(buff, deleted + 1, Len(buff))

\* The handlers get every byte the socket gave, once and in order, whatever part
\* of the buffer each call uses up and however many passes a rest survives.
NoByteLost == lotAt # "refused" => used \o Held = [i \in 1..received |-> i]

\* Read never refuses what a pass of the same buffer left (its return 0 would
\* close the connection with bytes unread).
NeverRefused == lotAt # "refused"

\* A connection whose peer has not ended closes here for one reason only: a
\* handler left a whole buffer unused, and recv() of no bytes says 0.
ClosedForCause ==
  lotAt = "closed" => (peerEnds /\ peerSent = received) \/ Len(rest) = RecvBuf

RecvSound == NoByteLost /\ NeverRefused /\ ClosedForCause
=============================================================================
