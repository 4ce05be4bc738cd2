---------------------------- MODULE BufferProofs ----------------------------
(***************************************************************************)
(* Proofs about the buffers of crossplatform/send.cpp, of any size, and    *)
(* the rings of the statistics, and the temporary strings.  RecvData:      *)
(* the contents are followed byte by byte; a byte that is kept has the     *)
(* number that follows what is used up.  SendDataRing: the same for the    *)
(* places of the ring from pread up to pwrite.  SecondsRing: each slot has *)
(* its second.  DebugRing: until the ring is full, a reader stands before  *)
(* the record that follows what it was told.  ThreadString: the bytes      *)
(* given out tile the blocks.  At the end, what the model as a whole       *)
(* promises (MCData), from the theorems about its parts.                   *)
(***************************************************************************)
EXTENDS MCData, ListProofs, StreamProofs

------------------------------------------------------------------------------
(* RecvData                                                                *)

\* How many bytes are kept, and which: between passes in the rest, during one
\* in the buffer past what is deleted.
Unused ==
  IF lotAt = "idle" THEN Len(rest)
  ELSE IF Len(buff) > deleted THEN Len(buff) - deleted ELSE 0

InSeqs == rest \in Seq(Nat) /\ buff \in Seq(Nat) /\ used \in Seq(Nat)
Places == lotAt # "refused" /\ (lotAt # "end" => deleted = 0)
BuffIsRest == lotAt \in {"recv", "rest only", "closed"} => buff = rest
RestNumbered == lotAt = "idle" => \A i \in 1..Len(rest) : rest[i] = Len(used) + i
BuffNumbered ==
  lotAt # "idle" =>
    \A i \in 1..Len(buff) : i > deleted => buff[i] = Len(used) + i - deleted
UsedNumbered == \A i \in 1..Len(used) : used[i] = i
AllCounted == Len(used) + Unused = received

RecvInv ==
  /\ InSeqs /\ RecvTypeOK /\ Places /\ BuffIsRest
  /\ RestNumbered /\ BuffNumbered /\ UsedNumbered /\ AllCounted
  /\ ClosedForCause

------------------------------------------------------------------------------
(* Sequences                                                               *)

\* What RecvData::Add leaves in the buffer, when n more bytes do fit.
LEMMA AppendedNumbers ==
  ASSUME NEW v \in Seq(Nat), NEW n \in Nat, NEW r \in Nat,
         NEW t, t = SubSeq(v \o [i \in 1..n |-> r + i], 1, Len(v) + n)
  PROVE  /\ t \in Seq(Nat) /\ Len(t) = Len(v) + n
         /\ \A i \in 1..Len(v) : t[i] = v[i]
         /\ \A i \in Len(v) + 1 .. Len(v) + n : t[i] = r + i - Len(v)
<1> DEFINE a == [i \in 1..n |-> r + i]
           c == v \o a
           m == Len(v) + n
<1>0. t = SubSeq(c, 1, m)
  OBVIOUS
<1>1. a \in Seq(Nat) /\ Len(a) = n
  OBVIOUS
<1>2. c \in Seq(Nat) /\ Len(c) = Len(v) + n
  BY <1>1, ConcatProperties
<1>3. /\ \A i \in 1..Len(v) : c[i] = v[i]
      /\ \A i \in Len(v) + 1 .. Len(v) + n : c[i] = a[i - Len(v)]
  BY <1>1, ConcatProperties
<1>4. Len(v) \in Nat
  BY LenProperties
<1>5. \A i \in 1..m : c[i] \in Nat
  BY <1>2, <1>4, ElementOfSeq
<1>6. t \in Seq(Nat) /\ Len(t) = m /\ \A i \in 1..m : t[i] = c[i]
  <2> HIDE DEF c
  <2>1. Len(t) = (IF 1 <= m THEN m - 1 + 1 ELSE 0)
    BY <1>0, <1>4, <1>5, SubSeqProperties
  <2>2. t \in Seq(Nat) /\ \A i \in 1..m-1+1 : t[i] = c[1+i-1]
    BY <1>0, <1>4, <1>5, SubSeqProperties
  <2>3. m \in Nat
    BY <1>4
  <2> HIDE DEF m
  <2>4. Len(t) = m
    BY <2>1, <2>3
  <2>5. ASSUME NEW i \in 1..m
        PROVE  t[i] = c[i]
    <3>1. i \in 1..m-1+1 /\ 1+i-1 = i
      BY <2>3
    <3> QED
      BY <2>2, <3>1
  <2> QED
    BY <2>2, <2>4, <2>5
<1>7. \A i \in Len(v) + 1 .. Len(v) + n : a[i - Len(v)] = r + i - Len(v)
  BY <1>4
<1> HIDE DEF c, a
<1>8. \A i \in 1..Len(v) : t[i] = v[i]
  BY <1>3, <1>4, <1>6
<1>9. ASSUME NEW i \in Len(v) + 1 .. Len(v) + n
      PROVE  t[i] = r + i - Len(v)
  <2>1. i \in 1..m
    BY <1>4
  <2>2. t[i] = c[i]
    BY <1>6, <2>1
  <2> QED
    BY <2>2, <1>3, <1>7
<1> QED
  BY <1>6, <1>8, <1>9

\* What is left of a sequence when the first d elements are taken away.
LEMMA WithoutFirst ==
  ASSUME NEW v \in Seq(Nat), NEW d \in Nat, d < Len(v),
         NEW t, t = SubSeq(v, d + 1, Len(v))
  PROVE  /\ t \in Seq(Nat) /\ Len(t) = Len(v) - d
         /\ \A i \in 1..(Len(v) - d) : t[i] = v[d + i]
<1>1. Len(v) \in Nat
  BY LenProperties
<1>2. \A i \in (d+1)..Len(v) : v[i] \in Nat
  BY <1>1, ElementOfSeq
<1>3. /\ t \in Seq(Nat)
      /\ Len(t) = (IF d+1 <= Len(v) THEN Len(v) - (d+1) + 1 ELSE 0)
      /\ \A i \in 1..Len(v)-(d+1)+1 : t[i] = v[(d+1)+i-1]
  BY <1>1, <1>2, SubSeqProperties
<1>4. Len(t) = Len(v) - d /\ \A i \in 1..(Len(v) - d) : t[i] = v[d + i]
  BY <1>1, <1>3
<1> QED
  BY <1>3, <1>4

------------------------------------------------------------------------------
(* The invariant                                                           *)

\* What the solvers need of the types.
LEMMA RecvNumbers ==
  ASSUME RecvInv
  PROVE  /\ RecvBuf \in Nat \ {0} /\ MaxPeer \in Nat
         /\ peerSent \in Nat /\ peerSent <= MaxPeer
         /\ received \in Nat /\ received <= peerSent
         /\ deleted \in Nat /\ deleted <= RecvBuf + 1
         /\ Len(rest) \in Nat /\ Len(buff) \in Nat /\ Len(used) \in Nat
         /\ Len(rest) <= RecvBuf /\ Len(buff) <= RecvBuf
<1>1. /\ peerSent \in 0..MaxPeer /\ received \in 0..peerSent
      /\ deleted \in 0..(RecvBuf + 1)
      /\ Len(rest) <= RecvBuf /\ Len(buff) <= RecvBuf
  BY Zenon DEF RecvInv, RecvTypeOK
<1>3. Len(rest) \in Nat /\ Len(buff) \in Nat /\ Len(used) \in Nat
  BY LenProperties DEF RecvInv, InSeqs
<1> QED
  BY <1>1, <1>3, RecvAssumption

LEMMA RecvKinds ==
  ASSUME RecvInv
  PROVE  /\ peerEnds \in BOOLEAN
         /\ lotAt \in {"idle", "recv", "rest only", "handle", "end", "closed"}
  BY Zenon DEF RecvInv, RecvTypeOK, Places

\* The type invariant of the next state, from its parts.
LEMMA RecvTypes ==
  ASSUME (Len(rest) <= RecvBuf)', (Len(buff) <= RecvBuf)',
         (deleted \in 0..(RecvBuf + 1))',
         (lotAt \in {"idle", "recv", "rest only", "handle", "end", "closed"})',
         (peerSent \in 0..MaxPeer)', (received \in 0..peerSent)',
         (peerEnds \in BOOLEAN)'
  PROVE  RecvTypeOK'
  BY Zenon DEF RecvTypeOK

LEMMA RecvStart == RecvInit => RecvInv
<1> SUFFICES ASSUME RecvInit PROVE RecvInv
  OBVIOUS
<1> USE DEF RecvInit
<1>1. InSeqs /\ Len(rest) = 0 /\ Len(buff) = 0 /\ Len(used) = 0
  BY DEF InSeqs
<1>2. /\ RecvBuf \in Nat /\ MaxPeer \in Nat
      /\ 0 \in 0..(RecvBuf + 1) /\ 0 \in 0..MaxPeer /\ 0 \in 0..0
      /\ Len(rest) <= RecvBuf /\ Len(buff) <= RecvBuf
  BY <1>1, RecvAssumption
<1>5. RecvTypeOK
  BY <1>2, Zenon DEF RecvTypeOK
<1>6. Places /\ BuffIsRest
  BY DEF Places, BuffIsRest
<1>3. RestNumbered /\ BuffNumbered /\ UsedNumbered
  BY <1>1 DEF RestNumbered, BuffNumbered, UsedNumbered
<1>4. AllCounted /\ ClosedForCause
  BY <1>1 DEF AllCounted, Unused, ClosedForCause
<1> QED
  BY <1>1, <1>3, <1>4, <1>5, <1>6 DEF RecvInv

\* The peer touches none of the buffers.
LEMMA RecvPeerStep ==
  ASSUME RecvInv, PeerSends \/ PeerEnds
  PROVE  RecvInv'
<1>1. UNCHANGED <<rest, buff, deleted, lotAt, received, used>>
  BY Zenon DEF PeerSends, PeerEnds
<1>2. peerSent' \in 0..MaxPeer /\ received' \in 0..peerSent'
  <2>1. peerSent' = peerSent \/ (peerSent' = peerSent + 1 /\ peerSent < MaxPeer)
    BY Zenon DEF PeerSends, PeerEnds
  <2> QED
    BY <1>1, <2>1, RecvNumbers
<1>3. peerEnds' \in BOOLEAN
  BY RecvKinds, Zenon DEF PeerSends, PeerEnds
<1>4. RecvTypeOK'
  <2>1. (Len(rest) <= RecvBuf)' /\ (Len(buff) <= RecvBuf)' /\ (deleted \in 0..(RecvBuf + 1))'
    BY <1>1, RecvNumbers
  <2> QED
    BY <1>1, <1>2, <1>3, <2>1, RecvKinds, Zenon, RecvTypes
<1>5. InSeqs' /\ Places' /\ BuffIsRest'
  BY <1>1 DEF RecvInv, InSeqs, Places, BuffIsRest
<1>6. RestNumbered' /\ BuffNumbered' /\ UsedNumbered' /\ AllCounted'
  BY <1>1 DEF RecvInv, RestNumbered, BuffNumbered, UsedNumbered, AllCounted, Unused
<1>7. ClosedForCause'
  BY <1>1, Zenon DEF RecvInv, PeerSends, PeerEnds, ClosedForCause
<1> QED
  BY <1>4, <1>5, <1>6, <1>7, Zenon DEF RecvInv

\* What a pass begins with is what the last one has left.
LEMMA RecvLotReadStep ==
  ASSUME RecvInv, LotRead
  PROVE  RecvInv'
<1>1. ~(Len(rest) > RecvBuf)
  BY RecvNumbers
<1>2. /\ lotAt = "idle" /\ deleted' = 0 /\ buff' = rest /\ rest' = rest
      /\ lotAt' \in {"recv", "rest only"}
      /\ peerSent' = peerSent /\ received' = received /\ used' = used
  BY <1>1, Zenon DEF LotRead, peerVars
<1>3. peerEnds' = peerEnds
  BY Zenon DEF LotRead, peerVars
<1>4. RecvTypeOK'
  <2>1. /\ (Len(rest) <= RecvBuf)' /\ (Len(buff) <= RecvBuf)'
        /\ (deleted \in 0..(RecvBuf + 1))' /\ (peerSent \in 0..MaxPeer)'
        /\ (received \in 0..peerSent)'
    <3>1. Len(buff') = Len(rest) /\ Len(rest') = Len(rest)
      BY <1>2
    <3>2. deleted' = 0 /\ peerSent' = peerSent /\ received' = received
      BY <1>2, Zenon
    <3> QED
      BY <3>1, <3>2, RecvNumbers
  <2>2. lotAt' \in {"idle", "recv", "rest only", "handle", "end", "closed"}
    BY <1>2
  <2> QED
    BY <1>3, <2>1, <2>2, RecvKinds, Zenon, RecvTypes
<1>5. InSeqs' /\ Places' /\ BuffIsRest' /\ ClosedForCause'
  BY <1>2 DEF RecvInv, InSeqs, Places, BuffIsRest, ClosedForCause
<1>6. RestNumbered' /\ UsedNumbered'
  BY <1>2 DEF RecvInv, RestNumbered, UsedNumbered
<1>7. BuffNumbered'
  <2>1. ASSUME NEW i \in 1..Len(rest)
        PROVE  rest[i] = Len(used) + i - 0
    <3>1. rest[i] = Len(used) + i
      BY <1>2, Zenon DEF RecvInv, RestNumbered
    <3> QED
      BY <3>1, RecvNumbers
  <2> QED
    BY <1>2, <2>1 DEF BuffNumbered
<1>8. AllCounted'
  <2>1. Len(used) + Len(rest) = received
    BY <1>2, Zenon DEF RecvInv, AllCounted, Unused
  <2>2. Unused' = Len(rest)
    <3>1. Unused' = IF Len(rest) > 0 THEN Len(rest) - 0 ELSE 0
      BY <1>2 DEF Unused
    <3> QED
      BY <3>1, RecvNumbers
  <2> QED
    BY <1>2, <2>1, <2>2 DEF AllCounted
<1> QED
  BY <1>4, <1>5, <1>6, <1>7, <1>8, Zenon DEF RecvInv

\* What recv() returns follows what is there.
LEMMA RecvRecvStep ==
  ASSUME RecvInv, NEW n \in 1..MaxPeer, Recv(n)
  PROVE  RecvInv'
<1>1. /\ lotAt = "recv" /\ lotAt' = "handle"
      /\ n <= RecvBuf - Len(buff) /\ n <= peerSent - received
      /\ received' = received + n
      /\ rest' = rest /\ deleted' = deleted /\ peerSent' = peerSent /\ used' = used
  BY Zenon DEF Recv, GetFree, peerVars
<1>2. peerEnds' = peerEnds
  BY Zenon DEF Recv, peerVars
<1>3. deleted = 0 /\ n \in Nat
  BY <1>1, RecvNumbers DEF RecvInv, Places
<1>4. buff' = SubSeq(buff \o [i \in 1..n |-> received + i], 1, Len(buff) + n)
  <2>1. Len(buff) + n < RecvBuf \/ Len(buff) + n = RecvBuf
    BY <1>1, <1>3, RecvNumbers, SMTT(30)
  <2>2. Least2(Len(buff) + n, RecvBuf) = Len(buff) + n
    BY <2>1, Zenon DEF Least2
  <2> QED
    BY <2>2, Zenon DEF Recv, Add
<1>5. /\ buff' \in Seq(Nat) /\ Len(buff') = Len(buff) + n
      /\ \A i \in 1..Len(buff) : buff'[i] = buff[i]
      /\ \A i \in Len(buff) + 1 .. Len(buff) + n : buff'[i] = received + i - Len(buff)
  <2>1. buff \in Seq(Nat) /\ received \in Nat
    BY RecvNumbers DEF RecvInv, InSeqs
  <2> QED
    BY <1>3, <1>4, <2>1, AppendedNumbers
<1>6. Len(used) + Len(buff) = received
  BY <1>1, <1>3, RecvNumbers DEF RecvInv, AllCounted, Unused
<1>7. InSeqs' /\ Places' /\ BuffIsRest' /\ ClosedForCause'
  BY <1>1, <1>3, <1>5 DEF RecvInv, InSeqs, Places, BuffIsRest, ClosedForCause
<1>8. RecvTypeOK'
  <2>1. /\ (Len(rest) <= RecvBuf)' /\ (Len(buff) <= RecvBuf)'
        /\ (deleted \in 0..(RecvBuf + 1))' /\ (peerSent \in 0..MaxPeer)'
        /\ (received \in 0..peerSent)'
    <3>1. Len(buff') <= RecvBuf /\ received + n <= peerSent
      BY <1>1, <1>3, <1>5, RecvNumbers, SMTT(30)
    <3> QED
      BY <3>1, <1>1, <1>3, RecvNumbers
  <2>2. lotAt' \in {"idle", "recv", "rest only", "handle", "end", "closed"}
    BY <1>1
  <2> QED
    BY <1>2, <2>1, <2>2, RecvKinds, Zenon, RecvTypes
<1>9. RestNumbered' /\ UsedNumbered'
  BY <1>1 DEF RecvInv, RestNumbered, UsedNumbered
<1>10. BuffNumbered'
  <2>1. ASSUME NEW i \in 1..(Len(buff) + n)
        PROVE  buff'[i] = Len(used) + i - 0
    <3>1. CASE i \in 1..Len(buff)
      <4>1. buff[i] = Len(used) + i - deleted
        BY <3>1, <1>1, <1>3 DEF RecvInv, BuffNumbered
      <4> QED
        BY <3>1, <4>1, <1>3, <1>5
    <3>2. CASE i \in Len(buff) + 1 .. Len(buff) + n
      <4>1. buff'[i] = received + i - Len(buff)
        BY <3>2, <1>5
      <4> QED
        BY <4>1, <1>3, <1>6, RecvNumbers
    <3> QED
      BY <3>1, <3>2, <1>3, RecvNumbers
  <2> QED
    BY <1>1, <1>3, <1>5, <2>1 DEF BuffNumbered
<1>11. AllCounted'
  BY <1>1, <1>3, <1>5, <1>6, RecvNumbers DEF AllCounted, Unused
<1> QED
  BY <1>7, <1>8, <1>9, <1>10, <1>11, Zenon DEF RecvInv

\* recv() has nothing, or says 0: the buffer stays.
LEMMA RecvRecvNothingStep ==
  ASSUME RecvInv, RecvWaits \/ RecvEnds
  PROVE  RecvInv'
<1>1. /\ lotAt = "recv" /\ lotAt' \in {"end", "closed"}
      /\ rest' = rest /\ buff' = buff /\ deleted' = deleted /\ peerSent' = peerSent
      /\ received' = received /\ used' = used
  BY Zenon DEF RecvWaits, RecvEnds, peerVars
<1>2. peerEnds' = peerEnds
  BY Zenon DEF RecvWaits, RecvEnds, peerVars
<1>3. deleted = 0 /\ buff = rest
  BY <1>1 DEF RecvInv, Places, BuffIsRest
<1>4. RecvTypeOK'
  <2>1. /\ (Len(rest) <= RecvBuf)' /\ (Len(buff) <= RecvBuf)'
        /\ (deleted \in 0..(RecvBuf + 1))' /\ (peerSent \in 0..MaxPeer)'
        /\ (received \in 0..peerSent)'
    BY <1>1, RecvNumbers
  <2>2. lotAt' \in {"idle", "recv", "rest only", "handle", "end", "closed"}
    BY <1>1
  <2> QED
    BY <1>2, <2>1, <2>2, RecvKinds, Zenon, RecvTypes
<1>5. InSeqs' /\ Places' /\ BuffIsRest'
  BY <1>1, <1>3 DEF RecvInv, InSeqs, Places, BuffIsRest
<1>6. RestNumbered' /\ BuffNumbered' /\ UsedNumbered' /\ AllCounted'
  BY <1>1 DEF RecvInv, RestNumbered, BuffNumbered, UsedNumbered, AllCounted, Unused
<1>7. ClosedForCause'
  <2>1. lotAt' = "closed" => (RecvBuf - Len(buff) = 0 \/ (peerEnds /\ peerSent = received))
    BY <1>1, Zenon DEF RecvWaits, RecvEnds, GetFree
  <2>2. RecvBuf - Len(buff) = 0 => Len(rest) = RecvBuf
    BY <1>3, RecvNumbers
  <2> QED
    BY <1>1, <1>2, <2>1, <2>2, Zenon DEF ClosedForCause
<1> QED
  BY <1>4, <1>5, <1>6, <1>7, Zenon DEF RecvInv

\* What the handler uses up follows what was used up before.
LEMMA RecvUsesStep ==
  ASSUME RecvInv, NEW n \in 0..(RecvBuf + 1), StormRecvUses(n)
  PROVE  RecvInv'
<1> DEFINE k == Least2(n, Len(buff))
           u == SubSeq(buff, 1, k)
<1>1. /\ lotAt \in {"handle", "rest only"} /\ lotAt' = "end"
      /\ deleted' = deleted + n /\ used' = used \o u
      /\ rest' = rest /\ buff' = buff /\ peerSent' = peerSent /\ received' = received
  BY Zenon DEF StormRecvUses, peerVars
<1>2. peerEnds' = peerEnds
  BY Zenon DEF StormRecvUses, peerVars
<1>3. deleted = 0 /\ n \in Nat /\ n <= RecvBuf + 1
  <2>1. lotAt # "end"
    BY <1>1
  <2>2. deleted = 0
    BY <2>1, Zenon DEF RecvInv, Places
  <2> QED
    BY <2>2, RecvNumbers
<1>4. k \in Nat /\ k <= Len(buff) /\ k <= n /\ (k = n \/ k = Len(buff))
  BY <1>3, RecvNumbers DEF Least2
<1>5. buff \in Seq(Nat) /\ used \in Seq(Nat) /\ rest \in Seq(Nat)
  BY Zenon DEF RecvInv, InSeqs
<1> HIDE DEF k
<1>6. u \in Seq(Nat) /\ Len(u) = k /\ \A i \in 1..k : u[i] = buff[i]
  <2>1. \A i \in 1..k : buff[i] \in Nat
    BY <1>4, <1>5, RecvNumbers, ElementOfSeq, SMTT(30)
  <2>2. /\ u \in Seq(Nat) /\ Len(u) = (IF 1 <= k THEN k - 1 + 1 ELSE 0)
        /\ \A i \in 1..k-1+1 : u[i] = buff[1+i-1]
    BY <1>4, <2>1, SubSeqProperties
  <2> HIDE DEF u
  <2>3. Len(u) = k
    BY <1>4, <2>2
  <2>4. ASSUME NEW i \in 1..k
        PROVE  u[i] = buff[i]
    <3>1. i \in 1..k-1+1 /\ 1+i-1 = i
      BY <1>4
    <3> QED
      BY <2>2, <3>1
  <2> QED
    BY <2>2, <2>3, <2>4
<1> HIDE DEF u
<1>7. /\ used' \in Seq(Nat) /\ Len(used') = Len(used) + k
      /\ \A i \in 1..Len(used) : used'[i] = used[i]
      /\ \A i \in Len(used) + 1 .. Len(used) + k : used'[i] = u[i - Len(used)]
  <2> DEFINE c == used \o u
  <2>1. /\ c \in Seq(Nat) /\ Len(c) = Len(used) + k
        /\ \A i \in 1..Len(used) : c[i] = used[i]
        /\ \A i \in Len(used) + 1 .. Len(used) + k : c[i] = u[i - Len(used)]
    BY <1>5, <1>6, ConcatProperties
  <2>2. used' = c
    BY <1>1, Zenon
  <2> HIDE DEF c
  <2> QED
    BY <2>1, <2>2, Zenon
<1>8. RecvTypeOK'
  <2>1. /\ (Len(rest) <= RecvBuf)' /\ (Len(buff) <= RecvBuf)'
        /\ (peerSent \in 0..MaxPeer)' /\ (received \in 0..peerSent)'
    <3>1. /\ Len(rest') = Len(rest) /\ Len(buff') = Len(buff)
          /\ peerSent' = peerSent /\ received' = received
      BY <1>1, Zenon
    <3> QED
      BY <3>1, RecvNumbers
  <2>2. (deleted \in 0..(RecvBuf + 1))'
    <3>1. deleted' = deleted + n
      BY <1>1, Zenon
    <3> QED
      BY <3>1, <1>3, RecvNumbers
  <2>3. lotAt' \in {"idle", "recv", "rest only", "handle", "end", "closed"}
    BY <1>1
  <2> QED
    BY <1>2, <2>1, <2>2, <2>3, RecvKinds, Zenon, RecvTypes
<1>9. InSeqs' /\ Places' /\ BuffIsRest' /\ ClosedForCause' /\ RestNumbered'
  BY <1>1, <1>5, <1>7 DEF InSeqs, Places, BuffIsRest, ClosedForCause, RestNumbered
<1>10. \A i \in 1..Len(buff) : buff[i] = Len(used) + i
  <2> SUFFICES ASSUME NEW i \in 1..Len(buff)
               PROVE  buff[i] = Len(used) + i
    OBVIOUS
  <2>0. i > deleted
    BY <1>3, RecvNumbers
  <2>1. lotAt # "idle" /\ i > deleted
    BY <1>1, <2>0
  <2>2. buff[i] = Len(used) + i - deleted
    BY <2>1, Zenon DEF RecvInv, BuffNumbered
  <2> QED
    BY <2>2, <1>3, RecvNumbers
<1>11. BuffNumbered'
  <2>1. ASSUME NEW i \in 1..Len(buff), i > 0 + n
        PROVE  buff[i] = (Len(used) + k) + i - (0 + n)
    <3>1. k = n
      BY <2>1, <1>3, <1>4, RecvNumbers
    <3> QED
      BY <3>1, <1>3, <1>4, <1>10, RecvNumbers
  <2>2. deleted' = 0 + n
    BY <1>1, <1>3
  <2> QED
    BY <1>1, <1>7, <2>1, <2>2, Zenon DEF BuffNumbered
<1>12. UsedNumbered'
  <2>1. ASSUME NEW i \in 1..(Len(used) + k)
        PROVE  used'[i] = i
    <3>1. CASE i \in 1..Len(used)
      <4>1. used[i] = i
        BY <3>1, Zenon DEF RecvInv, UsedNumbered
      <4> QED
        BY <3>1, <4>1, <1>7
    <3>2. CASE i \in Len(used) + 1 .. Len(used) + k
      <4>1. i - Len(used) \in 1..k /\ i - Len(used) \in 1..Len(buff)
        BY <3>2, <1>4, RecvNumbers
      <4>2. used'[i] = buff[i - Len(used)]
        BY <3>2, <4>1, <1>6, <1>7
      <4>3. buff[i - Len(used)] = Len(used) + (i - Len(used))
        BY <4>1, <1>10
      <4> QED
        BY <4>2, <4>3, RecvNumbers
    <3> QED
      BY <3>1, <3>2, <1>4, RecvNumbers
  <2> QED
    BY <1>7, <2>1, Zenon DEF UsedNumbered
<1>13. AllCounted'
  <2>1. Len(used) + Len(buff) = received
    <3>1. Len(used) + (IF Len(buff) > deleted THEN Len(buff) - deleted ELSE 0) = received
      BY <1>1 DEF RecvInv, AllCounted, Unused
    <3> QED
      BY <3>1, <1>3, RecvNumbers
  <2>2. Unused' = IF Len(buff) > 0 + n THEN Len(buff) - (0 + n) ELSE 0
    BY <1>1, <1>3 DEF Unused
  <2>3. (Len(used) + k) + Unused' = received
    <3>1. k + (IF Len(buff) > 0 + n THEN Len(buff) - (0 + n) ELSE 0) = Len(buff)
      BY <1>3, <1>4, RecvNumbers
    <3>2. k + Unused' = Len(buff) /\ Unused' \in Nat
      BY <2>2, <3>1, <1>3, RecvNumbers
    <3> QED
      <4>1. k \in Nat /\ Len(used) \in Nat /\ Len(buff) \in Nat
        BY <1>4, RecvNumbers
      <4> HIDE DEF Unused
      <4> QED
        BY <3>2, <2>1, <4>1
  <2> QED
    BY <1>1, <1>7, <2>3 DEF AllCounted
<1> QED
  BY <1>8, <1>9, <1>11, <1>12, <1>13, Zenon DEF RecvInv

\* The destructor keeps what is not used up.
LEMMA RecvEndStep ==
  ASSUME RecvInv, End
  PROVE  RecvInv'
<1>1. /\ lotAt = "end" /\ lotAt' = "idle" /\ rest' = Left /\ buff' = <<>> /\ deleted' = 0
      /\ peerSent' = peerSent /\ received' = received /\ used' = used
  BY Zenon DEF End, peerVars
<1>2. peerEnds' = peerEnds
  BY Zenon DEF End, peerVars
<1>3. buff \in Seq(Nat) /\ used \in Seq(Nat)
  BY Zenon DEF RecvInv, InSeqs
<1>4. Len(used) + (IF Len(buff) > deleted THEN Len(buff) - deleted ELSE 0) = received
  BY <1>1 DEF RecvInv, AllCounted, Unused
<1>5. /\ Left \in Seq(Nat) /\ Len(Left) = received - Len(used) /\ Len(Left) <= RecvBuf
      /\ \A i \in 1..Len(Left) : Left[i] = Len(used) + i
  <2>1. CASE deleted >= Len(buff)
    <3>1. Left = <<>>
      BY <2>1, Zenon DEF Left
    <3>2. Len(used) = received
      BY <2>1, <1>4, RecvNumbers
    <3> QED
      BY <3>1, <3>2, RecvNumbers
  <2>2. CASE ~(deleted >= Len(buff))
    <3>1. Left = SubSeq(buff, deleted + 1, Len(buff))
      BY <2>2, Zenon DEF Left
    <3>2. /\ Left \in Seq(Nat) /\ Len(Left) = Len(buff) - deleted
          /\ \A i \in 1..(Len(buff) - deleted) : Left[i] = buff[deleted + i]
      <4>1. deleted \in Nat /\ deleted < Len(buff)
        BY <2>2, RecvNumbers
      <4> QED
        BY <3>1, <4>1, <1>3, WithoutFirst
    <3>3. Len(Left) = received - Len(used) /\ Len(Left) <= RecvBuf
      BY <2>2, <3>2, <1>4, RecvNumbers, SMTT(30)
    <3>4. ASSUME NEW i \in 1..Len(Left)
          PROVE  Left[i] = Len(used) + i
      <4>1. deleted + i \in 1..Len(buff) /\ deleted + i > deleted
        BY <2>2, <3>2, RecvNumbers, SMTT(30)
      <4>2. buff[deleted + i] = Len(used) + (deleted + i) - deleted
        BY <1>1, <4>1, Zenon DEF RecvInv, BuffNumbered
      <4> QED
        BY <3>2, <4>2, RecvNumbers, SMTT(30)
    <3> QED
      BY <3>2, <3>3, <3>4
  <2> QED
    BY <2>1, <2>2
<1>6. RecvTypeOK'
  <2>1. Len(rest') <= RecvBuf /\ Len(buff') <= RecvBuf
    BY <1>1, <1>5, RecvNumbers
  <2>2. /\ (deleted \in 0..(RecvBuf + 1))' /\ (peerSent \in 0..MaxPeer)'
        /\ (received \in 0..peerSent)'
    BY <1>1, RecvNumbers
  <2>3. lotAt' \in {"idle", "recv", "rest only", "handle", "end", "closed"}
    BY <1>1
  <2> QED
    BY <1>2, <2>1, <2>2, <2>3, RecvKinds, Zenon, RecvTypes
<1>7. InSeqs' /\ Places' /\ BuffIsRest' /\ ClosedForCause' /\ BuffNumbered'
  BY <1>1, <1>3, <1>5 DEF InSeqs, Places, BuffIsRest, ClosedForCause, BuffNumbered
<1>8. RestNumbered'
  BY <1>1, <1>5 DEF RestNumbered
<1>9. UsedNumbered'
  BY <1>1 DEF RecvInv, UsedNumbered
<1>10. AllCounted'
  <2>1. Unused' = Len(Left)
    BY <1>1 DEF Unused
  <2> QED
    BY <1>1, <1>5, <2>1, RecvNumbers DEF AllCounted
<1> QED
  BY <1>6, <1>7, <1>8, <1>9, <1>10, Zenon DEF RecvInv

LEMMA RecvStep == RecvInv /\ [RecvNext]_recvVars => RecvInv'
<1> SUFFICES ASSUME RecvInv, [RecvNext]_recvVars PROVE RecvInv'
  OBVIOUS
<1>1. CASE PeerSends \/ PeerEnds
  BY <1>1, RecvPeerStep
<1>2. CASE LotRead
  BY <1>2, RecvLotReadStep
<1>3. CASE RecvWaits \/ RecvEnds
  BY <1>3, RecvRecvNothingStep
<1>4. CASE End
  BY <1>4, RecvEndStep
<1>5. ASSUME NEW n \in 1..MaxPeer, Recv(n) PROVE RecvInv'
  BY <1>5, RecvRecvStep
<1>6. ASSUME NEW n \in 0..(RecvBuf + 1), StormRecvUses(n) PROVE RecvInv'
  BY <1>6, RecvUsesStep
<1>7. CASE UNCHANGED recvVars
  BY <1>7 DEF recvVars, RecvInv, InSeqs, RecvTypeOK, Places, BuffIsRest, RestNumbered,
              BuffNumbered, UsedNumbered, AllCounted, Unused, ClosedForCause
<1> QED
  BY <1>1, <1>2, <1>3, <1>4, <1>5, <1>6, <1>7, Zenon DEF RecvNext

\* What Read, Add and the handlers keep: the bytes in hand are consecutive and end
\* with the last one that recv() returned.
THEOREM RecvInvariant == RecvSpec => []RecvInv
<1>1. RecvInit => RecvInv
  BY RecvStart
<1>2. RecvInv /\ [RecvNext]_recvVars => RecvInv'
  BY RecvStep
<1> QED
  BY <1>1, <1>2, PTL DEF RecvSpec

------------------------------------------------------------------------------
(* The properties                                                          *)

\* What is kept, as NoByteLost says it.
LEMMA HeldIs ==
  ASSUME RecvInv
  PROVE  /\ Held \in Seq(Nat) /\ Len(Held) = received - Len(used)
         /\ \A i \in 1..Len(Held) : Held[i] = Len(used) + i
<1>1. rest \in Seq(Nat) /\ buff \in Seq(Nat)
  BY Zenon DEF RecvInv, InSeqs
<1>2. Len(used) + Unused = received
  BY Zenon DEF RecvInv, AllCounted
<1>3. CASE lotAt = "idle"
  <2>1. Held = rest /\ Unused = Len(rest)
    BY <1>3, Zenon DEF Held, Unused
  <2>2. \A i \in 1..Len(rest) : rest[i] = Len(used) + i
    BY <1>3, Zenon DEF RecvInv, RestNumbered
  <2>3. Len(rest) = received - Len(used)
    BY <1>2, <2>1, RecvNumbers
  <2> QED
    BY <1>1, <2>1, <2>2, <2>3
<1>4. CASE lotAt # "idle" /\ Len(buff) > deleted
  <2>1. Held = SubSeq(buff, deleted + 1, Len(buff)) /\ Unused = Len(buff) - deleted
    BY <1>4, Zenon DEF Held, Unused
  <2>2. deleted \in Nat /\ deleted < Len(buff)
    BY <1>4, RecvNumbers
  <2>3. /\ Held \in Seq(Nat) /\ Len(Held) = Len(buff) - deleted
        /\ \A i \in 1..(Len(buff) - deleted) : Held[i] = buff[deleted + i]
    BY <1>1, <2>1, <2>2, WithoutFirst
  <2>4. Len(Held) = received - Len(used)
    BY <1>2, <2>1, <2>3, RecvNumbers
  <2>5. ASSUME NEW i \in 1..Len(Held)
        PROVE  Held[i] = Len(used) + i
    <3>1. deleted + i \in 1..Len(buff) /\ deleted + i > deleted
      BY <2>2, <2>3, RecvNumbers
    <3>2. buff[deleted + i] = Len(used) + (deleted + i) - deleted
      BY <1>4, <3>1, Zenon DEF RecvInv, BuffNumbered
    <3> QED
      BY <2>3, <3>2, RecvNumbers, SMTT(30)
  <2> QED
    BY <2>3, <2>4, <2>5
<1>5. CASE lotAt # "idle" /\ ~(Len(buff) > deleted)
  <2>1. Held = SubSeq(buff, deleted + 1, Len(buff)) /\ Unused = 0
    BY <1>5, Zenon DEF Held, Unused
  <2>2. Held = <<>>
    BY <1>1, <1>5, <2>1, RecvNumbers, SubSeqEmpty
  <2>3. received - Len(used) = 0
    BY <1>2, <2>1, RecvNumbers
  <2> QED
    BY <2>2, <2>3
<1> QED
  BY <1>3, <1>4, <1>5

LEMMA RecvKeepsAll == RecvInv => NoByteLost
<1> SUFFICES ASSUME RecvInv PROVE used \o Held = [i \in 1..received |-> i]
  BY DEF NoByteLost
<1> DEFINE c == used \o Held
           d == [i \in 1..received |-> i]
<1>1. used \in Seq(Nat)
  BY Zenon DEF RecvInv, InSeqs
<1>2. /\ c \in Seq(Nat) /\ Len(c) = Len(used) + Len(Held)
      /\ \A i \in 1..Len(used) : c[i] = used[i]
      /\ \A i \in Len(used) + 1 .. Len(used) + Len(Held) : c[i] = Held[i - Len(used)]
  BY <1>1, HeldIs, ConcatProperties
<1>3. d \in Seq(Nat) /\ Len(d) = received /\ \A i \in 1..received : d[i] = i
  BY RecvNumbers
<1>4. Len(Held) = received - Len(used) /\ Len(Held) \in Nat
  BY HeldIs, LenProperties
<1> HIDE DEF c, d
<1>5. Len(c) = received
  BY <1>2, <1>4, RecvNumbers
<1>6. ASSUME NEW i \in 1..received
      PROVE  c[i] = i
  <2>1. CASE i \in 1..Len(used)
    <3>1. used[i] = i
      BY <2>1, Zenon DEF RecvInv, UsedNumbered
    <3> QED
      BY <2>1, <3>1, <1>2
  <2>2. CASE i \in Len(used) + 1 .. Len(used) + Len(Held)
    <3>1. i - Len(used) \in 1..Len(Held)
      BY <2>2, <1>4, RecvNumbers
    <3>2. c[i] = Len(used) + (i - Len(used))
      BY <2>2, <3>1, <1>2, HeldIs
    <3> QED
      BY <3>2, RecvNumbers
  <2> QED
    BY <2>1, <2>2, <1>4, RecvNumbers
<1>7. \A i \in 1..Len(c) : c[i] = d[i]
  BY <1>3, <1>5, <1>6
<1>8. c = d
  BY <1>2, <1>3, <1>5, <1>7, SeqEqual
<1> QED
  BY <1>8, Zenon DEF c, d

\* RecvData::Read, Add and End keep the buffer and the saved rest within
\* STORMSERVER_STACK_BUFF, whatever the handlers use up.
THEOREM RecvTypeCorrect == RecvSpec => []RecvTypeOK
<1>1. RecvInv => RecvTypeOK
  BY DEF RecvInv
<1> QED
  BY <1>1, RecvInvariant, PTL

\* For a buffer of any size: the handlers get each byte recv() has returned
\* once and in order, Read refuses no rest, and a connection whose peer goes on
\* is closed only by a handler that leaves a whole buffer unused.
THEOREM RecvIsSound == RecvSpec => []RecvSound
<1>1. RecvInv => NeverRefused
  BY DEF RecvInv, Places, NeverRefused
<1>2. RecvInv => RecvSound
  BY <1>1, RecvKeepsAll DEF RecvInv, RecvSound
<1> QED
  BY <1>2, RecvInvariant, PTL

------------------------------------------------------------------------------
(* SendDataRing: the indices                                               *)

LEMMA AdvanceIs ==
  ASSUME NEW p \in 0..(N - 1), NEW n \in 0..N
  PROVE  /\ Advance(p, n) = IF p + n < N THEN p + n ELSE p + n - N
         /\ Advance(p, n) \in 0..(N - 1)
<1>1. N \in Nat \ {0} /\ p \in Nat /\ n \in Nat /\ p < N /\ n <= N
  BY RingAssumption
<1> DEFINE m == p + n
<1>2. m \in Nat /\ m < 2 * N
  BY <1>1
<1>3. CASE m < N
  <2>1. m % N = m
    BY <1>1, <1>2, <1>3
  <2> QED
    BY <1>1, <1>3, <2>1 DEF Advance
<1>4. CASE m >= N
  <2>1. m % N = m - N
    BY <1>1, <1>2, <1>4
  <2> QED
    BY <1>1, <1>4, <2>1 DEF Advance
<1> QED
  BY <1>1, <1>3, <1>4

LEMMA IsReadIs ==
  ASSUME NEW r \in 0..(N - 1), NEW w \in 0..(N - 1)
  PROVE  IsRead(r, w) \in 0..(N - 1) /\ Advance(r, IsRead(r, w)) = w
<1>1. N \in Nat \ {0}
  BY RingAssumption
<1>2. IsRead(r, w) \in 0..(N - 1)
  BY <1>1 DEF IsRead
<1>3. Advance(r, IsRead(r, w)) = IF r + IsRead(r, w) < N THEN r + IsRead(r, w)
                                                         ELSE r + IsRead(r, w) - N
  <2> DEFINE n == IsRead(r, w)
  <2>1. n \in 0..N
    BY <1>1, <1>2
  <2> HIDE DEF n
  <2>2. Advance(r, n) = IF r + n < N THEN r + n ELSE r + n - N
    BY <2>1, AdvanceIs
  <2> QED
    BY <2>2 DEF n
<1> QED
  BY <1>1, <1>2, <1>3 DEF IsRead

\* Removing bytes from the ring and adding some.
LEMMA IndicesMove ==
  ASSUME NEW r \in 0..(N - 1), NEW w \in 0..(N - 1), NEW n \in Nat
  PROVE  /\ n <= IsRead(r, w) => IsRead(Advance(r, n), w) = IsRead(r, w) - n
         /\ IsRead(r, w) + n < N => IsRead(r, Advance(w, n)) = IsRead(r, w) + n
<1>1. N \in Nat \ {0} /\ IsRead(r, w) \in 0..(N - 1)
  BY RingAssumption, IsReadIs
<1>2. ASSUME n <= IsRead(r, w) PROVE IsRead(Advance(r, n), w) = IsRead(r, w) - n
  <2>1. Advance(r, n) = IF r + n < N THEN r + n ELSE r + n - N
    BY <1>1, <1>2, AdvanceIs
  <2> QED
    BY <1>1, <1>2, <2>1 DEF IsRead
<1>3. ASSUME IsRead(r, w) + n < N PROVE IsRead(r, Advance(w, n)) = IsRead(r, w) + n
  <2>1. Advance(w, n) = IF w + n < N THEN w + n ELSE w + n - N
    BY <1>1, <1>3, AdvanceIs
  <2> QED
    BY <1>1, <1>3, <2>1 DEF IsRead
<1> QED
  BY <1>2, <1>3

LEMMA AdvanceTwice ==
  ASSUME NEW p \in 0..(N - 1), NEW m \in Nat, NEW n \in Nat, m + n <= N
  PROVE  Advance(Advance(p, m), n) = Advance(p, m + n)
<1>1. N \in Nat \ {0}
  BY RingAssumption
<1>2. /\ Advance(p, m) = IF p + m < N THEN p + m ELSE p + m - N
      /\ Advance(p, m) \in 0..(N - 1)
  BY <1>1, AdvanceIs
<1>3. Advance(p, m + n) = IF p + m + n < N THEN p + m + n ELSE p + m + n - N
  <2> DEFINE x == m + n
  <2>1. x \in 0..N
    BY <1>1
  <2> HIDE DEF x
  <2>2. Advance(p, x) = IF p + x < N THEN p + x ELSE p + x - N
    BY <2>1, AdvanceIs
  <2> QED
    BY <1>1, <2>2 DEF x
<1> DEFINE q == Advance(p, m)
<1>4. Advance(q, n) = IF q + n < N THEN q + n ELSE q + n - N
  <2> HIDE DEF q
  <2>1. q \in 0..(N - 1)
    BY <1>2 DEF q
  <2> QED
    BY <1>1, <2>1, AdvanceIs
<1> QED
  BY <1>1, <1>2, <1>3, <1>4

\* Two numbers of steps below N lead to two places.
LEMMA AdvanceDiffers ==
  ASSUME NEW p \in 0..(N - 1), NEW m \in 0..(N - 1), NEW n \in 0..(N - 1), m # n
  PROVE  Advance(p, m) # Advance(p, n)
<1>1. N \in Nat \ {0}
  BY RingAssumption
<1>2. /\ Advance(p, m) = IF p + m < N THEN p + m ELSE p + m - N
      /\ Advance(p, n) = IF p + n < N THEN p + n ELSE p + n - N
  BY <1>1, AdvanceIs
<1> QED
  BY <1>1, <1>2

\* What the loop of Write leaves in the ring when all of line has room.
LEMMA CopiedIs ==
  ASSUME NEW w \in 0..(N - 1), NEW line \in Seq(0..MaxOutput), Len(line) < N,
         buf \in [0..(N - 1) -> 0..MaxOutput]
  PROVE  /\ Copied(w, line) \in [0..(N - 1) -> 0..MaxOutput]
         /\ \A k \in 1..Len(line) : Copied(w, line)[Advance(w, k - 1)] = line[k]
         /\ \A i \in 0..(N - 1) :
              (\A k \in 1..Len(line) : Advance(w, k - 1) # i) => Copied(w, line)[i] = buf[i]
<1>1. N \in Nat \ {0} /\ Len(line) \in Nat
  BY RingAssumption
<1> DEFINE here(i) == {k \in 1..Len(line) : Advance(w, k - 1) = i}
           last(i) == CHOOSE k \in here(i) : \A l \in here(i) : l <= k
<1>2. ASSUME NEW k \in 1..Len(line)
      PROVE  /\ Advance(w, k - 1) \in 0..(N - 1)
             /\ here(Advance(w, k - 1)) = {k} /\ last(Advance(w, k - 1)) = k
  <2>1. k - 1 \in 0..(N - 1)
    BY <1>1
  <2>2. \A l \in 1..Len(line) : Advance(w, l - 1) = Advance(w, k - 1) => l = k
    BY <1>1, <2>1, AdvanceDiffers
  <2>3. here(Advance(w, k - 1)) = {k}
    BY <2>2
  <2>4. Advance(w, k - 1) \in 0..(N - 1)
    <3> DEFINE x == k - 1
    <3>1. x \in 0..N
      BY <1>1, <2>1
    <3> HIDE DEF x
    <3>2. Advance(w, x) \in 0..(N - 1)
      BY <3>1, AdvanceIs
    <3> QED
      BY <3>2 DEF x
  <2> HIDE DEF here
  <2>5. last(Advance(w, k - 1)) = k
    BY <2>3
  <2> QED
    BY <2>3, <2>4, <2>5
<1>3. \A i \in 0..(N - 1) :
        Copied(w, line)[i] = IF here(i) = {} THEN buf[i] ELSE line[last(i)]
  BY DEF Copied
<1>4. \A k \in 1..Len(line) : Copied(w, line)[Advance(w, k - 1)] = line[k]
  <2> HIDE DEF here, last
  <2> QED
    BY <1>2, <1>3
<1>5. \A i \in 0..(N - 1) :
        (\A k \in 1..Len(line) : Advance(w, k - 1) # i) => Copied(w, line)[i] = buf[i]
  BY <1>3
<1>6. ASSUME NEW i \in 0..(N - 1) PROVE Copied(w, line)[i] \in 0..MaxOutput
  <2>1. CASE here(i) = {}
    BY <1>3, <2>1
  <2>2. CASE here(i) # {}
    <3>1. PICK k \in 1..Len(line) : Advance(w, k - 1) = i
      BY <2>2
    <3>2. line[k] \in 0..MaxOutput
      BY ElementOfSeq
    <3> QED
      BY <1>4, <3>1, <3>2
  <2> QED
    BY <2>1, <2>2
<1>7. Copied(w, line) \in [0..(N - 1) -> 0..MaxOutput]
  <2>1. Copied(w, line) = [i \in 0..(N - 1) |-> Copied(w, line)[i]]
    BY DEF Copied
  <2> QED
    BY <1>6, <2>1
<1> QED
  BY <1>4, <1>5, <1>7

\* Where each byte of the program is, by its number: with the reader, in the
\* ring, in the hands of Process; what the reader took is still in the ring.
RingInv ==
  /\ RingTypeOK
  /\ block \in Seq(0..MaxOutput) /\ seen \in Seq(0..MaxOutput) /\ got \in Seq(0..MaxOutput)
  /\ IsRead(pread, pwrite) + Len(block) = output - Len(got)
  /\ output - Len(got) <= Ahead
  /\ \A i \in 1..Len(got) : got[i] = i
  /\ \A i \in 1..IsRead(pread, pwrite) : buf[Advance(pread, i - 1)] = Len(got) + i
  /\ \A i \in 1..Len(block) : block[i] = output - Len(block) + i
  /\ Len(seen) <= IsRead(pread, pwrite)
  /\ \A i \in 1..Len(seen) : seen[i] = Len(got) + i
  /\ at # "write" => block = <<>>

LEMMA RingStart ==
  ASSUME RingInit
  PROVE  RingInv
<1>1. N \in Nat \ {0} /\ MaxOutput \in Nat /\ Ahead \in Nat
  BY RingAssumption
<1>2. /\ buf = [i \in 0..(N - 1) |-> 0] /\ pread = 0 /\ pwrite = 0 /\ at = "select"
      /\ tested = "no" /\ s = 0 /\ block = <<>> /\ output = 0 /\ seen = <<>> /\ got = <<>>
  BY DEF RingInit
<1>3. IsRead(0, 0) = 0
  BY DEF IsRead
<1>4. RingTypeOK
  BY <1>1, <1>2 DEF RingTypeOK
<1>5. <<>> \in Seq(0..MaxOutput) /\ Len(<<>>) = 0
  BY EmptySeq
<1> QED
  BY <1>1, <1>2, <1>3, <1>4, <1>5 DEF RingInv

\* Process goes on and changes neither the ring nor what anyone holds.
LEMMA RingStays ==
  ASSUME RingInv, UNCHANGED <<buf, pread, pwrite, block, output, seen, got>>,
         RingTypeOK', at' = "write" \/ block' = <<>>
  PROVE  RingInv'
<1> USE DEF RingInv
<1>1. IsRead(pread, pwrite)' = IsRead(pread, pwrite)
  OBVIOUS
<1> HIDE DEF RingInv
<1> QED
  BY <1>1 DEF RingInv

LEMMA RingProcess ==
  ASSUME RingInv, Select \/ Test \/ If \/ MinEl \/ Size
  PROVE  RingInv'
<1>1. at \in {"select", "if", "min", "size"} /\ block = <<>>
  BY DEF RingInv, Select, Test, If, MinEl, Size, Tested
<1>2. UNCHANGED <<buf, pread, pwrite, block, output, seen, got>>
  BY DEF Select, Test, If, MinEl, Size
<1>3. s' \in Nat
  <2>1. CASE Size
    <3>1. IsFree \in Int
      BY RingAssumption DEF IsFree, RingInv, RingTypeOK
    <3> HIDE DEF IsFree
    <3> QED
      BY <2>1, <3>1, RingAssumption DEF Size
  <2>2. CASE Select \/ Test \/ If
    BY <2>2 DEF Select, Test, If, RingInv, RingTypeOK
  <2>3. CASE MinEl
    BY <2>3, RingAssumption, SMTT(30) DEF MinEl, RingInv, RingTypeOK
  <2> QED
    BY <2>1, <2>2, <2>3
<1>4. /\ at' \in {"select", "if", "min", "size", "read", "write"}
      /\ tested' \in {"no", "above", "below"}
  BY DEF Select, Test, If, MinEl, Size, Tested, RingInv, RingTypeOK
<1>5. RingTypeOK'
  BY <1>2, <1>3, <1>4 DEF RingTypeOK, RingInv
<1> QED
  BY <1>1, <1>2, <1>5, RingStays

LEMMA RingReads ==
  ASSUME RingInv, NEW n \in 0..MaxOutput, ReadProgram(n)
  PROVE  RingInv'
<1>1. /\ at = "read" /\ block = <<>> /\ output \in 0..MaxOutput /\ MaxOutput \in Nat
      /\ Len(got) \in Nat
  BY RingAssumption DEF ReadProgram, RingInv, RingTypeOK
<1>2. /\ output + n <= MaxOutput /\ output + n - Len(got) <= Ahead
      /\ block' = [i \in 1..n |-> output + i] /\ output' = output + n
      /\ at' = IF n > 0 THEN "write" ELSE "select"
      /\ UNCHANGED <<buf, pread, pwrite, tested, s, seen, got>>
  BY DEF ReadProgram
<1>3. /\ block' \in Seq(0..MaxOutput) /\ Len(block') = n
      /\ \A i \in 1..n : block'[i] = output + i
  BY <1>1, <1>2
<1>4. n = 0 => block' = <<>>
  BY <1>3, EmptySeq
<1>5. IsRead(pread, pwrite)' = IsRead(pread, pwrite)
  BY <1>2
<1>6. IsRead(pread, pwrite) = output - Len(got)
  <2>1. Len(<<>>) = 0
    OBVIOUS
  <2>2. IsRead(pread, pwrite) + Len(block) = output - Len(got)
    BY DEF RingInv
  <2>3. IsRead(pread, pwrite) \in 0..(N - 1)
    BY IsReadIs DEF RingInv, RingTypeOK
  <2> HIDE DEF IsRead
  <2> QED
    BY <1>1, <2>1, <2>2, <2>3
<1>7. RingTypeOK'
  BY <1>1, <1>2, <1>3 DEF RingInv, RingTypeOK
<1>8. IsRead(pread, pwrite)' + Len(block') = output' - Len(got')
  BY <1>1, <1>2, <1>3, <1>5, <1>6
<1>9. output' - Len(got') <= Ahead
  BY <1>1, <1>2
<1>10. \A i \in 1..Len(block') : block'[i] = output' - Len(block') + i
  BY <1>1, <1>2, <1>3
<1>11. at' # "write" => block' = <<>>
  BY <1>2, <1>4
<1>12. /\ seen' \in Seq(0..MaxOutput) /\ got' \in Seq(0..MaxOutput)
       /\ \A i \in 1..Len(got') : got'[i] = i
       /\ \A i \in 1..IsRead(pread, pwrite)' : buf'[Advance(pread', i - 1)] = Len(got') + i
       /\ Len(seen') <= IsRead(pread, pwrite)'
       /\ \A i \in 1..Len(seen') : seen'[i] = Len(got') + i
  BY <1>2, <1>5 DEF RingInv
<1> QED
  BY <1>3, <1>7, <1>8, <1>9, <1>10, <1>11, <1>12 DEF RingInv

LEMMA RingWrites ==
  ASSUME Ahead < N, RingInv, Write
  PROVE  RingInv'
<1> DEFINE r == IsRead(pread, pwrite)
           n == Len(block)
           g == Len(got)
<1>1. /\ N \in Nat \ {0} /\ Ahead \in Nat /\ MaxOutput \in Nat
      /\ pread \in 0..(N - 1) /\ pwrite \in 0..(N - 1) /\ output \in 0..MaxOutput
      /\ buf \in [0..(N - 1) -> 0..MaxOutput] /\ block \in Seq(0..MaxOutput)
      /\ n \in Nat /\ g \in Nat
  BY RingAssumption, SMTT(30) DEF RingInv, RingTypeOK
<1>2. /\ buf' = Copied(pwrite, block) /\ pwrite' = Advance(pwrite, n)
      /\ block' = <<>> /\ s' = 0 /\ at' = "select"
      /\ UNCHANGED <<pread, tested, output, seen, got>>
  BY DEF Write
<1>3. r \in 0..(N - 1) /\ r + n = output - g /\ output - g <= Ahead
  BY <1>1, IsReadIs DEF RingInv
<1>4. r + n < N /\ n < N
  BY <1>1, <1>3, SMTT(30)
<1> HIDE DEF r, n, g
<1>5. pwrite' \in 0..(N - 1)
  <2>1. n \in 0..N
    BY <1>1, <1>4
  <2> QED
    BY <1>1, <1>2, <2>1, AdvanceIs
<1>6. IsRead(pread, pwrite)' = r + n
  BY <1>1, <1>2, <1>4, IndicesMove DEF r
<1>7. /\ buf' \in [0..(N - 1) -> 0..MaxOutput]
      /\ \A k \in 1..n : buf'[Advance(pwrite, k - 1)] = block[k]
      /\ \A i \in 0..(N - 1) :
           (\A k \in 1..n : Advance(pwrite, k - 1) # i) => buf'[i] = buf[i]
  <2>1. Len(block) < N
    BY <1>4 DEF n
  <2>2. Copied(pwrite, block) \in [0..(N - 1) -> 0..MaxOutput]
    BY <1>1, <2>1, CopiedIs
  <2>3. \A k \in 1..Len(block) : Copied(pwrite, block)[Advance(pwrite, k - 1)] = block[k]
    BY <1>1, <2>1, CopiedIs
  <2>4. \A i \in 0..(N - 1) :
          (\A k \in 1..Len(block) : Advance(pwrite, k - 1) # i) => Copied(pwrite, block)[i] = buf[i]
    BY <1>1, <2>1, CopiedIs
  <2> QED
    BY <1>2, <2>2, <2>3, <2>4 DEF n
<1>8. pwrite = Advance(pread, r)
  BY <1>1, IsReadIs DEF r
<1>9. \A k \in 1..n : Advance(pwrite, k - 1) = Advance(pread, r + (k - 1))
  <2> SUFFICES ASSUME NEW k \in 1..n PROVE Advance(pwrite, k - 1) = Advance(pread, r + (k - 1))
    OBVIOUS
  <2>1. r \in Nat /\ k - 1 \in Nat /\ r + (k - 1) <= N
    BY <1>1, <1>3, <1>4
  <2> QED
    BY <1>1, <1>8, <2>1, AdvanceTwice
<1>10. \A i \in 1..r : buf[Advance(pread, i - 1)] = g + i
  BY DEF RingInv, r, g
<1>11. \A k \in 1..n : block[k] = output - n + k
  BY DEF RingInv, n
<1>12. ASSUME NEW i \in 1..(r + n) PROVE buf'[Advance(pread, i - 1)] = g + i
  <2>1. CASE i <= r
    <3>1. i \in 1..r /\ i - 1 \in 0..(N - 1) /\ i - 1 \in 0..N
      BY <1>1, <1>3, <2>1
    <3>2. Advance(pread, i - 1) \in 0..(N - 1)
      BY <1>1, <3>1, AdvanceIs
    <3>3. \A k \in 1..n : Advance(pwrite, k - 1) # Advance(pread, i - 1)
      <4> SUFFICES ASSUME NEW k \in 1..n
                   PROVE  Advance(pread, r + (k - 1)) # Advance(pread, i - 1)
        BY <1>9
      <4>1. r + (k - 1) \in 0..(N - 1) /\ r + (k - 1) # i - 1
        BY <1>1, <1>3, <1>4, <2>1
      <4> QED
        BY <1>1, <3>1, <4>1, AdvanceDiffers
    <3>4. buf'[Advance(pread, i - 1)] = buf[Advance(pread, i - 1)]
      BY <1>7, <3>2, <3>3
    <3> QED
      BY <1>10, <3>1, <3>4
  <2>2. CASE i > r
    <3> DEFINE k == i - r
    <3>1. k \in 1..n /\ r + (k - 1) = i - 1 /\ output - n + k = g + i
      BY <1>1, <1>3, <2>2
    <3>2. buf'[Advance(pwrite, k - 1)] = block[k] /\ block[k] = output - n + k
      BY <1>7, <1>11, <3>1
    <3>3. Advance(pwrite, k - 1) = Advance(pread, i - 1)
      BY <1>9, <3>1
    <3> HIDE DEF k
    <3> QED
      BY <3>1, <3>2, <3>3
  <2> QED
    BY <1>3, <2>1, <2>2
<1>13. <<>> \in Seq(0..MaxOutput) /\ Len(<<>>) = 0
  BY EmptySeq
<1>14. RingTypeOK'
  <2>1. RingTypeOK
    BY DEF RingInv
  <2> QED
    BY <1>1, <1>2, <1>5, <1>7, <1>13, <2>1, SMTT(30) DEF RingTypeOK
<1>15. /\ Len(seen') <= r + n /\ seen' \in Seq(0..MaxOutput) /\ got' \in Seq(0..MaxOutput)
       /\ \A i \in 1..Len(got') : got'[i] = i
       /\ \A i \in 1..Len(seen') : seen'[i] = Len(got') + i
  <2>1. Len(seen) <= r /\ Len(seen) \in Nat
    BY DEF RingInv, r
  <2>2. Len(seen) <= r + n
    BY <1>1, <1>3, <2>1
  <2> QED
    BY <1>2, <2>2 DEF RingInv
<1>16. \A i \in 1..(r + n) : buf'[Advance(pread', i - 1)] = Len(got') + i
  BY <1>2, <1>12 DEF g
<1>17. r + n + Len(block') = output' - Len(got') /\ output' - Len(got') <= Ahead
  BY <1>1, <1>2, <1>3, <1>13 DEF g
<1> QED
  BY <1>2, <1>6, <1>13, <1>14, <1>15, <1>16, <1>17 DEF RingInv

\* What ReadData and Read give is the beginning of what the ring holds.
Begins(q) ==
  /\ q \in Seq(0..MaxOutput) /\ Len(q) <= IsRead(pread, pwrite)
  /\ \A i \in 1..Len(q) : q[i] = Len(got) + i

LEMMA RingHolds ==
  ASSUME RingInv
  PROVE  /\ N \in Nat \ {0} /\ MaxOutput \in Nat
         /\ pread \in 0..(N - 1) /\ pwrite \in 0..(N - 1)
         /\ buf \in [0..(N - 1) -> 0..MaxOutput] /\ Len(got) \in Nat
         /\ IsRead(pread, pwrite) \in 0..(N - 1)
         /\ \A i \in 1..IsRead(pread, pwrite) : buf[Advance(pread, i - 1)] = Len(got) + i
<1>1. /\ N \in Nat \ {0} /\ MaxOutput \in Nat
      /\ pread \in 0..(N - 1) /\ pwrite \in 0..(N - 1)
      /\ buf \in [0..(N - 1) -> 0..MaxOutput] /\ got \in Seq(0..MaxOutput)
  BY RingAssumption DEF RingInv, RingTypeOK
<1>2. Len(got) \in Nat
  BY <1>1
<1>3. IsRead(pread, pwrite) \in 0..(N - 1)
  BY <1>1, IsReadIs
<1> QED
  BY <1>1, <1>2, <1>3 DEF RingInv

LEMMA ReadDataIs ==
  ASSUME RingInv
  PROVE  /\ Begins(ReadData)
         /\ Len(ReadData) = IF pwrite >= pread THEN pwrite - pread ELSE N - pread
<1> DEFINE ms == IF pwrite >= pread THEN pwrite - pread ELSE N - pread
           r == IsRead(pread, pwrite)
           g == Len(got)
<1>1. /\ N \in Nat \ {0} /\ MaxOutput \in Nat
      /\ pread \in 0..(N - 1) /\ pwrite \in 0..(N - 1)
      /\ buf \in [0..(N - 1) -> 0..MaxOutput] /\ g \in Nat /\ r \in 0..(N - 1)
      /\ \A i \in 1..r : buf[Advance(pread, i - 1)] = g + i
  BY RingHolds
<1>2. ms \in Nat /\ ms <= r /\ pread + ms <= N
  BY <1>1 DEF IsRead
<1> HIDE DEF ms, r, g
<1>3. ASSUME NEW i \in 1..ms
      PROVE  /\ buf[pread + i - 1] = g + i /\ buf[pread + i - 1] \in 0..MaxOutput
  <2> DEFINE n == i - 1
  <2>1. n \in 0..N /\ pread + n < N /\ pread + n = pread + i - 1 /\ i \in 1..r
        /\ pread + n \in 0..(N - 1)
    BY <1>1, <1>2
  <2>2. buf[Advance(pread, n)] = g + i
    BY <1>1, <2>1
  <2> HIDE DEF n
  <2>3. Advance(pread, n) = pread + n
    BY <1>1, <2>1, AdvanceIs
  <2>4. buf[pread + n] \in 0..MaxOutput
    BY <1>1, <2>1
  <2> QED
    BY <2>1, <2>2, <2>3, <2>4
<1>4. ReadData = [i \in 1..ms |-> buf[pread + i - 1]]
  BY DEF ReadData, ms
<1>5. /\ ReadData \in Seq(0..MaxOutput) /\ Len(ReadData) = ms
      /\ \A i \in 1..ms : ReadData[i] = g + i
  <2>1. \A i \in 1..ms : buf[pread + i - 1] \in 0..MaxOutput
    BY <1>3
  <2>2. [i \in 1..ms |-> buf[pread + i - 1]] \in Seq(0..MaxOutput)
    BY <1>2, <2>1
  <2>3. Len([i \in 1..ms |-> buf[pread + i - 1]]) = ms
    BY <1>2
  <2>4. \A i \in 1..ms : ReadData[i] = buf[pread + i - 1]
    BY <1>4
  <2> QED
    BY <1>3, <1>4, <2>2, <2>3, <2>4
<1> QED
  BY <1>2, <1>5 DEF Begins, ms, r, g

LEMMA ReadIs ==
  ASSUME RingInv, NEW n \in 1..N
  PROVE  Begins(Read(n))
<1> DEFINE r == IsRead(pread, pwrite)
           g == Len(got)
           d == ReadData
           m == Len(ReadData)
           ns == IF pwrite < pread /\ n > m THEN Least(pwrite, n - m) ELSE 0
           t == SubSeq(d, 1, Least(m, n))
           u == [i \in 1..ns |-> buf[i - 1]]
<1>1. /\ N \in Nat \ {0} /\ MaxOutput \in Nat
      /\ pread \in 0..(N - 1) /\ pwrite \in 0..(N - 1)
      /\ buf \in [0..(N - 1) -> 0..MaxOutput] /\ g \in Nat /\ r \in 0..(N - 1)
      /\ \A i \in 1..r : buf[Advance(pread, i - 1)] = g + i
  BY RingHolds
<1>2. /\ d \in Seq(0..MaxOutput) /\ m <= r /\ m \in Nat
      /\ \A i \in 1..m : d[i] = g + i
      /\ m = IF pwrite >= pread THEN pwrite - pread ELSE N - pread
  BY ReadDataIs DEF Begins
<1> HIDE DEF r, g, d, m
<1>3. Least(m, n) \in 0..m /\ Least(m, n) \in 0..n
  BY <1>2 DEF Least
<1>4. /\ t \in Seq(0..MaxOutput) /\ Len(t) = Least(m, n)
      /\ \A i \in 1..Len(t) : t[i] = g + i
  <2> DEFINE k == Least(m, n)
  <2>1. k \in Nat /\ k <= Len(d)
    BY <1>2, <1>3 DEF m, d
  <2> HIDE DEF k
  <2>2. \A i \in 1..k : d[i] \in 0..MaxOutput /\ d[i] = g + i
    <3>1. m = Len(d) /\ \A i \in 1..k : i \in 1..m
      BY <2>1 DEF m, d
    <3>2. \A i \in 1..Len(d) : d[i] \in 0..MaxOutput
      BY <1>2, ElementOfSeq
    <3> QED
      BY <1>2, <3>1, <3>2
  <2>3. /\ SubSeq(d, 1, k) \in Seq(0..MaxOutput) /\ Len(SubSeq(d, 1, k)) = k
        /\ \A i \in 1..k : SubSeq(d, 1, k)[i] = d[i]
    <3>1. \A i \in 1..k : d[i] \in 0..MaxOutput
      BY <2>2
    <3>2. 1 \in Int /\ k \in Int
      BY <2>1
    <3> QED
      BY <2>1, <3>1, <3>2, SubSeqProperties
  <2> QED
    BY <2>2, <2>3 DEF k
<1>5. ns \in Nat /\ ns <= pwrite /\ (ns > 0 => pwrite < pread /\ n > m)
  BY <1>1, <1>2 DEF Least
<1> HIDE DEF ns
<1>6. ASSUME NEW i \in 1..ns
      PROVE  buf[i - 1] = g + m + i /\ buf[i - 1] \in 0..MaxOutput
  <2>1. m = N - pread /\ r = N - pread + pwrite /\ i <= pwrite
    BY <1>1, <1>2, <1>5 DEF IsRead, r
  <2> DEFINE x == m + i - 1
  <2>2. x \in 0..N /\ pread + x >= N /\ pread + x - N = i - 1 /\ m + i \in 1..r
        /\ x = (m + i) - 1 /\ i - 1 \in 0..(N - 1)
    BY <1>1, <2>1
  <2>3. buf[Advance(pread, (m + i) - 1)] = g + (m + i)
    BY <1>1, <2>2
  <2> HIDE DEF x
  <2>4. Advance(pread, x) = i - 1
    BY <1>1, <2>2, AdvanceIs
  <2>6. g + (m + i) = g + m + i
    BY <1>1, <1>2
  <2>5. buf[i - 1] \in 0..MaxOutput
    BY <1>1, <2>2
  <2> QED
    BY <2>2, <2>3, <2>4, <2>5, <2>6
<1>7. /\ u \in Seq(0..MaxOutput) /\ Len(u) = ns
      /\ \A i \in 1..ns : u[i] = g + m + i
  BY <1>5, <1>6
<1>8. Read(n) = t \o u
  BY DEF Read, ns, m, d
<1> HIDE DEF t, u
<1>9. /\ t \o u \in Seq(0..MaxOutput) /\ Len(t \o u) = Len(t) + ns
      /\ \A i \in 1..(Len(t) + ns) : (t \o u)[i] = IF i <= Len(t) THEN t[i] ELSE u[i - Len(t)]
  BY <1>4, <1>7, ConcatProperties
<1>10. ns > 0 => Len(t) = m /\ r = m + pwrite
  BY <1>1, <1>2, <1>4, <1>5 DEF Least, IsRead, r
<1>11. Len(t) + ns <= r /\ Len(t) \in Nat
  BY <1>1, <1>2, <1>3, <1>4, <1>5, <1>10, SMTT(30)
<1>12. \A i \in 1..(Len(t) + ns) : (t \o u)[i] = g + i
  <2> SUFFICES ASSUME NEW i \in 1..(Len(t) + ns) PROVE (t \o u)[i] = g + i
    OBVIOUS
  <2>1. CASE i <= Len(t)
    BY <1>4, <1>9, <1>11, <2>1
  <2>2. CASE i > Len(t)
    <3>1. ns > 0 /\ i - Len(t) \in 1..ns
      BY <1>5, <1>11, <2>2
    <3>2. (t \o u)[i] = u[i - Len(t)]
      BY <1>9, <1>11, <2>2
    <3>3. u[i - Len(t)] = g + m + (i - Len(t))
      BY <1>7, <3>1
    <3>4. Len(t) = m
      BY <1>10, <3>1
    <3> QED
      BY <1>1, <1>2, <3>2, <3>3, <3>4
  <2>3. i <= Len(t) \/ i > Len(t)
    BY <1>11
  <2> QED
    BY <2>1, <2>2, <2>3
<1> QED
  BY <1>8, <1>9, <1>11, <1>12 DEF Begins, r, g

LEMMA RingTakes ==
  ASSUME RingInv, Take
  PROVE  RingInv'
<1>1. Begins(seen')
  BY ReadDataIs, ReadIs DEF Take
<1>2. UNCHANGED <<buf, pread, pwrite, at, tested, s, block, output, got>>
  BY DEF Take
<1>3. IsRead(pread, pwrite)' = IsRead(pread, pwrite)
  BY <1>2
<1>4. N \in Nat /\ IsRead(pread, pwrite) \in 0..(N - 1)
  BY RingHolds
<1>5. /\ seen' \in Seq(0..MaxOutput) /\ Len(seen') <= IsRead(pread, pwrite)
      /\ \A i \in 1..Len(seen') : seen'[i] = Len(got) + i /\ Len(seen') \in Nat
  BY <1>1 DEF Begins
<1>6. Len(seen') <= N
  BY <1>4, <1>5
<1>7. RingTypeOK'
  <2>1. RingTypeOK
    BY DEF RingInv
  <2> QED
    BY <1>2, <1>6, <2>1 DEF RingTypeOK
<1> QED
  BY <1>2, <1>3, <1>5, <1>7 DEF RingInv

LEMMA RingUses ==
  ASSUME RingInv, NEW n \in 1..Len(seen), Readed(n), seen' = <<>>,
         UNCHANGED <<buf, pwrite, at, tested, s, block, output>>
  PROVE  RingInv'
<1> DEFINE r == IsRead(pread, pwrite)
           g == Len(got)
           t == SubSeq(seen, 1, n)
<1>1. /\ N \in Nat \ {0} /\ MaxOutput \in Nat
      /\ pread \in 0..(N - 1) /\ pwrite \in 0..(N - 1)
      /\ buf \in [0..(N - 1) -> 0..MaxOutput] /\ g \in Nat /\ r \in 0..(N - 1)
      /\ \A i \in 1..r : buf[Advance(pread, i - 1)] = g + i
  BY RingHolds
<1>2. /\ seen \in Seq(0..MaxOutput) /\ Len(seen) \in Nat /\ Len(seen) <= r
      /\ \A i \in 1..Len(seen) : seen[i] = g + i
      /\ got \in Seq(0..MaxOutput) /\ \A i \in 1..g : got[i] = i
      /\ block \in Seq(0..MaxOutput) /\ Len(block) \in Nat
      /\ r + Len(block) = output - g /\ output - g <= Ahead
      /\ output \in 0..MaxOutput /\ Ahead \in Nat
  <2>1. RingTypeOK
    BY DEF RingInv
  <2>2. output \in 0..MaxOutput /\ Ahead \in Nat
    BY <2>1, RingAssumption DEF RingTypeOK
  <2>3. /\ seen \in Seq(0..MaxOutput) /\ Len(seen) <= r
        /\ \A i \in 1..Len(seen) : seen[i] = g + i
        /\ got \in Seq(0..MaxOutput) /\ \A i \in 1..g : got[i] = i
        /\ block \in Seq(0..MaxOutput)
        /\ r + Len(block) = output - g /\ output - g <= Ahead
    BY DEF RingInv
  <2>4. Len(seen) \in Nat /\ Len(block) \in Nat
    BY <2>3
  <2> QED
    BY <2>2, <2>3, <2>4
<1> HIDE DEF r, g
<1>3. n \in Nat /\ n >= 1 /\ n <= r /\ n <= Len(seen) /\ n \in 0..N
  BY <1>1, <1>2
<1>4. pread' = Advance(pread, n) /\ got' = got \o t
  <2>1. Least(n, r) = n
    BY <1>3 DEF Least
  <2> QED
    BY <2>1 DEF Readed, r
<1>5. pread' \in 0..(N - 1)
  BY <1>1, <1>3, <1>4, AdvanceIs
<1>6. IsRead(pread, pwrite)' = r - n
  <2>1. IsRead(Advance(pread, n), pwrite) = r - n
    BY <1>1, <1>3, IndicesMove DEF r
  <2> QED
    BY <1>4, <2>1
<1>7. /\ t \in Seq(0..MaxOutput) /\ Len(t) = n /\ \A i \in 1..n : t[i] = g + i
  <2>1. \A i \in 1..n : seen[i] \in 0..MaxOutput /\ seen[i] = g + i
    <3>1. \A i \in 1..n : i \in 1..Len(seen)
      BY <1>2, <1>3
    <3> QED
      BY <1>2, <3>1, ElementOfSeq
  <2>2. /\ SubSeq(seen, 1, n) \in Seq(0..MaxOutput) /\ Len(SubSeq(seen, 1, n)) = n
        /\ \A i \in 1..n : SubSeq(seen, 1, n)[i] = seen[i]
    <3>1. 1 \in Int /\ n \in Int /\ \A i \in 1..n : seen[i] \in 0..MaxOutput
      BY <1>3, <2>1
    <3> QED
      BY <1>3, <3>1, SubSeqProperties
  <2> QED
    BY <2>1, <2>2
<1> HIDE DEF t
<1>8. /\ got' \in Seq(0..MaxOutput) /\ Len(got') = g + n
      /\ \A i \in 1..(g + n) : got'[i] = i
  <2>1. /\ got \o t \in Seq(0..MaxOutput) /\ Len(got \o t) = g + n
        /\ \A i \in 1..(g + n) : (got \o t)[i] = IF i <= g THEN got[i] ELSE t[i - g]
    BY <1>2, <1>7, ConcatProperties DEF g
  <2>2. ASSUME NEW i \in 1..(g + n) PROVE (got \o t)[i] = i
    <3>1. CASE i <= g
      <4>1. i \in 1..g
        BY <1>1, <3>1
      <4> QED
        BY <1>2, <2>1, <3>1, <4>1
    <3>2. CASE i > g
      <4>1. (got \o t)[i] = t[i - g] /\ i - g \in 1..n
        BY <1>1, <1>3, <2>1, <3>2, SMTT(30)
      <4>2. t[i - g] = g + (i - g)
        BY <1>7, <4>1
      <4> QED
        BY <1>1, <4>1, <4>2
    <3>3. i <= g \/ i > g
      BY <1>1
    <3> QED
      BY <3>1, <3>2, <3>3
  <2> QED
    BY <1>4, <2>1, <2>2
<1>9. ASSUME NEW i \in 1..(r - n) PROVE buf'[Advance(pread', i - 1)] = Len(got') + i
  <2>1. n + (i - 1) <= N /\ i - 1 \in Nat /\ n + i \in 1..r /\ n + (i - 1) = (n + i) - 1
    BY <1>1, <1>3
  <2>2. Advance(pread', i - 1) = Advance(pread, n + (i - 1))
    BY <1>1, <1>3, <1>4, <2>1, AdvanceTwice
  <2>3. buf[Advance(pread, (n + i) - 1)] = g + (n + i)
    BY <1>1, <2>1
  <2> QED
    BY <1>1, <1>3, <1>8, <2>1, <2>2, <2>3
<1>10. /\ (r - n) + Len(block') = output' - Len(got') /\ output' - Len(got') <= Ahead
       /\ Len(got') <= MaxOutput
  BY <1>1, <1>2, <1>3, <1>8
<1>11. seen' \in Seq(0..MaxOutput) /\ Len(seen') = 0
  BY EmptySeq
<1>12. RingTypeOK'
  <2>1. RingTypeOK
    BY DEF RingInv
  <2> QED
    BY <1>1, <1>5, <1>10, <1>11, <2>1 DEF RingTypeOK
<1>13. /\ \A i \in 1..Len(block') : block'[i] = output' - Len(block') + i
       /\ at' # "write" => block' = <<>>
       /\ block' \in Seq(0..MaxOutput)
  BY DEF RingInv
<1>14. Len(seen') <= r - n
  BY <1>1, <1>3, <1>11
<1> QED
  BY <1>6, <1>8, <1>9, <1>10, <1>11, <1>12, <1>13, <1>14 DEF RingInv

LEMMA RingStep ==
  ASSUME Ahead < N, RingInv, [RingNext]_ringVars
  PROVE  RingInv'
<1>1. CASE Process
  BY <1>1, RingProcess, RingReads, RingWrites DEF Process
<1>2. CASE Take
  BY <1>2, RingTakes
<1>3. CASE Reader /\ ~Take
  BY <1>3, RingUses DEF Reader
<1>4. CASE UNCHANGED ringVars
  <2>1. UNCHANGED <<buf, pread, pwrite, block, output, seen, got, at, tested, s>>
    BY <1>4 DEF ringVars
  <2>2. RingTypeOK' /\ (at' = "write" \/ block' = <<>>)
    BY <2>1 DEF RingInv, RingTypeOK
  <2> QED
    BY <2>1, <2>2, RingStays
<1> QED
  BY <1>1, <1>2, <1>3, <1>4 DEF RingNext, Reader

\* What the invariant says of all bytes together.
LEMMA NothingLostIs ==
  ASSUME RingInv
  PROVE  NothingLost
<1> DEFINE r == IsRead(pread, pwrite)
           g == Len(got)
           w == Waiting
           e == [i \in 1..output |-> i]
<1>1. /\ N \in Nat \ {0} /\ MaxOutput \in Nat
      /\ pread \in 0..(N - 1) /\ pwrite \in 0..(N - 1)
      /\ buf \in [0..(N - 1) -> 0..MaxOutput] /\ g \in Nat /\ r \in 0..(N - 1)
      /\ \A i \in 1..r : buf[Advance(pread, i - 1)] = g + i
  BY RingHolds
<1>2. /\ got \in Seq(0..MaxOutput) /\ \A i \in 1..g : got[i] = i
      /\ block \in Seq(0..MaxOutput) /\ Len(block) \in Nat
      /\ \A i \in 1..Len(block) : block[i] = output - Len(block) + i
      /\ r + Len(block) = output - g /\ output \in 0..MaxOutput
  BY RingAssumption DEF RingInv, RingTypeOK
<1> HIDE DEF r, g
<1>3. /\ w \in Seq(0..MaxOutput) /\ Len(w) = r /\ \A i \in 1..r : w[i] = g + i
  <2>1. ASSUME NEW i \in 1..r
        PROVE  /\ buf[(pread + i - 1) % N] = g + i
               /\ buf[(pread + i - 1) % N] \in 0..MaxOutput
    <3> DEFINE x == i - 1
    <3>1. x \in 0..N /\ pread + x = pread + i - 1
      BY <1>1
    <3>2. buf[Advance(pread, x)] = g + i
      BY <1>1
    <3> HIDE DEF x
    <3>3. Advance(pread, x) \in 0..(N - 1)
      BY <1>1, <3>1, AdvanceIs
    <3>4. buf[Advance(pread, x)] \in 0..MaxOutput
      BY <1>1, <3>3
    <3>5. Advance(pread, x) = (pread + i - 1) % N
      BY <3>1 DEF Advance
    <3> QED
      BY <3>2, <3>4, <3>5
  <2>2. w = [i \in 1..r |-> buf[(pread + i - 1) % N]]
    BY DEF Waiting, r
  <2>3. \A i \in 1..r : w[i] = buf[(pread + i - 1) % N]
    BY <2>2
  <2>4. \A i \in 1..r : buf[(pread + i - 1) % N] \in 0..MaxOutput
    BY <2>1
  <2>5. w \in Seq(0..MaxOutput) /\ Len(w) = r
    BY <1>1, <2>2, <2>4
  <2> QED
    BY <2>1, <2>3, <2>5
<1> HIDE DEF w
<1>4. /\ got \o w \in Seq(0..MaxOutput) /\ Len(got \o w) = g + r
      /\ \A i \in 1..(g + r) : (got \o w)[i] = IF i <= g THEN got[i] ELSE w[i - g]
  BY <1>2, <1>3, ConcatProperties DEF g
<1>5. ASSUME NEW i \in 1..(g + r) PROVE (got \o w)[i] = i
  <2>1. CASE i <= g
    BY <1>1, <1>2, <1>4, <2>1, SMTT(30)
  <2>2. CASE i > g
    <3>1. (got \o w)[i] = w[i - g] /\ i - g \in 1..r
      BY <1>1, <1>4, <2>2, SMTT(30)
    <3>2. w[i - g] = g + (i - g)
      BY <1>3, <3>1
    <3> QED
      BY <1>1, <3>1, <3>2
  <2>3. i <= g \/ i > g
    BY <1>1
  <2> QED
    BY <2>1, <2>2, <2>3
<1> DEFINE q == got \o w
<1> HIDE DEF q
<1>6. q \in Seq(0..MaxOutput) /\ Len(q) = g + r /\ \A i \in 1..(g + r) : q[i] = i
  BY <1>4, <1>5 DEF q
<1>7. /\ q \o block \in Seq(0..MaxOutput) /\ Len(q \o block) = output
      /\ \A i \in 1..output :
           (q \o block)[i] = IF i <= g + r THEN q[i] ELSE block[i - (g + r)]
  <2>1. /\ q \o block \in Seq(0..MaxOutput) /\ Len(q \o block) = Len(q) + Len(block)
        /\ \A i \in 1..(Len(q) + Len(block)) :
             (q \o block)[i] = IF i <= Len(q) THEN q[i] ELSE block[i - Len(q)]
    BY <1>2, <1>6, ConcatProperties
  <2>2. Len(q) + Len(block) = output
    BY <1>1, <1>2, <1>6
  <2> QED
    BY <1>6, <2>1, <2>2
<1>8. ASSUME NEW i \in 1..output PROVE (q \o block)[i] = i
  <2>1. CASE i <= g + r
    BY <1>1, <1>6, <1>7, <2>1
  <2>2. CASE i > g + r
    <3>1. (q \o block)[i] = block[i - (g + r)]
      BY <1>1, <1>7, <2>2
    <3>2. i - (g + r) \in 1..Len(block) /\ output - Len(block) = g + r
      BY <1>1, <1>2, <2>2
    <3>3. block[i - (g + r)] = output - Len(block) + (i - (g + r))
      BY <1>2, <3>2
    <3> QED
      BY <1>1, <1>2, <3>1, <3>2, <3>3
  <2>3. i <= g + r \/ i > g + r
    BY <1>1
  <2> QED
    BY <2>1, <2>2, <2>3
<1>9. /\ e \in Seq(0..MaxOutput) /\ Len(e) = output /\ \A i \in 1..output : e[i] = i
  BY <1>1, <1>2
<1>10. q \o block = e
  BY <1>7, <1>8, <1>9, SeqEqual
<1> QED
  BY <1>10 DEF NothingLost, q, w

\* While Process is between a test and its use nobody moves the indices, when
\* the reader is the one that calls Process.
InStep ==
  /\ at \in {"select", "read", "write"} => tested = "no"
  /\ tested = "above" => pwrite >= pread
  /\ tested = "below" => pwrite < pread
  /\ RoomIsReal

\* What a complete test says: the room beside the bytes not yet read.
LEMMA FreeIs ==
  ASSUME RingInv, InStep, tested # "no", at # "write"
  PROVE  IsFree = N - (output - Len(got)) /\ IsFree \in 1..N
<1>1. /\ N \in Nat \ {0} /\ pread \in 0..(N - 1) /\ pwrite \in 0..(N - 1)
      /\ IsRead(pread, pwrite) \in 0..(N - 1)
  BY RingHolds
<1>2. RingTypeOK /\ IsRead(pread, pwrite) + Len(block) = output - Len(got) /\ block = <<>>
  BY DEF RingInv
<1>3. tested = "above" \/ tested = "below"
  BY <1>2 DEF RingTypeOK
<1>4. IsFree = N - IsRead(pread, pwrite)
  BY <1>1, <1>3 DEF IsFree, IsRead, InStep
<1>5. Len(block) = 0
  BY <1>2
<1> QED
  BY <1>1, <1>2, <1>4, <1>5

LEMMA InStepStays ==
  ASSUME ~Iscont, RingInv, InStep, [RingNext]_ringVars
  PROVE  InStep'
<1>1. CASE Select
  BY <1>1 DEF Select, InStep, RoomIsReal
<1>2. CASE Test
  <2>1. pread \in Nat /\ pwrite \in Nat
    BY RingHolds
  <2> QED
    BY <1>2, <2>1 DEF Test, InStep, RoomIsReal
<1>3. CASE If
  BY <1>3 DEF If, Tested, InStep, RoomIsReal
<1>4. CASE MinEl
  <2>1. IsFree = N - (output - Len(got)) /\ IsFree \in 1..N
    BY <1>4, FreeIs DEF MinEl, Tested
  <2>2. /\ tested' = "no" /\ UNCHANGED <<pread, pwrite, output, got>>
        /\ at' = "size" \/ (at' = "read" /\ s' = BufMax /\ IsFree \notin 0..BufMax)
    BY <1>4 DEF MinEl, Tested
  <2>3. BufMax \in Nat /\ N \in Nat
    BY RingAssumption
  <2>4. at' = "read" => s' <= N - (output - Len(got))
    BY <2>1, <2>2, <2>3
  <2> QED
    BY <2>2, <2>4 DEF InStep, RoomIsReal
<1>5. CASE Size
  <2>1. IsFree = N - (output - Len(got)) /\ IsFree \in 1..N
    BY <1>5, FreeIs DEF Size, Tested
  <2>2. /\ tested' = "no" /\ UNCHANGED <<pread, pwrite, output, got>>
        /\ s' = IF IsFree < 0 THEN MaxOutput ELSE IsFree
    BY <1>5 DEF Size, Tested
  <2>3. N \in Nat
    BY RingAssumption
  <2>4. s' <= N - (output - Len(got))
    BY <2>1, <2>2, <2>3
  <2> QED
    BY <2>2, <2>4 DEF InStep, RoomIsReal
<1>6. ASSUME NEW n \in 0..MaxOutput, ReadProgram(n) PROVE InStep'
  BY <1>6 DEF ReadProgram, InStep, RoomIsReal
<1>7. CASE Write
  BY <1>7 DEF Write, InStep, RoomIsReal
<1>8. CASE Reader
  <2>1. at = "select" /\ UNCHANGED <<at, tested>>
    BY <1>8 DEF Reader, Take, MayRead
  <2> QED
    BY <2>1 DEF InStep, RoomIsReal
<1>9. CASE UNCHANGED ringVars
  BY <1>9 DEF ringVars, InStep, RoomIsReal
<1> QED
  BY <1>1, <1>2, <1>3, <1>4, <1>5, <1>6, <1>7, <1>8, <1>9 DEF RingNext, Process

\* Whatever threads the two sides are on: as long as the program is never a
\* whole ring ahead of the reader, the ring holds the bytes it has to hold.
THEOREM RingKept ==
  ASSUME Ahead < N
  PROVE  RingSpec => []RingInv
<1>1. RingInit => RingInv
  BY RingStart
<1>2. RingInv /\ [RingNext]_ringVars => RingInv'
  BY RingStep
<1> QED
  BY <1>1, <1>2, PTL DEF RingSpec

\* No byte is lost, repeated or overwritten, over any number of turns of the
\* ring, also when Process and the reader are on two threads.
THEOREM RingLosesNothing ==
  ASSUME Ahead < N
  PROVE  RingSpec => []NothingLost
<1>1. RingInv => NothingLost
  BY NothingLostIs
<1> QED
  BY <1>1, RingKept, PTL

\* The variables keep their types; the indices stay in the ring.
THEOREM RingTypeCorrect ==
  ASSUME Ahead < N
  PROVE  RingSpec => []RingTypeOK
<1>1. RingInv => RingTypeOK
  BY DEF RingInv
<1> QED
  BY <1>1, RingKept, PTL

\* With one thread Process also never asks for more than the ring has room
\* for: what IsFree computes from two loads of pread is the room.
THEOREM RingIsSound ==
  ASSUME ~Iscont, Ahead < N
  PROVE  RingSpec => []RingSound
<1>1. RingInit => RingInv /\ InStep
  <2>1. RingInit => InStep
    BY DEF RingInit, InStep, RoomIsReal
  <2> QED
    BY <2>1, RingStart
<1>2. RingInv /\ InStep /\ [RingNext]_ringVars => RingInv' /\ InStep'
  BY RingStep, InStepStays
<1>3. RingInv /\ InStep => RingSound
  BY NothingLostIs DEF InStep, RingSound
<1> QED
  BY <1>1, <1>2, <1>3, PTL DEF RingSpec


------------------------------------------------------------------------------
(* SecondsRing                                                             *)

\* The slot of the second d before the last one.
Slot(d) == IF d <= spos THEN spos - d ELSE spos + StatSz - d

\* Nothing has been counted yet, or the slots of the last seconds hold what was
\* counted in them; nothing was counted after the last second.
NoneYet == ltm = 0 <=> ssz = 0

SlotsHold ==
  \A d \in 0..(ssz - 1) : ltm - d \in Ticks /\ slots[Slot(d)] = counted[ltm - d]

NothingAfter == \A t \in Ticks : t > ltm => counted[t] = 0

SlotsAreLow == \A i \in 0..(StatSz - 1) : slots[i] < Low

SecondsInv ==
  /\ SecondsTypeOK /\ NoneYet
  /\ regular => SlotsHold /\ NothingAfter /\ SlotsAreLow

LEMMA TurnIs ==
  ASSUME NEW m \in 0..(2 * StatSz - 1)
  PROVE  m % StatSz = IF m < StatSz THEN m ELSE m - StatSz
<1>1. StatSz \in Nat \ {0}
  BY SecondsAssumption
<1>2. CASE m < StatSz
  <2>1. m % StatSz = m
    BY <1>1, <1>2
  <2> QED
    BY <1>2, <2>1
<1>3. CASE m >= StatSz
  <2>1. m % StatSz = m - StatSz
    BY <1>1, <1>3
  <2> QED
    BY <1>1, <1>3, <2>1
<1> QED
  BY <1>1, <1>2, <1>3

LEMMA SecondsStart == SecondsInit => SecondsInv
<1> SUFFICES ASSUME SecondsInit PROVE SecondsInv
  OBVIOUS
<1>1. StatSz \in Nat \ {0} /\ Low \in Nat \ {0} /\ MaxAdds \in Nat
  BY SecondsAssumption
<1>2. SecondsTypeOK
  BY <1>1 DEF SecondsInit, SecondsTypeOK
<1>3. NoneYet /\ SlotsHold
  BY DEF SecondsInit, NoneYet, SlotsHold
<1>4. NothingAfter
  BY DEF SecondsInit, NothingAfter
<1>5. SlotsAreLow
  BY <1>1 DEF SecondsInit, SlotsAreLow
<1> QED
  BY <1>2, <1>3, <1>4, <1>5 DEF SecondsInv

\* What memset leaves is a ring again.
LEMMA ClearedIs ==
  ASSUME NEW r \in [0..(StatSz - 1) -> Nat], NEW f \in Nat, NEW c \in Int
  PROVE  Cleared(r, f, c) \in [0..(StatSz - 1) -> Nat]
<1>1. Low \in Nat \ {0}
  BY SecondsAssumption
<1>2. \A x \in Nat : (x \div Low) * Low \in Nat
  <2>1. ASSUME NEW x \in Nat PROVE (x \div Low) * Low \in Nat
    <3>1. x \div Low \in Nat
      BY <1>1
    <3> QED
      BY <1>1, <3>1
  <2> QED
    BY <2>1
<1>3. \A i \in 0..(StatSz - 1) : r[i] \in Nat
  OBVIOUS
<1> QED
  BY <1>2, <1>3 DEF Cleared

LEMMA NoHalf ==
  ASSUME NEW l \in Nat, l # 0, NEW x \in Nat, x < l
  PROVE  x \div l = 0
OBVIOUS

LEMMA OneCleared ==
  ASSUME NEW r \in [0..(StatSz - 1) -> Nat], NEW f \in 0..(StatSz - 1), r[f] < Low
  PROVE  Cleared(r, f, 1) = [r EXCEPT ![f] = 0]
<1>1. Low \in Nat \ {0} /\ StatSz \in Nat \ {0}
  BY SecondsAssumption
<1>2. 1 \div 2 = 0 /\ 1 % 2 = 1
  OBVIOUS
<1>3. r[f] \div Low = 0
  <2>1. r[f] \in Nat
    OBVIOUS
  <2> QED
    BY <1>1, <2>1, NoHalf
<1>4. (r[f] \div Low) * Low = 0
  BY <1>1, <1>3
<1>5. ASSUME NEW i \in 0..(StatSz - 1) PROVE Cleared(r, f, 1)[i] = [r EXCEPT ![f] = 0][i]
  <2>1. Cleared(r, f, 1)[i]
        = IF i \in f..(f + 0 - 1) THEN 0
          ELSE IF i = f + 0 THEN (r[i] \div Low) * Low ELSE r[i]
    BY <1>2 DEF Cleared
  <2>2. i \notin f..(f + 0 - 1)
    OBVIOUS
  <2> QED
    BY <1>4, <2>1, <2>2
<1>6. DOMAIN Cleared(r, f, 1) = 0..(StatSz - 1)
  BY DEF Cleared
<1>7. Cleared(r, f, 1) = [i \in 0..(StatSz - 1) |-> Cleared(r, f, 1)[i]]
  BY DEF Cleared
<1> QED
  BY <1>5, <1>7

\* Nothing is cleared when there are no slots to clear.
LEMMA NoneCleared ==
  ASSUME NEW r \in [0..(StatSz - 1) -> Nat], NEW f \in Nat
  PROVE  Cleared(r, f, 0) = r
<1>1. 0 \div 2 = 0 /\ 0 % 2 = 0
  OBVIOUS
<1>2. ASSUME NEW i \in 0..(StatSz - 1) PROVE i \notin f..(f + 0 - 1)
  OBVIOUS
<1> QED
  BY <1>1, <1>2 DEF Cleared

LEMMA FewerIs ==
  ASSUME NEW a \in Int, NEW b \in Int
  PROVE  /\ Fewer(a, b) \in {a, b} /\ Fewer(a, b) <= a /\ Fewer(a, b) <= b
BY DEF Fewer

\* What Add makes of the ring when the clock goes on by a second.
LEMMA NewSecondIs ==
  ASSUME SecondsTypeOK, SlotsAreLow, StatSz > 1
  PROVE  LET p == IF spos + 1 < StatSz THEN spos + 1 ELSE 0 IN
         /\ (spos + 1) % StatSz = p /\ p \in 0..(StatSz - 1)
         /\ Anew(slots, 1) = [slots EXCEPT ![p] = 0]
<1> DEFINE p == IF spos + 1 < StatSz THEN spos + 1 ELSE 0
<1>1. StatSz \in Nat \ {0} /\ spos \in 0..(StatSz - 1)
      /\ slots \in [0..(StatSz - 1) -> Nat]
  BY SecondsAssumption DEF SecondsTypeOK
<1>2. (spos + 1) % StatSz = p /\ p \in 0..(StatSz - 1)
  <2> DEFINE m == spos + 1
  <2>1. m \in 0..(2 * StatSz - 1)
    BY <1>1
  <2>2. m % StatSz = IF m < StatSz THEN m ELSE m - StatSz
    <3> HIDE DEF m
    <3> QED
      BY <2>1, TurnIs
  <2> QED
    BY <1>1, <2>2
<1>3. slots[p] < Low
  BY <1>2 DEF SlotsAreLow
<1>4. CASE spos + 1 < StatSz
  <2>1. Fewer(1, StatSz - (spos + 1)) = 1
    BY <1>1, <1>4 DEF Fewer
  <2>2. Anew(slots, 1) = Cleared(slots, spos + 1, 1)
    BY <1>1, <1>4, <2>1 DEF Anew
  <2>3. p = spos + 1
    BY <1>4
  <2> HIDE DEF p
  <2>4. Cleared(slots, p, 1) = [slots EXCEPT ![p] = 0]
    BY <1>1, <1>2, <1>3, OneCleared
  <2> QED
    BY <1>2, <2>2, <2>3, <2>4 DEF p
<1>5. CASE ~(spos + 1 < StatSz)
  <2>1. spos + 1 = StatSz
    BY <1>1, <1>5
  <2>2. Fewer(1, StatSz - (spos + 1)) = 0
    BY <1>1, <2>1 DEF Fewer
  <2>3. Anew(slots, 1) = Cleared(Cleared(slots, spos + 1, 0), 0, 1)
    BY <1>1, <2>1, <2>2 DEF Anew
  <2>4. spos + 1 \in Nat
    BY <1>1
  <2>5. Cleared(slots, spos + 1, 0) = slots
    BY <1>1, <2>4, NoneCleared
  <2>6. p = 0
    BY <1>5
  <2> HIDE DEF p
  <2>7. Cleared(slots, p, 1) = [slots EXCEPT ![p] = 0]
    BY <1>1, <1>2, <1>3, OneCleared
  <2> QED
    BY <1>2, <2>3, <2>5, <2>6, <2>7 DEF p
<1> QED
  BY <1>2, <1>4, <1>5

LEMMA AddKeepsType ==
  ASSUME SecondsTypeOK, NEW t \in Ticks, NEW n \in Counts, AddAt(t, n)
  PROVE  SecondsTypeOK'
<1>1. /\ StatSz \in Nat \ {0} /\ n \in Nat \ {0} /\ t \in Nat /\ t >= StatSz
      /\ MaxAdds \in Nat /\ Ticks \subseteq Nat
  BY SecondsAssumption
<1> USE DEF SecondsTypeOK
<1>2. /\ adds' \in 0..MaxAdds /\ ltm' \in Ticks \cup {0}
      /\ counted' \in [Ticks -> Nat]
  BY <1>1 DEF AddAt
<1>3. regular' \in BOOLEAN
  <2>1. regular' = (/\ regular /\ counted'[t] < Low
                   /\ t - ltm \in {0, 1} \cup {d \in Ticks : d >= StatSz})
    BY DEF AddAt
  <2> QED
    BY <2>1, Zenon
<1>4. SameSecond(t, n) \/ NewSecond(t, n) \/ WholeRing(t, n)
  BY DEF AddAt
<1>5. CASE SameSecond(t, n)
  <2>1. slots' \in [0..(StatSz - 1) -> Nat] /\ spos' = spos /\ ssz' = ssz
    BY <1>1, <1>5 DEF SameSecond
  <2> QED
    BY <1>2, <1>3, <2>1
<1>6. CASE NewSecond(t, n)
  <2> DEFINE k == Passed(t)
             m == Fewer(k, StatSz - (spos + 1))
             after == Cleared(slots, spos + 1, m)
  <2>1. k \in Nat /\ k < StatSz
    BY <1>1, <1>6 DEF NewSecond, Passed
  <2>2. m \in Int /\ k - m \in Int /\ spos + 1 \in Nat
    <3> HIDE DEF k
    <3> QED
      BY <1>1, <2>1 DEF Fewer
  <2>3. after \in [0..(StatSz - 1) -> Nat]
    <3> HIDE DEF m
    <3> QED
      BY <2>2, ClearedIs
  <2>4. Cleared(after, 0, k - m) \in [0..(StatSz - 1) -> Nat]
    <3> DEFINE c == k - m
    <3>1. c \in Int
      BY <2>2
    <3> HIDE DEF c, after
    <3>2. Cleared(after, 0, c) \in [0..(StatSz - 1) -> Nat]
      BY <2>3, <3>1, ClearedIs
    <3> QED
      BY <3>2 DEF c
  <2>5. Anew(slots, k) \in [0..(StatSz - 1) -> Nat]
    BY <2>3, <2>4, Zenon DEF Anew
  <2>6. /\ spos' = (spos + k) % StatSz /\ ssz' = Fewer(ssz + k, StatSz)
        /\ slots' = [Anew(slots, k) EXCEPT ![spos'] = @ + n]
    BY <1>6 DEF NewSecond
  <2> HIDE DEF k
  <2>7. spos' \in 0..(StatSz - 1)
    BY <1>1, <2>1, <2>6
  <2>8. ssz' \in 0..StatSz
    BY <1>1, <2>1, <2>6 DEF Fewer
  <2>9. slots' \in [0..(StatSz - 1) -> Nat]
    <3> DEFINE r == Anew(slots, k)
    <3>1. r \in [0..(StatSz - 1) -> Nat] /\ slots' = [r EXCEPT ![spos'] = @ + n]
      BY <2>5, <2>6
    <3> HIDE DEF r
    <3>2. r[spos'] + n \in Nat
      BY <1>1, <2>7, <3>1
    <3> QED
      BY <3>1, <3>2
  <2> QED
    BY <1>2, <1>3, <2>7, <2>8, <2>9
<1>7. CASE WholeRing(t, n)
  <2>1. slots' \in [0..(StatSz - 1) -> Nat] /\ spos' = 0 /\ ssz' = 1
    BY <1>1, <1>7 DEF WholeRing
  <2> QED
    BY <1>1, <1>2, <1>3, <2>1
<1> QED
  BY <1>4, <1>5, <1>6, <1>7

\* The seconds before the new one keep their slots.
LEMMA AddKeepsSlots ==
  ASSUME SecondsInv, NEW t \in Ticks, NEW n \in Counts, AddAt(t, n), regular'
  PROVE  SlotsHold' /\ NothingAfter' /\ SlotsAreLow'
<1>1. /\ StatSz \in Nat \ {0} /\ Low \in Nat \ {0} /\ n \in Nat \ {0}
      /\ t \in Nat /\ t >= StatSz /\ Ticks \subseteq Nat
  BY SecondsAssumption
<1>2. SecondsTypeOK /\ NoneYet
  BY DEF SecondsInv
<1>3. /\ slots \in [0..(StatSz - 1) -> Nat] /\ spos \in 0..(StatSz - 1)
      /\ ssz \in 0..StatSz /\ ltm \in Nat /\ counted \in [Ticks -> Nat]
  BY <1>1, <1>2 DEF SecondsTypeOK
<1>4. /\ regular /\ counted'[t] < Low
      /\ t = ltm \/ t = ltm + 1 \/ t - ltm >= StatSz
      /\ ltm' = t /\ counted' = [counted EXCEPT ![t] = @ + n]
  <2>1. /\ ltm' = t /\ counted' = [counted EXCEPT ![t] = @ + n]
        /\ regular' = (/\ regular /\ counted'[t] < Low
                       /\ t - ltm \in {0, 1} \cup {d \in Ticks : d >= StatSz})
    BY DEF AddAt
  <2>2. regular /\ counted'[t] < Low
    BY <2>1, Zenon
  <2>3. t - ltm \in {0, 1} \cup {d \in Ticks : d >= StatSz}
    BY <2>1, Zenon
  <2> QED
    BY <1>1, <1>3, <2>1, <2>2, <2>3
<1>5. SlotsHold /\ NothingAfter /\ SlotsAreLow
  BY <1>4, Zenon DEF SecondsInv
<1>6. SameSecond(t, n) \/ NewSecond(t, n) \/ WholeRing(t, n)
  BY DEF AddAt
<1>7. counted'[t] = counted[t] + n /\ \A u \in Ticks : u # t => counted'[u] = counted[u]
  BY <1>3, <1>4
<1>8. NothingAfter'
  <2>1. ltm <= t
    BY <1>1, <1>3, <1>4
  <2>2. ASSUME NEW u \in Ticks, u > t PROVE counted'[u] = 0
    <3>1. u \in Nat /\ u > ltm /\ u # t
      BY <1>1, <1>3, <2>1, <2>2
    <3> QED
      BY <1>5, <1>7, <3>1 DEF NothingAfter
  <2> QED
    BY <1>4, <2>2 DEF NothingAfter
<1>9. CASE SameSecond(t, n)
  <2>1. /\ t = ltm /\ spos' = spos /\ ssz' = ssz
        /\ slots' = [slots EXCEPT ![spos] = @ + n]
    BY <1>9 DEF SameSecond
  <2>2. ssz # 0
    BY <1>1, <1>2, <2>1 DEF NoneYet
  <2>3. slots'[spos] = slots[spos] + n
        /\ \A i \in 0..(StatSz - 1) : i # spos => slots'[i] = slots[i]
    BY <1>3, <2>1
  <2>4. slots[spos] = counted[t]
    <3>1. 0 \in 0..(ssz - 1) /\ ltm - 0 = t
      BY <1>3, <2>1, <2>2
    <3>2. Slot(0) = spos
      BY <1>3 DEF Slot
    <3> QED
      BY <1>5, <3>1, <3>2 DEF SlotsHold
  <2>5. SlotsAreLow'
    BY <1>4, <1>5, <1>7, <2>3, <2>4 DEF SlotsAreLow
  <2>6. ASSUME NEW d \in 0..(ssz - 1)
        PROVE  t - d \in Ticks /\ slots'[Slot(d)'] = counted'[t - d]
    <3>1. Slot(d)' = Slot(d)
      BY <2>1 DEF Slot
    <3>2. t - d \in Ticks /\ slots[Slot(d)] = counted[t - d]
      BY <1>5, <2>1 DEF SlotsHold
    <3>3. CASE d = 0
      <4>1. Slot(d) = spos /\ t - d = t
        BY <1>1, <1>3, <3>3 DEF Slot
      <4> QED
        BY <1>7, <2>3, <2>4, <3>1, <4>1
    <3>4. CASE d # 0
      <4>1. Slot(d) \in 0..(StatSz - 1) /\ Slot(d) # spos /\ t - d # t
        BY <1>1, <1>3, <3>4 DEF Slot
      <4> QED
        BY <1>7, <2>3, <3>1, <3>2, <4>1
    <3> QED
      BY <3>2, <3>3, <3>4
  <2>7. SlotsHold'
    BY <1>4, <2>1, <2>6 DEF SlotsHold
  <2> QED
    BY <1>8, <2>5, <2>7
<1>10. CASE WholeRing(t, n)
  <2>1. /\ t # ltm /\ spos' = 0 /\ ssz' = 1 /\ slots' = [slots EXCEPT ![0] = n]
    BY <1>10 DEF WholeRing
  <2>2. counted[t] = 0
    <3>1. t > ltm
      BY <1>1, <1>3, <1>4, <2>1
    <3> QED
      BY <1>5, <3>1 DEF NothingAfter
  <2>3. counted'[t] = n
    BY <1>1, <1>7, <2>2
  <2>4. slots'[0] = n /\ \A i \in 0..(StatSz - 1) : i # 0 => slots'[i] = slots[i]
    BY <1>1, <1>3, <2>1
  <2>5. SlotsAreLow'
    BY <1>4, <1>5, <2>3, <2>4 DEF SlotsAreLow
  <2>6. ASSUME NEW d \in 0..(ssz' - 1)
        PROVE  t - d \in Ticks /\ slots'[Slot(d)'] = counted'[t - d]
    <3>1. d = 0
      BY <2>1
    <3>2. Slot(d)' = 0 /\ t - d = t
      BY <1>1, <2>1, <3>1 DEF Slot
    <3> QED
      BY <2>3, <2>4, <3>2
  <2>7. SlotsHold'
    BY <1>4, <2>6 DEF SlotsHold
  <2> QED
    BY <1>8, <2>5, <2>7
<1>11. CASE NewSecond(t, n)
  <2> DEFINE p == IF spos + 1 < StatSz THEN spos + 1 ELSE 0
  <2>1. t = ltm + 1 /\ Passed(t) = 1 /\ StatSz > 1
    BY <1>1, <1>3, <1>4, <1>11 DEF NewSecond, Passed
  <2>2. (spos + 1) % StatSz = p /\ p \in 0..(StatSz - 1)
        /\ Anew(slots, 1) = [slots EXCEPT ![p] = 0]
    BY <1>2, <1>5, <2>1, NewSecondIs
  <2>3. /\ spos' = p /\ ssz' = Fewer(ssz + 1, StatSz)
        /\ slots' = [[slots EXCEPT ![p] = 0] EXCEPT ![p] = @ + n]
    BY <1>11, <2>1, <2>2 DEF NewSecond
  <2>4. slots'[p] = n /\ \A i \in 0..(StatSz - 1) : i # p => slots'[i] = slots[i]
    <3> HIDE DEF p
    <3> QED
      BY <1>1, <1>3, <2>2, <2>3
  <2>5. counted'[t] = n
    <3>1. counted[t] = 0
      BY <1>1, <1>3, <1>5, <2>1 DEF NothingAfter
    <3> QED
      BY <1>1, <1>7, <3>1
  <2>6. SlotsAreLow'
    <3> HIDE DEF p
    <3> QED
      BY <1>4, <1>5, <2>4, <2>5 DEF SlotsAreLow
  <2> DEFINE z == ssz'
  <2>7. z \in 1..StatSz /\ z <= ssz + 1
    BY <1>1, <1>3, <2>3 DEF Fewer
  <2> HIDE DEF z
  <2>8. ASSUME NEW d \in 0..(z - 1)
        PROVE  t - d \in Ticks /\ slots'[Slot(d)'] = counted'[t - d]
    <3>1. d \in 0..(StatSz - 1) /\ d <= ssz
      BY <1>1, <1>3, <2>7
    <3>2. CASE d = 0
      <4>1. Slot(d)' = p /\ t - d = t
        BY <1>1, <2>2, <2>3, <3>2 DEF Slot
      <4> QED
        BY <2>4, <2>5, <4>1
    <3>3. CASE d # 0
      <4> DEFINE e == d - 1
      <4>1. e \in 0..(ssz - 1) /\ t - d = ltm - e
        BY <1>1, <1>3, <2>1, <3>1, <3>3
      <4>2. Slot(d)' = Slot(e) /\ Slot(e) \in 0..(StatSz - 1) /\ Slot(e) # p
        BY <1>1, <1>3, <2>3, <3>1, <3>3 DEF Slot
      <4> HIDE DEF e, p
      <4>3. ltm - e \in Ticks /\ slots[Slot(e)] = counted[ltm - e]
        BY <1>5, <4>1 DEF SlotsHold
      <4>4. t - d # t
        BY <1>1, <3>1, <3>3
      <4> QED
        BY <1>7, <2>4, <4>1, <4>2, <4>3, <4>4
    <3> QED
      BY <3>2, <3>3
  <2>9. SlotsHold'
    BY <1>4, <2>8 DEF SlotsHold, z
  <2> QED
    BY <1>8, <2>6, <2>9
<1> QED
  BY <1>6, <1>9, <1>10, <1>11

LEMMA AddStep == SecondsInv /\ [SecondsNext]_secondsVars => SecondsInv'
<1> SUFFICES ASSUME SecondsInv, [SecondsNext]_secondsVars PROVE SecondsInv'
  OBVIOUS
<1>1. ASSUME NEW t \in Ticks, NEW n \in Counts, AddAt(t, n) PROVE SecondsInv'
  <2>1. SecondsTypeOK'
    BY <1>1, AddKeepsType DEF SecondsInv
  <2>2. regular' => SlotsHold' /\ NothingAfter' /\ SlotsAreLow'
    BY <1>1, AddKeepsSlots
  <2>3. NoneYet'
    <3>1. StatSz \in Nat \ {0} /\ t \in Nat \ {0} /\ ltm' = t
      BY <1>1, SecondsAssumption DEF AddAt
    <3>2. SecondsTypeOK /\ NoneYet
      BY DEF SecondsInv
    <3>3. ssz \in 0..StatSz /\ ltm \in Nat
      BY <3>2, SecondsAssumption DEF SecondsTypeOK
    <3>4. CASE SameSecond(t, n)
      BY <3>1, <3>2, <3>4 DEF SameSecond, NoneYet
    <3>5. CASE NewSecond(t, n)
      <4>1. Passed(t) \in Nat \ {0} /\ ssz' = Fewer(ssz + Passed(t), StatSz)
        BY <3>1, <3>3, <3>5 DEF NewSecond, Passed
      <4>2. ssz' # 0
        BY <3>1, <3>3, <4>1 DEF Fewer
      <4> QED
        BY <3>1, <4>2 DEF NoneYet
    <3>6. CASE WholeRing(t, n)
      BY <3>1, <3>6 DEF WholeRing, NoneYet
    <3> QED
      BY <1>1, <3>4, <3>5, <3>6 DEF AddAt
  <2> QED
    BY <2>1, <2>2, <2>3 DEF SecondsInv
<1>2. CASE UNCHANGED secondsVars
  BY <1>2 DEF secondsVars, SecondsInv, SecondsTypeOK, NoneYet, SlotsHold, NothingAfter,
              SlotsAreLow, Slot
<1> QED
  BY <1>1, <1>2 DEF SecondsNext

LEMMA InvShows == SecondsInv => ShowsSeconds
<1> SUFFICES ASSUME SecondsInv, regular, NEW i \in 1..ssz
             PROVE  Printed[i] = <<(ltm - ssz + i) - 1, counted[ltm - ssz + i]>>
  BY DEF ShowsSeconds
<1>1. /\ StatSz \in Nat \ {0} /\ spos \in 0..(StatSz - 1) /\ ssz \in 0..StatSz
      /\ ltm \in Nat
  BY SecondsAssumption DEF SecondsInv, SecondsTypeOK
<1> DEFINE d == ssz - i
           m == spos + StatSz - ssz + i
<1>2. d \in 0..(ssz - 1) /\ d \in 0..(StatSz - 1) /\ m = spos + StatSz - d
      /\ ltm - d = ltm - ssz + i
  BY <1>1
<1>3. m \in 0..(2 * StatSz - 1)
  BY <1>1, <1>2
<1>4. m % StatSz = IF m < StatSz THEN m ELSE m - StatSz
  <2> HIDE DEF m
  <2> QED
    BY <1>3, TurnIs
<1>5. m % StatSz = Slot(d)
  <2> HIDE DEF m, d
  <2> QED
    BY <1>1, <1>2, <1>4 DEF Slot
<1>6. slots[Slot(d)] = counted[ltm - d]
  <2> HIDE DEF d
  <2> QED
    BY <1>2 DEF SecondsInv, SlotsHold
<1>7. Printed[i] = <<ltm - ssz + i - 1, slots[m % StatSz]>>
  BY DEF Printed
<1>8. ltm - ssz + i - 1 = (ltm - ssz + i) - 1
  BY <1>1
<1> QED
  BY <1>2, <1>5, <1>6, <1>7, <1>8

\* For a ring of any size the page shows each of the last seconds with what was
\* counted in it (listen_http_msring::Add and Get), over any number of turns.
THEOREM SecondsAreShown == SecondsSpec => []ShowsSeconds
<1>1. SecondsInit => SecondsInv
  BY SecondsStart
<1>2. SecondsInv /\ [SecondsNext]_secondsVars => SecondsInv'
  BY AddStep
<1>3. SecondsInv => ShowsSeconds
  BY InvShows
<1> QED
  BY <1>1, <1>2, <1>3, PTL DEF SecondsSpec

------------------------------------------------------------------------------
(* DebugRing                                                               *)

Values == 0..DebugSz
WordSet == [record : Nat, at : Nat, value : Values]
RecordsOf == {WordsOf(k, n) : k \in Nat, n \in RecordSz}

\* The words of the first k sequences of q, and of those after them.
Firsts(q, k) == FlattenSeq(SubSeq(q, 1, k))
Laters(q, k) == FlattenSeq([i \in 1..(Len(q) - k) |-> q[k + i]])

\* The words of the first k records.
WordsBefore(k) == Firsts(records, k)

\* How many records are copied, until the ring is full.
CopiedRecords == IF pending = <<>> THEN Len(records) ELSE Len(records) - 1

DebugTyped ==
  /\ data \in [0..(DebugSz - 1) -> WordSet] /\ dpos \in 0..DebugSz
  /\ records \in Seq(RecordsOf) /\ Len(records) <= MaxRecords
  /\ pending \in Seq(WordSet)
  /\ rid \in 0..DebugSz /\ begun \in -1..Len(records) /\ head \in -1..DebugSz
  /\ told \in Seq(WordSet) /\ failed \in {"no", "corrupt", "small"} /\ lapped \in BOOLEAN
  /\ begun = -1 => told = <<>> /\ failed = "no" /\ head = -1
  /\ records = <<>> => pending = <<>>

\* A reader stands before record r + 1.
Stands(r) ==
  /\ rid = Len(WordsBefore(r)) /\ WordsBefore(begun) \o told = WordsBefore(r)
  /\ head # -1 => r < CopiedRecords /\ head = Len(records[r + 1])

FirstTurn ==
  /\ pending # <<>> => pending = Last(records)
  /\ dpos = Len(WordsBefore(CopiedRecords))
  /\ \A i \in 1..dpos : data[i - 1] = Words(0)[i]
  /\ failed = "no"
  /\ begun # -1 => \E r \in begun..CopiedRecords : Stands(r)

DebugInv == DebugTyped /\ (Len(Words(0)) < DebugSz => FirstTurn)

LEMMA RecordIs ==
  ASSUME NEW r \in RecordsOf
  PROVE  /\ r \in Seq(WordSet) /\ Len(r) \in 3..DebugSz
         /\ \A i \in 1..Len(r) : r[i].at = i
         /\ r[2].value = Len(r)
<1>1. PICK k \in Nat, n \in RecordSz : r = WordsOf(k, n)
  BY DEF RecordsOf
<1>2. n \in 3..DebugSz /\ DebugSz \in Nat
  BY DebugAssumption
<1>3. \A i \in 1..n : Word(k, i, IF i = 2 THEN n ELSE 0) \in WordSet
  BY <1>2 DEF Word, WordSet, Values
<1>4. r \in [1..n -> WordSet]
  BY <1>1, <1>3 DEF WordsOf
<1>5. r \in Seq(WordSet) /\ Len(r) = n
  BY <1>2, <1>4
<1>6. \A i \in 1..n : r[i] = Word(k, i, IF i = 2 THEN n ELSE 0)
  BY <1>1 DEF WordsOf
<1>7. \A i \in 1..n : r[i].at = i
  <2>1. \A i, v : Word(k, i, v).at = i
    BY DEF Word
  <2> QED
    BY <1>6, <2>1
<1>8. r[2].value = n
  <2>1. \A v : Word(k, 2, v).value = v
    BY DEF Word
  <2>2. 2 \in 1..n /\ r[2] = Word(k, 2, n)
    BY <1>2, <1>6
  <2> QED
    BY <2>1, <2>2
<1> QED
  BY <1>2, <1>5, <1>7, <1>8

LEMMA FirstsAre ==
  ASSUME NEW S, NEW q \in Seq(Seq(S)), NEW k \in 0..Len(q)
  PROVE  /\ Firsts(q, k) \in Seq(S) /\ Laters(q, k) \in Seq(S)
         /\ Firsts(q, k) \o Laters(q, k) = FlattenSeq(q)
         /\ k < Len(q) => Firsts(q, k + 1) = Firsts(q, k) \o q[k + 1]
         /\ Firsts(q, Len(q)) = FlattenSeq(q) /\ Laters(q, 0) = FlattenSeq(q)
<1> DEFINE T == Seq(S)
           a == SubSeq(q, 1, k)
           b == SubSeq(q, k + 1, Len(q))
           c == [i \in 1..(Len(q) - k) |-> q[k + i]]
<1>0. Len(q) \in Nat /\ k \in Nat /\ k <= Len(q)
  OBVIOUS
<1>1. /\ a \in Seq(T) /\ b \in Seq(T) /\ a \o b = q /\ Len(a) = k
      /\ \A i \in 1..k : a[i] = q[i]
  BY PartsIs, FirstPart
<1>2. Len(b) = Len(q) - k /\ \A i \in 1..(Len(q) - k) : b[i] = q[k + i]
  BY LaterPart
<1>3. c \in Seq(T) /\ c = b
  <2>1. c \in [1..(Len(q) - k) -> T]
    BY <1>0
  <2>2. c \in Seq(T) /\ Len(c) = Len(q) - k
    BY <1>0, <2>1
  <2>3. \A i \in 1..Len(c) : c[i] = b[i]
    BY <1>2, <2>2
  <2> HIDE DEF c, b
  <2> QED
    BY <1>1, <1>2, <2>2, <2>3, SeqEqual
<1>4. Firsts(q, k) \in Seq(S) /\ Laters(q, k) \in Seq(S)
  BY <1>1, <1>3, FlattenType DEF Firsts, Laters
<1>5. Firsts(q, k) \o Laters(q, k) = FlattenSeq(q)
  <2> HIDE DEF a, b, c
  <2>1. FlattenSeq(a \o b) = FlattenSeq(a) \o FlattenSeq(b)
    BY <1>1, FlattenConcat DEF T
  <2>2. Firsts(q, k) = FlattenSeq(a) /\ Laters(q, k) = FlattenSeq(c)
    BY DEF Firsts, Laters, a, c
  <2> QED
    BY <1>1, <1>3, <2>1, <2>2
<1>6. ASSUME k < Len(q) PROVE Firsts(q, k + 1) = Firsts(q, k) \o q[k + 1]
  <2> DEFINE d == SubSeq(q, 1, k + 1)
  <2>1. k + 1 \in 0..Len(q) /\ q[k + 1] \in T
    BY <1>0, <1>6
  <2>2. d \in Seq(T) /\ Len(d) = k + 1 /\ \A i \in 1..(k + 1) : d[i] = q[i]
    BY <2>1, FirstPart
  <2> HIDE DEF d, a
  <2>3. d = Append(a, q[k + 1])
    <3>1. d[Len(a) + 1] = q[k + 1] /\ Len(d) = Len(a) + 1 /\ \A i \in 1..Len(a) : d[i] = a[i]
      BY <1>0, <1>1, <2>2
    <3> QED
      BY <1>1, <2>1, <2>2, <3>1, AppendIs
  <2>4. FlattenSeq(Append(a, q[k + 1])) = FlattenSeq(a) \o q[k + 1]
    BY <1>1, <2>1, FlattenAppend DEF T
  <2> QED
    BY <2>3, <2>4 DEF Firsts, a, d
<1>7. SubSeq(q, 1, Len(q)) = q /\ [i \in 1..(Len(q) - 0) |-> q[0 + i]] = q
  <2>1. Len(q) \in 0..Len(q)
    BY <1>0
  <2> DEFINE e == SubSeq(q, 1, Len(q))
             f == [i \in 1..(Len(q) - 0) |-> q[0 + i]]
  <2>2. e \in Seq(T) /\ Len(e) = Len(q) /\ \A i \in 1..Len(q) : e[i] = q[i]
    BY <2>1, FirstPart
  <2>3. f \in [1..Len(q) -> T] /\ \A i \in 1..Len(q) : f[i] = q[i]
    BY <1>0
  <2>4. f \in Seq(T) /\ Len(f) = Len(q)
    BY <1>0, <2>3
  <2> HIDE DEF e, f
  <2>5. e = q
    BY <2>2, SeqEqual
  <2>6. f = q
    BY <2>3, <2>4, SeqEqual
  <2> QED
    BY <2>5, <2>6 DEF e, f
<1> QED
  BY <1>4, <1>5, <1>6, <1>7 DEF Firsts, Laters

LEMMA FirstsOfAppend ==
  ASSUME NEW S, NEW q \in Seq(Seq(S)), NEW x \in Seq(S), NEW k \in 0..Len(q)
  PROVE  Firsts(Append(q, x), k) = Firsts(q, k)
<1> DEFINE r == Append(q, x)
           a == SubSeq(q, 1, k)
           b == SubSeq(r, 1, k)
<1>1. r \in Seq(Seq(S)) /\ Len(r) = Len(q) + 1 /\ \A i \in 1..Len(q) : r[i] = q[i]
  OBVIOUS
<1> HIDE DEF r
<1>2. k \in 0..Len(r) /\ Len(q) \in Nat /\ k <= Len(q) /\ k \in Nat
  BY <1>1
<1>3. a \in Seq(Seq(S)) /\ Len(a) = k /\ \A i \in 1..k : a[i] = q[i]
  BY FirstPart
<1>4. b \in Seq(Seq(S)) /\ Len(b) = k /\ \A i \in 1..k : b[i] = r[i]
  BY <1>1, <1>2, FirstPart
<1>5. \A i \in 1..k : a[i] = b[i]
  BY <1>1, <1>2, <1>3, <1>4
<1> HIDE DEF a, b
<1>6. a = b
  BY <1>3, <1>4, <1>5, SeqEqual
<1> QED
  BY <1>6 DEF Firsts, a, b, r

LEMMA WordsAre ==
  ASSUME DebugTyped, NEW k \in 0..Len(records)
  PROVE  /\ WordsBefore(k) \in Seq(WordSet) /\ Words(k) \in Seq(WordSet)
         /\ WordsBefore(k) \o Words(k) = Words(0)
         /\ k < Len(records) => WordsBefore(k + 1) = WordsBefore(k) \o records[k + 1]
         /\ WordsBefore(Len(records)) = Words(0) /\ Words(0) = FlattenSeq(records)
<1>1. \A r \in RecordsOf : r \in Seq(WordSet)
  BY RecordIs
<1>2. records \in Seq(Seq(WordSet))
  BY <1>1 DEF DebugTyped
<1>3. Words(k) = Laters(records, k) /\ Words(0) = Laters(records, 0)
  BY DEF Words, Laters
<1> QED
  BY <1>2, <1>3, FirstsAre DEF WordsBefore

LEMMA RecordsTyped ==
  ASSUME DebugTyped
  PROVE  records \in Seq(Seq(WordSet)) /\ Len(records) \in Nat
<1>1. \A r \in RecordsOf : r \in Seq(WordSet)
  BY RecordIs
<1> QED
  BY <1>1 DEF DebugTyped

\* How far a read of ReadDebug goes.
MostRead == IF rid < dpos THEN dpos - rid ELSE DebugSz - dpos

LEMMA ReadWordsAre ==
  ASSUME DebugTyped, rid # dpos, NEW n \in Nat
  PROVE  /\ ReadWords(n) \in Seq(WordSet) /\ Len(ReadWords(n)) = n
         /\ \A i \in 1..n : ReadWords(n)[i] = WordAt(rid + ((i - 1) % MostRead))
<1>1. rid \in Nat /\ dpos \in 0..DebugSz /\ rid <= DebugSz /\ DebugSz \in Nat /\ dpos \in Nat
  BY DebugAssumption DEF DebugTyped
<1>2. MostRead \in Nat /\ MostRead > 0
  BY <1>1 DEF MostRead
<1>3. ASSUME NEW i \in Nat PROVE WordAt(i) \in WordSet
  <2>1. CASE i < DebugSz
    <3>1. i \in 0..(DebugSz - 1)
      BY <1>1, <2>1
    <3>2. data[i] \in WordSet
      BY <3>1 DEF DebugTyped
    <3> QED
      BY <2>1, <3>2 DEF WordAt
  <2>2. Word(0, 0, dpos) \in WordSet /\ NoWord \in WordSet
    BY <1>1 DEF Word, NoWord, WordSet, Values
  <2>3. CASE ~(i < DebugSz)
    BY <2>2, <2>3 DEF WordAt
  <2> QED
    BY <2>1, <2>3
<1> DEFINE f == [i \in 1..n |-> WordAt(rid + ((i - 1) % MostRead))]
<1>4. ReadWords(n) = f
  BY DEF ReadWords, MostRead
<1>5. \A i \in 1..n : rid + ((i - 1) % MostRead) \in Nat
  BY <1>1, <1>2
<1>6. \A i \in 1..n : WordAt(rid + ((i - 1) % MostRead)) \in WordSet
  BY <1>3, <1>5
<1>7. f \in [1..n -> WordSet]
  BY <1>6
<1>8. f \in Seq(WordSet) /\ Len(f) = n
  BY <1>7
<1> QED
  BY <1>4, <1>8

LEMMA WriteTyped ==
  ASSUME DebugTyped, NEW n \in RecordSz, WriteRecord(n)
  PROVE  /\ DebugTyped' /\ pending' \in RecordsOf /\ records' = Append(records, pending')
         /\ Len(records') = Len(records) + 1
<1>1. Len(records) \in Nat /\ Len(records) + 1 \in Nat
  BY DEF DebugTyped
<1>2. pending' = WordsOf(Len(records) + 1, n) /\ records' = Append(records, pending')
  BY DEF WriteRecord
<1>3. pending' \in RecordsOf
  BY <1>1, <1>2 DEF RecordsOf
<1>4. pending' \in Seq(WordSet)
  BY <1>3, RecordIs
<1>5. records' \in Seq(RecordsOf) /\ Len(records') = Len(records) + 1
  BY <1>2, <1>3 DEF DebugTyped
<1>6. Len(records) < MaxRecords /\ MaxRecords \in Nat
  BY DebugAssumption DEF WriteRecord
<1>7. records' # <<>>
  BY <1>1, <1>5
<1>8. UNCHANGED <<data, dpos, rid, begun, head, told, failed, lapped>>
  BY DEF WriteRecord, readerVars
<1>9. begun' \in -1..Len(records') /\ Len(records') <= MaxRecords
  BY <1>1, <1>5, <1>6, <1>8 DEF DebugTyped
<1>10. DebugTyped'
  BY <1>4, <1>5, <1>7, <1>8, <1>9 DEF DebugTyped
<1> QED
  BY <1>2, <1>3, <1>5, <1>10

LEMMA CopyTyped ==
  ASSUME DebugTyped, CopyWords
  PROVE  DebugTyped'
<1> DEFINE n == Lesser(Len(pending), DebugSz - Wrapped)
<1>1. Len(pending) \in Nat /\ DebugSz \in Nat \ {0} /\ pending \in Seq(WordSet)
      /\ Wrapped \in 0..(DebugSz - 1) /\ data \in [0..(DebugSz - 1) -> WordSet]
  BY DebugAssumption DEF DebugTyped, Wrapped
<1>2. n \in 0..Len(pending) /\ n \in 0..(DebugSz - Wrapped)
  BY <1>1 DEF Lesser
<1>3. /\ data' = DataWith(n) /\ dpos' = Wrapped + n
      /\ pending' = SubSeq(pending, n + 1, Len(pending))
      /\ lapped' = (lapped \/ (begun # -1 /\ Len(Words(begun)) - Len(told) > DebugSz))
      /\ UNCHANGED <<records, rid, begun, head, told, failed>> /\ pending # <<>>
  BY DEF CopyWords, readerVars
<1> HIDE DEF n
<1>4. dpos' \in 0..DebugSz
  BY <1>1, <1>2, <1>3
<1>5. pending' \in Seq(WordSet)
  BY <1>1, <1>2, <1>3, PartsIs
<1>6. data' \in [0..(DebugSz - 1) -> WordSet]
  <2>1. ASSUME NEW i \in 0..(DebugSz - 1), i \in Wrapped..(Wrapped + n - 1)
        PROVE  pending[i - Wrapped + 1] \in WordSet
    <3>1. i - Wrapped + 1 \in 1..Len(pending)
      BY <1>1, <1>2, <2>1
    <3> QED
      BY <1>1, <3>1
  <2>2. DOMAIN data = 0..(DebugSz - 1)
    BY <1>1
  <2> QED
    BY <1>1, <1>3, <2>1, <2>2 DEF DataWith
<1>7. lapped' \in BOOLEAN
  BY <1>3
<1>8. records' = <<>> => pending' = <<>>
  BY <1>3 DEF DebugTyped
<1> QED
  BY <1>3, <1>4, <1>5, <1>6, <1>7, <1>8 DEF DebugTyped

LEMMA StartTyped ==
  ASSUME DebugTyped, StartDebug
  PROVE  DebugTyped'
<1>1. rid' = dpos /\ begun' \in {Len(records) - 1, Len(records)}
      /\ UNCHANGED <<data, dpos, pending, records, head, told, failed, lapped>>
      /\ (begun' = Len(records) - 1 => records # <<>>)
  <2>1. Len(records) \in Nat
    BY DEF DebugTyped
  <2> QED
    BY <2>1 DEF StartDebug
<1>2. Len(records) \in Nat /\ (records # <<>> => Len(records) > 0)
  BY DEF DebugTyped
<1>3. begun' \in 0..Len(records)
  BY <1>1, <1>2
<1>4. begun' \in -1..Len(records') /\ begun' # -1
  BY <1>1, <1>2, <1>3
<1> QED
  BY <1>1, <1>4 DEF DebugTyped

LEMMA HeadTyped ==
  ASSUME DebugTyped, ReadHead
  PROVE  DebugTyped'
<1>1. /\ begun # -1 /\ rid # dpos
      /\ UNCHANGED <<data, dpos, pending, records, rid, begun, told, lapped>>
  BY DEF ReadHead
<1>2. ReadWords(2) \in Seq(WordSet) /\ Len(ReadWords(2)) = 2
  BY <1>1, ReadWordsAre
<1>3. ReadWords(2)[2].value \in 0..DebugSz
  <2>1. ReadWords(2)[2] \in WordSet
    BY <1>2
  <2> QED
    BY <2>1 DEF WordSet, Values
<1>4. (failed' \in {"corrupt", "small"} /\ head' = head)
      \/ (head' = ReadWords(2)[2].value /\ failed' = failed)
  BY DEF ReadHead
<1>5. head' \in -1..DebugSz /\ failed' \in {"no", "corrupt", "small"}
  BY <1>3, <1>4, DebugAssumption DEF DebugTyped
<1> QED
  BY <1>1, <1>5 DEF DebugTyped

LEMMA BodyTyped ==
  ASSUME DebugTyped, ReadBody
  PROVE  DebugTyped'
<1>1. /\ head # -1 /\ head' = -1 /\ begun # -1
      /\ UNCHANGED <<data, dpos, pending, records, begun, failed, lapped>>
  BY DEF ReadBody, DebugTyped
<1>2. head \in 0..DebugSz /\ DebugSz \in Nat /\ rid \in 0..DebugSz /\ head \in Nat
  BY <1>1, DebugAssumption DEF DebugTyped
<1>3. CASE rid = dpos
  <2>1. told' = told /\ rid' = rid
    BY <1>3 DEF ReadBody
  <2> QED
    BY <1>1, <1>2, <2>1 DEF DebugTyped
<1>4. CASE rid # dpos
  <2>1. told' = told \o ReadWords(head) /\ rid' = RidAfter(head)
    BY <1>4 DEF ReadBody
  <2>2. ReadWords(head) \in Seq(WordSet)
    BY <1>2, <1>4, ReadWordsAre
  <2>3. told' \in Seq(WordSet)
    BY <2>1, <2>2 DEF DebugTyped
  <2>4. rid' \in 0..DebugSz
    BY <1>2, <2>1 DEF RidAfter
  <2> QED
    BY <1>1, <1>2, <2>3, <2>4 DEF DebugTyped
<1> QED
  BY <1>3, <1>4

LEMMA FirstsGrow ==
  ASSUME NEW S, NEW q \in Seq(Seq(S)), NEW j \in 0..Len(q), NEW i \in 0..j
  PROVE  \E t \in Seq(S) : Firsts(q, j) = Firsts(q, i) \o t
<1> DEFINE p == SubSeq(q, 1, j)
           a == SubSeq(q, 1, i)
           b == SubSeq(p, 1, i)
<1>1. p \in Seq(Seq(S)) /\ Len(p) = j /\ \A k \in 1..j : p[k] = q[k]
  BY FirstPart
<1>2. i \in 0..Len(q) /\ i \in Nat /\ j \in Nat /\ i <= j
  OBVIOUS
<1>3. a \in Seq(Seq(S)) /\ Len(a) = i /\ \A k \in 1..i : a[k] = q[k]
  BY <1>2, FirstPart
<1> HIDE DEF p, a
<1>4. i \in 0..Len(p)
  BY <1>1
<1>5. b \in Seq(Seq(S)) /\ Len(b) = i /\ \A k \in 1..i : b[k] = p[k]
  BY <1>1, <1>4, FirstPart
<1> HIDE DEF b
<1>6. \A k \in 1..i : b[k] = a[k]
  <2>1. ASSUME NEW k \in 1..i PROVE b[k] = a[k]
    <3>1. k \in 1..j
      BY <1>2
    <3>2. b[k] = p[k] /\ p[k] = q[k] /\ a[k] = q[k]
      BY <1>1, <1>3, <1>5, <3>1
    <3> QED
      BY <3>2
  <2> QED
    BY <2>1
<1>7. b = a
  BY <1>3, <1>5, <1>6, SeqEqual
<1>8. Firsts(p, i) \o Laters(p, i) = FlattenSeq(p) /\ Laters(p, i) \in Seq(S)
  BY <1>1, <1>4, FirstsAre
<1>9. Firsts(p, i) = Firsts(q, i) /\ Firsts(q, j) = FlattenSeq(p)
  BY <1>7 DEF Firsts, a, b, p
<1> QED
  BY <1>8, <1>9

LEMMA CopiedRecordsAre ==
  ASSUME DebugTyped
  PROVE  /\ CopiedRecords \in 0..Len(records) /\ Len(records) \in Nat
         /\ pending = <<>> => CopiedRecords = Len(records)
         /\ pending # <<>> => CopiedRecords = Len(records) - 1 /\ CopiedRecords + 1 \in 1..Len(records)
<1>1. Len(records) \in Nat /\ (pending # <<>> => Len(records) > 0)
  BY DEF DebugTyped
<1> QED
  BY <1>1 DEF CopiedRecords

LEMMA FirstTurnIs ==
  ASSUME DebugTyped, FirstTurn, Len(Words(0)) < DebugSz
  PROVE  /\ Words(0) = WordsBefore(CopiedRecords) \o pending /\ Words(0) \in Seq(WordSet)
         /\ dpos + Len(pending) = Len(Words(0)) /\ dpos \in Nat /\ dpos < DebugSz
         /\ Len(pending) \in Nat /\ Wrapped = dpos /\ Len(Words(0)) \in Nat
<1>1. CopiedRecords \in 0..Len(records) /\ WordsBefore(CopiedRecords) \in Seq(WordSet) /\ pending \in Seq(WordSet)
  BY CopiedRecordsAre, WordsAre DEF DebugTyped
<1>2. Words(0) = WordsBefore(CopiedRecords) \o pending
  <2>1. CASE pending = <<>>
    <3>1. Words(0) = WordsBefore(CopiedRecords)
      BY <1>1, <2>1, CopiedRecordsAre, WordsAre
    <3>2. WordsBefore(CopiedRecords) \o <<>> = WordsBefore(CopiedRecords)
      BY <1>1, ConcatEmptySeq
    <3> QED
      BY <2>1, <3>1, <3>2
  <2>2. CASE pending # <<>>
    <3>1. CopiedRecords + 1 = Len(records) /\ CopiedRecords < Len(records)
      BY <2>2, CopiedRecordsAre
    <3>2. pending = records[Len(records)]
      BY <2>2 DEF FirstTurn, Last
    <3>3. WordsBefore(CopiedRecords + 1) = WordsBefore(CopiedRecords) \o records[CopiedRecords + 1]
          /\ WordsBefore(Len(records)) = Words(0)
      BY <1>1, <3>1, WordsAre
    <3> QED
      BY <3>1, <3>2, <3>3
  <2> QED
    BY <2>1, <2>2
<1>3. Words(0) \in Seq(WordSet) /\ Len(Words(0)) = Len(WordsBefore(CopiedRecords)) + Len(pending)
  BY <1>1, <1>2, ConcatProperties
<1>4. dpos = Len(WordsBefore(CopiedRecords)) /\ Len(WordsBefore(CopiedRecords)) \in Nat /\ Len(pending) \in Nat
  BY <1>1 DEF FirstTurn
<1>5. dpos < DebugSz /\ dpos \in Nat
  BY <1>3, <1>4, DebugAssumption
<1> QED
  BY <1>2, <1>3, <1>4, <1>5 DEF Wrapped

\* What is read where a record begins is that record.
LEMMA AtRecord ==
  ASSUME DebugTyped, FirstTurn, Len(Words(0)) < DebugSz,
         NEW r \in 0..CopiedRecords, r < CopiedRecords, rid = Len(WordsBefore(r))
  PROVE  /\ records[r + 1] \in RecordsOf /\ r + 1 \in 0..CopiedRecords
         /\ rid < dpos /\ rid + Len(records[r + 1]) <= dpos
         /\ rid + Len(records[r + 1]) = Len(WordsBefore(r + 1))
         /\ WordsBefore(r + 1) = WordsBefore(r) \o records[r + 1]
         /\ \A n \in 1..Len(records[r + 1]) :
              /\ Len(ReadWords(n)) = n /\ ReadWords(n) \in Seq(WordSet)
              /\ \A i \in 1..n : ReadWords(n)[i] = records[r + 1][i]
<1> DEFINE c == records[r + 1]
           w == Words(0)
<1>1. /\ CopiedRecords \in 0..Len(records) /\ Len(records) \in Nat /\ r \in Nat /\ CopiedRecords \in Nat
      /\ r + 1 \in 0..CopiedRecords /\ r + 1 \in 1..Len(records) /\ r \in 0..Len(records)
      /\ r + 1 \in 0..Len(records) /\ r < Len(records)
  BY CopiedRecordsAre
<1>2. c \in RecordsOf
  BY <1>1 DEF DebugTyped
<1>3. c \in Seq(WordSet) /\ Len(c) \in 3..DebugSz
  BY <1>2, RecordIs
<1> HIDE DEF c
<1>4. /\ WordsBefore(r) \in Seq(WordSet) /\ WordsBefore(r + 1) = WordsBefore(r) \o c
  BY <1>1, WordsAre DEF c
<1>5. /\ WordsBefore(r + 1) \in Seq(WordSet) /\ Words(r + 1) \in Seq(WordSet)
      /\ w = WordsBefore(r + 1) \o Words(r + 1)
  BY <1>1, WordsAre
<1> HIDE DEF w
<1>6. PICK t \in Seq(WordSet) : WordsBefore(CopiedRecords) = WordsBefore(r + 1) \o t
  <2>1. records \in Seq(Seq(WordSet))
    BY RecordsTyped
  <2> QED
    BY <1>1, <2>1, FirstsGrow DEF WordsBefore
<1>7. /\ Len(WordsBefore(r + 1)) = rid + Len(c) /\ rid \in Nat /\ Len(c) \in Nat
      /\ \A i \in 1..Len(c) : WordsBefore(r + 1)[rid + i] = c[i]
  <2>1. Len(WordsBefore(r) \o c) = Len(WordsBefore(r)) + Len(c)
        /\ \A i \in 1..(Len(WordsBefore(r)) + Len(c)) :
             (WordsBefore(r) \o c)[i] = IF i <= Len(WordsBefore(r)) THEN WordsBefore(r)[i] ELSE c[i - Len(WordsBefore(r))]
    BY <1>3, <1>4, ConcatProperties
  <2>2. Len(WordsBefore(r)) = rid /\ rid \in Nat /\ Len(c) \in Nat
    BY <1>3, <1>4
  <2>3. ASSUME NEW i \in 1..Len(c) PROVE (WordsBefore(r) \o c)[rid + i] = c[i]
    <3>1. rid + i \in 1..(rid + Len(c)) /\ ~(rid + i <= rid) /\ (rid + i) - rid = i
      BY <2>2
    <3> QED
      BY <2>1, <2>2, <3>1
  <2> QED
    BY <1>4, <2>1, <2>2, <2>3
<1>8. Len(WordsBefore(CopiedRecords)) = rid + Len(c) + Len(t) /\ Len(t) \in Nat
  <2>1. Len(WordsBefore(r + 1) \o t) = Len(WordsBefore(r + 1)) + Len(t)
    BY <1>5, ConcatProperties
  <2>2. Len(WordsBefore(CopiedRecords)) = Len(WordsBefore(r + 1) \o t) /\ Len(t) \in Nat
    BY <1>6
  <2>3. Len(WordsBefore(r + 1)) = rid + Len(c)
    BY <1>7
  <2> QED
    BY <2>1, <2>2, <2>3
<1>9. rid + Len(c) <= dpos /\ rid < dpos /\ dpos < DebugSz /\ dpos \in Nat /\ DebugSz \in Nat
  <2>1. dpos = Len(WordsBefore(CopiedRecords)) /\ dpos < DebugSz /\ dpos \in Nat
    BY FirstTurnIs DEF FirstTurn
  <2> QED
    BY <1>3, <1>7, <1>8, <2>1, DebugAssumption
<1>10. ASSUME NEW i \in 1..Len(c) PROVE data[rid + i - 1] = c[i]
  <2>1. rid + i \in 1..dpos /\ (rid + i) - 1 = rid + i - 1 /\ rid + i \in 1..Len(WordsBefore(r + 1))
    BY <1>7, <1>9
  <2>2. data[(rid + i) - 1] = w[rid + i]
    BY <2>1 DEF FirstTurn, w
  <2>3. w[rid + i] = WordsBefore(r + 1)[rid + i]
    BY <1>5, <2>1, ConcatProperties
  <2> QED
    BY <1>7, <2>1, <2>2, <2>3
<1>11. ASSUME NEW n \in 1..Len(c)
       PROVE  /\ Len(ReadWords(n)) = n /\ ReadWords(n) \in Seq(WordSet)
              /\ \A i \in 1..n : ReadWords(n)[i] = c[i]
  <2>1. rid # dpos /\ n \in Nat /\ MostRead = dpos - rid
    BY <1>7, <1>9 DEF MostRead
  <2>2. /\ ReadWords(n) \in Seq(WordSet) /\ Len(ReadWords(n)) = n
        /\ \A i \in 1..n : ReadWords(n)[i] = WordAt(rid + ((i - 1) % MostRead))
    BY <2>1, ReadWordsAre
  <2>3. ASSUME NEW i \in 1..n PROVE ReadWords(n)[i] = c[i]
    <3>1. i - 1 \in Nat /\ i - 1 < MostRead /\ MostRead \in Nat /\ i \in 1..Len(c)
      BY <1>7, <1>9, <2>1
    <3>2. (i - 1) % MostRead = i - 1
      BY <3>1
    <3>3. rid + (i - 1) = rid + i - 1 /\ rid + i - 1 < DebugSz
      BY <1>7, <1>9, <3>1
    <3>4. WordAt(rid + i - 1) = data[rid + i - 1]
      BY <3>3 DEF WordAt
    <3> QED
      BY <1>10, <2>2, <3>1, <3>2, <3>3, <3>4
  <2> QED
    BY <2>2, <2>3
<1> QED
  BY <1>1, <1>2, <1>4, <1>7, <1>9, <1>11 DEF c

LEMMA WriteTurn ==
  ASSUME DebugTyped, FirstTurn, NEW n \in RecordSz, WriteRecord(n), Len(Words(0)) < DebugSz
  PROVE  FirstTurn'
<1>1. /\ DebugTyped' /\ pending' \in RecordsOf /\ records' = Append(records, pending')
      /\ Len(records') = Len(records) + 1 /\ pending = <<>>
      /\ UNCHANGED <<data, dpos, rid, begun, head, told, failed>>
  BY WriteTyped DEF WriteRecord, readerVars
<1>2. pending' \in Seq(WordSet) /\ pending' # <<>>
  BY <1>1, RecordIs
<1>3. /\ records \in Seq(Seq(WordSet)) /\ Len(records) \in Nat
      /\ CopiedRecords = Len(records) /\ CopiedRecords' = Len(records)
  BY <1>1, <1>2, RecordsTyped DEF CopiedRecords
<1>4. ASSUME NEW k \in 0..Len(records) PROVE WordsBefore(k)' = WordsBefore(k)
  BY <1>1, <1>2, <1>3, FirstsOfAppend DEF WordsBefore
<1>5. Words(0)' = Words(0) \o pending' /\ Words(0) \in Seq(WordSet) /\ Words(0) = WordsBefore(CopiedRecords)
  <2>1. FlattenSeq(Append(records, pending')) = FlattenSeq(records) \o pending'
    BY <1>2, <1>3, FlattenAppend
  <2>2. Words(0) = FlattenSeq(records) /\ Words(0) \in Seq(WordSet) /\ Words(0) = WordsBefore(CopiedRecords)
    <3>1. 0 \in 0..Len(records)
      BY <1>3
    <3> QED
      BY <1>3, <3>1, WordsAre
  <2>3. Words(0)' = FlattenSeq(records')
    <3>1. records' \in Seq(Seq(WordSet)) /\ 0 \in 0..Len(records')
      BY <1>1, <1>2, <1>3
    <3>2. Words(0)' = Laters(records', 0)
      BY DEF Words, Laters
    <3> QED
      BY <3>1, <3>2, FirstsAre
  <2> QED
    BY <1>1, <2>1, <2>2, <2>3
<1>6. pending' = Last(records')
  BY <1>1, <1>3 DEF Last
<1>7. dpos' = Len(WordsBefore(CopiedRecords))'
  <2>1. CopiedRecords \in 0..Len(records) /\ WordsBefore(CopiedRecords)' = Firsts(records', CopiedRecords')
    BY <1>3 DEF WordsBefore
  <2>2. WordsBefore(Len(records))' = Firsts(records', Len(records'))
        \/ Firsts(records', Len(records)) = WordsBefore(Len(records))
    BY <1>1, <1>2, <1>3, <2>1, FirstsOfAppend DEF WordsBefore
  <2>3. Firsts(records', Len(records)) = Firsts(records, Len(records))
    BY <1>1, <1>2, <1>3, <2>1, FirstsOfAppend
  <2> QED
    BY <1>1, <1>3, <2>1, <2>3 DEF FirstTurn, WordsBefore
<1>8. ASSUME NEW i \in 1..dpos' PROVE data'[i - 1] = Words(0)'[i]
  <2>1. dpos = Len(Words(0)) /\ data[i - 1] = Words(0)[i]
    BY <1>1, <1>5 DEF FirstTurn
  <2>2. (Words(0) \o pending')[i] = Words(0)[i]
    BY <1>1, <1>2, <1>5, <2>1, ConcatProperties
  <2> QED
    BY <1>1, <1>5, <2>1, <2>2
<1>9. begun' # -1 => \E r \in (begun..CopiedRecords)' : Stands(r)'
  <2> SUFFICES ASSUME begun # -1 PROVE \E r \in begun..CopiedRecords : Stands(r)'
    BY <1>1, <1>3
  <2>1. PICK r \in begun..CopiedRecords : Stands(r)
    BY DEF FirstTurn
  <2>2. begun \in 0..Len(records) /\ r \in 0..Len(records)
    BY <1>3 DEF DebugTyped
  <2>3. Firsts(records', r) = WordsBefore(r) /\ Firsts(records', begun) = WordsBefore(begun)
    BY <1>1, <1>2, <1>3, <2>2, FirstsOfAppend DEF WordsBefore
  <2>4. head # -1 => records'[r + 1] = records[r + 1]
    <3>1. head # -1 => r + 1 \in 1..Len(records)
      BY <1>3, <2>1, <2>2 DEF Stands
    <3> QED
      BY <1>1, <1>3, <3>1
  <2>5. Stands(r)'
    BY <1>1, <1>3, <2>1, <2>3, <2>4 DEF Stands, WordsBefore
  <2> QED
    BY <2>5
<1> QED
  BY <1>1, <1>6, <1>7, <1>8, <1>9 DEF FirstTurn

LEMMA CopyTurn ==
  ASSUME DebugTyped, FirstTurn, CopyWords, Len(Words(0)) < DebugSz
  PROVE  FirstTurn'
<1>1. /\ Words(0) = WordsBefore(CopiedRecords) \o pending /\ Words(0) \in Seq(WordSet)
      /\ dpos + Len(pending) = Len(Words(0)) /\ dpos \in Nat /\ dpos < DebugSz
      /\ Len(pending) \in Nat /\ Wrapped = dpos /\ DebugSz \in Nat
  BY FirstTurnIs, DebugAssumption
<1>2. Lesser(Len(pending), DebugSz - Wrapped) = Len(pending)
  <2>1. Len(pending) < DebugSz - dpos
    BY <1>1
  <2> QED
    BY <1>1, <2>1 DEF Lesser
<1>3. /\ data' = DataWith(Len(pending)) /\ dpos' = dpos + Len(pending)
      /\ pending' = SubSeq(pending, Len(pending) + 1, Len(pending))
      /\ UNCHANGED <<records, rid, begun, head, told, failed>> /\ pending # <<>>
  BY <1>1, <1>2 DEF CopyWords, readerVars
<1>4. pending' = <<>>
  <2>1. pending \in Seq(WordSet) /\ Len(pending) \in 0..Len(pending)
    BY <1>1 DEF DebugTyped
  <2>2. pending' \in Seq(WordSet) /\ Len(pending') = Len(pending) - Len(pending)
    BY <1>3, <2>1, PartsIs
  <2> QED
    BY <1>1, <2>2, EmptySeq
<1>5. CopiedRecords' = Len(records) /\ CopiedRecords \in 0..Len(records) /\ Len(records) \in Nat
  BY <1>3, <1>4, CopiedRecordsAre DEF CopiedRecords
<1>6. Words(0)' = Words(0) /\ \A k : WordsBefore(k)' = WordsBefore(k)
  BY <1>3 DEF Words, WordsBefore
<1>7. dpos' = Len(WordsBefore(CopiedRecords))'
  <2>1. WordsBefore(Len(records)) = Words(0)
    BY <1>5, WordsAre
  <2>2. WordsBefore(CopiedRecords)' = Firsts(records, Len(records))
    BY <1>3, <1>5 DEF WordsBefore
  <2> QED
    BY <1>1, <1>3, <2>1, <2>2 DEF WordsBefore
<1>8. ASSUME NEW i \in 1..dpos' PROVE data'[i - 1] = Words(0)[i]
  <2>1. WordsBefore(CopiedRecords) \in Seq(WordSet) /\ pending \in Seq(WordSet) /\ dpos = Len(WordsBefore(CopiedRecords))
    BY <1>5, WordsAre DEF DebugTyped, FirstTurn
  <2>2. i \in 1..Len(Words(0)) /\ i \in 1..(dpos + Len(pending))
    BY <1>1, <1>3
  <2>3. (WordsBefore(CopiedRecords) \o pending)[i] =
          IF i <= Len(WordsBefore(CopiedRecords)) THEN WordsBefore(CopiedRecords)[i] ELSE pending[i - Len(WordsBefore(CopiedRecords))]
    BY <2>1, <2>2, ConcatProperties
  <2>4. i - 1 \in DOMAIN data
    <3>1. i - 1 \in 0..(DebugSz - 1)
      <4>1. i <= dpos + Len(pending) /\ i >= 1 /\ i \in Nat
        BY <1>1, <2>2
      <4> QED
        BY <1>1, <4>1
    <3> QED
      BY <3>1 DEF DebugTyped
  <2>5. data'[i - 1] = IF i - 1 \in dpos..(dpos + Len(pending) - 1)
                       THEN pending[(i - 1) - dpos + 1] ELSE data[i - 1]
    BY <1>1, <1>3, <2>4 DEF DataWith
  <2>6. CASE i <= dpos
    <3>1. ~(i - 1 \in dpos..(dpos + Len(pending) - 1)) /\ i \in 1..dpos
      BY <1>1, <2>2, <2>6
    <3>2. data[i - 1] = Words(0)[i]
      BY <3>1 DEF FirstTurn
    <3> QED
      BY <2>5, <3>1, <3>2
  <2>7. CASE ~(i <= dpos)
    <3>1. i - 1 \in dpos..(dpos + Len(pending) - 1) /\ (i - 1) - dpos + 1 = i - dpos
      BY <1>1, <2>2, <2>7
    <3>2. data'[i - 1] = pending[i - dpos]
      BY <2>5, <3>1
    <3>3. (WordsBefore(CopiedRecords) \o pending)[i] = pending[i - dpos]
      BY <2>1, <2>3, <2>7
    <3> QED
      BY <1>1, <3>2, <3>3
  <2> QED
    BY <2>6, <2>7
<1>9. begun # -1 => \E r \in begun..CopiedRecords' : Stands(r)'
  <2> SUFFICES ASSUME begun # -1 PROVE \E r \in begun..CopiedRecords' : Stands(r)'
    OBVIOUS
  <2>1. PICK r \in begun..CopiedRecords : Stands(r)
    BY DEF FirstTurn
  <2>2. r \in begun..CopiedRecords' /\ (r < CopiedRecords => r < CopiedRecords')
    BY <1>5 DEF DebugTyped
  <2>3. Stands(r)'
    BY <1>3, <2>1, <2>2 DEF Stands, WordsBefore
  <2> QED
    BY <2>2, <2>3
<1> QED
  BY <1>3, <1>4, <1>6, <1>7, <1>8, <1>9 DEF FirstTurn

LEMMA StartTurn ==
  ASSUME DebugTyped, FirstTurn, StartDebug
  PROVE  FirstTurn'
<1>1. /\ begun = -1 /\ rid' = dpos /\ told = <<>> /\ head = -1
      /\ UNCHANGED <<data, dpos, pending, records, head, told, failed>>
      /\ begun' = IF records # <<>> /\ pending = Last(records)
                  THEN Len(records) - 1 ELSE Len(records)
  BY DEF StartDebug, DebugTyped
<1>2. begun' = CopiedRecords
  <2>1. CASE records # <<>> /\ pending = Last(records)
    <3>1. Last(records) \in RecordsOf
      <4>1. Len(records) \in 1..Len(records)
        BY <2>1 DEF DebugTyped
      <4> QED
        BY <4>1 DEF DebugTyped, Last
    <3>2. pending # <<>>
      BY <2>1, <3>1, RecordIs
    <3> QED
      BY <1>1, <2>1, <3>2 DEF CopiedRecords
  <2>2. CASE ~(records # <<>> /\ pending = Last(records))
    <3>1. pending = <<>>
      BY <2>2 DEF FirstTurn, DebugTyped
    <3> QED
      BY <1>1, <2>2, <3>1 DEF CopiedRecords
  <2> QED
    BY <2>1, <2>2
<1>3. CopiedRecords' = CopiedRecords /\ CopiedRecords \in 0..Len(records) /\ CopiedRecords \in CopiedRecords..CopiedRecords
  BY <1>1, CopiedRecordsAre DEF CopiedRecords
<1>4. Stands(CopiedRecords)'
  <2>1. WordsBefore(CopiedRecords) \in Seq(WordSet)
    BY <1>3, WordsAre
  <2>2. WordsBefore(CopiedRecords) \o <<>> = WordsBefore(CopiedRecords)
    BY <2>1, ConcatEmptySeq
  <2>3. WordsBefore(begun)' = WordsBefore(CopiedRecords) /\ WordsBefore(CopiedRecords)' = WordsBefore(CopiedRecords)
    BY <1>1, <1>2, <1>3 DEF WordsBefore
  <2> QED
    BY <1>1, <2>2, <2>3 DEF Stands, FirstTurn
<1>5. \E r \in (begun..CopiedRecords)' : Stands(r)'
  BY <1>2, <1>3, <1>4
<1>6. Words(0)' = Words(0) /\ WordsBefore(CopiedRecords)' = WordsBefore(CopiedRecords)
  BY <1>1, <1>3 DEF Words, WordsBefore
<1> QED
  BY <1>1, <1>5, <1>6 DEF FirstTurn

LEMMA HeadTurn ==
  ASSUME DebugTyped, FirstTurn, ReadHead, Len(Words(0)) < DebugSz
  PROVE  FirstTurn'
<1>1. /\ begun # -1 /\ rid # dpos
      /\ UNCHANGED <<data, dpos, pending, records, rid, begun, told>>
  BY DEF ReadHead
<1>2. PICK r \in begun..CopiedRecords : Stands(r)
  BY <1>1 DEF FirstTurn
<1>3. r \in 0..CopiedRecords /\ r < CopiedRecords /\ rid = Len(WordsBefore(r)) /\ begun \in 0..Len(records)
  <2>1. rid = Len(WordsBefore(r)) /\ dpos = Len(WordsBefore(CopiedRecords))
    BY <1>2 DEF Stands, FirstTurn
  <2>2. r # CopiedRecords
    BY <1>1, <2>1
  <2>3. begun \in 0..Len(records) /\ CopiedRecords \in Nat
    BY <1>1, CopiedRecordsAre DEF DebugTyped
  <2> QED
    BY <2>1, <2>2, <2>3
<1> DEFINE c == records[r + 1]
<1>4. /\ c \in RecordsOf
      /\ \A n \in 1..Len(c) : \A i \in 1..n : ReadWords(n)[i] = c[i]
  BY <1>3, AtRecord
<1> HIDE DEF c
<1>5. Len(c) \in 3..DebugSz /\ c[1].at = 1 /\ c[2].at = 2 /\ c[2].value = Len(c)
  BY <1>4, RecordIs
<1>6. ReadWords(2)[1] = c[1] /\ ReadWords(2)[2] = c[2]
  <2>1. 2 \in 1..Len(c)
    BY <1>5
  <2> QED
    BY <1>4, <2>1
<1>7. ReadWords(2)[1].at = 1 /\ ReadWords(2)[2].at # 1 /\ ReadWords(2)[2].value = Len(c)
  BY <1>5, <1>6
<1>8. head' = Len(c) /\ failed' = failed
  BY <1>7 DEF ReadHead
<1>9. CopiedRecords' = CopiedRecords /\ Words(0)' = Words(0) /\ \A k : WordsBefore(k)' = WordsBefore(k)
  BY <1>1 DEF CopiedRecords, Words, WordsBefore
<1>10. Stands(r)'
  BY <1>1, <1>2, <1>3, <1>8, <1>9 DEF Stands, c
<1>11. \E q \in (begun..CopiedRecords)' : Stands(q)'
  BY <1>1, <1>2, <1>9, <1>10
<1> QED
  BY <1>1, <1>8, <1>9, <1>11 DEF FirstTurn

LEMMA BodyTurn ==
  ASSUME DebugTyped, FirstTurn, ReadBody, Len(Words(0)) < DebugSz
  PROVE  FirstTurn'
<1>1. /\ head # -1 /\ head' = -1 /\ begun # -1
      /\ UNCHANGED <<data, dpos, pending, records, begun, failed>>
  BY DEF ReadBody, DebugTyped
<1>2. PICK r \in begun..CopiedRecords : Stands(r)
  BY <1>1 DEF FirstTurn
<1> DEFINE c == records[r + 1]
<1>3. /\ r \in 0..CopiedRecords /\ r < CopiedRecords /\ rid = Len(WordsBefore(r)) /\ head = Len(c)
      /\ begun \in 0..Len(records) /\ WordsBefore(begun) \o told = WordsBefore(r)
  BY <1>1, <1>2, CopiedRecordsAre DEF Stands, DebugTyped
<1>4. /\ c \in RecordsOf /\ r + 1 \in 0..CopiedRecords
      /\ rid < dpos /\ rid + Len(c) <= dpos /\ rid + Len(c) = Len(WordsBefore(r + 1))
      /\ WordsBefore(r + 1) = WordsBefore(r) \o c
      /\ \A n \in 1..Len(c) :
           /\ Len(ReadWords(n)) = n /\ ReadWords(n) \in Seq(WordSet)
           /\ \A i \in 1..n : ReadWords(n)[i] = c[i]
  BY <1>3, AtRecord
<1> HIDE DEF c
<1>5. c \in Seq(WordSet) /\ Len(c) \in 3..DebugSz /\ Len(c) \in 1..Len(c)
  BY <1>4, RecordIs
<1>6. ReadWords(head) = c
  <2>1. /\ Len(ReadWords(head)) = Len(c) /\ ReadWords(head) \in Seq(WordSet)
        /\ \A i \in 1..Len(c) : ReadWords(head)[i] = c[i]
    BY <1>3, <1>4, <1>5
  <2> QED
    BY <1>5, <2>1, SeqEqual
<1>7. told' = told \o c /\ rid' = RidAfter(Len(c))
  <2>1. rid # dpos
    BY <1>4 DEF DebugTyped
  <2> QED
    BY <1>3, <1>6, <2>1 DEF ReadBody
<1>8. rid' = Len(WordsBefore(r + 1))
  <2>1. dpos < DebugSz /\ rid \in Nat /\ DebugSz \in Nat /\ dpos \in Nat
    BY FirstTurnIs, DebugAssumption DEF DebugTyped
  <2>2. ~(rid + Len(c) >= DebugSz)
    BY <1>4, <1>5, <2>1
  <2> QED
    BY <1>4, <1>7, <2>2 DEF RidAfter
<1>9. CopiedRecords' = CopiedRecords /\ Words(0)' = Words(0) /\ \A k : WordsBefore(k)' = WordsBefore(k)
  BY <1>1 DEF CopiedRecords, Words, WordsBefore
<1>10. WordsBefore(begun) \o told' = WordsBefore(r + 1)
  <2>1. WordsBefore(begun) \in Seq(WordSet) /\ told \in Seq(WordSet)
    BY <1>3, WordsAre DEF DebugTyped
  <2>2. (WordsBefore(begun) \o told) \o c = WordsBefore(begun) \o (told \o c)
    BY <1>5, <2>1, Together
  <2> QED
    BY <1>3, <1>4, <1>7, <2>2
<1>11. Stands(r + 1)'
  BY <1>1, <1>8, <1>9, <1>10 DEF Stands
<1>12. r + 1 \in (begun..CopiedRecords)'
  BY <1>1, <1>2, <1>3, <1>4, <1>9, CopiedRecordsAre
<1>13. \E q \in (begun..CopiedRecords)' : Stands(q)'
  BY <1>11, <1>12
<1> QED
  BY <1>1, <1>9, <1>13 DEF FirstTurn

LEMMA DebugStart == DebugInit => DebugInv
<1> SUFFICES ASSUME DebugInit PROVE DebugInv
  OBVIOUS
<1>1. NoWord \in WordSet /\ DebugSz \in Nat /\ MaxRecords \in Nat
  BY DebugAssumption DEF NoWord, Word, WordSet, Values
<1>2. data \in [0..(DebugSz - 1) -> WordSet]
  BY <1>1 DEF DebugInit
<1>3. DebugTyped
  <2>1. records = <<>> /\ Len(records) = 0 /\ records \in Seq(RecordsOf)
    BY DEF DebugInit
  <2>2. pending \in Seq(WordSet) /\ told \in Seq(WordSet)
    BY DEF DebugInit
  <2>3. dpos \in 0..DebugSz /\ rid \in 0..DebugSz /\ head \in -1..DebugSz
        /\ begun \in -1..Len(records) /\ Len(records) <= MaxRecords
    BY <1>1, <2>1 DEF DebugInit
  <2> QED
    BY <1>2, <2>1, <2>2, <2>3 DEF DebugInit, DebugTyped
<1>4. CopiedRecords = 0
  BY DEF DebugInit, CopiedRecords
<1>5. dpos = Len(WordsBefore(CopiedRecords))
  <2>1. WordsBefore(0) = Words(0) /\ Words(0) = FlattenSeq(<<>>)
    <3>1. 0 \in 0..Len(records) /\ Len(records) = 0 /\ records = <<>>
      BY DEF DebugInit
    <3> QED
      BY <1>3, <3>1, WordsAre
  <2> QED
    BY <1>4, <2>1, FlattenEmpty DEF DebugInit
<1>6. FirstTurn
  BY <1>5 DEF DebugInit, FirstTurn
<1> QED
  BY <1>3, <1>6 DEF DebugInv

\* What was written does not get less.
LEMMA WordsGrow ==
  ASSUME DebugTyped, [DebugNext]_debugVars
  PROVE  DebugTyped' /\ (Len(Words(0))' < DebugSz => Len(Words(0)) < DebugSz)
<1>1. 0 \in 0..Len(records) /\ DebugSz \in Nat
  BY RecordsTyped, DebugAssumption
<1>2. Words(0) \in Seq(WordSet) /\ Words(0) = FlattenSeq(records)
  BY <1>1, WordsAre
<1>3. ASSUME NEW n \in RecordSz, WriteRecord(n)
      PROVE  DebugTyped' /\ (Len(Words(0))' < DebugSz => Len(Words(0)) < DebugSz)
  <2>1. /\ DebugTyped' /\ pending' \in RecordsOf /\ records' = Append(records, pending')
        /\ Len(records') = Len(records) + 1
    BY <1>3, WriteTyped
  <2>2. pending' \in Seq(WordSet) /\ records \in Seq(Seq(WordSet))
    BY <2>1, RecordIs, RecordsTyped
  <2>3. FlattenSeq(records') = FlattenSeq(records) \o pending'
    BY <2>1, <2>2, FlattenAppend
  <2>4. Words(0)' = FlattenSeq(records')
    <3>1. records' \in Seq(Seq(WordSet)) /\ 0 \in 0..Len(records')
      BY <2>1, <2>2, <1>1
    <3>2. Words(0)' = Laters(records', 0)
      BY DEF Words, Laters
    <3> QED
      BY <3>1, <3>2, FirstsAre
  <2>5. Len(Words(0) \o pending') = Len(Words(0)) + Len(pending')
    BY <1>2, <2>2, ConcatProperties
  <2>6. Len(Words(0))' = Len(Words(0)) + Len(pending') /\ Len(pending') \in Nat
        /\ Len(Words(0)) \in Nat
    BY <1>2, <2>2, <2>3, <2>4, <2>5
  <2> QED
    BY <1>1, <2>1, <2>6
<1>4. records' = records => Words(0)' = Words(0)
  BY DEF Words
<1>5. CASE CopyWords
  BY <1>4, <1>5, CopyTyped DEF CopyWords
<1>6. CASE StartDebug
  BY <1>4, <1>6, StartTyped DEF StartDebug
<1>7. CASE ReadHead
  BY <1>4, <1>7, HeadTyped DEF ReadHead
<1>8. CASE ReadBody
  BY <1>4, <1>8, BodyTyped DEF ReadBody
<1>9. CASE UNCHANGED debugVars
  BY <1>4, <1>9 DEF debugVars, DebugTyped
<1> QED
  BY <1>3, <1>5, <1>6, <1>7, <1>8, <1>9 DEF DebugNext

LEMMA DebugSteps == DebugInv /\ [DebugNext]_debugVars => DebugInv'
<1> SUFFICES ASSUME DebugInv, [DebugNext]_debugVars PROVE DebugInv'
  OBVIOUS
<1>1. DebugTyped
  BY DEF DebugInv
<1>2. DebugTyped' /\ (Len(Words(0))' < DebugSz => Len(Words(0)) < DebugSz)
  BY <1>1, WordsGrow
<1>3. ASSUME Len(Words(0)) < DebugSz PROVE FirstTurn'
  <2>1. FirstTurn
    BY <1>3 DEF DebugInv
  <2>2. ASSUME NEW n \in RecordSz, WriteRecord(n) PROVE FirstTurn'
    BY <1>1, <1>3, <2>1, <2>2, WriteTurn
  <2>3. CASE CopyWords
    BY <1>1, <1>3, <2>1, <2>3, CopyTurn
  <2>4. CASE StartDebug
    BY <1>1, <2>1, <2>4, StartTurn
  <2>5. CASE ReadHead
    BY <1>1, <1>3, <2>1, <2>5, HeadTurn
  <2>6. CASE ReadBody
    BY <1>1, <1>3, <2>1, <2>6, BodyTurn
  <2>7. CASE UNCHANGED debugVars
    BY <2>1, <2>7 DEF debugVars, FirstTurn, CopiedRecords, Words, WordsBefore, Stands
  <2> QED
    BY <2>2, <2>3, <2>4, <2>5, <2>6, <2>7 DEF DebugNext
<1> QED
  BY <1>2, <1>3 DEF DebugInv

LEMMA InvTells == DebugInv => DebugTypeOK /\ InOrderAtFirst
<1> SUFFICES ASSUME DebugInv PROVE DebugTypeOK /\ InOrderAtFirst
  OBVIOUS
<1>1. DebugTyped
  BY DEF DebugInv
<1>2. DebugTypeOK
  <2>1. Len(records) \in Nat /\ MaxRecords \in Nat
    BY <1>1, DebugAssumption DEF DebugTyped
  <2>2. begun \in -1..MaxRecords
    BY <1>1, <2>1 DEF DebugTyped
  <2> QED
    BY <1>1, <2>2 DEF DebugTyped, DebugTypeOK
<1>3. ASSUME Len(Words(0)) < DebugSz, begun # -1
      PROVE  failed = "no" /\ IsPrefix(told, Words(begun))
  <2>1. FirstTurn
    BY <1>3 DEF DebugInv
  <2>2. PICK r \in begun..CopiedRecords : Stands(r)
    BY <1>3, <2>1 DEF FirstTurn
  <2>3. begun \in 0..Len(records) /\ r \in 0..Len(records)
    BY <1>1, <1>3, CopiedRecordsAre DEF DebugTyped
  <2>4. /\ WordsBefore(begun) \in Seq(WordSet) /\ Words(begun) \in Seq(WordSet)
        /\ WordsBefore(begun) \o Words(begun) = Words(0)
    BY <1>1, <2>3, WordsAre
  <2>5. /\ WordsBefore(r) \in Seq(WordSet) /\ Words(r) \in Seq(WordSet)
        /\ WordsBefore(r) \o Words(r) = Words(0)
    BY <1>1, <2>3, WordsAre
  <2>6. WordsBefore(begun) \o told = WordsBefore(r) /\ told \in Seq(WordSet)
    BY <1>1, <2>2 DEF Stands, DebugTyped
  <2>7. (WordsBefore(begun) \o told) \o Words(r) = WordsBefore(begun) \o (told \o Words(r))
    <3>1. Associates(WordsBefore(begun), told, Words(r))
      BY <2>4, <2>5, <2>6, Association
    <3> QED
      BY <3>1 DEF Associates
  <2>8. WordsBefore(begun) \o Words(begun) = WordsBefore(begun) \o (told \o Words(r))
    BY <2>4, <2>5, <2>6, <2>7
  <2>9. told \o Words(r) \in Seq(WordSet)
    BY <2>5, <2>6
  <2>10. Words(begun) = told \o Words(r)
    BY <2>4, <2>8, <2>9, CancelFirst
  <2>11. IsPrefix(told, told \o Words(r))
    BY <2>5, <2>6, PrefixIs
  <2> QED
    BY <2>1, <2>10, <2>11 DEF FirstTurn
<1> QED
  BY <1>2, <1>3 DEF InOrderAtFirst

\* For a ring of any size and records of any lengths: a connection that reads
\* before the ring is full is told the records in order, each whole and once
\* (listen_http_debug::Add and Get).  After that it is not: the code repeats or
\* passes over records.
THEOREM DebugTold == DebugSpec => [](DebugTypeOK /\ InOrderAtFirst)
BY DebugStart, DebugSteps, InvTells, PTL DEF DebugSpec

------------------------------------------------------------------------------
(* ThreadString                                                            *)

BlockRecs == [at : BlockNames, asz : 1..MaxLen, usz : 1..MaxLen, fsz : 0..(WordSz - 1)]
ByteRecs == [at : BlockNames, off : Nat, len : Nat \ {0}]
StringRecs == [at : BlockNames, off : Nat, sz : Nat \ {0}]

\* The blocks, as a set.
Holding(q) == {q[i] : i \in 1..Len(q)}
OnePerName(q) == \A i, j \in 1..Len(q) : q[i].at = q[j].at => i = j

Living == {n \in Strings : Alive(n)}

ArenaTyped ==
  /\ stackused \in BOOLEAN /\ blocks \in Seq(BlockRecs) /\ bytes \subseteq ByteRecs
  /\ str \in [Strings -> StringRecs \cup {NoString, Empty}]

BlocksNamed ==
  /\ OnePerName(blocks)
  /\ ~stackused => \A b \in Holding(blocks) : b.at # Stack

\* A set of blocks and the bytes that lie in them.
Filled(H, given) ==
  /\ \A r \in given : \E b \in H : Within(b, r)
  /\ \A r, v \in given :
       r.at = v.at => r = v \/ r.off + r.len <= v.off \/ v.off + v.len <= r.off
  /\ \A b \in H :
       /\ b.usz <= b.asz /\ b.fsz = b.asz - b.usz
       /\ \A p \in 0..(b.usz - 1) :
            \E r \in given : r.at = b.at /\ p \in r.off..(r.off + r.len - 1)

BytesOfString(n) == [at |-> str[n].at, off |-> str[n].off, len |-> str[n].sz + 1]

StringsApart ==
  \A n \in Strings :
    str[n].sz > 0 =>
      /\ BytesOfString(n) \in bytes
      /\ \A m \in Strings \ {n} :
           str[m].sz > 0 => <<str[m].at, str[m].off>> # <<str[n].at, str[n].off>>

LivingCounted ==
  /\ IsFiniteSet(Living) /\ count = Cardinality(Living)
  /\ count = 0 => blocks = <<>>

ArenaInv ==
  /\ ArenaTyped /\ BlocksNamed /\ Filled(Holding(blocks), bytes) /\ StringsApart /\ LivingCounted


LEMMA LengthsBounded ==
  /\ MaxLen \in Nat /\ BuffSz <= MaxLen /\ \A sz \in Lengths : sz \in Nat /\ sz + 1 <= MaxLen
<1> DEFINE L == Lengths \cup {0}
           top == WordSz - 2
<1>1. top \in Nat /\ L \subseteq 0..top /\ L # {} /\ BuffSz \in Nat /\ BuffSz >= 1
  BY ArenaAssumption
<1> HIDE DEF L, top
<1>2. \E x \in L : \A y \in L : y <= x
  BY <1>1, NatGreatest
<1>3. Max(L) \in L /\ \A y \in L : y <= Max(L)
  BY <1>2 DEF Max
<1>4. Max(L) \in Nat /\ MaxLen = BuffSz + Max(L)
  BY <1>1, <1>3 DEF MaxLen, L
<1>5. ASSUME NEW sz \in Lengths PROVE sz \in Nat /\ sz <= Max(L)
  BY <1>1, <1>3 DEF L
<1> QED
  BY <1>1, <1>4, <1>5

LEMMA NamesApart ==
  /\ Stack \in BlockNames /\ NoBlock \notin BlockNames /\ Mallocs \subseteq BlockNames
  /\ NoString \notin StringRecs /\ Empty \notin StringRecs /\ NoString # Empty
  /\ NoString.sz = -1 /\ Empty.sz = 0 /\ NoString.at = NoBlock /\ Empty.at = NoBlock
<1>1. Stack \in BlockNames /\ NoBlock \notin BlockNames /\ Mallocs \subseteq BlockNames
  BY ArenaAssumption DEF BlockNames
<1>2. NoString.sz = -1 /\ Empty.sz = 0 /\ NoString.at = NoBlock /\ Empty.at = NoBlock
  BY DEF NoString, Empty
<1>3. ASSUME NEW r \in StringRecs PROVE r # NoString /\ r # Empty
  <2>1. r.sz \in Nat \ {0}
    BY DEF StringRecs
  <2> QED
    BY <1>2, <2>1
<1> QED
  BY <1>1, <1>2, <1>3

\* The list with a block more, whichever of the two places it goes to.
LEMMA InsertIs ==
  ASSUME NEW q \in Seq(BlockRecs), NEW d \in BlockRecs, OnePerName(q),
         \A b \in Holding(q) : b.at # d.at,
         NEW t, t = <<d>> \o q \/ (q # <<>> /\ t = <<Head(q), d>> \o Tail(q))
  PROVE  /\ t \in Seq(BlockRecs) /\ OnePerName(t)
         /\ Holding(t) = Holding(q) \cup {d}
<1>1. \A i \in 1..Len(q) : q[i] \in Holding(q) /\ q[i] \in BlockRecs
  BY DEF Holding
<1>2. CASE t = <<d>> \o q
  <2>1. /\ t \in Seq(BlockRecs) /\ Len(t) = Len(q) + 1 /\ Len(q) \in Nat /\ t[1] = d
        /\ \A i \in 1..Len(q) : t[i + 1] = q[i]
    BY <1>2
  <2>2. ASSUME NEW i \in 1..Len(t), i # 1 PROVE i - 1 \in 1..Len(q) /\ t[i] = q[i - 1]
    BY <2>1, <2>2
  <2>3. OnePerName(t)
    <3> SUFFICES ASSUME NEW i \in 1..Len(t), NEW j \in 1..Len(t), t[i].at = t[j].at
                 PROVE  i = j
      BY DEF OnePerName
    <3>1. CASE i = 1 \/ j = 1
      BY <1>1, <2>1, <2>2, <3>1
    <3>2. CASE i # 1 /\ j # 1
      <4>1. i - 1 \in 1..Len(q) /\ j - 1 \in 1..Len(q) /\ q[i - 1].at = q[j - 1].at
        BY <2>2, <3>2
      <4>2. i - 1 = j - 1
        BY <4>1 DEF OnePerName
      <4> QED
        BY <2>1, <4>2
    <3> QED
      BY <3>1, <3>2
  <2>4. Holding(t) \subseteq Holding(q) \cup {d}
    BY <2>1, <2>2, <1>1 DEF Holding
  <2>5. d \in Holding(t)
    BY <2>1 DEF Holding
  <2>6. ASSUME NEW i \in 1..Len(q) PROVE q[i] \in Holding(t)
    <3>1. i + 1 \in 1..Len(t) /\ t[i + 1] = q[i]
      BY <2>1
    <3> QED
      BY <3>1 DEF Holding
  <2>7. Holding(q) \subseteq Holding(t)
    BY <2>6 DEF Holding
  <2> QED
    BY <2>1, <2>3, <2>4, <2>5, <2>7
<1>3. CASE q # <<>> /\ t = <<Head(q), d>> \o Tail(q)
  <2>1. /\ t \in Seq(BlockRecs) /\ Len(t) = Len(q) + 1 /\ Len(q) \in Nat /\ t[2] = d
        /\ Len(q) >= 1 /\ t[1] = q[1]
    BY <1>3
  <2>2. ASSUME NEW i \in 2..Len(q) PROVE t[i + 1] = q[i]
    BY <1>3
  <2>3. ASSUME NEW i \in 1..Len(t), i # 1, i # 2 PROVE i - 1 \in 2..Len(q) /\ t[i] = q[i - 1]
    <3>1. i - 1 \in 2..Len(q) /\ (i - 1) + 1 = i
      BY <2>1, <2>3
    <3> QED
      BY <2>2, <3>1
  <2> DEFINE Old(i) == IF i = 1 THEN 1 ELSE i - 1
  <2>4. ASSUME NEW i \in 1..Len(t), i # 2 PROVE Old(i) \in 1..Len(q) /\ t[i] = q[Old(i)]
    BY <2>1, <2>3, <2>4
  <2>5. OnePerName(t)
    <3> SUFFICES ASSUME NEW i \in 1..Len(t), NEW j \in 1..Len(t), t[i].at = t[j].at
                 PROVE  i = j
      BY DEF OnePerName
    <3>1. CASE i = 2 \/ j = 2
      <4> HIDE DEF Old
      <4> QED
        BY <1>1, <2>1, <2>4, <3>1
    <3>2. CASE i # 2 /\ j # 2
      <4>1. Old(i) = Old(j)
        <5> HIDE DEF Old
        <5>1. Old(i) \in 1..Len(q) /\ Old(j) \in 1..Len(q) /\ q[Old(i)].at = q[Old(j)].at
          BY <2>4, <3>2
        <5> QED
          BY <5>1 DEF OnePerName
      <4> QED
        BY <2>1, <3>2, <4>1
    <3> QED
      BY <3>1, <3>2
  <2>6. Holding(t) \subseteq Holding(q) \cup {d}
    <3> HIDE DEF Old
    <3>1. ASSUME NEW i \in 1..Len(t) PROVE t[i] \in Holding(q) \cup {d}
      BY <1>1, <2>1, <2>4
    <3> QED
      BY <3>1 DEF Holding
  <2>7. d \in Holding(t)
    <3>1. 2 \in 1..Len(t)
      BY <2>1
    <3> QED
      BY <2>1, <3>1 DEF Holding
  <2>8. ASSUME NEW i \in 1..Len(q) PROVE q[i] \in Holding(t)
    <3>1. CASE i = 1
      <4>1. 1 \in 1..Len(t) /\ t[1] = q[i]
        BY <2>1, <3>1
      <4> QED
        BY <4>1 DEF Holding
    <3>2. CASE i # 1
      <4>1. i \in 2..Len(q) /\ i + 1 \in 1..Len(t)
        BY <2>1, <3>2
      <4>2. t[i + 1] = q[i]
        BY <2>2, <4>1
      <4> QED
        BY <4>1, <4>2 DEF Holding
    <3> QED
      BY <3>1, <3>2
  <2>9. Holding(q) \subseteq Holding(t)
    BY <2>8 DEF Holding
  <2> QED
    BY <2>1, <2>5, <2>6, <2>7, <2>9
<1> QED
  BY <1>2, <1>3

\* The blocks H, with d instead of the one of its name; d has the bytes r more.
WithBlock(H, d) == {b \in H : b.at # d.at} \cup {d}
NextIn(H, d, r) ==
  /\ r.at = d.at /\ d.usz = r.off + r.len /\ d.usz <= d.asz /\ d.fsz = d.asz - d.usz
  /\ \A b \in H : b.at = d.at => b.usz = r.off
  /\ (\A b \in H : b.at # d.at) => r.off = 0

\* Whether the bytes that are given are the next ones of a block or the first of a
\* new one, all blocks stay filled without a gap, and nothing is given twice.
LEMMA GivenFills ==
  ASSUME NEW H, H \subseteq BlockRecs, NEW given, given \subseteq ByteRecs, Filled(H, given),
         NEW d \in BlockRecs, NEW r \in ByteRecs, NextIn(H, d, r)
  PROVE  /\ Filled(WithBlock(H, d), given \cup {r})
         /\ \A v \in given : v.at = r.at => v.off # r.off /\ v # r
<1> USE DEF NextIn, WithBlock
<1> DEFINE G == {b \in H : b.at # d.at} \cup {d}
           g == given \cup {r}
<1>1. r.off \in Nat /\ r.len \in Nat \ {0} /\ d.usz \in Nat
  BY DEF ByteRecs, BlockRecs
<1>2. \A v \in given : v.off \in Nat /\ v.len \in Nat \ {0}
  BY DEF ByteRecs
<1>3. ASSUME NEW v \in given, v.at = d.at PROVE v.off + v.len <= r.off
  <2>1. PICK b \in H : v.at = b.at /\ v.off + v.len <= b.usz
    BY DEF Filled, Within
  <2> QED
    BY <1>3, <2>1
<1>4. \A v \in given : v.at = r.at => v.off # r.off /\ v # r
  BY <1>1, <1>2, <1>3
<1>5. ASSUME NEW v \in g PROVE \E b \in G : Within(b, v)
  <2>1. CASE v.at = d.at
    <3>1. v.off + v.len <= d.usz
      BY <1>1, <1>2, <1>3, <2>1
    <3> QED
      BY <2>1, <3>1 DEF Within
  <2>2. CASE v.at # d.at
    <3>1. v \in given
      BY <2>2
    <3>2. PICK b \in H : Within(b, v)
      BY <3>1 DEF Filled
    <3>3. b \in G
      BY <2>2, <3>2 DEF Within
    <3> QED
      BY <3>2, <3>3
  <2> QED
    BY <2>1, <2>2
<1>6. ASSUME NEW v \in g, NEW u \in g, v.at = u.at
      PROVE  v = u \/ v.off + v.len <= u.off \/ u.off + u.len <= v.off
  <2>1. CASE v \in given /\ u \in given
    BY <1>6, <2>1 DEF Filled
  <2>2. CASE v = r \/ u = r
    BY <1>3, <1>6, <2>2
  <2> QED
    BY <2>1, <2>2
<1>7. ASSUME NEW b \in G
      PROVE  /\ b.usz <= b.asz /\ b.fsz = b.asz - b.usz
             /\ \A p \in 0..(b.usz - 1) :
                  \E v \in g : v.at = b.at /\ p \in v.off..(v.off + v.len - 1)
  <2>1. CASE b = d
    <3>1. ASSUME NEW p \in 0..(d.usz - 1)
          PROVE  \E v \in g : v.at = d.at /\ p \in v.off..(v.off + v.len - 1)
      <4>1. CASE p < r.off
        <5>1. PICK c \in H : c.at = d.at /\ c.usz = r.off
          BY <1>1, <3>1, <4>1
        <5>2. p \in 0..(c.usz - 1)
          BY <1>1, <3>1, <4>1, <5>1
        <5> QED
          BY <5>1, <5>2 DEF Filled
      <4>2. CASE ~(p < r.off)
        <5>1. p \in r.off..(r.off + r.len - 1)
          BY <1>1, <3>1, <4>2
        <5> QED
          BY <5>1
      <4> QED
        BY <4>1, <4>2
    <3> QED
      BY <2>1, <3>1
  <2>2. CASE b \in H
    BY <2>2 DEF Filled
  <2> QED
    BY <2>1, <2>2
<1> QED
  BY <1>4, <1>5, <1>6, <1>7 DEF Filled

LEMMA UsedIs ==
  ASSUME NEW b \in BlockRecs, NEW len \in Nat
  PROVE  /\ Used(b, len).at = b.at /\ Used(b, len).asz = b.asz
         /\ Used(b, len).usz = b.usz + len /\ Used(b, len).fsz = b.fsz - len
         /\ b.usz + len <= MaxLen /\ len <= b.fsz => Used(b, len) \in BlockRecs
<1>1. /\ b.at \in BlockNames /\ b.asz \in 1..MaxLen /\ b.usz \in 1..MaxLen
      /\ b.fsz \in 0..(WordSz - 1) /\ MaxLen \in Nat /\ WordSz \in Nat
  BY LengthsBounded, ArenaAssumption DEF BlockRecs
<1>2. /\ Used(b, len).at = b.at /\ Used(b, len).asz = b.asz
      /\ Used(b, len).usz = b.usz + len /\ Used(b, len).fsz = b.fsz - len
  BY DEF Used, BlockRecs
<1>3. ASSUME b.usz + len <= MaxLen, len <= b.fsz PROVE Used(b, len) \in BlockRecs
  <2>1. b.usz + len \in 1..MaxLen /\ b.fsz - len \in 0..(WordSz - 1)
    BY <1>1, <1>3
  <2> QED
    BY <2>1 DEF Used, BlockRecs
<1> QED
  BY <1>2, <1>3

\* What New leaves: the bytes r, for the string n.
NewGives(n, sz, r) ==
  /\ r.len = sz + 1 /\ bytes' = bytes \cup {r}
  /\ str' = [str EXCEPT ![n] = [at |-> r.at, off |-> r.off, sz |-> sz]]
  /\ blocks' \in Seq(BlockRecs) /\ BlocksNamed' /\ Filled(Holding(blocks'), bytes')
  /\ \A v \in bytes : v.at = r.at => v.off # r.off
  /\ stackused' \in BOOLEAN

\* The bytes that Gives records.
LEMMA GivesIs ==
  ASSUME NEW n \in Strings, NEW sz \in Nat, NEW name, NEW off, Gives(n, sz + 1, name, off),
         NEW r, r = [at |-> name, off |-> off, len |-> sz + 1]
  PROVE  /\ bytes' = bytes \cup {r} /\ r.len = sz + 1 /\ r.at = name /\ r.off = off
         /\ str' = [str EXCEPT ![n] = [at |-> r.at, off |-> r.off, sz |-> sz]]
<1>1. sz + 1 - 1 = sz
  OBVIOUS
<1>2. r.len = sz + 1 /\ r.at = name /\ r.off = off
  OBVIOUS
<1> QED
  BY <1>1, <1>2 DEF Gives

LEMMA FirstGives ==
  ASSUME ArenaTyped, BlocksNamed, Filled(Holding(blocks), bytes),
         NEW n \in Strings, NEW sz \in Lengths, FromFirst(n, sz + 1)
  PROVE  \E r \in ByteRecs : NewGives(n, sz, r)
<1> DEFINE b == blocks[1]
           d == Used(b, sz + 1)
           r == [at |-> b.at, off |-> b.usz, len |-> sz + 1]
           H == Holding(blocks)
<1>0. sz \in Nat
  BY LengthsBounded
<1>1. /\ blocks \in Seq(BlockRecs) /\ 1 \in 1..Len(blocks) /\ Len(blocks) \in Nat
      /\ b \in BlockRecs /\ b.fsz >= sz + 1 /\ b \in H
      /\ blocks' = [blocks EXCEPT ![1] = d]
      /\ Gives(n, sz + 1, b.at, b.usz) /\ stackused' = stackused
  BY DEF FromFirst, Fits, ArenaTyped, Holding
<1>2. /\ b.at \in BlockNames /\ b.asz \in 1..MaxLen /\ b.usz \in 1..MaxLen
      /\ b.fsz \in 0..(WordSz - 1)
  BY <1>1 DEF BlockRecs
<1>3. b.usz <= b.asz /\ b.fsz = b.asz - b.usz
  BY <1>1 DEF Filled
<1>4. d.at = b.at /\ d.usz = b.usz + (sz + 1) /\ d.asz = b.asz /\ d.fsz = b.fsz - (sz + 1)
  BY <1>0, <1>1, UsedIs
<1>5. MaxLen \in Nat /\ WordSz \in Nat
  BY LengthsBounded, ArenaAssumption
<1>6. d \in BlockRecs
  <2>1. b.usz + (sz + 1) <= MaxLen /\ sz + 1 \in Nat /\ sz + 1 <= b.fsz
    BY <1>0, <1>1, <1>2, <1>3, <1>5
  <2> QED
    BY <1>1, <2>1, UsedIs
<1>7. r \in ByteRecs /\ r.at = d.at /\ r.off = b.usz /\ r.len = sz + 1
  BY <1>0, <1>2, <1>4, <1>5 DEF ByteRecs
<1>8. /\ bytes' = bytes \cup {r}
      /\ str' = [str EXCEPT ![n] = [at |-> r.at, off |-> r.off, sz |-> sz]]
  <2>1. r = [at |-> b.at, off |-> b.usz, len |-> sz + 1]
    OBVIOUS
  <2> HIDE DEF r
  <2> QED
    BY <1>0, <1>1, <2>1, GivesIs
<1> HIDE DEF d, r
<1>9. /\ blocks' \in Seq(BlockRecs) /\ Len(blocks') = Len(blocks) /\ blocks'[1] = d
      /\ \A i \in 1..Len(blocks) : i # 1 => blocks'[i] = blocks[i]
  BY <1>1, <1>6
<1>10. \A i \in 1..Len(blocks) : blocks'[i].at = blocks[i].at
  BY <1>4, <1>9
<1>11. OnePerName(blocks')
  BY <1>9, <1>10 DEF OnePerName, BlocksNamed
<1>12. \A c \in H : c.at = d.at => c = b
  <2>1. ASSUME NEW i \in 1..Len(blocks), blocks[i].at = d.at PROVE blocks[i] = b
    BY <1>1, <1>4, <2>1 DEF OnePerName, BlocksNamed
  <2> QED
    BY <2>1 DEF Holding
<1>13. Holding(blocks') = {c \in H : c.at # d.at} \cup {d}
  <2>1. ASSUME NEW i \in 1..Len(blocks') PROVE blocks'[i] \in {c \in H : c.at # d.at} \cup {d}
    <3>1. CASE i = 1
      BY <1>9, <3>1
    <3>2. CASE i # 1
      <4>1. blocks'[i] = blocks[i] /\ i \in 1..Len(blocks) /\ blocks[i] \in H
        BY <1>9, <2>1, <3>2 DEF Holding
      <4>2. blocks[i].at # blocks[1].at
        BY <1>1, <3>2, <4>1 DEF OnePerName, BlocksNamed
      <4> QED
        BY <1>4, <4>1, <4>2
    <3> QED
      BY <3>1, <3>2
  <2>2. ASSUME NEW i \in 1..Len(blocks), blocks[i].at # d.at PROVE blocks[i] \in Holding(blocks')
    <3>1. i # 1 /\ i \in 1..Len(blocks')
      BY <1>4, <1>9, <2>2
    <3> QED
      BY <1>9, <3>1 DEF Holding
  <2>3. d \in Holding(blocks')
    BY <1>1, <1>9 DEF Holding
  <2>4. Holding(blocks') \subseteq {c \in H : c.at # d.at} \cup {d}
    BY <2>1 DEF Holding
  <2>5. {c \in H : c.at # d.at} \subseteq Holding(blocks')
    BY <2>2 DEF Holding
  <2> QED
    BY <2>3, <2>4, <2>5
<1>14. ~stackused' => \A c \in Holding(blocks') : c.at # Stack
  BY <1>1, <1>4, <1>13 DEF BlocksNamed
<1>15. /\ Filled(Holding(blocks'), bytes')
       /\ \A v \in bytes : v.at = r.at => v.off # r.off
  <2>1. H \subseteq BlockRecs /\ bytes \subseteq ByteRecs
    BY <1>1 DEF Holding, ArenaTyped
  <2>2. d.usz = r.off + r.len /\ d.usz <= d.asz /\ d.fsz = d.asz - d.usz
    BY <1>0, <1>1, <1>2, <1>3, <1>4, <1>5, <1>7
  <2>3. \A c \in H : c.at = d.at => c.usz = r.off
    BY <1>7, <1>12
  <2>4. ~(\A c \in H : c.at # d.at)
    BY <1>1, <1>4
  <2>5. NextIn(H, d, r)
    BY <1>7, <2>2, <2>3, <2>4 DEF NextIn
  <2>6. Filled(H, bytes)
    OBVIOUS
  <2> HIDE DEF H
  <2>7. /\ Filled(WithBlock(H, d), bytes \cup {r})
        /\ \A v \in bytes : v.at = r.at => v.off # r.off /\ v # r
    BY <1>6, <1>7, <2>1, <2>5, <2>6, GivenFills
  <2> QED
    BY <1>8, <1>13, <2>7 DEF WithBlock
<1>16. NewGives(n, sz, r)
  BY <1>1, <1>7, <1>8, <1>9, <1>11, <1>14, <1>15 DEF NewGives, BlocksNamed, ArenaTyped
<1> QED
  BY <1>7, <1>16

\* A block more, with the bytes it is made for.
LEMMA BlockGives ==
  ASSUME ArenaTyped, BlocksNamed, Filled(Holding(blocks), bytes),
         NEW n \in Strings, NEW sz \in Lengths,
         NEW d \in BlockRecs, \A b \in Holding(blocks) : b.at # d.at,
         d.usz = sz + 1, d.usz <= d.asz, d.fsz = d.asz - d.usz,
         blocks' = <<d>> \o blocks \/ (blocks # <<>> /\ blocks' = Second(d)),
         Gives(n, sz + 1, d.at, 0),
         stackused' \in BOOLEAN, stackused => stackused', ~stackused' => d.at # Stack
  PROVE  \E r \in ByteRecs : NewGives(n, sz, r)
<1> DEFINE r == [at |-> d.at, off |-> 0, len |-> sz + 1]
           H == Holding(blocks)
<1>1. sz \in Nat /\ d.at \in BlockNames /\ blocks \in Seq(BlockRecs) /\ OnePerName(blocks)
  BY LengthsBounded DEF BlockRecs, ArenaTyped, BlocksNamed
<1>2. r \in ByteRecs /\ r.at = d.at /\ r.off = 0 /\ r.len = sz + 1
  BY <1>1 DEF ByteRecs
<1>3. /\ bytes' = bytes \cup {r}
      /\ str' = [str EXCEPT ![n] = [at |-> r.at, off |-> r.off, sz |-> sz]]
  <2>1. r = [at |-> d.at, off |-> 0, len |-> sz + 1]
    OBVIOUS
  <2> HIDE DEF r
  <2> QED
    BY <1>1, <2>1, GivesIs
<1> HIDE DEF r
<1>4. /\ blocks' \in Seq(BlockRecs) /\ OnePerName(blocks')
      /\ Holding(blocks') = H \cup {d}
  BY <1>1, InsertIs DEF Second
<1>5. H = {c \in H : c.at # d.at}
  OBVIOUS
<1>6. H \subseteq BlockRecs /\ bytes \subseteq ByteRecs
  BY <1>1 DEF Holding, ArenaTyped
<1>7. d.usz = r.off + r.len
  BY <1>1, <1>2
<1>8. /\ Filled(WithBlock(H, d), bytes \cup {r})
      /\ \A v \in bytes : v.at = r.at => v.off # r.off /\ v # r
  <2>1. NextIn(H, d, r)
    BY <1>2, <1>7 DEF NextIn
  <2>2. Filled(H, bytes)
    OBVIOUS
  <2> HIDE DEF H
  <2> QED
    BY <1>2, <1>6, <2>1, <2>2, GivenFills
<1>9. Filled(Holding(blocks'), bytes')
  BY <1>3, <1>4, <1>5, <1>8 DEF WithBlock
<1>10. ~stackused' => \A b \in Holding(blocks') : b.at # Stack
  BY <1>4 DEF BlocksNamed
<1>11. NewGives(n, sz, r)
  BY <1>2, <1>3, <1>4, <1>8, <1>9, <1>10 DEF NewGives, BlocksNamed
<1> QED
  BY <1>2, <1>11

LEMMA FreshName ==
  ASSUME NEW name \in Malloced
  PROVE  name \in BlockNames /\ name # Stack /\ \A b \in Holding(blocks) : b.at # name
<1>1. name \in Mallocs /\ \A i \in DOMAIN blocks : blocks[i].at # name
  BY DEF Malloced
<1> QED
  BY <1>1, ArenaAssumption DEF Holding, BlockNames

LEMMA OwnGives ==
  ASSUME ArenaTyped, BlocksNamed, Filled(Holding(blocks), bytes),
         NEW n \in Strings, NEW sz \in Lengths, OwnBlock(n, sz + 1)
  PROVE  \E r \in ByteRecs : NewGives(n, sz, r)
<1> DEFINE D(name) == [at |-> name, asz |-> sz + 1, usz |-> sz + 1, fsz |-> 0]
<1>1. PICK name \in Malloced :
        /\ blocks' = IF blocks = <<>> THEN <<D(name)>> ELSE Second(D(name))
        /\ Gives(n, sz + 1, name, 0)
  BY DEF OwnBlock
<1>2. name \in BlockNames /\ name # Stack /\ \A b \in Holding(blocks) : b.at # name
  BY FreshName
<1>3. sz \in Nat /\ sz + 1 \in 1..MaxLen /\ 0 \in 0..(WordSz - 1) /\ sz + 1 - (sz + 1) = 0
  BY LengthsBounded, ArenaAssumption
<1> DEFINE d == D(name)
<1>4. d \in BlockRecs
  BY <1>2, <1>3 DEF BlockRecs
<1>5. d.at = name /\ d.asz = sz + 1 /\ d.usz = sz + 1 /\ d.fsz = 0
  OBVIOUS
<1>6. blocks' = IF blocks = <<>> THEN <<d>> ELSE Second(d)
  BY <1>1
<1> HIDE DEF d, D
<1>7. blocks' = <<d>> \o blocks \/ (blocks # <<>> /\ blocks' = Second(d))
  <2>1. CASE blocks = <<>>
    <3>1. <<d>> \o <<>> = <<d>>
      BY <1>4
    <3> QED
      BY <1>6, <2>1, <3>1
  <2> QED
    BY <1>6, <2>1
<1>8. stackused' = stackused /\ stackused \in BOOLEAN
  BY DEF OwnBlock, ArenaTyped
<1>9. d.usz <= d.asz /\ d.fsz = d.asz - d.usz
  BY <1>3, <1>5
<1> QED
  BY <1>1, <1>2, <1>4, <1>5, <1>7, <1>8, <1>9, BlockGives

LEMMA NewBlockGives ==
  ASSUME NoGap, ArenaTyped, BlocksNamed, Filled(Holding(blocks), bytes),
         NEW n \in Strings, NEW sz \in Lengths, NewBlock(n, sz + 1)
  PROVE  \E r \in ByteRecs : NewGives(n, sz, r)
<1> DEFINE room == (IF stackused THEN BuffSz ELSE StackSz) - BlockHead
           D(name) == [at |-> name, asz |-> room, usz |-> sz + 1, fsz |-> (room - (sz + 1)) % WordSz]
<1>1. PICK name \in IF stackused THEN Malloced ELSE {Stack} :
        /\ blocks' = IF blocks = <<>> \/ D(name).fsz > blocks[1].fsz
                     THEN <<D(name)>> \o blocks ELSE Second(D(name))
        /\ Gives(n, sz + 1, name, 0)
  BY DEF NewBlock
<1>2. name \in BlockNames /\ \A b \in Holding(blocks) : b.at # name
  <2>1. CASE stackused
    BY <1>1, <2>1, FreshName
  <2>2. CASE ~stackused
    BY <1>1, <2>2, NamesApart DEF BlocksNamed
  <2> QED
    BY <2>1, <2>2
<1>3. /\ sz \in Nat /\ sz + 1 \in 1..MaxLen /\ room \in 1..MaxLen /\ sz + 1 <= room
      /\ room < WordSz /\ WordSz \in Nat
  <2>1. ~Large(sz + 1)
    BY DEF NewBlock
  <2>2. sz + 1 <= StackSz - BlockHead
    BY <2>1 DEF NoGap
  <2> QED
    BY <2>2, LengthsBounded, ArenaAssumption
<1>4. room - (sz + 1) \in 0..(WordSz - 1) /\ (room - (sz + 1)) % WordSz = room - (sz + 1)
  <2> HIDE DEF room
  <2>1. room - (sz + 1) \in 0..(WordSz - 1)
    BY <1>3
  <2> QED
    BY <1>3, <2>1
<1> HIDE DEF room
<1> DEFINE d == D(name)
<1>5. d.at = name /\ d.asz = room /\ d.usz = sz + 1 /\ d.fsz = room - (sz + 1)
  BY <1>4
<1>6. d \in BlockRecs
  <2>1. d = [at |-> name, asz |-> room, usz |-> sz + 1, fsz |-> room - (sz + 1)]
    BY <1>4
  <2> HIDE DEF d, D
  <2> QED
    BY <1>2, <1>3, <1>4, <2>1 DEF BlockRecs
<1>7. blocks' = IF blocks = <<>> \/ d.fsz > blocks[1].fsz THEN <<d>> \o blocks ELSE Second(d)
  BY <1>1
<1> HIDE DEF d, D
<1>8. blocks' = <<d>> \o blocks \/ (blocks # <<>> /\ blocks' = Second(d))
  BY <1>7
<1>9. stackused' = TRUE
  BY DEF NewBlock
<1>10. d.usz <= d.asz /\ d.fsz = d.asz - d.usz
  BY <1>3, <1>5
<1> QED
  BY <1>1, <1>2, <1>5, <1>6, <1>8, <1>9, <1>10, BlockGives

\* A string is alive if it has a size.
LEMMA AliveIs ==
  ASSUME ArenaTyped, NEW n \in Strings
  PROVE  /\ Alive(n) <=> str[n].sz >= 0
         /\ str[n].sz > 0 <=> str[n] \in StringRecs
         /\ str[n].sz \in Int
<1>1. str[n] \in StringRecs \cup {NoString, Empty}
  BY DEF ArenaTyped
<1>2. str[n] \in StringRecs => str[n].sz \in Nat \ {0} /\ str[n] # NoString
  BY NamesApart DEF StringRecs
<1> QED
  BY <1>1, <1>2, NamesApart DEF Alive

\* What New does for a string, whether it is a new one or one that was there.
LEMMA GivenSound ==
  ASSUME ArenaTyped, StringsApart, NEW n \in Strings, NEW sz \in Lengths, sz # 0,
         NEW r \in ByteRecs, NewGives(n, sz, r)
  PROVE  /\ ArenaTyped' /\ BlocksNamed' /\ Filled(Holding(blocks'), bytes') /\ StringsApart'
         /\ str'[n] # NoString /\ \A m \in Strings \ {n} : str'[m] = str[m]
<1> DEFINE x == [at |-> r.at, off |-> r.off, sz |-> sz]
<1>1. sz \in Nat \ {0} /\ r.at \in BlockNames /\ r.off \in Nat /\ r.len = sz + 1
  BY LengthsBounded DEF ByteRecs, NewGives
<1>2. x \in StringRecs /\ x.at = r.at /\ x.off = r.off /\ x.sz = sz
  BY <1>1 DEF StringRecs
<1>3. str' = [str EXCEPT ![n] = x] /\ str \in [Strings -> StringRecs \cup {NoString, Empty}]
  BY DEF NewGives, ArenaTyped
<1>4. [at |-> x.at, off |-> x.off, len |-> x.sz + 1] = r
  BY <1>1, <1>2 DEF ByteRecs
<1> HIDE DEF x
<1>5. str'[n] = x /\ (\A m \in Strings \ {n} : str'[m] = str[m])
      /\ str' \in [Strings -> StringRecs \cup {NoString, Empty}]
  BY <1>2, <1>3
<1>6. str'[n] # NoString
  BY <1>2, <1>5, NamesApart
<1>7. ArenaTyped'
  BY <1>5 DEF ArenaTyped, NewGives
<1>8. bytes' = bytes \cup {r} /\ \A v \in bytes : v.at = r.at => v.off # r.off
  BY DEF NewGives
<1>9. \A m \in Strings \ {n} : BytesOfString(m)' = BytesOfString(m)
  BY <1>5 DEF BytesOfString
<1>10. BytesOfString(n)' = r
  BY <1>4, <1>5 DEF BytesOfString
<1>11. ASSUME NEW m \in Strings \ {n}, str[m].sz > 0
       PROVE  BytesOfString(m) \in bytes /\ <<str[m].at, str[m].off>> # <<r.at, r.off>>
  <2>1. BytesOfString(m) \in bytes
    BY <1>11 DEF StringsApart
  <2>2. BytesOfString(m).at = str[m].at /\ BytesOfString(m).off = str[m].off
    BY DEF BytesOfString
  <2> QED
    BY <1>8, <2>1, <2>2
<1>12. StringsApart'
  <2> SUFFICES ASSUME NEW m \in Strings, str'[m].sz > 0
               PROVE  /\ BytesOfString(m)' \in bytes'
                      /\ \A k \in Strings \ {m} :
                           str'[k].sz > 0 => <<str'[k].at, str'[k].off>> # <<str'[m].at, str'[m].off>>
    BY DEF StringsApart
  <2>1. CASE m = n
    BY <1>2, <1>5, <1>8, <1>10, <1>11, <2>1
  <2>2. CASE m # n
    <3>1. BytesOfString(m)' \in bytes'
      BY <1>5, <1>8, <1>9, <1>11, <2>2
    <3>2. ASSUME NEW k \in Strings \ {m}, str'[k].sz > 0
          PROVE  <<str'[k].at, str'[k].off>> # <<str'[m].at, str'[m].off>>
      <4>1. CASE k = n
        BY <1>2, <1>5, <1>11, <2>2, <4>1
      <4>2. CASE k # n
        BY <1>5, <2>2, <3>2, <4>2 DEF StringsApart
      <4> QED
        BY <4>1, <4>2
    <3> QED
      BY <3>1, <3>2
  <2> QED
    BY <2>1, <2>2
<1> QED
  BY <1>5, <1>6, <1>7, <1>12 DEF NewGives

\* A string without bytes, and one that takes those of another.
LEMMA EmptiedSound ==
  ASSUME ArenaTyped, StringsApart, NEW n \in Strings, str' = [str EXCEPT ![n] = Empty],
         UNCHANGED <<bytes, blocks, stackused>>
  PROVE  /\ ArenaTyped' /\ StringsApart'
         /\ str'[n] # NoString /\ \A m \in Strings \ {n} : str'[m] = str[m]
<1>1. str \in [Strings -> StringRecs \cup {NoString, Empty}]
  BY DEF ArenaTyped
<1>2. /\ str'[n] = Empty /\ \A m \in Strings \ {n} : str'[m] = str[m]
      /\ str' \in [Strings -> StringRecs \cup {NoString, Empty}]
  BY <1>1
<1>3. ArenaTyped'
  BY <1>2 DEF ArenaTyped
<1>4. \A m \in Strings : str'[m].sz > 0 => m # n /\ str'[m] = str[m] /\ BytesOfString(m)' = BytesOfString(m)
  BY <1>2, NamesApart DEF BytesOfString
<1>5. StringsApart'
  BY <1>4 DEF StringsApart
<1> QED
  BY <1>2, <1>3, <1>5, NamesApart

LEMMA MovedSound ==
  ASSUME ArenaTyped, StringsApart, NEW n \in Strings, NEW m \in Strings, Alive(m),
         str' = [str EXCEPT ![n] = str[m], ![m] = Empty],
         UNCHANGED <<bytes, blocks, stackused>>
  PROVE  /\ ArenaTyped' /\ StringsApart'
         /\ str'[n] # NoString /\ str'[m] # NoString
         /\ \A k \in Strings \ {n, m} : str'[k] = str[k]
<1>1. str \in [Strings -> StringRecs \cup {NoString, Empty}]
  BY DEF ArenaTyped
<1>2. /\ str'[m] = Empty /\ (n # m => str'[n] = str[m])
      /\ \A k \in Strings \ {n, m} : str'[k] = str[k]
      /\ str' \in [Strings -> StringRecs \cup {NoString, Empty}]
  BY <1>1
<1>3. ArenaTyped'
  BY <1>2 DEF ArenaTyped
<1> DEFINE Was(k) == IF k = n THEN m ELSE k
<1>4. ASSUME NEW k \in Strings, str'[k].sz > 0
      PROVE  k # m /\ Was(k) \in Strings /\ str'[k] = str[Was(k)]
  BY <1>2, <1>4, NamesApart
<1>5. ASSUME NEW k \in Strings, str'[k].sz > 0
      PROVE  BytesOfString(k)' = BytesOfString(Was(k)) /\ str[Was(k)].sz > 0 /\ Was(k) \in Strings
  BY <1>4, <1>5 DEF BytesOfString
<1>6. ASSUME NEW k \in Strings, NEW j \in Strings, k # j, str'[k].sz > 0, str'[j].sz > 0
      PROVE  Was(k) # Was(j)
  BY <1>4, <1>6
<1> HIDE DEF Was
<1>7. StringsApart'
  <2> SUFFICES ASSUME NEW k \in Strings, str'[k].sz > 0
               PROVE  /\ BytesOfString(k)' \in bytes'
                      /\ \A j \in Strings \ {k} :
                           str'[j].sz > 0 => <<str'[j].at, str'[j].off>> # <<str'[k].at, str'[k].off>>
    BY DEF StringsApart
  <2>1. BytesOfString(k)' \in bytes'
    BY <1>5 DEF StringsApart
  <2>2. ASSUME NEW j \in Strings \ {k}, str'[j].sz > 0
        PROVE  <<str'[j].at, str'[j].off>> # <<str'[k].at, str'[k].off>>
    <3>1. Was(j) # Was(k) /\ str'[k] = str[Was(k)] /\ str'[j] = str[Was(j)]
          /\ str[Was(k)].sz > 0 /\ str[Was(j)].sz > 0 /\ Was(k) \in Strings
          /\ Was(j) \in Strings \ {Was(k)}
      BY <1>4, <1>5, <1>6, <2>2
    <3>2. <<str[Was(j)].at, str[Was(j)].off>> # <<str[Was(k)].at, str[Was(k)].off>>
      BY <3>1 DEF StringsApart
    <3> QED
      BY <3>1, <3>2
  <2> QED
    BY <2>1, <2>2
<1>8. str'[n] # NoString /\ str'[m] # NoString
  BY <1>2, NamesApart DEF Alive
<1> QED
  BY <1>2, <1>3, <1>7, <1>8

LEMMA StringNewSound ==
  ASSUME NoGap, ArenaInv, NEW n \in Strings, NEW sz \in Lengths, StringNew(n, sz)
  PROVE  /\ ArenaTyped' /\ BlocksNamed' /\ Filled(Holding(blocks'), bytes') /\ StringsApart'
         /\ str'[n] # NoString /\ \A m \in Strings \ {n} : str'[m] = str[m]
<1>1. ArenaTyped /\ BlocksNamed /\ Filled(Holding(blocks), bytes) /\ StringsApart
  BY DEF ArenaInv
<1>2. CASE sz = 0
  <2>1. str' = [str EXCEPT ![n] = Empty] /\ UNCHANGED <<bytes, blocks, stackused>>
    BY <1>2 DEF StringNew
  <2>2. BlocksNamed' /\ Filled(Holding(blocks'), bytes')
    BY <1>1, <2>1 DEF BlocksNamed
  <2> QED
    BY <1>1, <2>1, <2>2, EmptiedSound
<1>3. CASE sz # 0
  <2>1. \E r \in ByteRecs : NewGives(n, sz, r)
    BY <1>1, <1>3, FirstGives, OwnGives, NewBlockGives DEF StringNew
  <2> QED
    BY <1>1, <1>3, <2>1, GivenSound
<1> QED
  BY <1>2, <1>3

\* One string more lives, or as many as before.
LEMMA OneMore ==
  ASSUME LivingCounted, NEW n \in Strings, ~Alive(n), str'[n] # NoString,
         \A m \in Strings \ {n} : str'[m] = NoString <=> str[m] = NoString, count' = count + 1
  PROVE  LivingCounted'
<1>1. n \notin Living /\ Living' = Living \cup {n}
  BY DEF Living, Alive
<1>2. IsFiniteSet(Living') /\ Cardinality(Living') = Cardinality(Living) + 1
  BY <1>1, FS_AddElement DEF LivingCounted
<1>3. Cardinality(Living) \in Nat
  BY FS_CardinalityType DEF LivingCounted
<1> QED
  BY <1>2, <1>3 DEF LivingCounted

LEMMA AsMany ==
  ASSUME LivingCounted, NEW n \in Strings, Alive(n),
         \A m \in Strings : str'[m] = NoString <=> str[m] = NoString, count' = count
  PROVE  LivingCounted'
<1>1. n \in Living /\ Living' = Living
  BY DEF Living, Alive
<1>2. Cardinality(Living) # 0
  BY <1>1, FS_EmptySet DEF LivingCounted
<1> QED
  BY <1>1, <1>2 DEF LivingCounted

LEMMA DestroySound ==
  ASSUME ArenaInv, NEW n \in Strings, Destroy(n)
  PROVE  ArenaInv'
<1>1. ArenaTyped /\ BlocksNamed /\ Filled(Holding(blocks), bytes) /\ StringsApart /\ LivingCounted
  BY DEF ArenaInv
<1>2. n \in Living /\ str' = [str EXCEPT ![n] = NoString] /\ count' = count - 1
  BY DEF Destroy, Living
<1>3. str \in [Strings -> StringRecs \cup {NoString, Empty}]
  BY <1>1 DEF ArenaTyped
<1>4. /\ str'[n] = NoString /\ \A m \in Strings \ {n} : str'[m] = str[m]
      /\ str' \in [Strings -> StringRecs \cup {NoString, Empty}]
  BY <1>2, <1>3
<1>5. \A m \in Strings : str'[m].sz > 0 => m # n /\ str'[m] = str[m] /\ BytesOfString(m)' = BytesOfString(m)
  BY <1>4, NamesApart DEF BytesOfString
<1>6. Living' = Living \ {n}
  BY <1>4 DEF Living, Alive
<1>7. IsFiniteSet(Living') /\ Cardinality(Living') = Cardinality(Living) - 1
      /\ Cardinality(Living) \in Nat /\ Cardinality(Living') \in Nat
  BY <1>1, <1>2, <1>6, FS_RemoveElement, FS_CardinalityType DEF LivingCounted
<1>8. CASE count = 1
  <2>1. blocks' = <<>> /\ stackused' = FALSE /\ bytes' = {}
    BY <1>8 DEF Destroy
  <2>2. Living' = {}
    BY <1>1, <1>7, <1>8, FS_EmptySet DEF LivingCounted
  <2>3. ArenaTyped'
    <3>1. <<>> \in Seq(BlockRecs) /\ {} \subseteq ByteRecs
      OBVIOUS
    <3> QED
      BY <1>4, <2>1, <3>1 DEF ArenaTyped
  <2>4. Holding(blocks') = {} /\ Len(blocks') = 0
    BY <2>1 DEF Holding
  <2>5. BlocksNamed' /\ Filled(Holding(blocks'), bytes')
    BY <2>1, <2>4 DEF BlocksNamed, Filled, OnePerName
  <2>6. \A m \in Strings : ~(str'[m].sz > 0)
    BY <2>2, NamesApart DEF Living, Alive
  <2>7. StringsApart' /\ LivingCounted'
    BY <1>1, <1>2, <1>7, <2>1, <2>6 DEF StringsApart, LivingCounted
  <2> QED
    BY <2>3, <2>5, <2>7 DEF ArenaInv
<1>9. CASE count # 1
  <2>1. UNCHANGED <<blocks, stackused, bytes>>
    BY <1>9 DEF Destroy
  <2>2. ArenaTyped' /\ BlocksNamed' /\ Filled(Holding(blocks'), bytes')
    BY <1>1, <1>4, <2>1 DEF ArenaTyped, BlocksNamed
  <2>3. StringsApart'
    BY <1>1, <1>5, <2>1 DEF StringsApart
  <2>4. count' # 0
    BY <1>1, <1>2, <1>7, <1>9 DEF LivingCounted
  <2>5. LivingCounted'
    BY <1>1, <1>2, <1>7, <2>4 DEF LivingCounted
  <2> QED
    BY <2>2, <2>3, <2>5 DEF ArenaInv
<1> QED
  BY <1>8, <1>9

LEMMA ArenaStart == ArenaInit => ArenaInv
<1> SUFFICES ASSUME ArenaInit PROVE ArenaInv
  OBVIOUS
<1>1. ArenaTyped
  <2>1. <<>> \in Seq(BlockRecs) /\ {} \subseteq ByteRecs
    OBVIOUS
  <2>2. str \in [Strings -> StringRecs \cup {NoString, Empty}]
    BY DEF ArenaInit
  <2> QED
    BY <2>1, <2>2 DEF ArenaInit, ArenaTyped
<1>2. Holding(blocks) = {} /\ Len(blocks) = 0
  BY DEF ArenaInit, Holding
<1>3. BlocksNamed /\ Filled(Holding(blocks), bytes)
  BY <1>2 DEF ArenaInit, BlocksNamed, OnePerName, Filled
<1>4. \A n \in Strings : str[n] = NoString
  BY DEF ArenaInit
<1>5. Living = {}
  BY <1>4 DEF Living, Alive
<1>6. LivingCounted
  BY <1>5, FS_EmptySet DEF ArenaInit, LivingCounted
<1>7. StringsApart
  BY <1>4, NamesApart DEF StringsApart
<1> QED
  BY <1>1, <1>3, <1>6, <1>7 DEF ArenaInv

LEMMA ArenaSteps == NoGap /\ ArenaInv /\ [ArenaNext]_arenaVars => ArenaInv'
<1> SUFFICES ASSUME NoGap, ArenaInv, [ArenaNext]_arenaVars PROVE ArenaInv'
  OBVIOUS
<1>0. ArenaTyped /\ BlocksNamed /\ Filled(Holding(blocks), bytes) /\ StringsApart /\ LivingCounted
  BY DEF ArenaInv
<1>1. ASSUME NEW n \in Strings, NEW sz \in Lengths, Construct(n, sz) PROVE ArenaInv'
  <2>1. ~Alive(n) /\ count' = count + 1 /\ StringNew(n, sz)
    BY <1>1 DEF Construct
  <2>2. /\ ArenaTyped' /\ BlocksNamed' /\ Filled(Holding(blocks'), bytes') /\ StringsApart'
        /\ str'[n] # NoString /\ \A m \in Strings \ {n} : str'[m] = str[m]
    BY <2>1, StringNewSound
  <2>3. LivingCounted'
    BY <1>0, <2>1, <2>2, OneMore
  <2> QED
    BY <2>2, <2>3 DEF ArenaInv
<1>2. ASSUME NEW n \in Strings, NEW sz \in Lengths, Assign(n, sz) PROVE ArenaInv'
  <2>1. Alive(n) /\ count' = count /\ StringNew(n, sz)
    BY <1>2 DEF Assign
  <2>2. /\ ArenaTyped' /\ BlocksNamed' /\ Filled(Holding(blocks'), bytes') /\ StringsApart'
        /\ str'[n] # NoString /\ \A m \in Strings \ {n} : str'[m] = str[m]
    BY <2>1, StringNewSound
  <2>3. \A m \in Strings : str'[m] = NoString <=> str[m] = NoString
    BY <2>1, <2>2 DEF Alive
  <2>4. LivingCounted'
    BY <1>0, <2>1, <2>3, AsMany
  <2> QED
    BY <2>2, <2>4 DEF ArenaInv
<1>3. ASSUME NEW n \in Strings, NEW m \in Strings, ConstructFrom(n, m) PROVE ArenaInv'
  <2>1. ~Alive(n) /\ Alive(m) /\ count' = count + 1 /\ n # m
        /\ str' = [str EXCEPT ![n] = str[m], ![m] = Empty]
        /\ UNCHANGED <<bytes, blocks, stackused>>
    BY <1>3 DEF ConstructFrom
  <2>2. /\ ArenaTyped' /\ StringsApart' /\ str'[n] # NoString /\ str'[m] # NoString
        /\ \A k \in Strings \ {n, m} : str'[k] = str[k]
    BY <1>0, <2>1, MovedSound
  <2>3. \A k \in Strings \ {n} : str'[k] = NoString <=> str[k] = NoString
    BY <2>1, <2>2 DEF Alive
  <2>4. LivingCounted'
    BY <1>0, <2>1, <2>2, <2>3, OneMore
  <2>5. BlocksNamed' /\ Filled(Holding(blocks'), bytes')
    BY <1>0, <2>1 DEF BlocksNamed
  <2> QED
    BY <2>2, <2>4, <2>5 DEF ArenaInv
<1>4. ASSUME NEW n \in Strings, NEW m \in Strings, MoveFrom(n, m) PROVE ArenaInv'
  <2>1. Alive(n) /\ Alive(m) /\ count' = count
        /\ str' = [str EXCEPT ![n] = str[m], ![m] = Empty]
        /\ UNCHANGED <<bytes, blocks, stackused>>
    BY <1>4 DEF MoveFrom
  <2>2. /\ ArenaTyped' /\ StringsApart' /\ str'[n] # NoString /\ str'[m] # NoString
        /\ \A k \in Strings \ {n, m} : str'[k] = str[k]
    BY <1>0, <2>1, MovedSound
  <2>3. \A k \in Strings : str'[k] = NoString <=> str[k] = NoString
    BY <2>1, <2>2 DEF Alive
  <2>4. LivingCounted'
    BY <1>0, <2>1, <2>3, AsMany
  <2>5. BlocksNamed' /\ Filled(Holding(blocks'), bytes')
    BY <1>0, <2>1 DEF BlocksNamed
  <2> QED
    BY <2>2, <2>4, <2>5 DEF ArenaInv
<1>5. ASSUME NEW n \in Strings, Destroy(n) PROVE ArenaInv'
  BY <1>5, DestroySound
<1>6. CASE UNCHANGED arenaVars
  BY <1>6 DEF arenaVars, ArenaInv, ArenaTyped, BlocksNamed, StringsApart, BytesOfString, LivingCounted,
              Living, Alive
<1> QED
  BY <1>1, <1>2, <1>3, <1>4, <1>5, <1>6 DEF ArenaNext

LEMMA InvArena == ArenaInv => ArenaTypeOK /\ ArenaSound
<1> SUFFICES ASSUME ArenaInv PROVE ArenaTypeOK /\ ArenaSound
  OBVIOUS
<1>1. ArenaTyped /\ BlocksNamed /\ Filled(Holding(blocks), bytes) /\ StringsApart /\ LivingCounted
  BY DEF ArenaInv
<1>2. /\ DOMAIN blocks = 1..Len(blocks)
      /\ \A i \in 1..Len(blocks) : blocks[i] \in BlockRecs /\ blocks[i] \in Holding(blocks)
  BY <1>1 DEF ArenaTyped, Holding
<1>3. ArenaTypeOK
  <2>1. count \in Nat
    BY <1>1, FS_CardinalityType DEF LivingCounted
  <2>2. \A n \in Strings : str[n].at \in BlockNames \cup {NoBlock} /\ str[n].sz >= -1
    <3> SUFFICES ASSUME NEW n \in Strings
                 PROVE  str[n].at \in BlockNames \cup {NoBlock} /\ str[n].sz >= -1
      OBVIOUS
    <3>1. str[n] \in StringRecs \cup {NoString, Empty}
      BY <1>1 DEF ArenaTyped
    <3>2. str[n] \in StringRecs => str[n].at \in BlockNames /\ str[n].sz \in Nat
      BY DEF StringRecs
    <3> QED
      BY <3>1, <3>2, NamesApart
  <2> QED
    BY <1>1, <1>2, <2>1, <2>2 DEF ArenaTypeOK, ArenaTyped, BlockRecs
<1>4. (\A n \in Strings : ~Alive(n)) <=> count = 0
  <2>1. count = 0 <=> Living = {}
    BY <1>1, FS_EmptySet DEF LivingCounted
  <2> QED
    BY <2>1 DEF Living
<1>5. \A r \in bytes : \E i \in DOMAIN blocks : Within(blocks[i], r)
  BY <1>1, <1>2 DEF Filled, Holding
<1>6. \A r, v \in bytes :
        r.at = v.at => r = v \/ r.off + r.len <= v.off \/ v.off + v.len <= r.off
  BY <1>1 DEF Filled
<1>7. \A i \in DOMAIN blocks :
        LET b == blocks[i] IN
          /\ b.usz <= b.asz /\ b.fsz = b.asz - b.usz
          /\ \A p \in 0..(b.usz - 1) :
               \E r \in bytes : r.at = b.at /\ p \in r.off..(r.off + r.len - 1)
          /\ \A j \in DOMAIN blocks : blocks[j].at = b.at => i = j
  BY <1>1, <1>2 DEF Filled, BlocksNamed, OnePerName
<1>8. \A n \in Strings :
        str[n].sz > 0 =>
          /\ [at |-> str[n].at, off |-> str[n].off, len |-> str[n].sz + 1] \in bytes
          /\ \A m \in Strings \ {n} :
               str[m].sz > 0 => <<str[m].at, str[m].off>> # <<str[n].at, str[n].off>>
  BY <1>1 DEF StringsApart, BytesOfString
<1>9. count = 0 => blocks = <<>>
  BY <1>1 DEF LivingCounted
<1> QED
  BY <1>3, <1>4, <1>5, <1>6, <1>7, <1>8, <1>9 DEF ArenaSound

\* For any number of strings, blocks and lengths, as long as no length falls into
\* the gap between the first block and the large ones: the bytes of each string
\* lie in a block that is still there and are nobody else's, in whichever order
\* the strings end (TString, MString::operator=, ~TString).
THEOREM ArenaIsSound ==
  ASSUME NoGap
  PROVE  ArenaSpec => [](ArenaTypeOK /\ ArenaSound)
BY ArenaStart, ArenaSteps, InvArena, PTL DEF ArenaSpec

------------------------------------------------------------------------------
(* MCData                                                                  *)

\* A step of the model is one of one of its parts, and leaves the others alone.
LEMMA StepsOfParts ==
  ASSUME [Next]_vars
  PROVE  /\ [VectorNext]_vectorVars
         /\ [AllocNext]_allocVars
         /\ [OListNext]_oListVars
         /\ [ArenaNext]_arenaVars
         /\ [SendNext]_sendVars
         /\ [RingNext]_ringVars
         /\ [StreamNext]_streamVars
         /\ [RecvNext]_recvVars
         /\ [SecondsNext]_secondsVars
         /\ [DebugNext]_debugVars
<1> USE DEF vars, listVars, bufferVars, statVars
<1>1. OfVector => UNCHANGED <<allocVars, oListVars, arenaVars, sendVars, ringVars, streamVars, recvVars, secondsVars, debugVars>>
  BY DEF OfVector
<1>2. OfAlloc => UNCHANGED <<vectorVars, oListVars, arenaVars, sendVars, ringVars, streamVars, recvVars, secondsVars, debugVars>>
  BY DEF OfAlloc
<1>3. OfArena => UNCHANGED <<vectorVars, allocVars, oListVars, sendVars, ringVars, streamVars, recvVars, secondsVars, debugVars>>
  BY DEF OfArena
<1>4. OfList => UNCHANGED <<vectorVars, allocVars, arenaVars, sendVars, ringVars, streamVars, recvVars, secondsVars, debugVars>>
  BY DEF OfList
<1>5. OfSend => UNCHANGED <<vectorVars, allocVars, oListVars, arenaVars, ringVars, streamVars, recvVars, secondsVars, debugVars>>
  BY DEF OfSend
<1>6. OfRing => UNCHANGED <<vectorVars, allocVars, oListVars, arenaVars, sendVars, streamVars, recvVars, secondsVars, debugVars>>
  BY DEF OfRing
<1>7. OfStream => UNCHANGED <<vectorVars, allocVars, oListVars, arenaVars, sendVars, ringVars, recvVars, secondsVars, debugVars>>
  BY DEF OfStream
<1>8. OfRecv => UNCHANGED <<vectorVars, allocVars, oListVars, arenaVars, sendVars, ringVars, streamVars, secondsVars, debugVars>>
  BY DEF OfRecv
<1>9. OfSeconds => UNCHANGED <<vectorVars, allocVars, oListVars, arenaVars, sendVars, ringVars, streamVars, recvVars, debugVars>>
  BY DEF OfSeconds
<1>10. OfDebug => UNCHANGED <<vectorVars, allocVars, oListVars, arenaVars, sendVars, ringVars, streamVars, recvVars, secondsVars>>
  BY DEF OfDebug
<1>11. Rests \/ UNCHANGED vars => UNCHANGED <<vectorVars, allocVars, oListVars, arenaVars, sendVars, ringVars, streamVars, recvVars, secondsVars, debugVars>>
  BY DEF Rests
<1> QED
  BY <1>1, <1>2, <1>3, <1>4, <1>5, <1>6, <1>7, <1>8, <1>9, <1>10, <1>11
  DEF Next, Vector, Alloc, Arena, List, Cgi, Sending, Ring, Stream, Receiving,
      Counting, Debugging

\* Each part of the model behaves by its own specification.
LEMMA PartsAsSpecified ==
  Spec => /\ VectorSpec
          /\ AllocSpec
          /\ OListSpec
          /\ ArenaSpec
          /\ SendSpec
          /\ RingSpec
          /\ StreamSpec
          /\ RecvSpec
          /\ SecondsSpec
          /\ DebugSpec
<1>1. Init => VectorInit /\ AllocInit /\ OListInit /\ ArenaInit /\ SendInit
              /\ RingInit /\ StreamInit /\ RecvInit /\ SecondsInit /\ DebugInit
  BY DEF Init
<1>2. [Next]_vars => [VectorNext]_vectorVars
  BY StepsOfParts, Zenon
<1>3. [Next]_vars => [AllocNext]_allocVars
  BY StepsOfParts, Zenon
<1>4. [Next]_vars => [OListNext]_oListVars
  BY StepsOfParts, Zenon
<1>5. [Next]_vars => [ArenaNext]_arenaVars
  BY StepsOfParts, Zenon
<1>6. [Next]_vars => [SendNext]_sendVars
  BY StepsOfParts, Zenon
<1>7. [Next]_vars => [RingNext]_ringVars
  BY StepsOfParts, Zenon
<1>8. [Next]_vars => [StreamNext]_streamVars
  BY StepsOfParts, Zenon
<1>9. [Next]_vars => [RecvNext]_recvVars
  BY StepsOfParts, Zenon
<1>10. [Next]_vars => [SecondsNext]_secondsVars
  BY StepsOfParts, Zenon
<1>11. [Next]_vars => [DebugNext]_debugVars
  BY StepsOfParts, Zenon
<1> QED
  BY <1>1, <1>2, <1>3, <1>4, <1>5, <1>6, <1>7, <1>8, <1>9, <1>10, <1>11, PTL
  DEF Spec, VectorSpec, AllocSpec, OListSpec, ArenaSpec, SendSpec,
      RingSpec, StreamSpec, RecvSpec, SecondsSpec, DebugSpec

\* The page of statistics shows each of the last seconds as it was counted, and
\* until its ring is full a debug connection is told the records in order
\* (listen-http-modstate.h).
THEOREM StatisticsAreSound == Spec => []StatisticsSound
<1>1. ShowsSeconds /\ InOrderAtFirst => StatisticsSound
  BY DEF StatisticsSound
<1> QED
  BY <1>1, PartsAsSpecified, SecondsAreShown, DebugTold, PTL

\* The array is a sorted set that finds the node of an element, a node lives as
\* long as one of its elements, the node to take from has one, and no two
\* temporary strings share bytes (VoidVector, AListAlloc, TString), whatever the
\* addresses and the lengths outside the gap of ThreadString.
THEOREM AllocatorIsSound ==
  ASSUME NoGap
  PROVE  Spec => AllocatorSound
BY PartsAsSpecified, VectorKeepsNodes, VectorFinds, NodeIsFound, NodesUsedHolds,
   TakesFromRoomHolds, ArenaIsSound, PTL DEF AllocatorSound

\* The state of every buffer, list, allocator and ring keeps its type, while the
\* program is never a whole ring ahead and the peer waits for its reply.
THEOREM DataTypeCorrect ==
  ASSUME NoGap, Ahead < N, ~Pipelined
  PROVE  Spec => []DataTypeOK
<1>1. /\ AllocInv => AllocTypeOK
      /\ StreamInv => StreamTypeOK
      /\ SecondsInv => SecondsTypeOK
  BY DEF AllocInv, StreamInv, SecondsInv
<1>2. /\ VectorTypeOK /\ AllocTypeOK /\ OListTypeOK /\ ArenaTypeOK
      /\ SendTypeOK /\ RingTypeOK /\ StreamTypeOK /\ RecvTypeOK
      /\ SecondsTypeOK /\ DebugTypeOK
      => DataTypeOK
  BY DEF DataTypeOK
<1>3. SecondsSpec => []SecondsInv
  BY SecondsStart, AddStep, PTL DEF SecondsSpec
<1> QED
  BY <1>1, <1>2, <1>3, PartsAsSpecified, VectorTypeCorrect, AllocInvariant, TypeCorrect,
     ArenaIsSound, SendTypeCorrect, RingTypeCorrect, StreamInvariant, RecvTypeCorrect,
     DebugTold, PTL
=============================================================================
