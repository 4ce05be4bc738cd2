--------------------------- MODULE ProtocolsProofs ---------------------------
(***************************************************************************)
(* Proofs about the protocols of the storm server: what two connections    *)
(* that a proxy joined pass on to one another (ProxyPair), for any number  *)
(* of bytes; who reads the frames of a web socket (WebSocket), for any     *)
(* frames and sizes of buffers; and how the requests of one connection are *)
(* answered (HttpConnection), for any requests, files and sockets.         *)
(***************************************************************************)
EXTENDS MCProtocols, DataProofs, FiniteSetTheorems

------------------------------------------------------------------------------
(* ProxyPair                                                               *)

Said == Sides \X Nat
PcIs == {"idle", "connect", "add", "tell", "relay", "refuse", "send", "recv", "end", "delete"}
StateIs == {"none", "head", "proxy", "gone"}

(* Told is what a proxy's partner is to get: Passed is what it got of it or *)
(* is to get from sd, InHands what rv, the worker and the kernel still have. *)

Opening(x) == IF (kind = "http") = (x = "client") THEN <<<<x, 0>>>> ELSE <<>>
Spoken(x) == [i \in 1..said[x] |-> <<x, i>>]

Passed(x) == IF Strayed(x) THEN strangerGot ELSE wires[Other(x)] \o sds[Other(x)]
InHands(x) == hands[x] \o kernel[x]

\* What is to be with the partner or on its way: the opening when the pair is made.
Owed(x) == IF Joining THEN Spoken(x) ELSE Told(x)

PairTypeOK ==
  /\ kind \in Kinds /\ said \in [Sides -> Nat]
  /\ kernel \in [Sides -> Seq(Said)] /\ hands \in [Sides -> Seq(Said)]
  /\ wires \in [Sides -> Seq(Said)] /\ sds \in [Sides -> Seq(Said)]
  /\ strangerGot \in Seq(Said)
  /\ states \in [Sides -> StateIs] /\ ppc \in [Sides -> PcIs]

\* Whom the handler's connection names.
Pairing ==
  /\ ppc["server"] \notin {"connect", "add", "tell"}
  /\ staticCon <=> ppc["client"] \in {"add", "tell"}
  /\ Joining => states["client"] = "head"
  /\ states["client"] # "none"
  /\ (states["server"] = "none") <=> ppc["client"] \in {"connect", "add"}
  /\ sock \in {"none", "server", "stranger"}
  /\ sock = "server" => connected
  /\ sock = "none" /\ ppc["client"] \notin {"connect", "add"} => ~connected
  /\ sock # "stranger" => strangerGot = <<>>
  /\ sock = "stranger" => wires["server"] = <<>> /\ sds["server"] = <<>>

\* Until the pair is made nothing of the client's is passed on, and in socks
\* nothing of the server's: its connection still waits for a request.
NothingYet ==
  Joining =>
    /\ wires["server"] = <<>> /\ sds["server"] = <<>> /\ strangerGot = <<>>
    /\ hands["client"] = <<>> /\ kernel["client"] = Spoken("client")
    /\ kind # "http" =>
         wires["client"] = <<>> /\ sds["client"] = <<>> /\ states["server"] # "proxy"

Lasts(x) == states[x] # "gone"
Tied(x) == Strayed(x) \/ (Lasts(Other(x)) /\ (x = "client" => connected))

Begins(x) == \E r \in Seq(Said) : Told(x) = Passed(x) \o r
AllThere(x) == Owed(x) = Passed(x) \o InHands(x)
Sound(x) == Begins(x) /\ (Lasts(x) /\ Tied(x) => AllThere(x))

InPair == Sound("server") /\ (~Joining => Sound("client"))

ProxyInv == PairTypeOK /\ Pairing /\ NothingYet /\ InPair

------------------------------------------------------------------------------
(* Sequences cut and put together                                          *)

LEMMA CutIs ==
  ASSUME NEW S, NEW q \in Seq(S), NEW n \in 0..Len(q)
  PROVE  /\ Upto(q, n) \in Seq(S) /\ Beyond(q, n) \in Seq(S)
         /\ Upto(q, n) \o Beyond(q, n) = q
         /\ n = 0 => Upto(q, n) = <<>> /\ Beyond(q, n) = q
<1>1. /\ Upto(q, n) \in Seq(S) /\ Beyond(q, n) \in Seq(S)
      /\ Upto(q, n) \o Beyond(q, n) = q /\ Len(Upto(q, n)) = n
  BY PartsIs DEF Upto, Beyond
<1>2. n = 0 => Upto(q, n) = <<>> /\ Beyond(q, n) = q
  <2> DEFINE u == Upto(q, n)
             b == Beyond(q, n)
  <2> HIDE DEF u, b
  <2>1. n = 0 => u = <<>>
    BY <1>1 DEF u, b
  <2>2. <<>> \o b = b
    BY <1>1, ConcatEmptySeq DEF b
  <2> QED
    BY <1>1, <2>1, <2>2 DEF u, b
<1> QED
  BY <1>1, <1>2

LEMMA FlushIs ==
  ASSUME NEW S, NEW w \in Seq(S), NEW d \in Seq(S), NEW n \in 0..Len(d)
  PROVE  /\ w \o Upto(d, n) \in Seq(S) /\ Beyond(d, n) \in Seq(S)
         /\ (w \o Upto(d, n)) \o Beyond(d, n) = w \o d
<1> DEFINE u == Upto(d, n)
           b == Beyond(d, n)
<1>0. u \in Seq(S) /\ b \in Seq(S)
  BY CutIs
<1>1. u \o b = d
  BY CutIs
<1> HIDE DEF u, b
<1>2. (w \o u) \o b = w \o (u \o b)
  BY <1>0
<1>3. w \o u \in Seq(S)
  BY <1>0, ConcatProperties
<1> QED
  BY <1>0, <1>1, <1>2, <1>3 DEF u, b

------------------------------------------------------------------------------
(* What goes to a connection                                               *)

LEMMA Partner ==
  /\ Other("client") = "server" /\ Other("server") = "client"
  /\ \A x \in Sides : Other(x) \in Sides /\ Other(Other(x)) = x
  /\ \A x, y \in Sides : y # x => y = Other(x)
  BY DEF Other, Sides

\* line follows what y has or is to get; nothing else goes anywhere.
Sent(y, line) ==
  /\ wires' \in [Sides -> Seq(Said)] /\ sds' \in [Sides -> Seq(Said)]
  /\ wires'[y] \o sds'[y] = (wires[y] \o sds[y]) \o line
  /\ \A z \in Sides : z # y => wires'[z] = wires[z] /\ sds'[z] = sds[z]

\* Put keeps the order if nothing waits in sd or nothing goes at once.
LEMMA PutSends ==
  ASSUME PairTypeOK, NEW y \in Sides, NEW line \in Seq(Said), NEW n \in 0..Len(line),
         sds[y] = <<>> \/ n = 0, Put(y, line, n)
  PROVE  Sent(y, line)
<1> DEFINE w == wires[y]
           d == sds[y]
<1>1. w \in Seq(Said) /\ d \in Seq(Said)
  BY DEF PairTypeOK
<1>2. wires \in [Sides -> Seq(Said)] /\ sds \in [Sides -> Seq(Said)]
  BY DEF PairTypeOK
<1>3. wires' = [wires EXCEPT ![y] = w \o Upto(line, n)]
  BY DEF Put
<1>4. sds' = [sds EXCEPT ![y] = d \o Beyond(line, n)]
  BY DEF Put
<1>5. d = <<>> \/ n = 0
  OBVIOUS
<1> HIDE DEF w, d
<1>6. /\ w \o Upto(line, n) \in Seq(Said) /\ d \o Beyond(line, n) \in Seq(Said)
      /\ (w \o Upto(line, n)) \o (d \o Beyond(line, n)) = (w \o d) \o line
  <2>1. Upto(line, n) \in Seq(Said) /\ Beyond(line, n) \in Seq(Said)
    BY CutIs
  <2>2. w \o Upto(line, n) \in Seq(Said) /\ d \o Beyond(line, n) \in Seq(Said)
    BY <1>1, <2>1, ConcatProperties
  <2>3. (w \o Upto(line, n)) \o Beyond(line, n) = w \o line
    <3> DEFINE u == Upto(line, n)
               b == Beyond(line, n)
    <3>1. u \o b = line
      BY CutIs
    <3>2. u \in Seq(Said) /\ b \in Seq(Said)
      BY <2>1
    <3> HIDE DEF u, b
    <3>3. (w \o u) \o b = w \o (u \o b)
      BY <1>1, <3>2, SMTT(30)
    <3> QED
      BY <3>1, <3>3 DEF u, b
  <2>4. CASE d = <<>>
    <3>1. w \o d = w /\ d \o Beyond(line, n) = Beyond(line, n)
      BY <1>1, <2>1, <2>4, ConcatEmptySeq
    <3> QED
      BY <2>2, <2>3, <3>1
  <2>5. CASE n = 0
    <3>1. Upto(line, n) = <<>> /\ Beyond(line, n) = line
      BY <2>5, CutIs
    <3>2. w \o Upto(line, n) = w
      BY <1>1, <3>1, ConcatEmptySeq
    <3>3. (w \o d) \o line = w \o (d \o line)
      BY <1>1
    <3> QED
      BY <2>2, <3>1, <3>2, <3>3
  <2> QED
    BY <1>5, <2>4, <2>5
<1> DEFINE a == w \o Upto(line, n)
           b == d \o Beyond(line, n)
<1>7. a \in Seq(Said) /\ b \in Seq(Said)
  BY <1>6
<1>8. a \o b = (w \o d) \o line
  BY <1>6
<1>9. wires' = [wires EXCEPT ![y] = a] /\ sds' = [sds EXCEPT ![y] = b]
  BY <1>3, <1>4
<1> HIDE DEF a, b
<1>10. /\ wires' \in [Sides -> Seq(Said)] /\ sds' \in [Sides -> Seq(Said)]
       /\ wires'[y] = a /\ sds'[y] = b
       /\ \A z \in Sides : z # y => wires'[z] = wires[z] /\ sds'[z] = sds[z]
  BY <1>2, <1>7, <1>9
<1> QED
  BY <1>8, <1>10 DEF Sent, w, d

LEMMA SendSends ==
  ASSUME PairTypeOK, NEW y \in Sides, NEW line \in Seq(Said),
         SendTo(y, line) \/ (SendHere(y, line) /\ sds[y] = <<>>)
  PROVE  Sent(y, line)
<1>1. \E n \in 0..Len(line) : Put(y, line, n) /\ (sds[y] = <<>> \/ n = 0)
  <2>1. Len(line) \in Nat
    OBVIOUS
  <2> QED
    BY <2>1 DEF SendTo, SendHere
<1> QED
  BY <1>1, PutSends

LEMMA FlushSends ==
  ASSUME PairTypeOK, NEW x \in Sides, Flush(x)
  PROVE  Sent(x, <<>>)
<1> DEFINE w == wires[x]
           d == sds[x]
<1>1. w \in Seq(Said) /\ d \in Seq(Said)
  BY DEF PairTypeOK
<1>2. wires \in [Sides -> Seq(Said)] /\ sds \in [Sides -> Seq(Said)]
  BY DEF PairTypeOK
<1>3. PICK n \in 0..Len(d) : /\ wires' = [wires EXCEPT ![x] = w \o Upto(d, n)]
                             /\ sds' = [sds EXCEPT ![x] = Beyond(d, n)]
  <2>1. PICK n \in 0..FlushSz :
          /\ n <= Len(d) /\ wires' = [wires EXCEPT ![x] = @ \o Upto(d, n)]
          /\ sds' = [sds EXCEPT ![x] = Beyond(@, n)]
    BY DEF Flush
  <2>2. FlushSz \in Nat /\ Len(d) \in Nat
    BY <1>1, ProxyAssumption
  <2>3. n \in 0..Len(d)
    BY <2>1, <2>2
  <2> QED
    BY <2>1, <2>3
<1> HIDE DEF w, d
<1> DEFINE a == w \o Upto(d, n)
           b == Beyond(d, n)
<1>4. a \in Seq(Said) /\ b \in Seq(Said) /\ a \o b = w \o d
  BY <1>1, FlushIs, SMTT(30)
<1>5. wires' = [wires EXCEPT ![x] = a] /\ sds' = [sds EXCEPT ![x] = b]
  BY <1>3
<1> HIDE DEF a, b
<1>6. /\ wires' \in [Sides -> Seq(Said)] /\ sds' \in [Sides -> Seq(Said)]
      /\ wires'[x] = a /\ sds'[x] = b
      /\ \A z \in Sides : z # x => wires'[z] = wires[z] /\ sds'[z] = sds[z]
  BY <1>2, <1>4, <1>5
<1>7. w \o d \in Seq(Said)
  BY <1>1, ConcatProperties
<1>8. (w \o d) \o <<>> = w \o d
  BY <1>7, ConcatEmptySeq
<1> QED
  BY <1>4, <1>6, <1>8 DEF Sent, w, d

\* What the pair is told is typed.
LEMMA ToldIs ==
  ASSUME PairTypeOK, NEW x \in Sides
  PROVE  /\ Opening(x) \in Seq(Said) /\ Spoken(x) \in Seq(Said) /\ Told(x) \in Seq(Said)
         /\ Told(x) = Opening(x) \o Spoken(x)
         /\ Passed(x) \in Seq(Said) /\ InHands(x) \in Seq(Said)
<1>1. said[x] \in Nat /\ Other(x) \in Sides
  BY Partner DEF PairTypeOK
<1>2. <<x, 0>> \in Said /\ \A i \in 1..said[x] : <<x, i>> \in Said
  BY <1>1 DEF Said
<1>3. Opening(x) \in Seq(Said)
  <2>1. <<<<x, 0>>>> \in Seq(Said) /\ <<>> \in Seq(Said)
    BY <1>2
  <2> QED
    BY <2>1 DEF Opening
<1>4. Spoken(x) \in Seq(Said)
  BY <1>1, <1>2 DEF Spoken
<1>5. Told(x) = Opening(x) \o Spoken(x)
  BY DEF Told, Opening, Spoken
<1>6. Told(x) \in Seq(Said)
  BY <1>3, <1>4, <1>5, ConcatProperties
<1>7. /\ wires[Other(x)] \in Seq(Said) /\ sds[Other(x)] \in Seq(Said)
      /\ hands[x] \in Seq(Said) /\ kernel[x] \in Seq(Said)
  BY <1>1 DEF PairTypeOK
<1>8. Passed(x) \in Seq(Said) /\ InHands(x) \in Seq(Said)
  <2>1. strangerGot \in Seq(Said)
    BY DEF PairTypeOK
  <2> QED
    BY <1>7, <2>1, ConcatProperties DEF Passed, InHands
<1> QED
  BY <1>3, <1>4, <1>5, <1>6, <1>8

\* What x says follows what it said.
LEMMA SaysMore ==
  ASSUME PairTypeOK, NEW x \in Sides, Says(x)
  PROVE  /\ <<x, said[x] + 1>> \in Said
         /\ Spoken(x)' = Append(Spoken(x), <<x, said[x] + 1>>)
         /\ kernel' = [kernel EXCEPT ![x] = Append(@, <<x, said[x] + 1>>)]
         /\ said' = [said EXCEPT ![x] = @ + 1]
<1>1. said \in [Sides -> Nat] /\ said[x] \in Nat
  BY DEF PairTypeOK
<1>2. said' = [said EXCEPT ![x] = @ + 1] /\ said'[x] = said[x] + 1
  BY <1>1 DEF Says
<1>3. <<x, said[x] + 1>> \in Said
  BY <1>1 DEF Said
<1>4. [i \in 1..(said[x] + 1) |-> <<x, i>>] = Append([i \in 1..said[x] |-> <<x, i>>], <<x, said[x] + 1>>)
  <2> DEFINE m == said[x]
             f == [i \in 1..m |-> <<x, i>>]
             g == [i \in 1..(m + 1) |-> <<x, i>>]
             e == <<x, m + 1>>
  <2>1. m \in Nat
    BY <1>1
  <2> HIDE DEF m
  <2>2. f \in Seq(Said) /\ Len(f) = m /\ g \in Seq(Said) /\ Len(g) = m + 1 /\ e \in Said
    BY <2>1 DEF Said
  <2>3. \A i \in 1..m : f[i] = <<x, i>>
    OBVIOUS
  <2>4. \A i \in 1..(m + 1) : g[i] = <<x, i>>
    OBVIOUS
  <2>5. e = <<x, m + 1>>
    OBVIOUS
  <2> HIDE DEF f, g, e
  <2> DEFINE h == Append(f, e)
  <2>6. /\ h \in Seq(Said) /\ Len(h) = m + 1 /\ \A i \in 1..m : h[i] = f[i] /\ h[m + 1] = e
    BY <2>2, AppendProperties
  <2> HIDE DEF h
  <2>7. h[m + 1] = e
    <3>1. /\ Append(f, e)[Len(f) + 1] = e
      BY <2>2, AppendProperties
    <3> QED
      BY <2>2, <3>1 DEF h
  <2>8. ASSUME NEW i \in 1..(m + 1) PROVE g[i] = h[i]
    <3>1. CASE i = m + 1
      BY <2>4, <2>5, <2>7, <3>1
    <3>2. CASE i # m + 1
      <4>1. i \in 1..m
        BY <2>1, <3>2
      <4> QED
        BY <2>3, <2>4, <2>6, <4>1
    <3> QED
      BY <3>1, <3>2
  <2>9. g = h
    BY <2>2, <2>6, <2>8, SeqEqual
  <2> QED
    BY <2>9 DEF g, h, f, e, m
<1>5. Spoken(x)' = [i \in 1..(said[x] + 1) |-> <<x, i>>]
  BY <1>2 DEF Spoken
<1>6. kernel' = [kernel EXCEPT ![x] = Append(@, <<x, said[x] + 1>>)]
  BY <1>2 DEF Says
<1> QED
  BY <1>2, <1>3, <1>4, <1>5, <1>6 DEF Spoken

------------------------------------------------------------------------------
(* The steps                                                               *)

\* The steps that move no byte.
Quiet ==
  \/ TakeStatic \/ AddServer \/ StrangerNew \/ StrangerAdded \/ ReadsHead \/ SendError
  \/ \E x \in Sides :
       \/ Ends(x) \/ TimesOut(x) \/ NoFlush(x) \/ ReadNothing(x) \/ ReadsEnd(x) \/ EndOfPass(x)
       \/ \E in, out \in BOOLEAN : Polled(x, in, out)

LEMMA StepsAre ==
  ASSUME ProxyNext
  PROVE  \/ Quiet \/ Joined
         \/ \E x \in Sides : Says(x) \/ Flush(x) \/ Reads(x) \/ Relay(x) \/ Deleted(x)
  BY DEF ProxyNext, Quiet, Joins, Turn

LEMMA QuietMovesNothing ==
  ASSUME Quiet
  PROVE  UNCHANGED <<kind, connected, said, kernel, hands, wires, sds, strangerGot>>
<1> USE DEF pairVars, progVars, dataVars, turnVars
<1>1. CASE TakeStatic \/ AddServer
  BY <1>1 DEF TakeStatic, AddServer
<1>2. CASE ReadsHead \/ SendError
  BY <1>2 DEF ReadsHead, SendError
<1>3. CASE StrangerNew \/ StrangerAdded
  BY <1>3 DEF StrangerNew, StrangerAdded
<1>4. CASE \E x \in Sides : Ends(x) \/ TimesOut(x) \/ NoFlush(x) \/ ReadNothing(x)
  BY <1>4 DEF Ends, TimesOut, NoFlush, ReadNothing
<1>5. CASE \E x \in Sides : ReadsEnd(x) \/ EndOfPass(x)
  BY <1>5 DEF ReadsEnd, EndOfPass
<1>6. CASE \E x \in Sides, in, out \in BOOLEAN : Polled(x, in, out)
  BY <1>6 DEF Polled
<1> QED
  BY <1>1, <1>2, <1>3, <1>4, <1>5, <1>6 DEF Quiet

\* Where a quiet step takes the workers and the connections, and whom the
\* handler's connection names after it.
Onward ==
  /\ ppc' \in [Sides -> PcIs] /\ states' \in [Sides -> StateIs]
  /\ Pairing'
  /\ Joining' <=> Joining
  /\ \A x \in Sides : Lasts(x)' <=> Lasts(x)
  /\ Joining /\ kind # "http" /\ states["server"] # "proxy" => states'["server"] # "proxy"
  /\ ~Joining => sock' = sock

LEMMA QuietTakes ==
  ASSUME PairTypeOK, Pairing, NothingYet, Quiet,
         UNCHANGED <<kind, connected, wires, sds, strangerGot>>
  PROVE  Onward
<1>0. ppc \in [Sides -> PcIs] /\ states \in [Sides -> StateIs]
  BY DEF PairTypeOK
<1> USE DEF Sides, Onward
<1>1. CASE TakeStatic
  BY <1>0, <1>1 DEF TakeStatic, Set, Joining, Pairing, Lasts, PcIs, addVars
<1>2. CASE AddServer
  <2>1. /\ ppc["client"] = "add" /\ ppc' = [ppc EXCEPT !["client"] = "tell"]
        /\ states' = [states EXCEPT !["server"] = IF kind = "http" THEN "proxy" ELSE "head"]
        /\ UNCHANGED <<staticCon, strangerGot>>
        /\ sock' = IF staticCon THEN IF connected THEN "server" ELSE "none" ELSE sock
    BY <1>2 DEF AddServer, Tell, Set
  <2>2. states["server"] = "none" /\ staticCon /\ Joining /\ strangerGot = <<>>
    BY <2>1 DEF Pairing, Joining, NothingYet
  <2>3. /\ ppc' \in [Sides -> PcIs] /\ states' \in [Sides -> StateIs]
        /\ ppc'["client"] = "tell" /\ ppc'["server"] = ppc["server"]
        /\ states'["client"] = states["client"] /\ states'["server"] \in {"head", "proxy"}
        /\ (kind # "http" => states'["server"] = "head")
    BY <1>0, <2>1 DEF PcIs, StateIs
  <2> QED
    BY <2>1, <2>2, <2>3 DEF Joining, Pairing, Lasts
<1>3. CASE StrangerNew
  BY <1>0, <1>3 DEF StrangerNew, Joining, Pairing, Lasts, turnVars
<1>4. CASE StrangerAdded
  BY <1>0, <1>4 DEF StrangerAdded, Joining, Pairing, Lasts, turnVars, Tell, NothingYet
<1>5. CASE ReadsHead \/ SendError
  <2>1. PICK v \in {"refuse", "end"} :
          ppc' = [ppc EXCEPT !["server"] = v] /\ UNCHANGED <<states, staticCon, sock>>
    BY <1>5 DEF ReadsHead, SendError, Goes, Set, addVars
  <2> QED
    BY <1>0, <2>1 DEF Joining, Pairing, Lasts, PcIs
<1>6. ASSUME NEW x \in Sides, Ends(x) PROVE Onward
  BY <1>0, <1>6 DEF Ends, Joining, Pairing, Lasts, turnVars, addVars
<1>7. ASSUME NEW x \in Sides,
             TimesOut(x) \/ NoFlush(x) \/ ReadNothing(x) \/ ReadsEnd(x) \/ EndOfPass(x)
      PROVE  Onward
  <2>1. PICK v \in PcIs \ {"connect", "add", "tell"} :
          ppc' = [ppc EXCEPT ![x] = v] /\ ppc[x] \in {"idle", "send", "recv", "end"}
    BY <1>7 DEF TimesOut, NoFlush, ReadNothing, ReadsEnd, EndOfPass, At, Goes, Set, PcIs
  <2>2. UNCHANGED <<states, staticCon, sock>>
    BY <1>7 DEF TimesOut, NoFlush, ReadNothing, ReadsEnd, EndOfPass, addVars
  <2> QED
    BY <1>0, <2>1, <2>2 DEF Joining, Pairing, Lasts, PcIs
<1>8. ASSUME NEW x \in Sides, NEW in \in BOOLEAN, NEW out \in BOOLEAN, Polled(x, in, out) PROVE Onward
  <2>1. /\ ppc' = [ppc EXCEPT ![x] = "send"] /\ ppc[x] = "idle"
        /\ UNCHANGED <<states, staticCon, sock>>
    BY <1>8 DEF Polled, At, Goes, Set, addVars
  <2> QED
    BY <1>0, <2>1 DEF Joining, Pairing, Lasts, PcIs
<1> QED
  BY <1>1, <1>2, <1>3, <1>4, <1>5, <1>6, <1>7, <1>8 DEF Quiet

\* A side of which a step says nothing new.
LEMMA SideKept ==
  ASSUME NEW x \in Sides, Sound(x),
         UNCHANGED <<Told(x), Owed(x), Passed(x), InHands(x)>>,
         Lasts(x)' /\ Tied(x)' => Lasts(x) /\ Tied(x)
  PROVE  Sound(x)'
  BY DEF Sound, Begins, AllThere

\* What is said of the bytes holds after a step that moves none.
LEMMA QuietKeeps ==
  ASSUME ProxyInv, UNCHANGED <<kind, connected, said, kernel, hands, wires, sds, strangerGot>>, Onward
  PROVE  ProxyInv'
<1>1. PairTypeOK'
  BY DEF ProxyInv, PairTypeOK, Onward
<1>2. \A x \in Sides : UNCHANGED <<Spoken(x), Told(x), Owed(x), InHands(x)>>
  BY DEF Spoken, Told, Owed, InHands, Onward
<1>3. NothingYet'
  BY <1>2 DEF ProxyInv, NothingYet, Onward, Sides
<1>4. Sound("server")'
  <2>1. UNCHANGED Passed("server") /\ (Tied("server")' <=> Tied("server"))
    BY DEF Passed, Strayed, Other, Tied, Onward, Sides
  <2> QED
    BY <1>2, <2>1, SideKept DEF ProxyInv, InPair, Onward, Sides
<1>5. ~Joining' => Sound("client")'
  <2> SUFFICES ASSUME ~Joining PROVE Sound("client")'
    BY DEF Onward
  <2>1. UNCHANGED Passed("client") /\ (Tied("client")' <=> Tied("client"))
    BY DEF Passed, Strayed, Other, Tied, Onward, Sides
  <2> QED
    BY <1>2, <2>1, SideKept DEF ProxyInv, InPair, Onward, Sides
<1> QED
  BY <1>1, <1>3, <1>4, <1>5 DEF ProxyInv, InPair, Onward

\* Says puts a byte at the end of what is told and of what is to be read.
LEMMA SaysKeeps ==
  ASSUME ProxyInv, NEW x \in Sides, Says(x)
  PROVE  ProxyInv'
<1> DEFINE e == <<x, said[x] + 1>>
<1>1. /\ e \in Said /\ Spoken(x)' = Append(Spoken(x), e)
      /\ kernel' = [kernel EXCEPT ![x] = Append(@, e)] /\ said' = [said EXCEPT ![x] = @ + 1]
  BY SaysMore DEF ProxyInv
<1>2. UNCHANGED <<kind, connected, hands, wires, sds, ppc, states, staticCon, strangerGot, sock>>
  BY DEF Says, pairVars, dataVars, turnVars, addVars
<1> HIDE DEF e
<1>4. PairTypeOK
  BY DEF ProxyInv
<1>5. /\ said[x] \in Nat /\ kernel[x] \in Seq(Said) /\ hands[x] \in Seq(Said)
      /\ kernel \in [Sides -> Seq(Said)] /\ said \in [Sides -> Nat]
  BY <1>4 DEF PairTypeOK
<1>6. Append(kernel[x], e) \in Seq(Said)
  BY <1>1, <1>5, AppendProperties
<1>7. PairTypeOK'
  BY <1>1, <1>2, <1>4, <1>5, <1>6 DEF PairTypeOK
<1>8. /\ Pairing' /\ (Joining' <=> Joining)
      /\ \A y \in Sides : (Lasts(y)' <=> Lasts(y)) /\ (Tied(y)' <=> Tied(y))
  BY <1>2 DEF ProxyInv, Pairing, Joining, Lasts, Tied, Strayed
<1>9. \A y \in Sides : y # x =>
        /\ kernel'[y] = kernel[y]
        /\ UNCHANGED <<Spoken(y), Told(y), Owed(y), InHands(y)>>
  BY <1>1, <1>2, <1>5, <1>8 DEF Spoken, Told, InHands, Owed
<1>10. \A y \in Sides : Passed(y)' = Passed(y) /\ Opening(y)' = Opening(y)
  BY <1>2 DEF Passed, Opening, Strayed
<1>11. kernel'[x] = Append(kernel[x], e)
  BY <1>1, <1>5
<1>12. NothingYet'
  <2>1. SUFFICES ASSUME Joining PROVE NothingYet'
    BY <1>8 DEF NothingYet
  <2>2. kernel'["client"] = Spoken("client")'
    BY <1>1, <1>9, <1>11, <2>1 DEF ProxyInv, NothingYet, Sides
  <2> QED
    BY <1>2, <2>1, <2>2 DEF ProxyInv, NothingYet
<1>13. Told(x)' = Told(x) \o <<e>> /\ Owed(x)' = Owed(x) \o <<e>>
  <2> DEFINE o == Opening(x)
             p == Spoken(x)
  <2>1. o \in Seq(Said) /\ p \in Seq(Said) /\ Told(x) = o \o p
    BY <1>4, ToldIs
  <2>2. Told(x)' = Opening(x)' \o Spoken(x)'
    BY DEF Told, Opening, Spoken
  <2>3. Told(x)' = o \o Append(p, e)
    BY <1>1, <1>10, <2>2
  <2>6. Owed(x) = (IF Joining THEN p ELSE Told(x)) /\ Owed(x)' = IF Joining THEN Append(p, e) ELSE Told(x)'
    BY <1>1, <1>8 DEF Owed
  <2> HIDE DEF o, p
  <2>4. Append(p, e) = p \o <<e>> /\ <<e>> \in Seq(Said)
    BY <1>1, <2>1, AppendIsConcat
  <2>5. (o \o p) \o <<e>> = o \o (p \o <<e>>)
    BY <2>1, <2>4, Together
  <2> QED
    BY <2>1, <2>3, <2>4, <2>5, <2>6
<1>14. InHands(x)' = InHands(x) \o <<e>>
  <2> DEFINE h == hands[x]
             k == kernel[x]
  <2>1. h \in Seq(Said) /\ k \in Seq(Said) /\ <<e>> \in Seq(Said)
    BY <1>1, <1>5
  <2>2. InHands(x)' = h \o Append(k, e)
    BY <1>2, <1>11 DEF InHands
  <2>3. InHands(x) = h \o k
    BY DEF InHands
  <2> HIDE DEF h, k
  <2>4. Append(k, e) = k \o <<e>>
    BY <1>1, <2>1, AppendIsConcat
  <2>5. (h \o k) \o <<e>> = h \o (k \o <<e>>)
    BY <2>1, Together
  <2> QED
    BY <2>2, <2>3, <2>4, <2>5
<1>15. ASSUME Begins(x) PROVE Begins(x)'
  <2>1. PICK r \in Seq(Said) : Told(x) = Passed(x) \o r
    BY <1>15 DEF Begins
  <2> DEFINE p == Passed(x)
  <2>2. p \in Seq(Said) /\ <<e>> \in Seq(Said)
    BY <1>1, <1>4, ToldIs
  <2>3. Told(x)' = (p \o r) \o <<e>> /\ Passed(x)' = p
    BY <1>10, <1>13, <2>1
  <2> HIDE DEF p
  <2>4. (p \o r) \o <<e>> = p \o (r \o <<e>>)
    BY <2>2, Together
  <2>5. r \o <<e>> \in Seq(Said)
    BY <2>2, ConcatProperties
  <2> QED
    BY <2>3, <2>4, <2>5 DEF Begins
<1>16. ASSUME AllThere(x) PROVE AllThere(x)'
  <2> DEFINE p == Passed(x)
             h == InHands(x)
  <2>1. p \in Seq(Said) /\ h \in Seq(Said) /\ <<e>> \in Seq(Said)
    BY <1>1, <1>4, ToldIs
  <2>2. Owed(x)' = (p \o h) \o <<e>> /\ Passed(x)' = p /\ InHands(x)' = h \o <<e>>
    BY <1>10, <1>13, <1>14, <1>16 DEF AllThere
  <2> HIDE DEF p, h
  <2>3. (p \o h) \o <<e>> = p \o (h \o <<e>>)
    BY <2>1, Together
  <2> QED
    BY <2>2, <2>3 DEF AllThere
<1>17. Sound(x) => Sound(x)'
  BY <1>8, <1>15, <1>16 DEF Sound
<1>18. \A y \in Sides : y # x /\ Sound(y) => Sound(y)'
  BY <1>8, <1>9, <1>10, SideKept
<1>19. InPair'
  BY <1>8, <1>17, <1>18 DEF ProxyInv, InPair, Sides
<1> QED
  BY <1>7, <1>8, <1>12, <1>19 DEF ProxyInv

LEMMA PassedIs ==
  ASSUME PairTypeOK, NEW y \in Sides, NEW line, Sent(y, line), UNCHANGED <<sock, strangerGot>>
  PROVE  /\ ~Strayed(Other(y)) => Passed(Other(y))' = Passed(Other(y)) \o line
         /\ Strayed(Other(y)) => Passed(Other(y))' = Passed(Other(y))
         /\ Passed(y)' = Passed(y)
<1>1. Other(Other(y)) = y /\ Other(y) \in Sides /\ Other(y) # y
  BY DEF Other, Sides
<1>2. \A z \in Sides : Strayed(z)' <=> Strayed(z)
  BY DEF Strayed
<1>3. wires'[Other(y)] = wires[Other(y)] /\ sds'[Other(y)] = sds[Other(y)]
  BY <1>1 DEF Sent
<1>4. Passed(y)' = Passed(y)
  BY <1>2, <1>3 DEF Passed
<1>5. wires'[y] \o sds'[y] = (wires[y] \o sds[y]) \o line
  BY DEF Sent
<1> QED
  BY <1>1, <1>2, <1>4, <1>5 DEF Passed

LEMMA BothEmpty ==
  ASSUME NEW S, NEW a \in Seq(S), NEW b \in Seq(S), a \o b = <<>>
  PROVE  a = <<>> /\ b = <<>>
<1>1. Len(a \o b) = Len(a) + Len(b) /\ Len(<<>>) = 0 /\ Len(a) \in Nat /\ Len(b) \in Nat
  BY ConcatProperties
<1>2. Len(a) = 0 /\ Len(b) = 0
  BY <1>1
<1> QED
  BY <1>2

\* Of an empty sd nothing goes.
LEMMA EmptyFlush ==
  ASSUME PairTypeOK, NEW x \in Sides, Sent(x, <<>>), wires[x] = <<>>, sds[x] = <<>>
  PROVE  wires'[x] = <<>> /\ sds'[x] = <<>>
<1>1. wires'[x] \o sds'[x] = (<<>> \o <<>>) \o <<>> /\ wires'[x] \in Seq(Said) /\ sds'[x] \in Seq(Said)
  BY DEF Sent
<1>2. (<<>> \o <<>>) \o <<>> = <<>>
  OBVIOUS
<1>3. wires'[x] \o sds'[x] = <<>>
  BY <1>1, <1>2
<1> QED
  BY <1>1, <1>3, BothEmpty

LEMMA FlushKeeps ==
  ASSUME ProxyInv, NEW x \in Sides, Flush(x)
  PROVE  ProxyInv'
<1>1. PairTypeOK /\ Sent(x, <<>>)
  BY FlushSends DEF ProxyInv
<1>2. /\ UNCHANGED <<kind, connected, said, kernel, hands, states, staticCon, strangerGot, sock>>
      /\ ppc' = [ppc EXCEPT ![x] = "recv"] /\ ppc[x] = "send"
  BY DEF Flush, At, Goes, Set, pairVars, progVars, addVars
<1>3. wires[x] = <<>> /\ sds[x] = <<>> => wires'[x] = <<>> /\ sds'[x] = <<>>
  BY <1>1, EmptyFlush
<1>4. \A y \in Sides : y # x => wires'[y] = wires[y] /\ sds'[y] = sds[y]
  BY <1>1 DEF Sent
<1>5. PairTypeOK'
  BY <1>1, <1>2 DEF PairTypeOK, Sent, PcIs
<1>6. ppc'["client"] \in {"connect", "add", "tell"} => ppc'["client"] = ppc["client"]
  BY <1>1, <1>2 DEF PairTypeOK, Sides
<1>7. Joining' <=> Joining
  BY <1>1, <1>2 DEF Joining, PairTypeOK, Sides
<1>8. wires["server"] = <<>> /\ sds["server"] = <<>> => wires'["server"] = <<>> /\ sds'["server"] = <<>>
  BY <1>3, <1>4 DEF Sides
<1>9. Pairing'
  BY <1>1, <1>2, <1>7, <1>8 DEF ProxyInv, Pairing, Joining, PairTypeOK, Sides
<1>10. Joining => x = "server"
  BY <1>2 DEF Joining, Sides
<1>11. NothingYet'
  BY <1>2, <1>4, <1>7, <1>8, <1>10 DEF ProxyInv, NothingYet, Spoken, Sides
<1>12. \A y \in Sides : Passed(y)' = Passed(y)
  <2>1. Passed(Other(x)) \in Seq(Said) /\ Other(x) \in Sides
    BY <1>1, ToldIs, Partner
  <2>2. Passed(Other(x)) \o <<>> = Passed(Other(x))
    BY <2>1, ConcatEmptySeq
  <2>3. /\ Passed(Other(x))' = Passed(Other(x)) \o <<>> \/ Passed(Other(x))' = Passed(Other(x))
        /\ Passed(x)' = Passed(x)
    BY <1>1, <1>2, PassedIs
  <2>4. \A y \in Sides : y = x \/ y = Other(x)
    BY Partner
  <2> QED
    BY <2>2, <2>3, <2>4
<1>13. \A y \in Sides : UNCHANGED <<Told(y), Owed(y), InHands(y)>>
  BY <1>2, <1>7 DEF Told, Owed, InHands, Spoken
<1>14. \A y \in Sides : (Lasts(y)' <=> Lasts(y)) /\ (Tied(y)' <=> Tied(y))
  BY <1>2 DEF Lasts, Tied, Strayed
<1>15. \A y \in Sides : Sound(y) => Sound(y)'
  BY <1>12, <1>13, <1>14, SideKept
<1> QED
  BY <1>5, <1>7, <1>9, <1>11, <1>15 DEF ProxyInv, InPair, Sides

\* What was read is behind what rv held.
LEMMA ReadsKeeps ==
  ASSUME ProxyInv, NEW x \in Sides, Reads(x)
  PROVE  ProxyInv'
<1>1. PairTypeOK /\ ppc[x] = "recv"
  BY DEF ProxyInv, Reads, At
<1>2. /\ UNCHANGED <<kind, connected, said, wires, sds, states, staticCon, strangerGot, sock>>
      /\ ppc' = [ppc EXCEPT ![x] = "relay"]
      /\ hands' = [hands EXCEPT ![x] = hands[x] \o kernel[x]]
      /\ kernel' = [kernel EXCEPT ![x] = <<>>]
  BY DEF Reads, Goes, Set, pairVars, progVars, addVars, dataVars
<1>3. hands[x] \o kernel[x] \in Seq(Said) /\ <<>> \in Seq(Said)
  BY <1>1, ConcatProperties, EmptySeq DEF PairTypeOK
<1>4. PairTypeOK'
  BY <1>1, <1>2, <1>3 DEF PairTypeOK, PcIs
<1>5. Joining' <=> Joining
  BY <1>1, <1>2 DEF Joining, PairTypeOK, Sides
<1>6. Pairing'
  BY <1>1, <1>2, <1>5 DEF ProxyInv, Pairing, Joining, PairTypeOK, Sides
<1>7. Joining => x = "server"
  BY <1>1 DEF Joining, Sides
<1>8. \A y \in Sides : y # x => hands'[y] = hands[y] /\ kernel'[y] = kernel[y]
  BY <1>1, <1>2 DEF PairTypeOK
<1>9. NothingYet'
  BY <1>2, <1>5, <1>7, <1>8 DEF ProxyInv, NothingYet, Spoken, Sides
<1>10. \A y \in Sides : UNCHANGED <<Told(y), Owed(y), Passed(y)>>
  BY <1>2, <1>5 DEF Told, Owed, Passed, Strayed, Spoken
<1>11. InHands(x)' = InHands(x)
  <2> DEFINE h == hands[x] \o kernel[x]
  <2>1. InHands(x)' = h \o <<>> /\ InHands(x) = h
    BY <1>1, <1>2 DEF InHands, PairTypeOK
  <2>2. h \in Seq(Said)
    BY <1>3
  <2> HIDE DEF h
  <2>3. h \o <<>> = h
    BY <2>2, ConcatEmptySeq
  <2> QED
    BY <2>1, <2>3
<1>12. \A y \in Sides : UNCHANGED InHands(y)
  BY <1>8, <1>11 DEF InHands
<1>13. \A y \in Sides : (Lasts(y)' <=> Lasts(y)) /\ (Tied(y)' <=> Tied(y))
  BY <1>2 DEF Lasts, Tied, Strayed
<1>14. \A y \in Sides : Sound(y) => Sound(y)'
  BY <1>10, <1>12, <1>13, SideKept
<1> QED
  BY <1>4, <1>5, <1>6, <1>9, <1>14 DEF ProxyInv, InPair, Sides

\* A connection that goes takes its sd with it: the partner's program got a
\* beginning.
LEMMA DeletedKeeps ==
  ASSUME ProxyInv, NEW x \in Sides, Deleted(x)
  PROVE  ProxyInv'
<1>1. PairTypeOK /\ ppc[x] = "delete" /\ Lasts(x) /\ states[x] # "none"
  BY DEF ProxyInv, Deleted, At, Open, Lasts
<1>2. /\ UNCHANGED <<kind, connected, said, wires, staticCon, strangerGot, sock>>
      /\ ppc' = [ppc EXCEPT ![x] = "idle"] /\ states' = [states EXCEPT ![x] = "gone"]
      /\ hands' = [hands EXCEPT ![x] = <<>>] /\ kernel' = [kernel EXCEPT ![x] = <<>>]
      /\ sds' = [sds EXCEPT ![x] = <<>>]
  BY DEF Deleted, Goes, Set, pairVars, progVars, addVars
<1>3. <<>> \in Seq(Said)
  BY EmptySeq
<1>4. PairTypeOK'
  BY <1>1, <1>2, <1>3 DEF PairTypeOK, PcIs, StateIs
<1>5. Joining' <=> Joining
  BY <1>1, <1>2 DEF Joining, PairTypeOK, Sides
<1>6. /\ \A y \in Sides : y # x => /\ hands'[y] = hands[y] /\ kernel'[y] = kernel[y]
                                  /\ sds'[y] = sds[y] /\ states'[y] = states[y]
      /\ sds'[x] = <<>> /\ states'[x] = "gone"
  BY <1>1, <1>2 DEF PairTypeOK
<1>7. Pairing'
  BY <1>1, <1>2, <1>5, <1>6 DEF ProxyInv, Pairing, Joining, PairTypeOK, Sides
<1>8. Joining => x = "server"
  BY <1>1 DEF Joining, Sides
<1>9. NothingYet'
  BY <1>2, <1>5, <1>6, <1>8 DEF ProxyInv, NothingYet, Spoken, Sides
<1>10. \A y \in Sides : UNCHANGED <<Told(y), Owed(y)>> /\ (Strayed(y)' <=> Strayed(y))
  BY <1>2, <1>5 DEF Told, Owed, Strayed, Spoken
<1> DEFINE z == Other(x)
<1>11. z \in Sides /\ z # x /\ Other(z) = x /\ \A y \in Sides : y = x \/ y = z
  BY Partner DEF Other, Sides
<1> HIDE DEF z
<1>12. Passed(x)' = Passed(x)
  <2>1. Other(x) \in Sides /\ Other(x) # x
    BY Partner DEF Other, Sides
  <2> QED
    BY <1>2, <1>6, <1>10, <2>1 DEF Passed
<1>13. Sound(x) => Sound(x)'
  BY <1>6, <1>10, <1>12 DEF Sound, Begins, Lasts
<1>14. ASSUME Sound(z), Strayed(z) PROVE Sound(z)'
  <2>1. UNCHANGED <<Passed(z), InHands(z)>> /\ Tied(z) /\ (Lasts(z)' <=> Lasts(z))
    BY <1>2, <1>6, <1>10, <1>11, <1>14 DEF Passed, InHands, Tied, Lasts
  <2> QED
    BY <1>10, <1>11, <1>14, <2>1, SideKept
<1>15. ASSUME Sound(z), ~Strayed(z) PROVE Sound(z)'
  <2>1. ~Tied(z)'
    BY <1>6, <1>10, <1>11, <1>15 DEF Tied, Lasts
  <2> DEFINE w == wires[x]
             d == sds[x]
  <2>2. w \in Seq(Said) /\ d \in Seq(Said)
    BY <1>1 DEF PairTypeOK
  <2>3. PICK r \in Seq(Said) : Told(z) = (w \o d) \o r
    BY <1>11, <1>15 DEF Sound, Begins, Passed
  <2>4. Passed(z)' = w \o <<>>
    BY <1>2, <1>6, <1>10, <1>11, <1>15 DEF Passed
  <2> HIDE DEF w, d
  <2>5. w \o <<>> = w /\ (w \o d) \o r = w \o (d \o r) /\ d \o r \in Seq(Said)
    BY <2>2, ConcatEmptySeq, Together, ConcatProperties, SMTT(30)
  <2>6. Begins(z)'
    BY <1>10, <1>11, <2>3, <2>4, <2>5 DEF Begins
  <2> QED
    BY <2>1, <2>6 DEF Sound
<1>16. \A y \in Sides : Sound(y) => Sound(y)'
  BY <1>11, <1>13, <1>14, <1>15
<1> QED
  BY <1>4, <1>5, <1>7, <1>9, <1>16 DEF ProxyInv, InPair, Sides

\* The bytes that went on are the first of those that were held.
LEMMA WentOn ==
  ASSUME PairTypeOK, PairTypeOK', NEW x \in Sides, NEW line \in Seq(Said),
         Passed(x)' = Passed(x) \o line, InHands(x) = line \o InHands(x)',
         Owed(x)' = Owed(x), AllThere(x)
  PROVE  AllThere(x)'
<1> DEFINE p == Passed(x)
           h == InHands(x)'
<1>1. p \in Seq(Said)
  BY ToldIs
<1>2. h \in Seq(Said)
  BY Partner, ConcatProperties DEF PairTypeOK, InHands
<1>3. Owed(x)' = p \o (line \o h) /\ Passed(x)' = p \o line
  BY DEF AllThere
<1> HIDE DEF p, h
<1>4. (p \o line) \o h = p \o (line \o h)
  BY <1>1, <1>2, Together, SMTT(30)
<1> QED
  BY <1>3, <1>4 DEF AllThere, h

\* Of what is all there, a beginning has gone: there is an opening only in what is
\* told when the pair is made.
LEMMA ThereBegins ==
  ASSUME PairTypeOK', NEW x \in Sides, AllThere(x)', Owed(x)' = Told(x)'
  PROVE  Begins(x)'
<1>1. InHands(x)' \in Seq(Said)
  BY ConcatProperties DEF PairTypeOK, InHands
<1> QED
  BY <1>1 DEF AllThere, Begins

LEMMA OwedIs ==
  ASSUME PairTypeOK, NEW x \in Sides, ~Joining \/ Opening(x) = <<>>
  PROVE  Owed(x) = Told(x)
<1>1. CASE ~Joining
  BY <1>1 DEF Owed
<1>2. CASE Opening(x) = <<>>
  <2> DEFINE s == Spoken(x)
  <2>1. s \in Seq(Said) /\ Told(x) = <<>> \o s /\ (Owed(x) = s \/ Owed(x) = Told(x))
    BY <1>2, ToldIs DEF Owed
  <2> HIDE DEF s
  <2>2. <<>> \o s = s
    BY <2>1, ConcatEmptySeq
  <2> QED
    BY <2>1, <2>2
<1> QED
  BY <1>1, <1>2

\* Where the bytes of a worker's hands go: to the partner, to the stranger that was
\* taken for it, or nowhere when there is none.
LEMMA RelayGoes ==
  ASSUME ProxyInv, NEW x \in Sides, Relay(x)
  PROVE  \/ /\ Sent(Other(x), hands[x]) /\ ~Strayed(x) /\ Tied(x)
            /\ UNCHANGED strangerGot
         \/ /\ UNCHANGED <<wires, sds>> /\ Strayed(x)
            /\ strangerGot' = strangerGot \o hands[x]
         \/ /\ UNCHANGED <<wires, sds, strangerGot>> /\ ~Strayed(x) /\ ~Tied(x)
<1>1. PairTypeOK /\ ppc[x] = "relay" /\ states[x] = "proxy"
  BY DEF ProxyInv, Relay, At
<1>2. hands[x] \in Seq(Said)
  BY <1>1 DEF PairTypeOK
<1>3. x = "client" => ~Joining
  BY <1>1 DEF Joining
<1>4. \A y \in Sides : Open(y) \/ states[y] \in {"none", "gone"}
  BY <1>1 DEF PairTypeOK, Open, StateIs
<1>5. CASE x = "client" /\ sock = "server" /\ Open("server")
  <2>1. SendTo("server", hands[x]) /\ UNCHANGED strangerGot
    BY <1>5 DEF Relay, SendBySock
  <2>2. Sent("server", hands[x])
    BY <1>1, <1>2, <2>1, SendSends DEF Sides
  <2>3. Tied(x) /\ ~Strayed(x)
    BY <1>5, Partner DEF Tied, Strayed, Lasts, Open, ProxyInv, Pairing
  <2> QED
    BY <1>5, <2>1, <2>2, <2>3, Partner
<1>6. CASE x = "client" /\ sock = "stranger"
  BY <1>6 DEF Relay, SendBySock, Strayed
<1>7. CASE x = "client" /\ sock # "stranger" /\ ~(sock = "server" /\ Open("server"))
  <2>1. UNCHANGED <<wires, sds, strangerGot>>
    BY <1>7 DEF Relay, SendBySock
  <2>2. sock = "none" => ~connected
    BY <1>3, <1>7 DEF ProxyInv, Pairing, Joining
  <2>3. sock = "server" => states["server"] = "gone"
    BY <1>3, <1>4, <1>7 DEF ProxyInv, Pairing, Joining, Sides
  <2>4. ~Tied(x) /\ ~Strayed(x)
    BY <1>7, <2>2, <2>3, Partner DEF Tied, Strayed, Lasts, ProxyInv, Pairing
  <2> QED
    BY <2>1, <2>4
<1>8. CASE x = "server" /\ Open("client")
  <2>1. SendTo("client", hands[x]) /\ UNCHANGED strangerGot
    BY <1>8 DEF Relay
  <2>2. Sent("client", hands[x])
    BY <1>1, <1>2, <2>1, SendSends DEF Sides
  <2>3. Tied(x) /\ ~Strayed(x)
    BY <1>8, Partner DEF Tied, Strayed, Lasts, Open
  <2> QED
    BY <1>8, <2>1, <2>2, <2>3, Partner
<1>9. CASE x = "server" /\ ~Open("client")
  <2>1. UNCHANGED <<wires, sds, strangerGot>>
    BY <1>9 DEF Relay
  <2>2. states["client"] # "none"
    BY DEF ProxyInv, Pairing
  <2>3. ~Tied(x) /\ ~Strayed(x)
    BY <1>4, <1>9, <2>2, Partner DEF Tied, Strayed, Lasts, Sides
  <2> QED
    BY <2>1, <2>3
<1> QED
  BY <1>5, <1>6, <1>7, <1>8, <1>9 DEF Sides

LEMMA RelayKeeps ==
  ASSUME ProxyInv, NEW x \in Sides, Relay(x)
  PROVE  ProxyInv'
<1>1. PairTypeOK /\ ppc[x] = "relay" /\ states[x] = "proxy"
  BY DEF ProxyInv, Relay, At
<1>2. /\ UNCHANGED <<kind, connected, said, kernel, states, staticCon, sock>>
      /\ ppc' = [ppc EXCEPT ![x] = "end"] /\ hands' = [hands EXCEPT ![x] = <<>>]
  BY DEF Relay, Goes, Set, pairVars, progVars, addVars
<1> DEFINE toPartner == /\ Sent(Other(x), hands[x]) /\ ~Strayed(x) /\ Tied(x)
                        /\ UNCHANGED strangerGot
           toStranger == /\ UNCHANGED <<wires, sds>> /\ Strayed(x)
                         /\ strangerGot' = strangerGot \o hands[x]
           toNobody == /\ UNCHANGED <<wires, sds, strangerGot>> /\ ~Strayed(x) /\ ~Tied(x)
           z == Other(x)
<1>3. toPartner \/ toStranger \/ toNobody
  BY RelayGoes
<1>4. z \in Sides /\ z # x /\ Other(z) = x /\ \A y \in Sides : y = x \/ y = z
  BY Partner DEF Other, Sides
<1> HIDE DEF z
<1>5. hands[x] \in Seq(Said) /\ strangerGot \in Seq(Said) /\ <<>> \in Seq(Said)
  BY <1>1, EmptySeq DEF PairTypeOK
<1>6. strangerGot \o hands[x] \in Seq(Said)
  BY <1>5, ConcatProperties
<1>7. PairTypeOK'
  BY <1>1, <1>2, <1>3, <1>5, <1>6 DEF PairTypeOK, Sent, PcIs
<1>8. Joining' <=> Joining
  BY <1>1, <1>2 DEF Joining, PairTypeOK, Sides
<1>9. Joining => x = "server" /\ kind = "http"
  BY <1>1 DEF ProxyInv, NothingYet, Joining, Sides
<1>10. x = "server" \/ ~toPartner => wires'["server"] = wires["server"] /\ sds'["server"] = sds["server"]
  BY <1>3, <1>4 DEF Sent, z, Sides
<1>11. Strayed("client") => x = "server" \/ ~toPartner
  BY DEF Sides
<1>12. ~Strayed("client") => strangerGot' = strangerGot
  BY <1>3 DEF Strayed
<1>13. Pairing'
  BY <1>1, <1>2, <1>8, <1>10, <1>11, <1>12 DEF ProxyInv, Pairing, Joining, PairTypeOK, Sides, Strayed
<1>14. \A y \in Sides : y # x => hands'[y] = hands[y]
  BY <1>1, <1>2 DEF PairTypeOK
<1>15. x = "server" => strangerGot' = strangerGot
  BY <1>3 DEF Strayed
<1>16. NothingYet'
  BY <1>2, <1>8, <1>9, <1>10, <1>14, <1>15 DEF ProxyInv, NothingYet, Spoken, Sides
<1>17. \A y \in Sides : UNCHANGED <<Told(y), Owed(y)>> /\ (Strayed(y)' <=> Strayed(y))
  BY <1>2, <1>8 DEF Told, Owed, Strayed, Spoken
<1>18. \A y \in Sides : (Lasts(y)' <=> Lasts(y)) /\ (Tied(y)' <=> Tied(y))
  BY <1>2 DEF Lasts, Tied, Strayed
<1>19. InHands(z)' = InHands(z)
  BY <1>2, <1>4, <1>14 DEF InHands
<1>20. InHands(x) = hands[x] \o InHands(x)'
  <2> DEFINE k == kernel[x]
  <2>1. k \in Seq(Said) /\ InHands(x)' = <<>> \o k
    BY <1>1, <1>2 DEF PairTypeOK, InHands
  <2> HIDE DEF k
  <2>2. <<>> \o k = k
    BY <2>1, ConcatEmptySeq
  <2> QED
    BY <2>1, <2>2 DEF InHands, k
<1>21. Passed(z)' = Passed(z) /\ (~toNobody => Passed(x)' = Passed(x) \o hands[x])
       /\ (toNobody => Passed(x)' = Passed(x))
  <2>1. CASE toPartner
    <3>1. Sent(z, hands[x]) /\ UNCHANGED <<sock, strangerGot>>
      BY <1>2, <2>1 DEF z
    <3>2. /\ ~Strayed(Other(z)) => Passed(Other(z))' = Passed(Other(z)) \o hands[x]
          /\ Passed(z)' = Passed(z)
      BY <1>1, <1>4, <3>1, PassedIs
    <3> QED
      BY <1>4, <2>1, <3>2
  <2>2. CASE toStranger
    BY <1>4, <1>17, <2>2 DEF Passed, Strayed
  <2>3. CASE toNobody
    BY <1>4, <1>17, <2>3 DEF Passed
  <2> QED
    BY <1>3, <2>1, <2>2, <2>3
<1>22. Sound(z) => Sound(z)'
  BY <1>4, <1>17, <1>18, <1>19, <1>21, SideKept
<1>23. Owed(x) = Told(x)
  <2>1. ~Joining \/ Opening(x) = <<>>
    BY <1>9 DEF Opening
  <2> QED
    BY <1>1, <2>1, OwedIs
<1>24. Lasts(x) /\ (~toNobody => Tied(x))
  BY <1>1, <1>3 DEF Lasts, Tied
<1>25. Sound(x) => Sound(x)'
  <2>1. CASE toNobody
    BY <1>17, <1>18, <1>21, <2>1 DEF Sound, Begins
  <2>2. ASSUME ~toNobody, Sound(x) PROVE Sound(x)'
    <3>1. AllThere(x) /\ Passed(x)' = Passed(x) \o hands[x]
      BY <1>21, <1>24, <2>2 DEF Sound
    <3>2. AllThere(x)'
      BY <1>1, <1>5, <1>7, <1>17, <1>20, <3>1, WentOn
    <3>3. Begins(x)'
      BY <1>7, <1>17, <1>23, <3>2, ThereBegins
    <3> QED
      BY <3>2, <3>3 DEF Sound
  <2> QED
    BY <2>1, <2>2
<1>26. \A y \in Sides : Sound(y) => Sound(y)'
  BY <1>4, <1>22, <1>25
<1> QED
  BY <1>7, <1>8, <1>13, <1>16, <1>26 DEF ProxyInv, InPair, Sides

\* http passes the request on, to its partner or to the stranger it took for it;
\* socks answers itself.
LEMMA JoinedGoes ==
  ASSUME ProxyInv, Joined
  PROVE  IF kind = "http"
         THEN \/ /\ Sent("server", <<<<"client", 0>>>>) /\ ~Strayed("client")
                 /\ UNCHANGED strangerGot
              \/ /\ UNCHANGED <<wires, sds>> /\ Strayed("client")
                 /\ strangerGot' = strangerGot \o <<<<"client", 0>>>>
              \/ UNCHANGED <<wires, sds, strangerGot>> /\ ~Strayed("client") /\ ~Tied("client")
         ELSE Sent("client", <<<<"server", 0>>>>) /\ UNCHANGED strangerGot
<1>1. PairTypeOK /\ ppc["client"] = "tell" /\ Joining
  BY DEF ProxyInv, Joined, Joining
<1>2. <<<<"client", 0>>>> \in Seq(Said) /\ <<<<"server", 0>>>> \in Seq(Said)
  BY DEF Said, Sides
<1>3. CASE kind = "http" /\ sock = "server" /\ Open("server")
  <2>1. SendTo("server", <<<<"client", 0>>>>) /\ UNCHANGED strangerGot
    BY <1>3 DEF Joined, SendBySock
  <2>2. Sent("server", <<<<"client", 0>>>>)
    BY <1>1, <1>2, <2>1, SendSends DEF Sides
  <2> QED
    BY <1>3, <2>1, <2>2 DEF Strayed
<1>4. CASE kind = "http" /\ sock = "stranger"
  BY <1>4 DEF Joined, SendBySock, Strayed
<1>5. CASE kind = "http" /\ sock # "stranger" /\ ~(sock = "server" /\ Open("server"))
  <2>1. UNCHANGED <<wires, sds, strangerGot>>
    BY <1>5 DEF Joined, SendBySock
  <2>2. sock = "none" => ~connected
    BY <1>1 DEF ProxyInv, Pairing
  <2>3. sock = "server" => states["server"] = "gone"
    BY <1>1, <1>5 DEF ProxyInv, Pairing, Open, PairTypeOK, StateIs, Sides
  <2>4. ~Tied("client") /\ ~Strayed("client")
    BY <1>5, <2>2, <2>3, Partner DEF Tied, Strayed, Lasts, ProxyInv, Pairing
  <2> QED
    BY <1>5, <2>1, <2>4
<1>6. CASE kind # "http"
  <2>1. SendHere("client", <<<<"server", 0>>>>) /\ UNCHANGED strangerGot
    BY <1>6 DEF Joined
  <2>2. sds["client"] = <<>>
    BY <1>1, <1>6 DEF ProxyInv, NothingYet
  <2>3. Sent("client", <<<<"server", 0>>>>)
    BY <1>1, <1>2, <2>1, <2>2, SendSends DEF Sides
  <2> QED
    BY <1>6, <2>1, <2>3
<1> QED
  BY <1>3, <1>4, <1>5, <1>6

LEMMA JoinedKeeps ==
  ASSUME ProxyInv, Joined
  PROVE  ProxyInv'
<1> DEFINE http == kind = "http"
           request == <<<<"client", 0>>>>
           reply == <<<<"server", 0>>>>
           toPartner == /\ Sent("server", request) /\ ~Strayed("client") /\ UNCHANGED strangerGot
           toStranger == /\ UNCHANGED <<wires, sds>> /\ Strayed("client")
                         /\ strangerGot' = strangerGot \o request
           toNobody == /\ UNCHANGED <<wires, sds, strangerGot>> /\ ~Strayed("client") /\ ~Tied("client")
           answered == Sent("client", reply) /\ UNCHANGED strangerGot
<1>1. /\ PairTypeOK /\ ppc["client"] = "tell" /\ Joining /\ states["client"] = "head"
      /\ states["server"] # "none"
  BY DEF ProxyInv, Pairing, Joined, Joining
<1>2. /\ UNCHANGED <<kind, connected, said, kernel, hands, sock>>
      /\ ppc' = [ppc EXCEPT !["client"] = "relay"] /\ staticCon' = FALSE
      /\ states' = [y \in Sides |-> IF Open(y) THEN "proxy" ELSE states[y]]
  BY DEF Joined, Set, pairVars, progVars
<1>3. IF http THEN toPartner \/ toStranger \/ toNobody ELSE answered
  BY JoinedGoes
<1>4. /\ wires["server"] = <<>> /\ sds["server"] = <<>> /\ strangerGot = <<>>
      /\ hands["client"] = <<>> /\ kernel["client"] = Spoken("client")
      /\ ~http => wires["client"] = <<>> /\ sds["client"] = <<>>
  BY <1>1 DEF ProxyInv, NothingYet
<1>5. request \in Seq(Said) /\ reply \in Seq(Said) /\ "client" \in Sides /\ "server" \in Sides
  BY DEF Said, Sides
<1>6. <<>> \o request = request /\ <<>> \o reply = reply
  BY <1>5, ConcatEmptySeq
<1>7. PairTypeOK'
  <2>1. wires' \in [Sides -> Seq(Said)] /\ sds' \in [Sides -> Seq(Said)]
    BY <1>1, <1>3 DEF Sent, PairTypeOK
  <2>2. strangerGot' \in Seq(Said)
    BY <1>1, <1>3, <1>4, <1>5, <1>6 DEF PairTypeOK
  <2>3. states' \in [Sides -> StateIs] /\ ppc' \in [Sides -> PcIs]
    BY <1>1, <1>2 DEF PairTypeOK, StateIs, PcIs
  <2> QED
    BY <1>1, <1>2, <2>1, <2>2, <2>3 DEF PairTypeOK
<1>8. ~Joining' /\ ppc'["client"] = "relay" /\ ppc'["server"] = ppc["server"]
  BY <1>1, <1>2, <1>5 DEF Joining, PairTypeOK
<1>9. \A y \in Sides : (Lasts(y)' <=> Lasts(y)) /\ (states'[y] = "none" <=> states[y] = "none")
  BY <1>2 DEF Lasts, Open
<1>10. \A y \in Sides : (Strayed(y)' <=> Strayed(y)) /\ (Tied(y)' <=> Tied(y))
  BY <1>2, <1>9, Partner DEF Strayed, Tied
<1>11. Strayed("client") => wires'["server"] = <<>> /\ sds'["server"] = <<>>
  BY <1>3, <1>4, <1>5 DEF Sent
<1>12. ~Strayed("client") => strangerGot' = <<>>
  BY <1>3, <1>4
<1>13. Pairing'
  BY <1>1, <1>2, <1>5, <1>8, <1>9, <1>11, <1>12 DEF ProxyInv, Pairing, Joining, Strayed
<1>14. \A y \in Sides : /\ UNCHANGED <<Told(y), InHands(y), Opening(y)>> /\ Owed(y)' = Told(y)
                        /\ Told(y) = Opening(y) \o Spoken(y)
                        /\ Opening(y) \in Seq(Said) /\ Spoken(y) \in Seq(Said)
  BY <1>1, <1>2, <1>8, ToldIs DEF Told, InHands, Opening, Owed
<1>15. ASSUME NEW y \in Sides, Passed(y)' = Opening(y), InHands(y) = Spoken(y)
       PROVE  Sound(y)'
  <2>1. AllThere(y)'
    BY <1>14, <1>15 DEF AllThere
  <2>2. Owed(y)' = Told(y)'
    BY <1>14
  <2>3. Begins(y)'
    BY <1>7, <2>1, <2>2, ThereBegins
  <2> QED
    BY <2>1, <2>3 DEF Sound
<1>16. InHands("client") = Spoken("client")
  <2> DEFINE s == Spoken("client")
  <2>1. s \in Seq(Said) /\ InHands("client") = <<>> \o s
    BY <1>4, <1>5, <1>14 DEF InHands
  <2> HIDE DEF s
  <2>2. <<>> \o s = s
    BY <2>1, ConcatEmptySeq
  <2> QED
    BY <2>1, <2>2 DEF s
<1>17. Passed("client") = <<>> /\ (~http => Passed("server") = <<>>)
  <2>1. <<>> \o <<>> = <<>>
    OBVIOUS
  <2> QED
    BY <1>4, <2>1, Partner DEF Passed, Strayed
<1>18. Sound("client")'
  <2>1. CASE http /\ toPartner
    <3>1. Passed("client")' = Passed("client") \o request
      <4>1. ~Strayed(Other("server"))
        BY <2>1, Partner
      <4>2. Passed(Other("server"))' = Passed(Other("server")) \o request
        BY <1>1, <1>2, <1>5, <2>1, <4>1, PassedIs
      <4>3. Other("server") = "client"
        BY Partner
      <4> HIDE DEF request
      <4> QED
        BY <4>2, <4>3 DEF Passed
    <3>2. Passed("client")' = request
      BY <1>6, <1>17, <3>1
    <3>3. Passed("client")' = Opening("client")
      BY <2>1, <3>2 DEF Opening
    <3> QED
      BY <1>5, <1>15, <1>16, <3>3
  <2>2. CASE http /\ toStranger
    <3>1. Passed("client")' = request
      BY <1>4, <1>5, <1>6, <1>10, <2>2 DEF Passed
    <3>2. Passed("client")' = Opening("client")
      BY <2>2, <3>1 DEF Opening
    <3> QED
      BY <1>5, <1>15, <1>16, <3>2
  <2>3. CASE http /\ toNobody
    <3>1. Passed("client")' = <<>>
      BY <1>5, <1>10, <1>17, <2>3 DEF Passed
    <3> DEFINE t == Told("client")
    <3>2. t \in Seq(Said) /\ Told("client")' = t
      BY <1>1, <1>5, <1>14, ToldIs
    <3> HIDE DEF t
    <3>3. t = <<>> \o t
      BY <3>2, ConcatEmptySeq
    <3>4. Begins("client")'
      BY <3>1, <3>2, <3>3 DEF Begins
    <3> QED
      BY <1>5, <1>10, <2>3, <3>4 DEF Sound
  <2>4. CASE ~http
    <3>1. Passed("client")' = Passed("client")
      BY <1>1, <1>2, <1>3, <1>5, <2>4, PassedIs
    <3>2. Passed("client")' = Opening("client")
      BY <1>17, <2>4, <3>1 DEF Opening
    <3> QED
      BY <1>5, <1>15, <1>16, <3>2
  <2> QED
    BY <1>3, <2>1, <2>2, <2>3, <2>4
<1>19. Sound("server")'
  <2>1. CASE http
    <3>1. Opening("server") = <<>>
      BY <2>1 DEF Opening
    <3>2. Owed("server")' = Owed("server")
      BY <1>1, <1>5, <1>14, <3>1, OwedIs
    <3>3. wires'["client"] = wires["client"] /\ sds'["client"] = sds["client"]
      BY <1>3, <1>5, <2>1 DEF Sent
    <3>4. Passed("server")' = Passed("server")
      BY <1>5, <3>3, Partner DEF Passed, Strayed
    <3> QED
      BY <1>5, <1>9, <1>10, <1>14, <3>2, <3>4, SideKept DEF ProxyInv, InPair
  <2>2. CASE ~http
    <3>1. Passed("server")' = reply
      <4>1. Passed(Other("client"))' = Passed(Other("client")) \o reply
        BY <1>1, <1>2, <1>3, <1>5, <2>2, PassedIs, Partner DEF Strayed
      <4> QED
        BY <1>6, <1>17, <2>2, <4>1, Partner
    <3>2. Opening("server") = reply
      BY <2>2 DEF Opening
    <3>3. Begins("server")'
      BY <1>5, <1>14, <3>1, <3>2 DEF Begins
    <3>4. ASSUME AllThere("server") PROVE AllThere("server")'
      <4> DEFINE h == InHands("server")
      <4>1. h \in Seq(Said) /\ Spoken("server") = <<>> \o h
        BY <1>1, <1>5, <1>17, <2>2, <3>4, ToldIs DEF AllThere, Owed
      <4> HIDE DEF h
      <4>2. <<>> \o h = h
        BY <4>1, ConcatEmptySeq
      <4>3. Told("server") = reply \o h
        BY <1>5, <1>14, <3>2, <4>1, <4>2
      <4> QED
        BY <1>5, <1>14, <3>1, <4>3 DEF AllThere, h
    <3> QED
      BY <1>5, <1>9, <1>10, <3>3, <3>4 DEF ProxyInv, InPair, Sound
  <2> QED
    BY <2>1, <2>2
<1> QED
  BY <1>7, <1>8, <1>13, <1>18, <1>19 DEF ProxyInv, InPair, NothingYet

\* A silent program has put out nothing.
LEMMA NothingSpoken ==
  ASSUME NEW x, said[x] = 0
  PROVE  Spoken(x) = <<>>
  BY DEF Spoken

LEMMA ProxyStart ==
  ASSUME ProxyInit
  PROVE  ProxyInv
<1>1. PairTypeOK
  <2>1. <<>> \in Seq(Said)
    BY EmptySeq
  <2> QED
    BY <2>1 DEF ProxyInit, PairTypeOK, Each, Sides, StateIs, PcIs
<1>2. Pairing /\ Joining
  BY DEF ProxyInit, Pairing, Joining, Each, Sides
<1>3. \A y \in Sides : /\ wires[y] = <<>> /\ sds[y] = <<>> /\ hands[y] = <<>>
                       /\ kernel[y] = <<>> /\ said[y] = 0 /\ Spoken(y) = <<>>
  BY NothingSpoken DEF ProxyInit, Each
<1>4. NothingYet
  BY <1>3 DEF NothingYet, ProxyInit, Sides
<1>5. Sound("server")
  <2> DEFINE t == Told("server")
  <2>1. t \in Seq(Said)
    BY <1>1, ToldIs DEF Sides
  <2>2. <<>> \o <<>> = <<>>
    OBVIOUS
  <2>3. Passed("server") = <<>> /\ InHands("server") = <<>> /\ Owed("server") = <<>>
    BY <1>2, <1>3, <2>2, Partner DEF Passed, InHands, Owed, Strayed, Sides
  <2> HIDE DEF t
  <2>4. t = <<>> \o t
    BY <2>1, ConcatEmptySeq
  <2>5. AllThere("server")
    BY <2>2, <2>3 DEF AllThere
  <2>6. Begins("server")
    BY <2>1, <2>3, <2>4 DEF Begins, t
  <2> QED
    BY <2>5, <2>6 DEF Sound
<1> QED
  BY <1>1, <1>2, <1>4, <1>5 DEF ProxyInv, InPair

LEMMA ProxyStep ==
  ASSUME ProxyInv, [ProxyNext]_proxyVars
  PROVE  ProxyInv'
<1>1. CASE Quiet
  BY <1>1, QuietMovesNothing, QuietTakes, QuietKeeps DEF ProxyInv
<1>2. CASE Joined
  BY <1>2, JoinedKeeps
<1>3. CASE \E x \in Sides : Says(x) \/ Flush(x) \/ Reads(x) \/ Relay(x) \/ Deleted(x)
  BY <1>3, SaysKeeps, FlushKeeps, ReadsKeeps, RelayKeeps, DeletedKeeps
<1>4. CASE UNCHANGED proxyVars
  <2>1. UNCHANGED <<kind, connected, said, kernel, hands, wires, sds, strangerGot>>
    BY <1>4 DEF proxyVars, pairVars, progVars, dataVars, turnVars
  <2>2. UNCHANGED <<ppc, states, staticCon, sock>>
    BY <1>4 DEF proxyVars, turnVars, addVars
  <2>3. Onward
    BY <2>1, <2>2 DEF Onward, ProxyInv, PairTypeOK, Pairing, Joining, Lasts
  <2> QED
    BY <2>1, <2>3, QuietKeeps
<1> QED
  BY <1>1, <1>2, <1>3, <1>4, StepsAre

\* What the invariant says of the wires, which the two programs see.
LEMMA RelayedIs ==
  ASSUME ProxyInv
  PROVE  Relayed
<1>1. PairTypeOK /\ \A x \in Sides : Sound(x) \/ (Joining /\ x = "client")
  BY DEF ProxyInv, InPair, Sides
<1>2. \/ strangerGot = <<>>
      \/ sock = "stranger" /\ wires["server"] = <<>> /\ sds["server"] = <<>>
  BY DEF ProxyInv, Pairing
<1>3. ASSUME NEW x \in Sides, Sound(x)
      PROVE  /\ IsPrefix(Reached(x), Told(x))
             /\ AllThere(x) /\ ~Joining => Told(x) = Reached(x) \o Waiting(x) \o hands[x] \o kernel[x]
  <2> DEFINE w == Reached(x)
             d == Waiting(x)
             h == hands[x]
             k == kernel[x]
  <2>1. w \in Seq(Said) /\ d \in Seq(Said) /\ h \in Seq(Said) /\ k \in Seq(Said)
    BY <1>1, Partner, EmptySeq DEF PairTypeOK, Reached, Waiting
  <2>2. Passed(x) = w \o d
    <3>1. strangerGot \in Seq(Said)
      BY <1>1 DEF PairTypeOK
    <3>2. strangerGot \o <<>> = strangerGot
      BY <3>1, ConcatEmptySeq
    <3> QED
      BY <3>2 DEF Passed, Reached, Waiting
  <2>3. PICK r \in Seq(Said) : Told(x) = (w \o d) \o r
    BY <1>3, <2>2 DEF Sound, Begins
  <2>4. AllThere(x) /\ ~Joining => Told(x) = (w \o d) \o (h \o k)
    BY <2>2 DEF AllThere, Owed, InHands
  <2> HIDE DEF w, d, h, k
  <2>5. (w \o d) \o r = w \o (d \o r)
    BY <2>1, Together, SMTT(30)
  <2>6. d \o r \in Seq(Said)
    BY <2>1, ConcatProperties
  <2>7. Told(x) = w \o (d \o r)
    BY <2>3, <2>5
  <2>8. IsPrefix(w, Told(x))
    BY <2>1, <2>6, <2>7, PrefixIs
  <2>9. ((w \o d) \o h) \o k = (w \o d) \o (h \o k)
    <3>1. w \o d \in Seq(Said)
      BY <2>1, ConcatProperties
    <3> QED
      BY <2>1, <3>1, Together, SMTT(30)
  <2> QED
    BY <2>4, <2>8, <2>9 DEF w, d, h, k
<1>4. ASSUME Joining PROVE IsPrefix(Reached("client"), Told("client"))
  <2> DEFINE t == Told("client")
  <2>1. t \in Seq(Said) /\ <<>> \in Seq(Said)
    BY <1>1, ToldIs, EmptySeq DEF Sides
  <2>2. Reached("client") = <<>>
    BY <1>4, Partner DEF Reached, ProxyInv, NothingYet
  <2> HIDE DEF t
  <2>3. t = <<>> \o t
    BY <2>1, ConcatEmptySeq
  <2>4. IsPrefix(<<>>, t)
    BY <2>1, <2>3, PrefixIs
  <2> QED
    BY <2>2, <2>4 DEF t
<1>5. \A x \in Sides : Open(x) /\ Linked(x) => Lasts(x) /\ Tied(x)
  BY DEF Open, Linked, Lasts, Tied
<1>6. ASSUME ~Joining, NEW x \in Sides, Open(x), Linked(x)
      PROVE  Told(x) = Reached(x) \o Waiting(x) \o hands[x] \o kernel[x]
  BY <1>1, <1>3, <1>5, <1>6 DEF Sound
<1>7. \A x \in Sides : IsPrefix(Reached(x), Told(x))
  BY <1>1, <1>3, <1>4
<1> QED
  BY <1>2, <1>6, <1>7 DEF Relayed

\* However the two workers, the programs and the acceptor take turns, however
\* early the server speaks, and whatever the kernel takes at a time: what reaches
\* one program is a beginning of what the other said, once and in order, and none
\* is missing while both connections are open.  A stranger taken for the server
\* gets all that the client says, and the server nothing.
THEOREM BytesRelayed == ProxySpec => []Relayed
<1>1. ProxyInit => ProxyInv
  BY ProxyStart
<1>2. ProxyInv /\ [ProxyNext]_proxyVars => ProxyInv'
  BY ProxyStep
<1>3. ProxyInv => Relayed
  BY RelayedIs
<1> QED
  BY <1>1, <1>2, <1>3, PTL DEF ProxySpec

------------------------------------------------------------------------------
(* The type of a pair                                                      *)

\* What the two programs, the poller and the workers note of each side.
NotesTyped ==
  /\ \A x \in Sides : said[x] \in 0..MaxSaid[x]
  /\ ended \in [Sides -> BOOLEAN] /\ cls \in [Sides -> BOOLEAN]
  /\ rds \in [Sides -> 0..1] /\ wrs \in [Sides -> 0..1] /\ skips \in [Sides -> BOOLEAN]
  /\ page \in BOOLEAN

\* What the handler and the acceptor say of who is added.
AddsTyped ==
  /\ connected \in BOOLEAN /\ staticCon \in BOOLEAN /\ listLock \in BOOLEAN
  /\ sock \in {"none", "server", "stranger"} /\ stranger \in {"none", "new", "taken"}

LEMMA SendToKeeps ==
  ASSUME wrs \in [Sides -> 0..1], NEW y \in Sides, NEW line,
         SendTo(y, line)
  PROVE  wrs' \in [Sides -> 0..1]
<1>1. wrs' = Set(wrs, y, 0) \/ wrs' = wrs
  BY DEF SendTo
<1> QED
  BY <1>1 DEF Set

LEMMA SendBySockKeeps ==
  ASSUME wrs \in [Sides -> 0..1], NEW line, SendBySock(line)
  PROVE  wrs' \in [Sides -> 0..1]
<1>1. CASE sock = "server" /\ Open("server")
  BY <1>1, SendToKeeps DEF SendBySock, Sides
<1>2. CASE ~(sock = "server" /\ Open("server"))
  BY <1>2 DEF SendBySock
<1> QED
  BY <1>1, <1>2

LEMMA JoinsKeepNotes ==
  ASSUME NotesTyped, Joins \/ StrangerNew \/ StrangerAdded
  PROVE  NotesTyped'
<1>1. UNCHANGED <<said, ended, cls, rds, skips, page>>
  BY DEF Joins, TakeStatic, AddServer, Joined, StrangerNew, StrangerAdded,
         SendBySock, SendTo, SendHere, Put, progVars, dataVars, turnVars
<1>2. wrs' \in [Sides -> 0..1]
  <2>1. wrs \in [Sides -> 0..1]
    BY DEF NotesTyped
  <2>2. CASE Joined
    <3>1. CASE kind = "http"
      BY <2>1, <2>2, <3>1, SendBySockKeeps DEF Joined
    <3>2. CASE kind # "http"
      <4>1. wrs' = Set(wrs, "client", 0)
        BY <2>2, <3>2 DEF Joined, SendHere
      <4> QED
        BY <2>1, <4>1 DEF Set, Sides
    <3> QED
      BY <3>1, <3>2
  <2>3. CASE ~Joined
    BY <2>1, <2>3 DEF Joins, TakeStatic, AddServer, StrangerNew, StrangerAdded, dataVars
  <2> QED
    BY <2>2, <2>3
<1> QED
  BY <1>1, <1>2 DEF NotesTyped

LEMMA TurnKeepsNotes ==
  ASSUME NotesTyped, NEW x \in Sides, Turn(x)
  PROVE  NotesTyped'
<1>1. UNCHANGED <<said, ended>>
  BY DEF Turn, Flush, NoFlush, ReadNothing, Reads, ReadsEnd, ReadsHead, SendError, Relay,
         EndOfPass, Deleted, progVars
<1>2. skips' \in [Sides -> BOOLEAN]
  <2>1. skips' = skips \/ \E v \in BOOLEAN : skips' = Set(skips, x, v)
    BY DEF Turn, Flush, NoFlush, ReadNothing, Reads, ReadsEnd, ReadsHead, SendError, Relay,
           EndOfPass, Deleted, turnVars
  <2> QED
    BY <2>1 DEF Set, NotesTyped
<1>3. rds' \in [Sides -> 0..1]
  <2>1. rds' = rds \/ \E y \in Sides : rds' = Set(rds, y, 0)
    BY DEF Turn, Flush, NoFlush, ReadNothing, Reads, ReadsEnd, ReadsHead, SendError, Relay,
           EndOfPass, Deleted, dataVars, Sides
  <2> QED
    BY <2>1 DEF Set, NotesTyped
<1>4. page' \in BOOLEAN
  BY DEF Turn, Flush, NoFlush, ReadNothing, Reads, ReadsEnd, ReadsHead, SendError, Relay,
         SendBySock, SendTo, Put, EndOfPass, Deleted, dataVars, NotesTyped
<1>5. cls' \in [Sides -> BOOLEAN]
  <2>1. CASE Deleted(x)
    BY <2>1 DEF Deleted, NotesTyped, CloseSocket, PartnerOpen, Open
  <2>2. CASE ~Deleted(x)
    <3>1. cls' = cls \/ \E y \in Sides, v \in BOOLEAN : cls' = Set(cls, y, v)
      <4>1. (cls[x] \/ Declined(x)) \in BOOLEAN
        OBVIOUS
      <4> QED
        BY <2>2, <4>1 DEF Turn, Flush, NoFlush, ReadNothing, Reads, ReadsEnd, ReadsHead,
                          SendError, Relay, EndOfPass, dataVars, Sides
    <3> QED
      BY <3>1 DEF Set, NotesTyped
  <2> QED
    BY <2>1, <2>2
<1>6. wrs' \in [Sides -> 0..1]
  <2>1. wrs \in [Sides -> 0..1]
    BY DEF NotesTyped
  <2>2. CASE Relay(x)
    <3>1. CASE x = "client"
      BY <2>1, <2>2, <3>1, SendBySockKeeps DEF Relay
    <3>2. CASE x # "client"
      <4>1. wrs' = wrs \/ SendTo("client", hands[x])
        BY <2>2, <3>2 DEF Relay
      <4> QED
        BY <2>1, <4>1, SendToKeeps DEF Sides
    <3> QED
      BY <3>1, <3>2
  <2>3. CASE Deleted(x)
    BY <2>1, <2>3 DEF Deleted
  <2>4. CASE ~Relay(x) /\ ~Deleted(x)
    <3>1. wrs' = wrs \/ \E y \in Sides : wrs' = Set(wrs, y, 0)
      BY <2>4 DEF Turn, Flush, NoFlush, ReadNothing, Reads, ReadsEnd, ReadsHead, SendError,
                  EndOfPass, dataVars, Sides
    <3> QED
      BY <2>1, <3>1 DEF Set
  <2> QED
    BY <2>2, <2>3, <2>4
<1> QED
  BY <1>1, <1>2, <1>3, <1>4, <1>5, <1>6 DEF NotesTyped

LEMMA RestKeepsNotes ==
  ASSUME NotesTyped, said \in [Sides -> Nat], NEW x \in Sides,
         \/ Says(x) \/ Ends(x) \/ TimesOut(x) \/ UNCHANGED proxyVars
         \/ \E in, out \in BOOLEAN : Polled(x, in, out)
  PROVE  NotesTyped'
<1>1. CASE Says(x)
  <2>1. UNCHANGED <<ended, cls, rds, wrs, skips, page>>
    BY <1>1 DEF Says, dataVars, turnVars
  <2>2. MaxSaid[x] \in Nat /\ said[x] \in Nat /\ said[x] < MaxSaid[x]
    BY <1>1, ProxyAssumption DEF Says
  <2>3. said' = [said EXCEPT ![x] = said[x] + 1]
    BY <1>1 DEF Says
  <2> QED
    BY <2>1, <2>2, <2>3 DEF NotesTyped
<1>2. CASE Ends(x)
  <2>1. UNCHANGED <<said, cls, rds, wrs, skips, page>> /\ ended' = Set(ended, x, TRUE)
    BY <1>2 DEF Ends, dataVars, turnVars
  <2> QED
    BY <2>1 DEF Set, NotesTyped
<1>3. ASSUME NEW in \in BOOLEAN, NEW out \in BOOLEAN, Polled(x, in, out)
      PROVE  NotesTyped'
  <2>1. UNCHANGED <<said, ended, cls, page>> /\ skips' = Set(skips, x, FALSE)
    BY <1>3 DEF Polled, progVars
  <2>2. rds' = rds \/ rds' = Set(rds, x, 1)
    BY <1>3 DEF Polled
  <2>3. wrs' = wrs \/ wrs' = Set(wrs, x, 1)
    BY <1>3 DEF Polled
  <2> QED
    BY <2>1, <2>2, <2>3 DEF Set, NotesTyped
<1>4. CASE TimesOut(x)
  <2>1. /\ UNCHANGED <<said, ended, rds, wrs, page>>
        /\ cls' = Set(cls, x, TRUE) /\ skips' = Set(skips, x, TRUE)
    BY <1>4 DEF TimesOut, progVars
  <2> QED
    BY <2>1 DEF Set, NotesTyped
<1>5. CASE UNCHANGED proxyVars
  BY <1>5 DEF NotesTyped, proxyVars, progVars, dataVars, turnVars
<1> QED
  BY <1>1, <1>2, <1>3, <1>4, <1>5

LEMMA AddsKept ==
  ASSUME AddsTyped, [ProxyNext]_proxyVars
  PROVE  AddsTyped'
<1>1. CASE Joins \/ StrangerNew \/ StrangerAdded
  BY <1>1 DEF Joins, TakeStatic, AddServer, Joined, StrangerNew, StrangerAdded, Tell,
              AddsTyped, pairVars
<1>2. ASSUME NEW x \in Sides, Turn(x) PROVE UNCHANGED <<pairVars, addVars>>
  BY <1>2 DEF Turn, Flush, NoFlush, ReadNothing, Reads, ReadsEnd, ReadsHead, SendError, Relay,
              EndOfPass, Deleted
<1>3. ASSUME NEW x \in Sides, NEW in \in BOOLEAN, NEW out \in BOOLEAN,
             Says(x) \/ Ends(x) \/ TimesOut(x) \/ Polled(x, in, out)
      PROVE  UNCHANGED <<pairVars, addVars>>
  BY <1>3 DEF Says, Ends, TimesOut, Polled
<1>4. UNCHANGED proxyVars => UNCHANGED <<pairVars, addVars>>
  BY DEF proxyVars
<1>5. UNCHANGED <<pairVars, addVars>> => AddsTyped'
  BY DEF AddsTyped, pairVars, addVars
<1> QED
  BY <1>1, <1>2, <1>3, <1>4, <1>5 DEF ProxyNext

\* For any number of bytes: the two connections, the handler and the acceptor
\* keep the states the code gives them.
THEOREM ProxyTypeCorrect == ProxySpec => []ProxyTypeOK
<1>1. ProxyInit => ProxyInv /\ NotesTyped /\ AddsTyped
  <2> SUFFICES ASSUME ProxyInit PROVE NotesTyped /\ AddsTyped
    BY ProxyStart
  <2>1. \A x \in Sides : said[x] = 0 /\ MaxSaid[x] \in Nat
    BY ProxyAssumption DEF ProxyInit, Each
  <2>2. AddsTyped
    BY DEF ProxyInit, AddsTyped
  <2>3. \A x \in Sides : said[x] \in 0..MaxSaid[x]
    BY <2>1
  <2>4. page \in BOOLEAN
    BY DEF ProxyInit
  <2>5. /\ ended \in [Sides -> BOOLEAN] /\ cls \in [Sides -> BOOLEAN] /\ skips \in [Sides -> BOOLEAN]
        /\ rds \in [Sides -> 0..1] /\ wrs \in [Sides -> 0..1]
    BY DEF ProxyInit, Each
  <2> QED
    BY <2>2, <2>3, <2>4, <2>5 DEF NotesTyped
<1>2. ProxyInv /\ NotesTyped /\ AddsTyped /\ [ProxyNext]_proxyVars
      => ProxyInv' /\ NotesTyped' /\ AddsTyped'
  <2> SUFFICES ASSUME ProxyInv, NotesTyped, AddsTyped, [ProxyNext]_proxyVars
               PROVE  NotesTyped'
    BY ProxyStep, AddsKept
  <2>1. said \in [Sides -> Nat] /\ "client" \in Sides
    BY DEF ProxyInv, PairTypeOK, Sides
  <2> QED
    BY <2>1, JoinsKeepNotes, TurnKeepsNotes, RestKeepsNotes, Zenon DEF ProxyNext
<1>3. ProxyInv /\ NotesTyped /\ AddsTyped => ProxyTypeOK
  BY DEF ProxyInv, PairTypeOK, NotesTyped, AddsTyped, ProxyTypeOK, PcIs, StateIs
<1> QED
  BY <1>1, <1>2, <1>3, PTL DEF ProxySpec

------------------------------------------------------------------------------
(* WebSocket: the frames of a stream                                       *)

Marks == Nat \X Nat
SizeIn(s, i) == IF i = 0 THEN HelloSz ELSE s[i].size
FrameIn(s, i) == [k \in 1..SizeIn(s, i) |-> <<i, k>>]
FramesIn(s, m) == FlattenSeq([i \in 1..(Len(s) - m + 1) |-> FrameIn(s, m + i - 1)])

LEMMA FrameIs ==
  ASSUME NEW s \in Streams, NEW i \in 0..Len(s)
  PROVE  /\ Len(s) \in Nat /\ SizeIn(s, i) \in Nat \ {0}
         /\ FrameIn(s, i) \in Seq(Marks) /\ Len(FrameIn(s, i)) = SizeIn(s, i)
         /\ \A k \in 1..SizeIn(s, i) : FrameIn(s, i)[k] = <<i, k>>
<1> DEFINE F == [op : {"text", "ping", "close"}, size : Nat \ {0}]
<1>1. s \in Seq(F)
  BY WebSocketAssumption
<1>2. Len(s) \in Nat
  BY <1>1, LenProperties
<1>3. i # 0 => i \in 1..Len(s)
  BY <1>2
<1>4. i # 0 => s[i] \in F
  BY <1>1, <1>3, ElementOfSeq
<1>5. SizeIn(s, i) \in Nat \ {0}
  BY <1>4, WebSocketAssumption DEF SizeIn
<1> DEFINE n == SizeIn(s, i)
<1>6. n \in Nat
  BY <1>5
<1> HIDE DEF n
<1>7. [k \in 1..n |-> <<i, k>>] \in Seq(Marks)
  <2>1. \A k \in 1..n : <<i, k>> \in Marks
    BY <1>2, <1>6 DEF Marks
  <2> QED
    BY <1>6, <2>1
<1>8. Len([k \in 1..n |-> <<i, k>>]) = n
  BY <1>6
<1> QED
  BY <1>2, <1>5, <1>7, <1>8 DEF n, FrameIn

LEMMA FramesAre ==
  ASSUME NEW s \in Streams, NEW m \in Nat, m <= Len(s) + 1
  PROVE  /\ FramesIn(s, m) \in Seq(Marks)
         /\ m = Len(s) + 1 => FramesIn(s, m) = <<>>
         /\ m <= Len(s) => FramesIn(s, m) = FrameIn(s, m) \o FramesIn(s, m + 1)
<1> DEFINE n == Len(s)
           list(k) == [i \in 1..(n - k + 1) |-> FrameIn(s, k + i - 1)]
<1>1. n \in Nat
  BY FrameIs
<1> HIDE DEF n
<1>2. ASSUME NEW k \in Nat, k <= n + 1 PROVE list(k) \in Seq(Seq(Marks))
  <2> DEFINE l == n - k + 1
  <2>1. l \in Nat /\ \A i \in 1..l : k + i - 1 \in 0..n
    BY <1>1, <1>2
  <2>2. \A i \in 1..l : FrameIn(s, k + i - 1) \in Seq(Marks)
    BY <2>1, FrameIs DEF n
  <2> HIDE DEF l
  <2>3. [i \in 1..l |-> FrameIn(s, k + i - 1)] \in Seq(Seq(Marks))
    BY <2>1, <2>2
  <2> QED
    BY <2>3 DEF l
<1>3. m <= n + 1
  BY DEF n
<1>4. FramesIn(s, m) = FlattenSeq(list(m)) /\ FramesIn(s, m + 1) = FlattenSeq(list(m + 1))
  BY DEF FramesIn, n
<1>5. FlattenSeq(list(m)) \in Seq(Marks)
  <2>1. list(m) \in Seq(Seq(Marks))
    BY <1>2, <1>3
  <2> HIDE DEF list
  <2> QED
    BY <2>1, FlattenType
<1>6. m = n + 1 => FlattenSeq(list(m)) = <<>>
  <2>1. m = n + 1 => list(m) = <<>>
    BY <1>1
  <2> HIDE DEF list
  <2> QED
    BY <2>1, FlattenEmpty
<1>7. ASSUME m <= n PROVE FlattenSeq(list(m)) = FrameIn(s, m) \o FlattenSeq(list(m + 1))
  <2> DEFINE h == FrameIn(s, m)
             t == list(m + 1)
             q == <<h>> \o t
  <2>1. h \in Seq(Marks) /\ m \in 0..n
    BY <1>1, <1>7, FrameIs DEF n
  <2>2. t \in Seq(Seq(Marks)) /\ list(m) \in Seq(Seq(Marks)) /\ m + 1 \in Nat /\ m + 1 <= n + 1
    <3>1. m + 1 \in Nat /\ m + 1 <= n + 1
      BY <1>1, <1>7
    <3> DEFINE k == m + 1
    <3> HIDE DEF k, list
    <3>2. list(k) \in Seq(Seq(Marks)) /\ list(m) \in Seq(Seq(Marks))
      BY <1>2, <1>3, <3>1 DEF k
    <3> QED
      BY <3>1, <3>2 DEF k
  <2>3. Len(t) = n - m /\ \A i \in 1..(n - m) : t[i] = FrameIn(s, m + i)
    BY <1>1, <1>7
  <2>4. Len(list(m)) = n - m + 1 /\ \A i \in 1..(n - m + 1) : list(m)[i] = FrameIn(s, m + i - 1)
    BY <1>1, <1>7
  <2> HIDE DEF h, t
  <2>5. <<h>> \in Seq(Seq(Marks)) /\ Len(<<h>>) = 1 /\ <<h>>[1] = h
    BY <2>1
  <2>6. /\ q \in Seq(Seq(Marks)) /\ Len(q) = 1 + (n - m)
        /\ \A i \in 1..(1 + (n - m)) : q[i] = IF i <= 1 THEN <<h>>[i] ELSE t[i - 1]
    BY <2>2, <2>3, <2>5, ConcatProperties, SMTT(30)
  <2> HIDE DEF q
  <2>7. ASSUME NEW i \in 1..(n - m + 1) PROVE list(m)[i] = q[i]
    <3>1. CASE i = 1
      <4>1. m + i - 1 = m /\ i <= 1
        BY <3>1
      <4>2. list(m)[i] = h
        BY <2>4, <4>1 DEF h
      <4>3. i \in 1..(1 + (n - m))
        BY <1>1, <1>7, <3>1
      <4> HIDE DEF list
      <4>4. q[i] = <<h>>[i]
        BY <2>6, <4>1, <4>3
      <4> QED
        BY <2>5, <3>1, <4>2, <4>4
    <3>2. CASE i # 1
      <4>1. /\ ~(i <= 1) /\ i \in 1..(1 + (n - m)) /\ i - 1 \in 1..(n - m)
            /\ m + (i - 1) = m + i - 1
        BY <1>1, <1>7, <3>2
      <4>2. list(m)[i] = FrameIn(s, m + i - 1)
        BY <2>4
      <4> HIDE DEF list
      <4>3. q[i] = t[i - 1]
        BY <2>6, <4>1
      <4>4. t[i - 1] = FrameIn(s, m + (i - 1))
        BY <2>3, <4>1
      <4> QED
        BY <4>1, <4>2, <4>3, <4>4
    <3> QED
      BY <3>1, <3>2
  <2>8. list(m) = q
    <3>1. Len(list(m)) = Len(q)
      BY <1>1, <1>7, <2>4, <2>6
    <3> HIDE DEF list
    <3> QED
      BY <2>2, <2>4, <2>6, <2>7, <3>1, SeqEqual
  <2>9. FlattenSeq(q) = h \o FlattenSeq(t)
    BY <2>1, <2>2, FlattenFirst DEF q
  <2> QED
    BY <2>8, <2>9 DEF h, t
<1> QED
  BY <1>4, <1>5, <1>6, <1>7 DEF n

------------------------------------------------------------------------------
(* WebSocket: the inductive invariant                                      *)
(*                                                                         *)
(* What was not given yet, the head or the next frame first, is what the   *)
(* reader has, then what the kernel has, then what is still to come.       *)

Due == IF hello THEN Len(given) + 1 ELSE 0

SocketTyped ==
  /\ reader \in Readers /\ stream \in Streams
  /\ coming \in Seq(Marks) /\ arrived \in Seq(Marks) /\ view \in Seq(Marks)
  /\ bufsz \in 0..(MaxBuf + GrowSz) /\ given \in Seq(Nat)
  /\ hello \in BOOLEAN /\ ending \in BOOLEAN

SocketKept ==
  /\ Len(given) <= Len(stream) /\ given = [i \in 1..Len(given) |-> i]
  /\ ~hello => given = <<>>
  /\ (view \o arrived) \o coming = FramesIn(stream, Due)

\* What the buffer holds fits in it.
SocketFits == Len(view) <= IF Serves THEN ServerBuf ELSE bufsz

\* Where a reader waits, or is about to.
Pauses == IF Serves THEN wpc = "idle" /\ ~ending ELSE wpc \in {"fill", "wait"}

SocketQuiet ==
  /\ wpc \in {"idle", "decode", "fill", "wait", "analys", "closed"}
  /\ Pauses /\ Whole => Len(view) <= 4 \/ (reader = "websockets" /\ given = <<>>)

SocketCore == SocketTyped /\ SocketKept /\ SocketFits
SocketInv == SocketCore /\ SocketQuiet

LEMMA DueIs ==
  ASSUME SocketTyped, SocketKept
  PROVE  /\ Due \in Nat /\ Due <= Len(stream) + 1 /\ Len(stream) \in Nat /\ Len(given) \in Nat
         /\ FramesIn(stream, Due) \in Seq(Marks)
         /\ Due = Len(stream) + 1 => FramesIn(stream, Due) = <<>>
         /\ Due <= Len(stream) =>
              /\ FramesIn(stream, Due) = FrameIn(stream, Due) \o FramesIn(stream, Due + 1)
              /\ FrameIn(stream, Due) \in Seq(Marks)
              /\ SizeIn(stream, Due) \in Nat \ {0} /\ Len(FrameIn(stream, Due)) = SizeIn(stream, Due)
              /\ FrameIn(stream, Due)[1] = <<Due, 1>>
              /\ FramesIn(stream, Due + 1) \in Seq(Marks)
<1>1. Len(stream) \in Nat /\ Len(given) \in Nat
  <2>1. 0 \in 0..Len(stream) \/ Len(stream) \in Nat
    BY WebSocketAssumption DEF SocketTyped
  <2>2. stream \in Seq([op : {"text", "ping", "close"}, size : Nat \ {0}])
    BY WebSocketAssumption DEF SocketTyped
  <2> QED
    BY <2>2, LenProperties DEF SocketTyped
<1>2. Due \in Nat /\ Due <= Len(stream) + 1
  BY <1>1 DEF Due, SocketKept, SocketTyped
<1> DEFINE d == Due
<1>3. d \in Nat /\ d <= Len(stream) + 1 /\ stream \in Streams
  BY <1>2 DEF SocketTyped
<1> HIDE DEF d
<1>4. /\ FramesIn(stream, d) \in Seq(Marks)
      /\ d = Len(stream) + 1 => FramesIn(stream, d) = <<>>
      /\ d <= Len(stream) => FramesIn(stream, d) = FrameIn(stream, d) \o FramesIn(stream, d + 1)
  BY <1>3, FramesAre
<1>5. ASSUME d <= Len(stream)
      PROVE  /\ FrameIn(stream, d) \in Seq(Marks)
             /\ SizeIn(stream, d) \in Nat \ {0} /\ Len(FrameIn(stream, d)) = SizeIn(stream, d)
             /\ FrameIn(stream, d)[1] = <<d, 1>>
             /\ FramesIn(stream, d + 1) \in Seq(Marks)
  <2>1. d \in 0..Len(stream)
    BY <1>1, <1>3, <1>5
  <2>2. /\ FrameIn(stream, d) \in Seq(Marks)
        /\ SizeIn(stream, d) \in Nat \ {0} /\ Len(FrameIn(stream, d)) = SizeIn(stream, d)
        /\ \A k \in 1..SizeIn(stream, d) : FrameIn(stream, d)[k] = <<d, k>>
    BY <1>3, <2>1, FrameIs
  <2>3. 1 \in 1..SizeIn(stream, d)
    BY <2>2
  <2> DEFINE e == d + 1
  <2>4. e \in Nat /\ e <= Len(stream) + 1
    BY <1>1, <2>1
  <2> HIDE DEF e
  <2>5. FramesIn(stream, e) \in Seq(Marks)
    BY <1>3, <2>4, FramesAre
  <2> QED
    BY <2>2, <2>3, <2>5 DEF e
<1> QED
  BY <1>1, <1>3, <1>4, <1>5 DEF d

\* Whoever has a byte, and is past the head, has the first of the next frame.
LEMMA FirstByte ==
  ASSUME SocketTyped, SocketKept, view # <<>>
  PROVE  /\ view[1] = <<Due, 1>> /\ Due <= Len(stream)
         /\ hello => Next1 = Due
<1> DEFINE r == (view \o arrived) \o coming
<1>1. /\ view \o arrived \in Seq(Marks) /\ Len(view \o arrived) = Len(view) + Len(arrived)
      /\ \A i \in 1..(Len(view) + Len(arrived)) :
           (view \o arrived)[i] = IF i <= Len(view) THEN view[i] ELSE arrived[i - Len(view)]
  BY ConcatProperties DEF SocketTyped
<1>2. Len(view) \in Nat \ {0} /\ Len(arrived) \in Nat /\ Len(coming) \in Nat
  BY EmptySeq, LenProperties DEF SocketTyped
<1> DEFINE p == view \o arrived
<1>3. p \in Seq(Marks) /\ Len(p) = Len(view) + Len(arrived) /\ p[1] = view[1]
  BY <1>1, <1>2
<1> HIDE DEF p
<1>4. p \o coming \in Seq(Marks) /\ Len(p \o coming) = Len(p) + Len(coming)
      /\ \A i \in 1..(Len(p) + Len(coming)) :
           (p \o coming)[i] = IF i <= Len(p) THEN p[i] ELSE coming[i - Len(p)]
  <2>1. p \in Seq(Marks) /\ coming \in Seq(Marks)
    BY <1>3 DEF SocketTyped
  <2> QED
    BY <2>1, ConcatProperties
<1>5. (p \o coming)[1] = view[1] /\ p \o coming # <<>>
  BY <1>2, <1>3, <1>4
<1>6. p \o coming = FramesIn(stream, Due)
  BY DEF SocketKept, p
<1>7. Due <= Len(stream)
  BY <1>5, <1>6, DueIs
<1> DEFINE f == FrameIn(stream, Due)
           g == FramesIn(stream, Due + 1)
<1>8. /\ f \in Seq(Marks) /\ g \in Seq(Marks) /\ Len(f) \in Nat \ {0} /\ f[1] = <<Due, 1>>
      /\ FramesIn(stream, Due) = f \o g
  BY <1>7, DueIs
<1> HIDE DEF f, g
<1>9. (f \o g)[1] = f[1]
  <2>1. Len(g) \in Nat /\ 1 \in 1..(Len(f) + Len(g)) /\ 1 <= Len(f)
    BY <1>8, LenProperties
  <2> QED
    BY <1>8, <2>1, ConcatProperties
<1>10. view[1] = <<Due, 1>>
  BY <1>5, <1>6, <1>8, <1>9
<1> QED
  BY <1>7, <1>10 DEF Next1

\* The reader has all of the next frame: what follows are the frames after it.
LEMMA AllOfFrame ==
  ASSUME SocketTyped, SocketKept, Due <= Len(stream), Len(view) >= SizeIn(stream, Due)
  PROVE  /\ Skip(SizeIn(stream, Due)) \in Seq(Marks)
         /\ (Skip(SizeIn(stream, Due)) \o arrived) \o coming = FramesIn(stream, Due + 1)
         /\ Len(Skip(SizeIn(stream, Due))) <= Len(view)
<1> DEFINE f == FrameIn(stream, Due)
           g == FramesIn(stream, Due + 1)
           r == arrived \o coming
           k == Skip(SizeIn(stream, Due))
<1>1. f \in Seq(Marks) /\ g \in Seq(Marks) /\ Len(f) = SizeIn(stream, Due)
      /\ FramesIn(stream, Due) = f \o g
  BY DueIs
<1> HIDE DEF f, g
<1>2. r \in Seq(Marks) /\ view \in Seq(Marks) /\ arrived \in Seq(Marks) /\ coming \in Seq(Marks)
  BY ConcatProperties DEF SocketTyped
<1>3. view \o r = f \o g
  <2>1. (view \o arrived) \o coming = view \o (arrived \o coming)
    BY <1>2, Together, SMTT(30)
  <2> QED
    BY <1>1, <2>1 DEF SocketKept
<1> HIDE DEF r
<1>4. /\ SubSeq(view, Len(f) + 1, Len(view)) \in Seq(Marks)
      /\ SubSeq(view, Len(f) + 1, Len(view)) \o r = g
  <2>1. Len(f) <= Len(view)
    BY <1>1
  <2>2. f \in Seq(Marks) /\ g \in Seq(Marks) /\ r \in Seq(Marks) /\ view \in Seq(Marks)
    BY <1>1, <1>2
  <2>3. BeginsAlike(Marks, view, r, f, g)
    BY <2>1, <2>2, CutFront
  <2> QED
    BY <1>3, <2>3 DEF BeginsAlike
<1>5. k \in Seq(Marks) /\ k \o r = g
  BY <1>1, <1>4 DEF Skip
<1>6. Len(k) <= Len(view)
  <2>1. Len(f) \in 0..Len(view)
    BY <1>1, <1>2
  <2> DEFINE n == Len(f)
  <2> HIDE DEF n
  <2>2. Len(SubSeq(view, n + 1, Len(view))) = Len(view) - n
    BY <1>2, <2>1, PartsIs DEF n
  <2> QED
    BY <1>1, <1>2, <2>1, <2>2 DEF n, Skip
<1> HIDE DEF k
<1>7. (k \o arrived) \o coming = k \o (arrived \o coming)
  <2>1. k \in Seq(Marks) /\ arrived \in Seq(Marks) /\ coming \in Seq(Marks)
    BY <1>2, <1>5
  <2> QED
    BY <2>1, Together, SMTT(30)
<1> QED
  BY <1>5, <1>6, <1>7 DEF k, r, g

------------------------------------------------------------------------------
(* WebSocket: the steps                                                    *)

LEMMA SizesAre ==
  /\ HelloSz \in Nat \ {0} /\ MaxFrame \in Nat \ {0} /\ ServerBuf \in Nat \ {0}
  /\ GrowSz \in Nat \ {0} /\ MaxBuf \in Nat \ {0}
BY WebSocketAssumption

LEMMA LeastOfTwo ==
  ASSUME NEW m \in Int, NEW n \in Int
  PROVE  Min({m, n}) = IF m <= n THEN m ELSE n
<1>1. \E x \in {m, n} : \A y \in {m, n} : x <= y
  OBVIOUS
<1>2. Min({m, n}) \in {m, n} /\ \A y \in {m, n} : Min({m, n}) <= y
  BY <1>1 DEF Min
<1> QED
  BY <1>2

LEMMA NothingMoved ==
  ASSUME SocketCore, UNCHANGED <<reader, stream, coming, arrived, view, given, hello>>,
         bufsz' \in bufsz..(MaxBuf + GrowSz), ending' \in BOOLEAN
  PROVE  SocketCore'
<1>1. SocketTyped'
  BY DEF SocketCore, SocketTyped
<1>2. SocketKept'
  BY DEF SocketCore, SocketKept, Due
<1>3. SocketFits'
  <2>1. Len(view) \in Nat /\ bufsz \in Nat /\ bufsz' \in Nat /\ bufsz <= bufsz'
    BY SizesAre, LenProperties DEF SocketCore, SocketTyped
  <2> QED
    BY <2>1 DEF SocketCore, SocketFits, Serves
<1> QED
  BY <1>1, <1>2, <1>3 DEF SocketCore

\* A byte comes to the kernel.
LEMMA ByteComes ==
  ASSUME SocketCore, Comes
  PROVE  SocketCore'
<1> DEFINE h == Append(arrived, Head(coming))
           t == Tail(coming)
<1>1. view \in Seq(Marks) /\ arrived \in Seq(Marks) /\ coming \in Seq(Marks)
  BY DEF SocketCore, SocketTyped
<1>2. coming # <<>> /\ arrived' = h /\ coming' = t
  BY DEF Comes
<1>3. h \in Seq(Marks) /\ t \in Seq(Marks) /\ h \o t = arrived \o coming
  BY <1>1, <1>2, MoveHead
<1>4. UNCHANGED <<reader, stream, view, bufsz, given, hello, ending>>
  BY DEF Comes
<1> HIDE DEF h, t
<1>5. (view \o h) \o t = (view \o arrived) \o coming
  <2>1. h \in Seq(Marks) /\ t \in Seq(Marks)
    BY <1>3
  <2>2. (view \o h) \o t = view \o (h \o t)
    BY <1>1, <2>1, Together, SMTT(30)
  <2>3. (view \o arrived) \o coming = view \o (arrived \o coming)
    BY <1>1, Together
  <2> QED
    BY <1>3, <2>2, <2>3
<1>6. SocketTyped'
  BY <1>2, <1>3, <1>4 DEF SocketCore, SocketTyped
<1>7. SocketKept'
  BY <1>2, <1>4, <1>5 DEF SocketCore, SocketKept, Due
<1>8. SocketFits'
  BY <1>4 DEF SocketCore, SocketFits, Serves
<1> QED
  BY <1>6, <1>7, <1>8 DEF SocketCore

\* The reader reads n bytes beside what it has.
LEMMA BytesRead ==
  ASSUME SocketCore, NEW n \in 0..Len(arrived),
         view' = view \o SubSeq(arrived, 1, n),
         arrived' = SubSeq(arrived, n + 1, Len(arrived)),
         Len(view) + n <= IF Serves THEN ServerBuf ELSE bufsz,
         UNCHANGED <<reader, stream, coming, bufsz, given, hello, ending>>
  PROVE  SocketCore'
<1> DEFINE u == SubSeq(arrived, 1, n)
           v == SubSeq(arrived, n + 1, Len(arrived))
<1>1. view \in Seq(Marks) /\ arrived \in Seq(Marks) /\ coming \in Seq(Marks)
  BY DEF SocketCore, SocketTyped
<1>2. u \in Seq(Marks) /\ v \in Seq(Marks) /\ u \o v = arrived /\ Len(u) = n
  BY <1>1, PartsIs
<1>3. view' = view \o u /\ arrived' = v
  OBVIOUS
<1> HIDE DEF u, v
<1>4. view \o u \in Seq(Marks) /\ Len(view \o u) = Len(view) + n
  <2>1. u \in Seq(Marks)
    BY <1>2
  <2>2. view \o u \in Seq(Marks) /\ Len(view \o u) = Len(view) + Len(u)
    BY <1>1, <2>1, ConcatProperties
  <2> QED
    BY <1>2, <2>2
<1>5. (view \o u) \o v = view \o arrived
  <2>1. u \in Seq(Marks) /\ v \in Seq(Marks)
    BY <1>2
  <2>2. Associates(view, u, v)
    BY <1>1, <2>1, Association
  <2>3. (view \o u) \o v = view \o (u \o v)
    BY <2>2, Zenon DEF Associates
  <2> QED
    BY <1>2, <2>3
<1>6. SocketTyped'
  BY <1>2, <1>3, <1>4 DEF SocketCore, SocketTyped
<1>7. SocketKept'
  BY <1>3, <1>5 DEF SocketCore, SocketKept, Due
<1>8. SocketFits'
  BY <1>3, <1>4 DEF SocketCore, SocketFits, Serves
<1> QED
  BY <1>6, <1>7, <1>8 DEF SocketCore

\* The head, or the next frame, is taken out of what the reader has.
LEMMA FrameTaken ==
  ASSUME SocketCore, Due <= Len(stream), Len(view) >= SizeIn(stream, Due),
         view' = Skip(SizeIn(stream, Due)), hello' = TRUE, ending' \in BOOLEAN,
         given' = IF hello THEN Append(given, Due) ELSE given,
         UNCHANGED <<reader, stream, coming, arrived, bufsz>>
  PROVE  SocketCore'
<1>1. SocketTyped /\ SocketKept
  BY DEF SocketCore
<1>2. /\ view' \in Seq(Marks) /\ Len(view') <= Len(view)
      /\ (view' \o arrived) \o coming = FramesIn(stream, Due + 1)
  BY <1>1, AllOfFrame
<1>3. given \in Seq(Nat) /\ Len(given) \in Nat /\ Len(stream) \in Nat /\ Due \in Nat
  BY <1>1, DueIs DEF SocketTyped
<1>4. /\ given' \in Seq(Nat) /\ Len(given') = Due
      /\ \A i \in 1..Len(given') : given'[i] = i
  <2>1. CASE hello
    <3>1. given' = Append(given, Due) /\ Due = Len(given) + 1
      BY <2>1 DEF Due
    <3>2. /\ given' \in Seq(Nat) /\ Len(given') = Len(given) + 1 /\ given'[Len(given) + 1] = Due
          /\ \A i \in 1..Len(given) : given'[i] = given[i]
      BY <1>3, <3>1, AppendProperties
    <3>3. \A i \in 1..Len(given) : given[i] = i
      BY <1>1 DEF SocketKept
    <3> QED
      BY <1>3, <3>1, <3>2, <3>3
  <2>2. CASE ~hello
    <3>1. given' = <<>> /\ Due = 0
      BY <1>1, <2>2 DEF Due, SocketKept
    <3>2. <<>> \in Seq(Nat) /\ Len(<<>>) = 0
      BY EmptySeq
    <3>3. given' \in Seq(Nat) /\ Len(given') = 0
      BY <3>1, <3>2
    <3> QED
      BY <3>1, <3>3
  <2> QED
    BY <2>1, <2>2
<1>5. given' = [i \in 1..Len(given') |-> i]
  BY <1>4
<1>6. Due' = Due + 1
  BY <1>4 DEF Due
<1>7. SocketTyped'
  BY <1>1, <1>2, <1>4 DEF SocketTyped
<1>8. SocketKept'
  <2>1. Len(given') <= Len(stream')
    BY <1>4
  <2>2. (view' \o arrived') \o coming' = FramesIn(stream', Due')
    BY <1>2, <1>6
  <2> QED
    BY <1>5, <2>1, <2>2 DEF SocketKept
<1>9. SocketFits'
  <2>1. Len(view) \in Nat /\ Len(view') \in Nat /\ bufsz \in Nat
    BY <1>1, <1>2, SizesAre, LenProperties DEF SocketTyped
  <2> QED
    BY <1>2, <2>1, SizesAre DEF SocketCore, SocketFits, Serves
<1> QED
  BY <1>7, <1>8, <1>9 DEF SocketCore

LEMMA SizeOfIs ==
  ASSUME NEW i
  PROVE  SizeOf(i) = SizeIn(stream, i)
BY DEF SizeOf, SizeIn

LEMMA HelloTaken ==
  ASSUME SocketCore, NEW to, TakeHello(to)
  PROVE  SocketCore' /\ wpc' = to /\ given' = given /\ reader' = reader
<1>1. Due = 0 /\ SizeIn(stream, Due) = HelloSz
  BY DEF TakeHello, Due, SizeIn
<1>2. Len(stream) \in Nat
  BY DueIs DEF SocketCore
<1>3. ending \in BOOLEAN
  BY DEF SocketCore, SocketTyped
<1> QED
  BY <1>1, <1>2, <1>3, FrameTaken DEF TakeHello, To

LEMMA FrameGiven ==
  ASSUME SocketCore, NEW to, Give(to)
  PROVE  SocketCore' /\ wpc' = to /\ reader' = reader
<1>1. hello /\ view # <<>> /\ Decode(Next1) > 0
  BY DEF Give
<1>2. Next1 = Due /\ Due <= Len(stream)
  BY <1>1, FirstByte DEF SocketCore
<1>3. SizeIn(stream, Due) \in Nat \ {0} /\ Len(view) \in Nat
  <2>1. Len(view) \in Nat
    BY LenProperties DEF SocketCore, SocketTyped
  <2> QED
    BY <1>2, <2>1, DueIs DEF SocketCore
<1>4. Len(view) >= SizeIn(stream, Due) /\ Decode(Next1) = SizeIn(stream, Due)
  BY <1>1, <1>2, <1>3, SizeOfIs DEF Decode
<1>5. ending \in BOOLEAN /\ ending' \in BOOLEAN
  BY DEF SocketCore, SocketTyped, Give
<1> QED
  BY <1>1, <1>2, <1>4, <1>5, FrameTaken DEF Give, To

\* Who asks for more has no whole frame, unless it is one the decoder waits on.
LEMMA NoneWhole ==
  ASSUME SocketCore, NeedsMore, Whole
  PROVE  Len(view) <= 4
<1>1. hello /\ view # <<>> /\ Len(view) >= SizeOf(Next1) /\ Decode(Next1) = -1
  BY DEF NeedsMore, Whole
<1>2. Next1 = Due /\ Due <= Len(stream)
  BY <1>1, FirstByte DEF SocketCore
<1>3. SizeOf(Next1) \in Nat \ {0} /\ Len(view) \in Nat
  <2>1. Len(view) \in Nat
    BY LenProperties DEF SocketCore, SocketTyped
  <2> QED
    BY <1>2, <2>1, DueIs, SizeOfIs DEF SocketCore
<1> QED
  BY <1>1, <1>3, SizesAre DEF Decode

LEMMA SocketStart == WebSocketInit => SocketInv
<1> SUFFICES ASSUME WebSocketInit PROVE SocketInv
  OBVIOUS
<1>1. stream \in Streams /\ Len(stream) \in Nat
  <2>1. stream \in Streams
    BY DEF WebSocketInit
  <2> QED
    BY <2>1, FrameIs, WebSocketAssumption, LenProperties
<1>2. coming = FramesIn(stream, 0)
  <2>1. coming = Frames(0, Len(stream))
    BY DEF WebSocketInit
  <2> QED
    BY <2>1 DEF Frames, FramesIn, BytesOf, FrameIn, SizeOf, SizeIn
<1>3. coming \in Seq(Marks)
  <2>1. 0 \in Nat /\ 0 <= Len(stream) + 1
    BY <1>1
  <2> QED
    BY <1>1, <1>2, <2>1, FramesAre
<1>4. view = <<>> /\ arrived = <<>> /\ given = <<>> /\ bufsz = 0 /\ ~hello
      /\ reader \in Readers /\ hello = FALSE /\ ending = FALSE /\ wpc = "idle"
  BY DEF WebSocketInit
<1>5. \A T : <<>> \in Seq(T)
  BY EmptySeq
<1>6. Len(<<>>) = 0
  BY EmptySeq
<1>7. SocketTyped
  <2>1. view \in Seq(Marks) /\ arrived \in Seq(Marks) /\ given \in Seq(Nat)
    BY <1>4, <1>5
  <2>2. bufsz \in 0..(MaxBuf + GrowSz)
    BY <1>4, SizesAre
  <2> QED
    BY <1>1, <1>3, <1>4, <2>1, <2>2 DEF SocketTyped
<1>8. SocketKept
  <2>1. (view \o arrived) \o coming = coming
    <3>1. <<>> \o <<>> = <<>>
      BY <1>5, ConcatEmptySeq
    <3>2. <<>> \o coming = coming
      BY <1>3, ConcatEmptySeq
    <3> QED
      BY <1>4, <3>1, <3>2
  <2>2. given = [i \in 1..Len(given) |-> i]
    BY <1>4, <1>6
  <2> QED
    BY <1>1, <1>2, <1>4, <1>6, <2>1, <2>2 DEF SocketKept, Due
<1>9. SocketFits
  BY <1>4, <1>6, SizesAre DEF SocketFits
<1>10. SocketQuiet
  BY <1>4 DEF SocketQuiet, Pauses, Whole
<1> QED
  BY <1>7, <1>8, <1>9, <1>10 DEF SocketInv, SocketCore

LEMMA ServerRecvKeeps ==
  ASSUME SocketInv, ServerRecv
  PROVE  SocketInv'
<1> DEFINE n == Min({Len(arrived), ServerBuf - Len(view)})
<1>1. Len(arrived) \in Nat /\ Len(view) \in Nat /\ Len(view) <= ServerBuf /\ Serves
      /\ ServerBuf \in Nat
  BY SizesAre, LenProperties DEF SocketInv, SocketCore, SocketTyped, SocketFits, ServerRecv
<1>2. n \in 0..Len(arrived) /\ Len(view) + n <= ServerBuf
  <2>1. n = IF Len(arrived) <= ServerBuf - Len(view) THEN Len(arrived) ELSE ServerBuf - Len(view)
    BY <1>1, LeastOfTwo
  <2> HIDE DEF n
  <2> QED
    BY <1>1, <2>1
<1>3. /\ view' = view \o SubSeq(arrived, 1, n)
      /\ arrived' = SubSeq(arrived, n + 1, Len(arrived))
      /\ wpc' \in {"closed", "decode"}
      /\ UNCHANGED <<reader, stream, coming, bufsz, given, hello, ending>>
  BY DEF ServerRecv, To
<1> HIDE DEF n
<1>4. SocketCore'
  BY <1>1, <1>2, <1>3, BytesRead DEF SocketInv
<1>5. SocketQuiet'
  BY <1>1, <1>3 DEF SocketQuiet, Pauses, Serves
<1> QED
  BY <1>4, <1>5 DEF SocketInv

LEMMA ServerDecodeKeeps ==
  ASSUME SocketInv, ServerDecode
  PROVE  SocketInv'
<1>0. SocketCore /\ Serves
  BY DEF SocketInv, ServerDecode
<1>1. CASE TakeHello(IF reader = "websockets" THEN "idle" ELSE "decode")
  <2> DEFINE to == IF reader = "websockets" THEN "idle" ELSE "decode"
  <2>1. TakeHello(to)
    BY <1>1
  <2> HIDE DEF to
  <2>2. SocketCore' /\ wpc' = to /\ given' = given /\ reader' = reader
    BY <1>0, <2>1, HelloTaken
  <2>3. given = <<>>
    BY <1>0, <2>1 DEF SocketCore, SocketKept, TakeHello
  <2>4. SocketQuiet'
    BY <1>0, <2>2, <2>3 DEF to, SocketQuiet, Pauses, Serves
  <2> QED
    BY <2>2, <2>4 DEF SocketInv
<1>2. CASE Give(IF LightEnds THEN "closed" ELSE "decode")
  <2> DEFINE to == IF LightEnds THEN "closed" ELSE "decode"
  <2>1. Give(to)
    BY <1>2
  <2> HIDE DEF to
  <2>2. SocketCore' /\ wpc' = to /\ reader' = reader
    BY <1>0, <2>1, FrameGiven
  <2>3. SocketQuiet'
    BY <1>0, <2>2 DEF to, SocketQuiet, Pauses, Serves
  <2> QED
    BY <2>2, <2>3 DEF SocketInv
<1>3. CASE Wait("idle")
  <2>1. /\ NeedsMore /\ wpc' = "idle"
        /\ UNCHANGED <<reader, stream, coming, arrived, view, bufsz, given, hello, ending>>
    BY <1>3 DEF Wait, To
  <2>2. SocketCore'
    BY <1>0, <2>1 DEF SocketCore, SocketTyped, SocketKept, SocketFits, Serves, Due
  <2>3. Whole => Len(view) <= 4
    BY <1>0, <2>1, NoneWhole
  <2>4. SocketQuiet'
    BY <1>0, <2>1, <2>3 DEF SocketQuiet, Pauses, Serves, Whole, SizeOf, Next1
  <2> QED
    BY <2>2, <2>4 DEF SocketInv
<1>4. CASE TooLong(IF LightEnds THEN "closed" ELSE "idle")
  <2> DEFINE to == IF LightEnds THEN "closed" ELSE "idle"
  <2>1. /\ wpc' = to /\ ending' = TRUE
        /\ UNCHANGED <<reader, stream, coming, arrived, view, bufsz, given, hello>>
    BY <1>4 DEF TooLong, To
  <2> HIDE DEF to
  <2>2. SocketCore'
    BY <1>0, <2>1 DEF SocketCore, SocketTyped, SocketKept, SocketFits, Serves, Due
  <2>3. SocketQuiet'
    BY <1>0, <2>1 DEF to, SocketQuiet, Pauses, Serves
  <2> QED
    BY <2>2, <2>3 DEF SocketInv
<1> QED
  BY <1>1, <1>2, <1>3, <1>4 DEF ServerDecode

\* Steps that leave the bytes where they are, and end or go on waiting.
LEMMA SocketRests ==
  ASSUME SocketInv, UNCHANGED <<reader, stream, coming, arrived, view, given, hello, ending>>,
         bufsz' \in bufsz..(MaxBuf + GrowSz),
         wpc' \in {"idle", "decode", "fill", "wait", "analys", "closed"},
         Pauses' => Pauses \/ view = <<>>
  PROVE  SocketInv'
<1>1. SocketCore' 
  <2>1. ending' \in BOOLEAN
    BY DEF SocketInv, SocketCore, SocketTyped
  <2> QED
    BY <2>1, NothingMoved DEF SocketInv
<1>2. SocketQuiet'
  <2>1. Whole' <=> Whole
    BY DEF Whole, SizeOf, Next1
  <2>2. view = <<>> => ~Whole
    BY DEF Whole
  <2> QED
    BY <2>1, <2>2 DEF SocketInv, SocketQuiet
<1> QED
  BY <1>1, <1>2 DEF SocketInv

LEMMA ClientWaitsKeeps ==
  ASSUME SocketInv, ServerEnds \/ CallRecv \/ Fill \/ ClientGivesUp
  PROVE  SocketInv'
<1>1. bufsz \in 0..(MaxBuf + GrowSz) /\ Len(view) \in Nat
  BY LenProperties DEF SocketInv, SocketCore, SocketTyped
<1>2. CASE ServerEnds
  <2>1. UNCHANGED <<reader, stream, coming, arrived, view, bufsz, given, hello, ending>>
        /\ wpc' = "closed" /\ Serves
    BY <1>2 DEF ServerEnds, To
  <2>2. ~Pauses'
    BY <2>1 DEF Pauses, Serves
  <2> QED
    BY <1>1, <2>1, <2>2, SizesAre, SocketRests
<1>3. CASE CallRecv
  <2>1. UNCHANGED <<reader, stream, coming, arrived, view, bufsz, given, hello, ending>>
        /\ wpc' = IF view = <<>> THEN "fill" ELSE "analys"
    BY <1>3 DEF CallRecv, To, Unread
  <2>2. Pauses' => view = <<>>
    BY <1>3, <2>1 DEF CallRecv, Pauses, Serves
  <2> QED
    BY <1>1, <2>1, <2>2, SizesAre, SocketRests
<1>4. CASE Fill
  <2>1. UNCHANGED <<reader, stream, coming, arrived, view, given, hello, ending>>
        /\ wpc' \in {"wait", "closed"} /\ ~Serves /\ wpc = "fill"
    BY <1>4 DEF Fill, To, Unread, Is
  <2>2. bufsz' \in bufsz..(MaxBuf + GrowSz)
    BY <1>1, <1>4, SizesAre DEF Fill
  <2>3. Pauses' => Pauses
    BY <2>1 DEF Pauses, Serves
  <2> QED
    BY <2>1, <2>2, <2>3, SocketRests
<1>5. CASE ClientGivesUp
  <2>1. UNCHANGED <<reader, stream, coming, arrived, view, bufsz, given, hello, ending>>
        /\ wpc' \in {"idle", "closed"} /\ ~Serves
    BY <1>5 DEF ClientGivesUp, Unread
  <2>2. ~Pauses'
    BY <2>1 DEF Pauses, Serves
  <2> QED
    BY <1>1, <2>1, <2>2, SizesAre, SocketRests
<1> QED
  BY <1>2, <1>3, <1>4, <1>5

LEMMA AnalysKeeps ==
  ASSUME SocketInv, Analys
  PROVE  SocketInv'
<1>0. SocketCore /\ ~Serves
  BY DEF SocketInv, Analys
<1>1. CASE TakeHello("idle")
  <2>1. SocketCore' /\ wpc' = "idle" /\ reader' = reader
    BY <1>0, <1>1, HelloTaken
  <2>2. SocketQuiet'
    BY <1>0, <2>1 DEF SocketQuiet, Pauses, Serves
  <2> QED
    BY <2>1, <2>2 DEF SocketInv
<1>2. CASE Give("idle")
  <2>1. SocketCore' /\ wpc' = "idle" /\ reader' = reader
    BY <1>0, <1>2, FrameGiven
  <2>2. SocketQuiet'
    BY <1>0, <2>1 DEF SocketQuiet, Pauses, Serves
  <2> QED
    BY <2>1, <2>2 DEF SocketInv
<1>3. CASE Wait("fill")
  <2>1. /\ NeedsMore /\ wpc' = "fill"
        /\ UNCHANGED <<reader, stream, coming, arrived, view, bufsz, given, hello, ending>>
    BY <1>3 DEF Wait, To
  <2>2. SocketCore'
    BY <1>0, <2>1 DEF SocketCore, SocketTyped, SocketKept, SocketFits, Serves, Due
  <2>3. Whole => Len(view) <= 4
    BY <1>0, <2>1, NoneWhole
  <2>4. SocketQuiet'
    BY <1>0, <2>1, <2>3 DEF SocketQuiet, Pauses, Serves, Whole, SizeOf, Next1
  <2> QED
    BY <2>2, <2>4 DEF SocketInv
<1>4. CASE TooLong("closed")
  <2>1. /\ wpc' = "closed" /\ ending' = TRUE
        /\ UNCHANGED <<reader, stream, coming, arrived, view, bufsz, given, hello>>
    BY <1>4 DEF TooLong, To
  <2>2. SocketCore'
    BY <1>0, <2>1 DEF SocketCore, SocketTyped, SocketKept, SocketFits, Serves, Due
  <2>3. SocketQuiet'
    BY <1>0, <2>1 DEF SocketQuiet, Pauses, Serves
  <2> QED
    BY <2>2, <2>3 DEF SocketInv
<1> QED
  BY <1>1, <1>2, <1>3, <1>4 DEF Analys

LEMMA ClientRecvKeeps ==
  ASSUME SocketInv, NEW n \in 1..GrowSz, ClientRecv(n)
  PROVE  SocketInv'
<1>1. /\ view' = view \o SubSeq(arrived, 1, n)
      /\ arrived' = SubSeq(arrived, n + 1, Len(arrived))
      /\ wpc' = "analys" /\ ~Serves /\ n <= Len(arrived) /\ n <= bufsz - Len(view)
      /\ UNCHANGED <<reader, stream, coming, bufsz, given, hello, ending>>
  BY DEF ClientRecv, To
<1>2. Len(arrived) \in Nat /\ Len(view) \in Nat /\ bufsz \in Nat /\ GrowSz \in Nat
  BY SizesAre, LenProperties DEF SocketInv, SocketCore, SocketTyped
<1>3. n \in 0..Len(arrived) /\ Len(view) + n <= bufsz
  BY <1>1, <1>2
<1>4. SocketCore'
  BY <1>1, <1>3, BytesRead DEF SocketInv
<1>5. SocketQuiet'
  BY <1>1 DEF SocketQuiet, Pauses, Serves
<1> QED
  BY <1>4, <1>5 DEF SocketInv

LEMMA ComesKeeps ==
  ASSUME SocketInv, Comes
  PROVE  SocketInv'
<1>1. SocketCore'
  BY ByteComes DEF SocketInv
<1>2. SocketQuiet'
  BY DEF SocketInv, SocketQuiet, Comes, Pauses, Serves, Whole, SizeOf, Next1
<1> QED
  BY <1>1, <1>2 DEF SocketInv

LEMMA SocketStep == SocketInv /\ [WebSocketNext]_wsVars => SocketInv'
<1> SUFFICES ASSUME SocketInv, [WebSocketNext]_wsVars PROVE SocketInv'
  OBVIOUS
<1>1. CASE UNCHANGED wsVars
  <2>1. bufsz \in 0..(MaxBuf + GrowSz)
    BY DEF SocketInv, SocketCore, SocketTyped
  <2>2. bufsz' \in bufsz..(MaxBuf + GrowSz)
    BY <1>1, <2>1, SizesAre DEF wsVars
  <2>3. wpc' \in {"idle", "decode", "fill", "wait", "analys", "closed"} /\ Pauses' = Pauses
    BY <1>1 DEF wsVars, SocketInv, SocketQuiet, Pauses, Serves
  <2> QED
    BY <1>1, <2>2, <2>3, SocketRests DEF wsVars
<1> QED
  BY <1>1, ComesKeeps, ServerRecvKeeps, ServerDecodeKeeps, ClientWaitsKeeps, AnalysKeeps,
     ClientRecvKeeps DEF WebSocketNext

\* However the bytes of the other side are cut, each frame reaches the program
\* whole, once and in order; and a reader that waits has no frame that it could
\* give, but for the two cases of WaitsForMore.
THEOREM FramesReach == WebSocketSpec => []WebSocketSound
<1>1. SocketInv => WebSocketSound
  <2> SUFFICES ASSUME SocketInv PROVE WebSocketSound
    OBVIOUS
  <2>1. Frames(Due, Len(stream)) = FramesIn(stream, Due)
    BY DEF Frames, FramesIn, BytesOf, FrameIn, SizeOf, SizeIn
  <2>2. FramesKept
    BY <2>1 DEF FramesKept, SocketInv, SocketCore, SocketKept, Due
  <2>3. WaitsForMore
    BY DEF WaitsForMore, Waits, Is, SocketInv, SocketQuiet, Pauses
  <2> QED
    BY <2>2, <2>3 DEF WebSocketSound
<1> QED
  BY <1>1, SocketStart, SocketStep, PTL DEF WebSocketSpec

\* A reader's buffer holds what it has and keeps within its bound, for any sizes
\* and any frames.
THEOREM WebSocketTypeCorrect == WebSocketSpec => []WebSocketTypeOK
<1>1. SocketInv => WebSocketTypeOK
  <2> SUFFICES ASSUME SocketInv PROVE WebSocketTypeOK
    OBVIOUS
  <2>1. Len(view) <= Max({ServerBuf, bufsz})
    <3> DEFINE B == {ServerBuf, bufsz}
    <3>1. ServerBuf \in Nat /\ bufsz \in Nat /\ Len(view) \in Nat
      <4>1. view \in Seq(Marks) /\ bufsz \in 0..(MaxBuf + GrowSz)
        BY DEF SocketInv, SocketCore, SocketTyped
      <4>2. MaxBuf \in Nat /\ GrowSz \in Nat /\ ServerBuf \in Nat
        BY WebSocketAssumption
      <4> QED
        BY <4>1, <4>2, LenProperties
    <3>2. \E x \in B : \A y \in B : x >= y
      BY <3>1
    <3>3. Max(B) \in B /\ \A y \in B : Max(B) >= y
      BY <3>2 DEF Max
    <3>4. Len(view) <= ServerBuf \/ Len(view) <= bufsz
      BY DEF SocketInv, SocketCore, SocketFits
    <3> HIDE DEF B
    <3>5. ServerBuf \in B /\ bufsz \in B /\ \A y \in B : y \in Nat
      BY <3>1 DEF B
    <3>6. Max(B) \in Nat /\ Max(B) >= ServerBuf /\ Max(B) >= bufsz
      BY <3>3, <3>5
    <3>7. Len(view) <= Max(B)
      BY <3>1, <3>4, <3>6
    <3> QED
      BY <3>7 DEF B
  <2>2. given \in Seq(DOMAIN stream)
    <3>1. stream \in Seq([op : {"text", "ping", "close"}, size : Nat \ {0}])
      BY WebSocketAssumption DEF SocketInv, SocketCore, SocketTyped
    <3>2. DOMAIN stream = 1..Len(stream) /\ Len(stream) \in Nat
      BY <3>1, LenProperties
    <3>3. /\ Len(given) <= Len(stream) /\ Len(given) \in Nat
          /\ given = [i \in 1..Len(given) |-> i]
      BY LenProperties DEF SocketInv, SocketCore, SocketKept, SocketTyped
    <3>4. given \in [1..Len(given) -> DOMAIN stream]
      BY <3>2, <3>3
    <3> QED
      BY <3>3, <3>4, IsASeq
  <2> QED
    BY <2>1, <2>2 DEF SocketInv, SocketCore, SocketQuiet, SocketTyped, WebSocketTypeOK
<1> QED
  BY <1>1, SocketStart, SocketStep, PTL DEF WebSocketSpec

------------------------------------------------------------------------------
(* HttpConnection: what is asked and what is answered                      *)

Whats == {"file", "empty", "text", "big"}
Stages == {"head", "post", "send", "sendfile", "alive", "close"}
Turns == {"idle", "send", "recv", "serve", "text", "end", "closed"}

\* The bytes of requests, and those of replies.
AskBytes == Nat \X {"head", "body"}
HeadBytes == Nat \X {"head"} \X (Whats \cup {"404"}) \X Nat
BodyBytes == Nat \X {"byte"}
ReplyBytes == HeadBytes \cup BodyBytes

IsHead(t) == t[2] = "head"
AnswerTo(t) == t[1]
WhatOf(t) == t[3]
LengthOf(t) == t[4]

\* One of the first i requests of a has a body that is too long.
RefusedIn(a, i) == \E j \in 1..i : a[j].what = "big"

\* Where the head of each reply is: o is h replies, one to each request, each with
\* as many bytes as its head says; left of the last are still to come.
Lays(a, o, h, left, pos) ==
  /\ pos \in [1..h -> 1..Len(o)]
  /\ h = 0 => Len(o) = 0 /\ left = 0
  /\ h > 0 => pos[1] = 1 /\ pos[h] + LengthOf(o[pos[h]]) = Len(o) + left
  /\ \A i \in 1..(h - 1) : pos[i + 1] = pos[i] + LengthOf(o[pos[i]]) + 1
  /\ \A i, j \in 1..h : i < j => pos[i] + LengthOf(o[pos[i]]) < pos[j]
  /\ \A i \in 1..h : /\ IsHead(o[pos[i]]) /\ LengthOf(o[pos[i]]) \in Nat
                     /\ AnswerTo(o[pos[i]]) = i
                     /\ ~RefusedIn(a, i - 1) => WhatOf(o[pos[i]]) = a[i].what
  /\ \A i \in 1..h : \A k \in 1..Len(o) :
       pos[i] < k /\ k <= pos[i] + LengthOf(o[pos[i]]) => ~IsHead(o[k]) /\ AnswerTo(o[k]) = i

Layout(a, o, h, left) == \E pos : Lays(a, o, h, left, pos)

\* A reply more begins.
LEMMA LaysHead ==
  ASSUME NEW a, NEW o \in Seq(ReplyBytes), NEW h \in Nat, Layout(a, o, h, 0),
         NEW t \in ReplyBytes, NEW q \in Seq(ReplyBytes), Len(q) = Len(o) + 1,
         \A k \in 1..Len(o) : q[k] = o[k], q[Len(o) + 1] = t,
         IsHead(t), LengthOf(t) \in Nat, AnswerTo(t) = h + 1,
         ~RefusedIn(a, h) => WhatOf(t) = a[h + 1].what
  PROVE  Layout(a, q, h + 1, LengthOf(t))
<1>1. PICK pos : Lays(a, o, h, 0, pos)
  BY DEF Layout
<1> DEFINE m == Len(o)
           next == [i \in 1..(h + 1) |-> IF i <= h THEN pos[i] ELSE m + 1]
<1>2. m \in Nat /\ Len(q) = m + 1 /\ q[m + 1] = t /\ \A k \in 1..m : q[k] = o[k]
  OBVIOUS
<1>3. \A i \in 1..h : pos[i] \in 1..m
  BY <1>1 DEF Lays
<1>4. /\ \A i \in 1..h : next[i] = pos[i] /\ next[i] \in 1..m
      /\ next[h + 1] = m + 1 /\ next \in [1..(h + 1) -> 1..(m + 1)]
  BY <1>2, <1>3
<1>5. \A i \in 1..h : q[next[i]] = o[pos[i]]
  BY <1>2, <1>3, <1>4
<1> HIDE DEF m, next
<1>6. \A i \in 1..h : LengthOf(o[pos[i]]) \in Nat
  BY <1>1 DEF Lays
<1>7. /\ h = 0 => m = 0
      /\ h > 0 => pos[1] = 1 /\ pos[h] + LengthOf(o[pos[h]]) = m
  BY <1>1, <1>2 DEF Lays, m
<1>8. \A i \in 1..(h + 1) : i \in 1..h \/ i = h + 1
  OBVIOUS
<1>9. \A i \in 1..h : pos[i] + LengthOf(o[pos[i]]) < m + 1
  <2> SUFFICES ASSUME NEW i \in 1..h PROVE pos[i] + LengthOf(o[pos[i]]) < m + 1
    OBVIOUS
  <2>1. CASE i = h
    BY <1>2, <1>7, <2>1
  <2>2. CASE i < h
    <3>1. pos[i] + LengthOf(o[pos[i]]) < pos[h] /\ pos[h] \in 1..m
      BY <1>1, <1>3, <2>2 DEF Lays
    <3> QED
      BY <1>2, <1>3, <1>6, <3>1, SMTT(30)
  <2> QED
    BY <2>1, <2>2
<1>10. Lays(a, q, h + 1, LengthOf(t), next)
  <2>1. next \in [1..(h + 1) -> 1..Len(q)]
    BY <1>2, <1>4
  <2>2. next[1] = 1 /\ next[h + 1] + LengthOf(q[next[h + 1]]) = Len(q) + LengthOf(t)
    <3>1. next[1] = 1
      BY <1>2, <1>4, <1>7
    <3> QED
      BY <1>2, <1>4, <3>1
  <2>3. \A i \in 1..h : next[i + 1] = next[i] + LengthOf(q[next[i]]) + 1
    <3> SUFFICES ASSUME NEW i \in 1..h PROVE next[i + 1] = next[i] + LengthOf(q[next[i]]) + 1
      OBVIOUS
    <3>1. CASE i = h
      BY <1>2, <1>4, <1>5, <1>6, <1>7, <3>1, SMTT(30)
    <3>2. CASE i < h
      <4>0. i \in 1..(h - 1)
        BY <3>2
      <4>1. pos[i + 1] = pos[i] + LengthOf(o[pos[i]]) + 1
        BY <1>1, <4>0, Zenon DEF Lays
      <4> QED
        BY <1>4, <1>5, <3>2, <4>1
    <3> QED
      BY <3>1, <3>2
  <2>4. \A i, j \in 1..(h + 1) : i < j => next[i] + LengthOf(q[next[i]]) < next[j]
    <3> SUFFICES ASSUME NEW i \in 1..(h + 1), NEW j \in 1..(h + 1), i < j
                 PROVE  next[i] + LengthOf(q[next[i]]) < next[j]
      OBVIOUS
    <3>1. i \in 1..h
      OBVIOUS
    <3>2. CASE j = h + 1
      BY <1>4, <1>5, <1>9, <3>1, <3>2
    <3>3. CASE j \in 1..h
      <4>1. pos[i] + LengthOf(o[pos[i]]) < pos[j]
        BY <1>1, <3>1, <3>3 DEF Lays
      <4> QED
        BY <1>4, <1>5, <3>1, <3>3, <4>1
    <3> QED
      BY <1>8, <3>2, <3>3
  <2>5. \A i \in 1..(h + 1) : /\ IsHead(q[next[i]]) /\ LengthOf(q[next[i]]) \in Nat
                              /\ AnswerTo(q[next[i]]) = i
                              /\ ~RefusedIn(a, i - 1) => WhatOf(q[next[i]]) = a[i].what
    <3> SUFFICES ASSUME NEW i \in 1..(h + 1)
                 PROVE  /\ IsHead(q[next[i]]) /\ LengthOf(q[next[i]]) \in Nat
                        /\ AnswerTo(q[next[i]]) = i
                        /\ ~RefusedIn(a, i - 1) => WhatOf(q[next[i]]) = a[i].what
      OBVIOUS
    <3>1. CASE i = h + 1
      <4>1. q[next[i]] = t /\ i - 1 = h
        BY <1>2, <1>4, <3>1
      <4> QED
        BY <3>1, <4>1
    <3>2. CASE i \in 1..h
      BY <1>1, <1>5, <3>2 DEF Lays
    <3> QED
      BY <1>8, <3>1, <3>2
  <2>6. \A i \in 1..(h + 1) : \A k \in 1..Len(q) :
          next[i] < k /\ k <= next[i] + LengthOf(q[next[i]]) => ~IsHead(q[k]) /\ AnswerTo(q[k]) = i
    <3> SUFFICES ASSUME NEW i \in 1..(h + 1), NEW k \in 1..Len(q), next[i] < k,
                        k <= next[i] + LengthOf(q[next[i]])
                 PROVE  ~IsHead(q[k]) /\ AnswerTo(q[k]) = i
      OBVIOUS
    <3>1. i \in 1..h
      BY <1>2, <1>4, <1>8, SMTT(30)
    <3>2. k \in 1..m
      BY <1>2, <1>4, <1>5, <1>6, <1>9, <3>1
    <3>3. ~IsHead(o[k]) /\ AnswerTo(o[k]) = i
      BY <1>1, <1>4, <1>5, <3>1, <3>2 DEF Lays, m
    <3> QED
      BY <1>2, <3>2, <3>3
  <2>7. 1..(h + 1 - 1) = 1..h /\ h + 1 # 0 /\ h + 1 > 0
    OBVIOUS
  <2> QED
    BY <2>1, <2>2, <2>3, <2>4, <2>5, <2>6, <2>7 DEF Lays
<1> QED
  BY <1>10 DEF Layout

\* Some bytes of the last reply follow.
LEMMA LaysBytes ==
  ASSUME NEW a, NEW o \in Seq(ReplyBytes), NEW h \in Nat, NEW left \in Nat,
         Layout(a, o, h, left), NEW n \in 0..left, h > 0,
         NEW q \in Seq(ReplyBytes), Len(q) = Len(o) + n,
         \A k \in 1..Len(o) : q[k] = o[k],
         \A k \in (Len(o) + 1)..Len(q) : ~IsHead(q[k]) /\ AnswerTo(q[k]) = h
  PROVE  Layout(a, q, h, left - n)
<1>1. PICK pos : Lays(a, o, h, left, pos)
  BY DEF Layout
<1> DEFINE m == Len(o)
<1>2. m \in Nat /\ Len(q) = m + n /\ \A k \in 1..m : q[k] = o[k]
  OBVIOUS
<1>3. \A i \in 1..h : pos[i] \in 1..m /\ q[pos[i]] = o[pos[i]]
  BY <1>1, <1>2 DEF Lays
<1>4. \A i \in 1..h : LengthOf(o[pos[i]]) \in Nat
  BY <1>1 DEF Lays
<1>5. Lays(a, q, h, left - n, pos)
  <2>1. pos \in [1..h -> 1..Len(q)]
    <3>1. pos \in [1..h -> 1..m] /\ 1..m \subseteq 1..Len(q)
      BY <1>1, <1>2, SMTT(30) DEF Lays
    <3> QED
      BY <3>1
  <2>2. pos[1] = 1 /\ pos[h] + LengthOf(q[pos[h]]) = Len(q) + (left - n)
    <3>1. pos[1] = 1 /\ pos[h] + LengthOf(o[pos[h]]) = m + left
      BY <1>1 DEF Lays
    <3> QED
      BY <1>2, <1>3, <3>1, SMTT(30)
  <2>3. \A i \in 1..(h - 1) : pos[i + 1] = pos[i] + LengthOf(q[pos[i]]) + 1
    <3>1. 1..(h - 1) \subseteq 1..h
      OBVIOUS
    <3>2. \A i \in 1..(h - 1) : pos[i + 1] = pos[i] + LengthOf(o[pos[i]]) + 1
      BY <1>1, Zenon DEF Lays
    <3> QED
      BY <1>3, <3>1, <3>2
  <2>4. \A i, j \in 1..h : i < j => pos[i] + LengthOf(q[pos[i]]) < pos[j]
    BY <1>1, <1>3 DEF Lays
  <2>5. \A i \in 1..h : /\ IsHead(q[pos[i]]) /\ LengthOf(q[pos[i]]) \in Nat
                        /\ AnswerTo(q[pos[i]]) = i
                        /\ ~RefusedIn(a, i - 1) => WhatOf(q[pos[i]]) = a[i].what
    BY <1>1, <1>3 DEF Lays
  <2>6. \A i \in 1..h : \A k \in 1..Len(q) :
          pos[i] < k /\ k <= pos[i] + LengthOf(q[pos[i]]) => ~IsHead(q[k]) /\ AnswerTo(q[k]) = i
    <3> SUFFICES ASSUME NEW i \in 1..h, NEW k \in 1..Len(q), pos[i] < k,
                        k <= pos[i] + LengthOf(q[pos[i]])
                 PROVE  ~IsHead(q[k]) /\ AnswerTo(q[k]) = i
      OBVIOUS
    <3>1. CASE k \in 1..m
      BY <1>1, <1>2, <1>3, <3>1 DEF Lays
    <3>2. CASE k \notin 1..m
      <4>1. k \in (m + 1)..Len(q) /\ m < k
        BY <1>2, <3>2
      <4>2. i = h
        <5> SUFFICES ASSUME i < h PROVE FALSE
          OBVIOUS
        <5>1. pos[i] + LengthOf(o[pos[i]]) < pos[h] /\ pos[h] \in 1..m
          BY <1>1, <1>3 DEF Lays
        <5> QED
          BY <1>2, <1>3, <1>4, <4>1, <5>1, SMTT(30)
      <4> QED
        BY <4>1, <4>2
    <3> QED
      BY <3>1, <3>2
  <2> QED
    BY <2>1, <2>2, <2>3, <2>4, <2>5, <2>6 DEF Lays
<1> QED
  BY <1>5 DEF Layout

\* A request more changes nothing of what was answered.
LEMMA LaysAsked ==
  ASSUME NEW a, NEW b, NEW o, NEW h \in Nat, NEW left, Layout(a, o, h, left),
         \A i \in 1..h : b[i] = a[i]
  PROVE  Layout(b, o, h, left)
<1>1. \A i \in 1..h : RefusedIn(b, i - 1) <=> RefusedIn(a, i - 1)
  BY DEF RefusedIn
<1>2. PICK pos : Lays(a, o, h, left, pos)
  BY DEF Layout
<1>3. \A i \in 1..h : ~RefusedIn(b, i - 1) => WhatOf(o[pos[i]]) = b[i].what
  BY <1>1, <1>2 DEF Lays
<1>4. Lays(b, o, h, left, pos)
  BY <1>2, <1>3 DEF Lays
<1> QED
  BY <1>4 DEF Layout
\* Different places are as many as their numbers.
LEMMA Places ==
  ASSUME NEW n \in Nat, NEW f, DOMAIN f = 1..n, \A i, j \in 1..n : i < j => f[i] # f[j]
  PROVE  IsFiniteSet({f[i] : i \in 1..n}) /\ Cardinality({f[i] : i \in 1..n}) = n
<1> DEFINE T == {f[i] : i \in 1..n}
           g == [i \in 1..n |-> f[i]]
<1>1. g \in [1..n -> T] /\ (\A t \in T : \E i \in 1..n : g[i] = t)
      /\ \A i \in 1..n : g[i] = f[i]
  OBVIOUS
<1>2. \A i, j \in 1..n : g[i] = g[j] => i = j
  <2> SUFFICES ASSUME NEW i \in 1..n, NEW j \in 1..n, f[i] = f[j] PROVE i = j
    BY <1>1
  <2>1. ~(i < j) /\ ~(j < i)
    OBVIOUS
  <2> QED
    BY <2>1
<1> HIDE DEF g, T
<1>3. g \in Bijection(1..n, T)
  BY <1>1, <1>2 DEF Bijection, Injection, Surjection, IsInjective
<1>4. IsFiniteSet(1..n) /\ Cardinality(1..n) = n
  <2>1. 1 \in Int /\ n \in Int /\ n \in Nat
    OBVIOUS
  <2>2. IsFiniteSet(1..n) /\ Cardinality(1..n) = IF 1 > n THEN 0 ELSE n - 1 + 1
    BY <2>1, FS_Interval
  <2> QED
    BY <2>1, <2>2
<1>5. ExistsBijection(1..n, T)
  BY <1>3 DEF ExistsBijection
<1>6. IsFiniteSet(T) /\ Cardinality(T) = Cardinality(1..n)
  BY <1>4, <1>5, FS_Bijection
<1> QED
  BY <1>4, <1>6 DEF T

\* w is the first part of o.
Part(w, o) == Len(w) <= Len(o) /\ \A k \in 1..Len(w) : w[k] = o[k]

\* The heads among the first bytes of the replies are where the layout says.
LEMMA HeadsAre ==
  ASSUME NEW a, NEW o \in Seq(ReplyBytes), NEW h \in Nat, NEW left \in Nat, NEW pos,
         Lays(a, o, h, left, pos), NEW w \in Seq(ReplyBytes), Part(w, o)
  PROVE  /\ \A j \in HeadsOf(w) : \E i \in 1..h : j = pos[i]
         /\ \A i \in 1..h : pos[i] <= Len(w) => pos[i] \in HeadsOf(w) /\ w[pos[i]] = o[pos[i]]
         /\ \A i \in 1..h : pos[i] \in 1..Len(o) /\ LengthOf(o[pos[i]]) \in Nat
         /\ HeadsOf(w) \subseteq 1..Len(w) /\ Len(w) \in Nat
<1>0. Len(w) \in Nat /\ Len(o) \in Nat /\ Len(w) <= Len(o) /\ \A k \in 1..Len(w) : w[k] = o[k]
  BY DEF Part
<1>1. HeadsOf(w) = {j \in 1..Len(w) : IsHead(w[j])}
  BY DEF HeadsOf, IsHead
<1>2. \A i \in 1..h : pos[i] \in 1..Len(o) /\ LengthOf(o[pos[i]]) \in Nat /\ IsHead(o[pos[i]])
  BY DEF Lays
<1>3. ASSUME NEW i \in 1..h, pos[i] <= Len(w) PROVE pos[i] \in HeadsOf(w) /\ w[pos[i]] = o[pos[i]]
  <2>1. pos[i] \in 1..Len(w)
    BY <1>0, <1>2, <1>3
  <2> QED
    BY <1>0, <1>1, <1>2, <2>1
<1>4. ASSUME NEW j \in HeadsOf(w) PROVE \E i \in 1..h : j = pos[i]
  <2>1. j \in 1..Len(w) /\ j \in 1..Len(o) /\ IsHead(o[j])
    BY <1>0, <1>1
  <2> DEFINE T == {i \in 1..h : pos[i] <= j}
  <2>2. h # 0 /\ pos[1] = 1
    BY <2>1 DEF Lays
  <2>3. 1 \in T /\ T \subseteq 0..h
    BY <2>1, <2>2
  <2> HIDE DEF T
  <2>4. PICK i \in T : \A l \in T : l <= i
    BY <2>3, NatGreatest
  <2>5. i \in 1..h /\ pos[i] <= j
    BY DEF T
  <2>6. j <= pos[i] + LengthOf(o[pos[i]])
    <3>1. CASE i = h
      <4>1. pos[h] + LengthOf(o[pos[h]]) = Len(o) + left
        BY <2>2 DEF Lays
      <4> QED
        BY <1>0, <1>2, <2>1, <2>5, <3>1, <4>1
    <3>2. CASE i # h
      <4>1. i \in 1..(h - 1) /\ i + 1 \in 1..h
        BY <2>5, <3>2
      <4>2. pos[i + 1] = pos[i] + LengthOf(o[pos[i]]) + 1
        BY <4>1, Zenon DEF Lays
      <4>3. ~(pos[i + 1] <= j)
        <5>1. i + 1 \notin T
          BY <2>4, <2>5
        <5> QED
          BY <4>1, <5>1 DEF T
      <4>4. pos[i] \in Nat /\ pos[i + 1] \in Nat /\ LengthOf(o[pos[i]]) \in Nat /\ j \in Nat
        BY <1>2, <2>1, <2>5, <4>1
      <4> QED
        BY <4>2, <4>3, <4>4
    <3> QED
      BY <3>1, <3>2
  <2>7. j = pos[i]
    <3> SUFFICES ASSUME j # pos[i] PROVE FALSE
      OBVIOUS
    <3>1. pos[i] < j
      BY <1>2, <2>1, <2>5
    <3>2. ~IsHead(o[j])
      BY <2>1, <2>5, <2>6, <3>1 DEF Lays
    <3> QED
      BY <2>1, <3>2
  <2> QED
    BY <2>5, <2>7
<1>5. HeadsOf(w) \subseteq 1..Len(w)
  BY <1>1
<1> QED
  BY <1>0, <1>2, <1>3, <1>4, <1>5
LEMMA FramedIs ==
  ASSUME NEW a, NEW o \in Seq(ReplyBytes), NEW h \in Nat, NEW left \in Nat,
         Layout(a, o, h, left), wire \in Seq(ReplyBytes), Part(wire, o)
  PROVE  Framed
<1> SUFFICES ASSUME wire # <<>>
             PROVE  /\ HeadsOf(wire) = {1} \cup {e + 1 : e \in {d \in EndsOf(wire) : d < Len(wire)}}
                    /\ \A j \in HeadsOf(wire) : \A k \in 1..Len(wire) :
                         j < k /\ k <= j + wire[j][4] => wire[k][1] = wire[j][1]
  BY DEF Framed
<1> DEFINE w == wire
           n == Len(w)
           H == HeadsOf(w)
<1>1. PICK pos : Lays(a, o, h, left, pos)
  BY DEF Layout
<1>2. /\ \A j \in H : \E i \in 1..h : j = pos[i]
      /\ \A i \in 1..h : pos[i] <= n => pos[i] \in H /\ w[pos[i]] = o[pos[i]]
      /\ \A i \in 1..h : pos[i] \in 1..Len(o) /\ LengthOf(o[pos[i]]) \in Nat
      /\ H \subseteq 1..n /\ n \in Nat
  BY <1>1, HeadsAre
<1>3. n > 0 /\ n <= Len(o) /\ Len(o) \in Nat /\ \A k \in 1..n : w[k] = o[k]
  BY DEF Part
<1>4. EndsOf(w) = {j + LengthOf(w[j]) : j \in H}
  BY DEF EndsOf, LengthOf
<1> HIDE DEF w, n, H
<1>5. h > 0 /\ pos[1] = 1 /\ pos[h] + LengthOf(o[pos[h]]) = Len(o) + left
  <2>0. h = 0 => Len(o) = 0
    BY <1>1, Zenon DEF Lays
  <2>1. h # 0
    BY <1>2, <1>3, <2>0
  <2>2. h > 0
    BY <2>1
  <2> QED
    BY <1>1, <2>2, Zenon DEF Lays
<1>6. \A i \in 1..(h - 1) : pos[i + 1] = pos[i] + LengthOf(o[pos[i]]) + 1
  BY <1>1, Zenon DEF Lays
<1> DEFINE E == {e + 1 : e \in {d \in EndsOf(w) : d < n}}
<1>7. ASSUME NEW j \in H PROVE j \in {1} \cup E
  <2>1. PICK i \in 1..h : j = pos[i]
    BY <1>2
  <2>2. j \in 1..n
    BY <1>2
  <2>3. CASE i = 1
    BY <1>5, <2>1, <2>3
  <2>4. CASE i # 1
    <3>1. i - 1 \in 1..(h - 1) /\ i - 1 \in 1..h /\ (i - 1) + 1 = i
      BY <2>4
    <3>2. pos[(i - 1) + 1] = pos[i - 1] + LengthOf(o[pos[i - 1]]) + 1
      BY <1>6, <3>1
    <3>3. pos[i - 1] \in Nat /\ LengthOf(o[pos[i - 1]]) \in Nat
      BY <1>2, <3>1
    <3> DEFINE e == pos[i - 1] + LengthOf(o[pos[i - 1]])
    <3>4. pos[i - 1] <= n /\ e < n /\ j = e + 1
      <4>1. j = e + 1
        BY <2>1, <3>1, <3>2
      <4>2. j \in Nat /\ n \in Nat /\ j <= n /\ e \in Nat /\ pos[i - 1] <= e
        BY <1>2, <2>2, <3>3, SMTT(30)
      <4> QED
        BY <3>3, <4>1, <4>2
    <3>5. pos[i - 1] \in H /\ w[pos[i - 1]] = o[pos[i - 1]]
      BY <1>2, <3>1, <3>4
    <3>6. e = pos[i - 1] + LengthOf(w[pos[i - 1]])
      BY <3>5
    <3>7. e \in EndsOf(w)
      BY <1>4, <3>5, <3>6
    <3> HIDE DEF e
    <3> QED
      BY <3>4, <3>7
  <2> QED
    BY <2>3, <2>4
<1>8. 1 \in H
  <2>1. 1 \in 1..h /\ pos[1] <= n
    BY <1>2, <1>3, <1>5
  <2> QED
    BY <1>2, <1>5, <2>1
<1>9. ASSUME NEW e \in EndsOf(w), e < n PROVE e + 1 \in H
  <2>1. PICK j \in H : e = j + LengthOf(w[j])
    BY <1>4
  <2>2. PICK i \in 1..h : j = pos[i]
    BY <1>2
  <2>3. j \in 1..n /\ w[j] = o[j]
    BY <1>2, <1>3
  <2>4. LengthOf(o[pos[i]]) \in Nat /\ e = pos[i] + LengthOf(o[pos[i]])
    BY <1>2, <2>1, <2>2, <2>3
  <2>5. i # h
    BY <1>3, <1>5, <1>9, <2>4, <1>2
  <2>6. i \in 1..(h - 1) /\ i + 1 \in 1..h
    BY <2>5
  <2>7. pos[i + 1] = e + 1
    BY <1>6, <2>4, <2>6
  <2>8. pos[i + 1] <= n
    BY <1>2, <1>9, <2>2, <2>3, <2>4, <2>7
  <2> QED
    BY <1>2, <2>6, <2>7, <2>8
<1>10. H = {1} \cup E
  BY <1>7, <1>8, <1>9
<1>11. ASSUME NEW j \in H, NEW k \in 1..n, j < k, k <= j + LengthOf(w[j])
       PROVE  AnswerTo(w[k]) = AnswerTo(w[j])
  <2>1. PICK i \in 1..h : j = pos[i]
    BY <1>2
  <2>2. j \in 1..n /\ w[j] = o[j] /\ w[k] = o[k] /\ k \in 1..Len(o)
    BY <1>2, <1>3
  <2>3. AnswerTo(o[k]) = i
    BY <1>1, <1>11, <2>1, <2>2 DEF Lays
  <2>4. AnswerTo(o[j]) = i
    BY <1>1, <2>1 DEF Lays
  <2> QED
    BY <2>2, <2>3, <2>4
<1> QED
  BY <1>10, <1>11 DEF w, n, H, LengthOf, AnswerTo

LEMMA InOrderIs ==
  ASSUME NEW o \in Seq(ReplyBytes), NEW h \in Nat, NEW left \in Nat,
         Layout(asked, o, h, left), wire \in Seq(ReplyBytes), Part(wire, o)
  PROVE  AnswersInOrder
<1> DEFINE w == wire
           n == Len(w)
           H == HeadsOf(w)
<1>1. PICK pos : Lays(asked, o, h, left, pos)
  BY DEF Layout
<1>2. /\ \A j \in H : \E i \in 1..h : j = pos[i]
      /\ \A i \in 1..h : pos[i] <= n => pos[i] \in H /\ w[pos[i]] = o[pos[i]]
      /\ \A i \in 1..h : pos[i] \in 1..Len(o) /\ LengthOf(o[pos[i]]) \in Nat
      /\ H \subseteq 1..n /\ n \in Nat
  BY <1>1, HeadsAre
<1> HIDE DEF w, n, H
<1>3. \A i, j \in 1..h : i < j => pos[i] < pos[j]
  <2> SUFFICES ASSUME NEW i \in 1..h, NEW j \in 1..h, i < j PROVE pos[i] < pos[j]
    OBVIOUS
  <2>1. pos[i] + LengthOf(o[pos[i]]) < pos[j]
    BY <1>1 DEF Lays
  <2>2. pos[i] \in Nat /\ pos[j] \in Nat /\ LengthOf(o[pos[i]]) \in Nat
    BY <1>2
  <2> QED
    BY <2>1, <2>2
<1>4. ASSUME NEW j \in H
      PROVE  \E i \in 1..h : j = pos[i] /\ Cardinality({k \in H : k <= j}) = i
  <2>1. PICK i \in 1..h : j = pos[i]
    BY <1>2
  <2>2. j \in 1..n
    BY <1>2
  <2>3. i \in Nat /\ 1..i \subseteq 1..h
    OBVIOUS
  <2>4. {k \in H : k <= j} = {pos[m] : m \in 1..i}
    <3>1. ASSUME NEW k \in H, k <= j PROVE k \in {pos[m] : m \in 1..i}
      <4>1. PICK m \in 1..h : k = pos[m]
        BY <1>2
      <4>2. ~(i < m)
        <5>1. k \in Nat /\ j \in Nat
          BY <1>2
        <5> QED
          BY <1>3, <2>1, <3>1, <4>1, <5>1
      <4>3. m \in 1..i
        BY <4>2
      <4> QED
        BY <4>1, <4>3
    <3>2. ASSUME NEW m \in 1..i PROVE pos[m] \in H /\ pos[m] <= j
      <4>1. m \in 1..h /\ (m = i \/ m < i)
        BY <2>3
      <4>2. pos[m] \in Nat /\ pos[i] \in Nat
        BY <1>2, <4>1, SMTT(30)
      <4>3. pos[m] <= pos[i]
        BY <1>3, <4>1, <4>2
      <4> QED
        BY <1>2, <2>1, <2>2, <4>1, <4>2, <4>3, SMTT(30)
    <3> QED
      BY <3>1, <3>2
  <2>5. Cardinality({pos[m] : m \in 1..i}) = i
    <3> DEFINE f == [m \in 1..i |-> pos[m]]
    <3>1. DOMAIN f = 1..i /\ \A m \in 1..i : f[m] = pos[m]
      OBVIOUS
    <3>2. {f[m] : m \in 1..i} = {pos[m] : m \in 1..i}
      BY <3>1
    <3>3. \A k, m \in 1..i : k < m => f[k] # f[m]
      <4> SUFFICES ASSUME NEW k \in 1..i, NEW m \in 1..i, k < m PROVE f[k] # f[m]
        OBVIOUS
      <4>1. k \in 1..h /\ m \in 1..h
        BY <2>3
      <4>2. pos[k] \in Nat /\ pos[m] \in Nat /\ pos[k] < pos[m]
        BY <1>2, <1>3, <4>1, SMTT(30)
      <4> QED
        BY <3>1, <4>2
    <3> HIDE DEF f
    <3>4. Cardinality({f[m] : m \in 1..i}) = i
      BY <2>3, <3>1, <3>3, Places
    <3> QED
      BY <3>2, <3>4
  <2> QED
    BY <2>1, <2>4, <2>5
<1>5. ASSUME NEW j \in H, NEW i, i = Cardinality({k \in H : k <= j}), ~RefusedIn(asked, i - 1)
      PROVE  w[j][1] = i /\ w[j][3] = asked[i].what
  <2>1. i \in 1..h /\ j = pos[i]
    BY <1>4, <1>5
  <2>2. w[j] = o[j]
    BY <1>2, <2>1
  <2>3. AnswerTo(o[j]) = i /\ WhatOf(o[j]) = asked[i].what
    BY <1>1, <1>5, <2>1 DEF Lays
  <2> QED
    BY <2>2, <2>3 DEF AnswerTo, WhatOf
<1> QED
  BY <1>5 DEF AnswersInOrder, Refused, RefusedIn, w, H

\* A peer that has whole replies to all it asked has all there is of them.
LEMMA AllIsThere ==
  ASSUME NEW a, NEW o \in Seq(ReplyBytes), NEW h \in Nat, NEW left \in Nat,
         Layout(a, o, h, left), NEW w \in Seq(ReplyBytes), Part(w, o),
         NEW m \in Nat, h <= m, Cardinality(HeadsOf(w)) = m, m # 0 => Len(w) \in EndsOf(w)
  PROVE  h = m /\ Len(w) = Len(o) /\ left = 0
<1> DEFINE n == Len(w)
           H == HeadsOf(w)
<1>1. PICK pos : Lays(a, o, h, left, pos)
  BY DEF Layout
<1>2. /\ \A j \in H : \E i \in 1..h : j = pos[i]
      /\ \A i \in 1..h : pos[i] <= n => pos[i] \in H /\ w[pos[i]] = o[pos[i]]
      /\ \A i \in 1..h : pos[i] \in 1..Len(o) /\ LengthOf(o[pos[i]]) \in Nat
      /\ H \subseteq 1..n /\ n \in Nat
  BY <1>1, HeadsAre
<1>3. n <= Len(o) /\ Len(o) \in Nat /\ \A k \in 1..n : w[k] = o[k]
  BY DEF Part
<1>4. EndsOf(w) = {j + LengthOf(w[j]) : j \in H}
  BY DEF EndsOf, LengthOf
<1>5. \A i, j \in 1..h : i < j => pos[i] + LengthOf(o[pos[i]]) < pos[j]
  BY <1>1 DEF Lays
<1>6. Cardinality(H) = m
  OBVIOUS
<1>7. m # 0 => n \in EndsOf(w)
  OBVIOUS
<1> HIDE DEF n, H
<1> DEFINE P == {pos[i] : i \in 1..h}
<1>8. IsFiniteSet(P) /\ Cardinality(P) = h
  <2>1. DOMAIN pos = 1..h
    BY <1>1 DEF Lays
  <2>2. \A i, j \in 1..h : i < j => pos[i] # pos[j]
    <3> SUFFICES ASSUME NEW i \in 1..h, NEW j \in 1..h, i < j PROVE pos[i] # pos[j]
      OBVIOUS
    <3>1. pos[i] + LengthOf(o[pos[i]]) < pos[j]
      BY <1>5
    <3>2. pos[i] \in Nat /\ LengthOf(o[pos[i]]) \in Nat
      BY <1>2
    <3> QED
      BY <3>1, <3>2
  <2> QED
    BY <2>1, <2>2, Places
<1>9. H \in SUBSET P
  BY <1>2
<1> HIDE DEF P
<1>10. Cardinality(H) <= Cardinality(P) /\ (Cardinality(P) = Cardinality(H) => P = H)
  BY <1>8, <1>9, FS_Subset
<1>11. h = m /\ P = H
  BY <1>6, <1>8, <1>10
<1>12. CASE m = 0
  BY <1>1, <1>2, <1>3, <1>11, <1>12 DEF Lays, n
<1>13. CASE m # 0
  <2>1. PICK j \in H : n = j + LengthOf(w[j])
    BY <1>4, <1>7, <1>13
  <2>2. PICK i \in 1..h : j = pos[i]
    BY <1>2
  <2>3. j \in 1..n /\ w[j] = o[j]
    BY <1>2, <1>3
  <2>4. h \in 1..h /\ pos[h] \in P
    BY <1>11, <1>13 DEF P
  <2>5. pos[h] \in 1..n
    BY <1>2, <1>11, <2>4
  <2>6. i = h
    <3> SUFFICES ASSUME i < h PROVE FALSE
      OBVIOUS
    <3>1. pos[i] + LengthOf(o[pos[i]]) < pos[h]
      BY <1>5, <2>4
    <3> QED
      BY <1>2, <2>1, <2>2, <2>3, <2>5, <3>1
  <2>7. pos[h] + LengthOf(o[pos[h]]) = Len(o) + left
    BY <1>1, <2>4 DEF Lays
  <2>8. n = Len(o) + left
    BY <2>1, <2>2, <2>3, <2>6, <2>7
  <2> QED
    BY <1>2, <1>3, <1>11, <2>8 DEF n
<1> QED
  BY <1>12, <1>13
------------------------------------------------------------------------------
\* What is given to the socket or to sd, and what is still to be served.
Out == wire \o sd
Coming == (read \o unread) \o unsaid
K == Len(asked)

\* The last request has no reply yet.
Pending == wstat \in {"post", "send"} \/ HeadsOf(Coming) # {}
Replied == IF Pending THEN K - 1 ELSE K

\* What is still to be sent of the last reply.
Left == IF hpc = "text" THEN TextSz ELSE fileLeft

HttpTyped ==
  /\ asked \in Seq(Requests)
  /\ unsaid \in Seq(AskBytes) /\ unread \in Seq(AskBytes) /\ read \in Seq(AskBytes)
  /\ wstat \in Stages /\ cur \in 0..K /\ garbled \in BOOLEAN /\ tls \in Nat
  /\ fileLeft \in 0..FileSz
  /\ rd \in 0..3 /\ wr \in 0..1 /\ cl \in BOOLEAN
  /\ sd \in Seq(ReplyBytes) /\ wire \in Seq(ReplyBytes)
  /\ got \in 0..Len(wire) /\ Len(wire) - got <= KernelSz
  /\ hpc \in Turns /\ sendSt \in {-1, 1} /\ recvSt \in {-1, 1}

HttpTurned ==
  /\ hpc = "text" => wstat = "sendfile" /\ sd = <<>>
  /\ fileLeft # 0 => wstat = "sendfile" /\ hpc # "text"
  /\ Left # 0 => cur = K
  /\ wstat \in {"post", "send"} => cur = K /\ HeadsOf(Coming) = {}
  /\ Pending => K # 0 /\ sd = <<>> /\ got = Len(wire) /\ Left = 0

\* Before a body was refused, nothing comes but the last request.
HttpAsking ==
  /\ \A k \in HeadsOf(Coming) :
       /\ Coming[k][1] = K
       /\ \A l \in HeadsOf(Coming) : k = l
       /\ ~RefusedIn(asked, K - 1) => k = 1 /\ Len(Coming) = 1 + asked[K].body
  /\ ~Pending /\ ~RefusedIn(asked, K) => Len(Coming) = 0
  /\ wstat = "post" =>
       /\ tls <= asked[K].body /\ ~garbled
       /\ ~RefusedIn(asked, K - 1) => Len(Coming) = asked[K].body - tls
  /\ wstat = "send" /\ ~RefusedIn(asked, K - 1) =>
       ~garbled /\ asked[K].what # "big" /\ Len(Coming) = 0

HttpLaid == Layout(asked, Out, Replied, Left)

HttpInv == HttpTyped /\ HttpTurned /\ HttpAsking /\ HttpLaid
------------------------------------------------------------------------------
LEMMA LesserIs ==
  ASSUME NEW m \in Nat, NEW n \in Nat
  PROVE  /\ Lesser(m, n) \in 0..m /\ Lesser(m, n) <= n
         /\ m <= n => Lesser(m, n) = m
BY DEF Lesser

\* Sent in two parts, what was to be sent is still the same.
LEMMA InParts ==
  ASSUME NEW w \in Seq(ReplyBytes), NEW b \in Seq(ReplyBytes), NEW n \in 0..Len(b)
  PROVE  /\ w \o Take(b, n) \in Seq(ReplyBytes) /\ Drop(b, n) \in Seq(ReplyBytes)
         /\ Len(w \o Take(b, n)) = Len(w) + n /\ Len(Drop(b, n)) = Len(b) - n
         /\ (w \o Take(b, n)) \o Drop(b, n) = w \o b
<1> DEFINE t == Take(b, n)
           d == Drop(b, n)
<1>1. t \in Seq(ReplyBytes) /\ d \in Seq(ReplyBytes) /\ t \o d = b /\ Len(t) = n /\ Len(d) = Len(b) - n
  BY PartsIs DEF Take, Drop
<1> HIDE DEF t, d
<1>2. w \o t \in Seq(ReplyBytes) /\ Len(w \o t) = Len(w) + n
  BY <1>1, ConcatProperties
<1>3. Associates(w, t, d)
  BY <1>1, Association
<1>4. (w \o t) \o d = w \o b
  BY <1>1, <1>3, Zenon DEF Associates
<1> QED
  BY <1>1, <1>2, <1>4 DEF t, d

LEMMA JoinIs ==
  ASSUME NEW S, NEW o \in Seq(S), NEW b \in Seq(S)
  PROVE  /\ o \o b \in Seq(S) /\ Len(o \o b) = Len(o) + Len(b)
         /\ \A k \in 1..Len(o) : (o \o b)[k] = o[k]
         /\ \A k \in 1..Len(b) : (o \o b)[Len(o) + k] = b[k]
<1> DEFINE q == o \o b
<1>1. q \in Seq(S) /\ Len(q) = Len(o) + Len(b)
      /\ \A i \in 1..(Len(o) + Len(b)) : q[i] = IF i <= Len(o) THEN o[i] ELSE b[i - Len(o)]
  BY ConcatProperties
<1>2. Len(o) \in Nat /\ Len(b) \in Nat
  OBVIOUS
<1> HIDE DEF q
<1> QED
  BY <1>1, <1>2 DEF q

\* What storm_socket_send and sd take, when nothing waits in sd.
LEMMA GivesMore ==
  ASSUME wire \in Seq(ReplyBytes), sd = <<>>, NEW bytes \in Seq(ReplyBytes), Free \in Nat, Send(bytes)
  PROVE  /\ wire' \in Seq(ReplyBytes) /\ sd' \in Seq(ReplyBytes) /\ wr' = 0
         /\ Out' = Out \o bytes /\ Out \in Seq(ReplyBytes)
         /\ Len(wire) <= Len(wire') /\ Len(wire') - Len(wire) <= Free
         /\ Len(bytes) <= Free => sd' = <<>>
<1> DEFINE n == Lesser(Len(bytes), Free)
<1>1. n \in 0..Len(bytes) /\ n <= Free /\ (Len(bytes) <= Free => n = Len(bytes))
  <2>1. Len(bytes) \in Nat
    OBVIOUS
  <2> QED
    BY <2>1, LesserIs
<1>2. wire' = wire \o Take(bytes, n) /\ sd' = sd \o Drop(bytes, n) /\ wr' = 0
  BY DEF Send
<1> HIDE DEF n
<1>3. /\ wire \o Take(bytes, n) \in Seq(ReplyBytes) /\ Drop(bytes, n) \in Seq(ReplyBytes)
      /\ Len(wire \o Take(bytes, n)) = Len(wire) + n /\ Len(Drop(bytes, n)) = Len(bytes) - n
      /\ (wire \o Take(bytes, n)) \o Drop(bytes, n) = wire \o bytes
  BY <1>1, InParts
<1>4. sd' = Drop(bytes, n)
  BY <1>2, <1>3
<1>5. Out' = wire \o bytes
  BY <1>2, <1>3, <1>4, Zenon DEF Out
<1>6. Out = wire
  BY DEF Out
<1>7. Len(wire) \in Nat /\ Len(bytes) \in Nat
  OBVIOUS
<1>8. Len(bytes) <= Free => sd' = <<>>
  <2> SUFFICES ASSUME Len(bytes) <= Free PROVE sd' = <<>>
    OBVIOUS
  <2>1. sd' \in Seq(ReplyBytes) /\ Len(sd') = Len(bytes) - n
    BY <1>3, <1>4
  <2>2. Len(sd') = 0
    BY <1>1, <1>7, <2>1
  <2> QED
    BY <2>1, <2>2
<1>9. wire' \in Seq(ReplyBytes) /\ Len(wire') = Len(wire) + n
  BY <1>2, <1>3
<1>10. Len(wire) <= Len(wire') /\ Len(wire') - Len(wire) <= Free
  BY <1>1, <1>7, <1>9
<1> QED
  BY <1>2, <1>3, <1>4, <1>5, <1>6, <1>8, <1>9, <1>10
LEMMA ComingIs ==
  ASSUME HttpTyped
  PROVE  /\ Coming \in Seq(AskBytes) /\ Out \in Seq(ReplyBytes) /\ K \in Nat
         /\ HeadsOf(Coming) \subseteq 1..Len(Coming)
         /\ Part(wire, Out)
<1>1. Coming \in Seq(AskBytes)
  BY ConcatProperties DEF HttpTyped, Coming
<1>2. Out \in Seq(ReplyBytes)
  BY ConcatProperties DEF HttpTyped, Out
<1>3. K \in Nat
  BY DEF HttpTyped, K
<1>4. HeadsOf(Coming) \subseteq 1..Len(Coming)
  BY DEF HeadsOf
<1>5. Part(wire, Out)
  <2>1. wire \in Seq(ReplyBytes) /\ sd \in Seq(ReplyBytes)
    BY DEF HttpTyped
  <2>2. Len(wire \o sd) = Len(wire) + Len(sd) /\ \A k \in 1..Len(wire) : (wire \o sd)[k] = wire[k]
    BY <2>1, JoinIs
  <2>3. Len(wire) \in Nat /\ Len(sd) \in Nat
    BY <2>1
  <2>4. Len(wire) <= Len(wire \o sd)
    BY <2>2, <2>3
  <2> QED
    BY <2>2, <2>4 DEF Part, Out
<1> QED
  BY <1>1, <1>2, <1>3, <1>4, <1>5

\* A step that serves and sends nothing.
LEMMA RestsKeep ==
  ASSUME HttpTurned, HttpAsking, HttpLaid, asked' = asked, Coming' = Coming, Out' = Out,
         cur' = cur, garbled' = garbled, tls' = tls, fileLeft' = fileLeft,
         wstat \in {"post", "send"} \/ wstat' \in {"post", "send"} => wstat' = wstat,
         fileLeft # 0 \/ hpc = "text" => wstat' = wstat,
         hpc' = "text" <=> hpc = "text", hpc = "text" => sd' = sd,
         Pending => sd' = sd /\ got' = Len(wire')
  PROVE  HttpTurned' /\ HttpAsking' /\ HttpLaid'
<1>1. HeadsOf(Coming)' = HeadsOf(Coming)
  BY DEF HeadsOf
<1>2. K' = K /\ (Pending <=> Pending') /\ Left' = Left /\ Replied' = Replied
  BY <1>1 DEF K, Pending, Left, Replied
<1>3. HttpTurned'
  BY <1>1, <1>2 DEF HttpTurned
<1>4. HttpLaid'
  BY <1>2 DEF HttpLaid
<1>5. \A i : RefusedIn(asked, i)' <=> RefusedIn(asked, i)
  BY DEF RefusedIn
<1>6. HttpAsking'
  BY <1>1, <1>2 DEF HttpAsking
<1> QED
  BY <1>3, <1>4, <1>6
LEMMA ConstsAre ==
  /\ FileSz \in Nat /\ FileSz > 0 /\ TextSz \in Nat /\ TextSz > 0 /\ SendSz \in Nat /\ SendSz > 0
  /\ KernelSz \in Nat /\ KernelSz > 0
  /\ \A r \in Requests : r.what \in Whats /\ r.keep \in BOOLEAN /\ r.body \in Nat
                         /\ (r.what = "big" => r.body > 0)
BY HttpAssumption DEF Whats

LEMMA SayKeeps == HttpInv /\ Say => HttpInv'
<1> SUFFICES ASSUME HttpInv, Say PROVE HttpInv'
  OBVIOUS
<1>1. HttpTyped
  BY DEF HttpInv
<1>2. unsaid # <<>> /\ unread' = Append(unread, Head(unsaid)) /\ unsaid' = Tail(unsaid)
  BY DEF Say
<1>3. unsaid \in Seq(AskBytes) /\ unread \in Seq(AskBytes) /\ read \in Seq(AskBytes)
  BY <1>1 DEF HttpTyped
<1>4. HttpTyped'
  <2>1. unread' \in Seq(AskBytes) /\ unsaid' \in Seq(AskBytes)
    BY <1>2, <1>3
  <2> QED
    BY <1>1, <2>1 DEF HttpTyped, Say, stateVars, sockVars, passVars, K
<1>5. Coming' = Coming
  <2> DEFINE h == Head(unsaid)
             t == Tail(unsaid)
             b == <<h>>
  <2>1. h \in AskBytes /\ t \in Seq(AskBytes) /\ unsaid = <<h>> \o t
    BY <1>2, <1>3, HeadAndTail
  <2>2. unread' = unread \o b /\ unsaid' = t /\ read' = read /\ b \in Seq(AskBytes)
    BY <1>2, <1>3, <2>1 DEF Say
  <2>3. unsaid = b \o t
    BY <2>1
  <2> HIDE DEF h, t, b
  <2>4. Associates(read, unread, b)
    BY <1>3, <2>2, Association
  <2>5. read \o unread \in Seq(AskBytes)
    BY <1>3, ConcatProperties
  <2> DEFINE r == read \o unread
  <2>6. Associates(r, b, t)
    BY <2>1, <2>2, <2>5, Association
  <2>7. read \o (unread \o b) = r \o b
    BY <2>4, Zenon DEF Associates
  <2>8. (r \o b) \o t = r \o (b \o t)
    BY <2>6, Zenon DEF Associates
  <2> QED
    BY <2>2, <2>3, <2>7, <2>8, Zenon DEF Coming
<1>6. Out' = Out
  BY DEF Out, Say, sockVars
<1>7. HttpTurned' /\ HttpAsking' /\ HttpLaid'
  BY <1>5, <1>6, RestsKeep DEF HttpInv, Say, stateVars, sockVars, passVars, HttpTurned
<1> QED
  BY <1>4, <1>7 DEF HttpInv

LEMMA RecvKeeps == HttpInv /\ Recv => HttpInv'
<1> SUFFICES ASSUME HttpInv, Recv PROVE HttpInv'
  OBVIOUS
<1>1. HttpTyped
  BY DEF HttpInv
<1>3. unsaid \in Seq(AskBytes) /\ unread \in Seq(AskBytes) /\ read \in Seq(AskBytes)
  BY <1>1 DEF HttpTyped
<1>4. HttpTyped'
  <2>1. unread' \in Seq(AskBytes) /\ read' \in Seq(AskBytes)
    <3>1. read \o unread \in Seq(AskBytes) /\ <<>> \in Seq(AskBytes)
      BY <1>3, ConcatProperties
    <3>2. \/ read' = read \o unread /\ unread' = <<>>
          \/ read' = read /\ unread' = unread
      BY Zenon DEF Recv
    <3> QED
      BY <1>3, <3>1, <3>2
  <2>2. hpc' \in Turns
    BY DEF Recv, Goto, Turns
  <2> QED
    BY <1>1, <2>1, <2>2 DEF HttpTyped, Recv, stateVars, sockVars, askVars, K
<1>5. Coming' = Coming
  <2>1. read' \o unread' = read \o unread
    <3>1. CASE rd = 1
      <4>1. read' = read \o unread /\ unread' = <<>>
        BY <3>1 DEF Recv
      <4>2. read \o unread \in Seq(AskBytes)
        BY <1>3, ConcatProperties
      <4> QED
        BY <4>1, <4>2
    <3>2. CASE rd # 1
      BY <3>2 DEF Recv
    <3> QED
      BY <3>1, <3>2
  <2>2. unsaid' = unsaid
    BY DEF Recv, askVars
  <2> QED
    BY <2>1, <2>2, Zenon DEF Coming
<1>6. Out' = Out
  BY DEF Out, Recv, sockVars
<1>7. hpc = "recv" /\ hpc' = "serve"
  BY DEF Recv, Goto
<1>8. HttpTurned' /\ HttpAsking' /\ HttpLaid'
  BY <1>5, <1>6, <1>7, RestsKeep DEF HttpInv, Recv, stateVars, sockVars, askVars, HttpTurned
<1> QED
  BY <1>4, <1>8 DEF HttpInv

LEMMA PeerReadsKeeps == HttpInv /\ PeerReads => HttpInv'
<1> SUFFICES ASSUME HttpInv, PeerReads PROVE HttpInv'
  OBVIOUS
<1>1. HttpTyped /\ HttpTurned
  BY DEF HttpInv
<1>2. got \in 0..Len(wire) /\ got' = got + 1 /\ got < Len(wire) /\ Len(wire) - got <= KernelSz
      /\ wire' = wire /\ Len(wire) \in Nat
  BY <1>1 DEF PeerReads, HttpTyped
<1>3. got' \in 0..Len(wire') /\ Len(wire') - got' <= KernelSz
  BY <1>2, ConstsAre
<1>4. HttpTyped'
  BY <1>1, <1>3 DEF HttpTyped, PeerReads, stateVars, sockVars, askVars, passVars, K
<1>5. ~Pending
  BY <1>1, <1>2 DEF HttpTurned
<1>6. Coming' = Coming /\ Out' = Out
  BY DEF PeerReads, sockVars, askVars, Coming, Out
<1>7. HttpTurned' /\ HttpAsking' /\ HttpLaid'
  BY <1>5, <1>6, RestsKeep DEF HttpInv, PeerReads, stateVars, sockVars, askVars, passVars
<1> QED
  BY <1>4, <1>7 DEF HttpInv

LEMMA SendQueueKeeps == HttpInv /\ SendQueue => HttpInv'
<1> SUFFICES ASSUME HttpInv, SendQueue PROVE HttpInv'
  OBVIOUS
<1>1. HttpTyped /\ HttpTurned
  BY DEF HttpInv
<1> DEFINE n == Lesser(Len(sd), Free)
<1>2. /\ hpc = "send" /\ hpc' = "recv" /\ sd # <<>>
      /\ wire' = wire \o Take(sd, n) /\ sd' = Drop(sd, n)
      /\ wr' = 0 /\ sendSt' = 1
  BY DEF SendQueue, Goto
<1>3. Free \in Nat /\ Free = KernelSz - (Len(wire) - got) /\ Len(wire) \in Nat /\ got \in Nat
      /\ got <= Len(wire)
  BY <1>1, ConstsAre DEF HttpTyped, Free
<1>4. n \in 0..Len(sd) /\ n <= Free
  <2>1. Len(sd) \in Nat
    BY <1>1 DEF HttpTyped
  <2> QED
    BY <1>3, <2>1, LesserIs
<1> HIDE DEF n
<1>5. wire' \in Seq(ReplyBytes) /\ sd' \in Seq(ReplyBytes) /\ Len(wire') = Len(wire) + n
      /\ wire' \o sd' = wire \o sd
  BY <1>1, <1>2, <1>4, InParts DEF HttpTyped
<1>6. got' = got /\ got' \in 0..Len(wire') /\ Len(wire') - got' <= KernelSz
  <2>1. got' = got
    BY DEF SendQueue
  <2> QED
    BY <1>3, <1>4, <1>5, <2>1, ConstsAre
<1>7. HttpTyped'
  BY <1>1, <1>2, <1>5, <1>6 DEF HttpTyped, SendQueue, stateVars, askVars, K, Turns
<1>8. ~Pending
  BY <1>1, <1>2 DEF HttpTurned
<1>9. Out' = Out
  BY <1>5, Zenon DEF Out
<1>10. Coming' = Coming
  BY DEF SendQueue, askVars, Coming
<1>11. HttpTurned' /\ HttpAsking' /\ HttpLaid'
  BY <1>2, <1>8, <1>9, <1>10, RestsKeep DEF HttpInv, SendQueue, stateVars, askVars
<1> QED
  BY <1>7, <1>11 DEF HttpInv

\* The other steps that only go on.
GoesOn ==
  \/ (\E in, out \in BOOLEAN : Event(in, out)) \/ SendSkipped \/ SendNothing \/ SendDone
  \/ RecvSkipped \/ EndPass \/ WaitHead \/ Sending \/ Alive \/ Close

LEMMA GoesOnIs ==
  ASSUME HttpTyped, HttpTurned, GoesOn
  PROVE  /\ UNCHANGED <<asked, unsaid, unread, read, cur, garbled, tls, fileLeft, sd, wire, got>>
         /\ wstat' = wstat \/ (wstat' \in {"head", "close"} /\ wstat \in {"sendfile", "alive"} /\ fileLeft = 0)
         /\ wstat' \in Stages /\ rd' \in 0..3 /\ wr' \in 0..1 /\ cl' \in BOOLEAN
         /\ sendSt' \in {-1, 1} /\ recvSt' \in {-1, 1} /\ hpc' \in Turns
         /\ hpc # "text" /\ hpc' # "text"
<1> USE DEF askVars, stateVars, sockVars, passVars
<1>0. rd \in 0..3 /\ wr \in 0..1 /\ cl \in BOOLEAN /\ sendSt \in {-1, 1} /\ recvSt \in {-1, 1}
      /\ wstat \in Stages /\ 0 \in 0..3 /\ 1 \in 0..3 /\ 3 \in 0..3 /\ 1 \in 0..1
  BY DEF HttpTyped
<1>1. ASSUME NEW in \in BOOLEAN, NEW out \in BOOLEAN, Event(in, out)
      PROVE  /\ UNCHANGED <<askVars, unread, read, stateVars, cl, sd, wire, got, sendSt, recvSt>>
             /\ hpc = "idle" /\ hpc' = "send" /\ rd' \in 0..3 /\ wr' \in 0..1
  BY <1>0, <1>1 DEF Event, Goto
<1>2. CASE \E in, out \in BOOLEAN : Event(in, out)
  BY <1>0, <1>1, <1>2 DEF Turns
<1>3. CASE SendSkipped
  BY <1>0, <1>3 DEF SendSkipped, Goto, Turns
<1>4. CASE SendNothing
  BY <1>0, <1>4 DEF SendNothing, Goto, Turns
<1>5. CASE SendDone
  BY <1>0, <1>5 DEF SendDone, Goto, Turns, ERead, Stages
<1>6. CASE RecvSkipped
  BY <1>0, <1>6 DEF RecvSkipped, Goto, Turns
<1>7. CASE EndPass
  BY <1>0, <1>7 DEF EndPass, Goto, Turns
<1>8. CASE WaitHead
  BY <1>0, <1>8 DEF WaitHead, Served, Serving, Goto, Turns
<1>9. CASE Sending
  BY <1>0, <1>9 DEF Sending, Served, Serving, Goto, Turns
<1>10. CASE Alive
  BY <1>0, <1>10 DEF Alive, AliveNext, Serving, Turns, Stages, HttpTurned, HttpTyped
<1>11. CASE Close
  BY <1>0, <1>11 DEF Close, Served, Serving, Goto, Turns
<1> QED
  BY <1>2, <1>3, <1>4, <1>5, <1>6, <1>7, <1>8, <1>9, <1>10, <1>11 DEF GoesOn

LEMMA GoesOnKeeps == HttpInv /\ GoesOn => HttpInv'
<1> SUFFICES ASSUME HttpInv, GoesOn PROVE HttpInv'
  OBVIOUS
<1>1. HttpTyped /\ HttpTurned
  BY DEF HttpInv
<1>2. /\ UNCHANGED <<asked, unsaid, unread, read, cur, garbled, tls, fileLeft, sd, wire, got>>
      /\ wstat' = wstat \/ (wstat' \in {"head", "close"} /\ wstat \in {"sendfile", "alive"} /\ fileLeft = 0)
      /\ wstat' \in Stages /\ rd' \in 0..3 /\ wr' \in 0..1 /\ cl' \in BOOLEAN
      /\ sendSt' \in {-1, 1} /\ recvSt' \in {-1, 1} /\ hpc' \in Turns
      /\ hpc # "text" /\ hpc' # "text"
  BY <1>1, GoesOnIs
<1>3. HttpTyped'
  BY <1>1, <1>2 DEF HttpTyped, K
<1>4. Coming' = Coming /\ Out' = Out
  BY <1>2 DEF Coming, Out
<1>5. Pending => sd' = sd /\ got' = Len(wire')
  BY <1>1, <1>2 DEF HttpTurned
<1>6. HttpTurned' /\ HttpAsking' /\ HttpLaid'
  BY <1>2, <1>4, <1>5, RestsKeep DEF HttpInv
<1> QED
  BY <1>3, <1>6 DEF HttpInv
------------------------------------------------------------------------------
LEMMA FreeIs ==
  ASSUME HttpTyped
  PROVE  /\ Free \in Nat /\ Len(wire) \in Nat
         /\ got = Len(wire) => Free > 0
BY ConstsAre DEF HttpTyped, Free

\* What is given while nothing waits in sd.
LEMMA GivenIs ==
  ASSUME HttpTyped, sd = <<>>, NEW bytes \in Seq(ReplyBytes), Send(bytes), got' = got
  PROVE  /\ wire' \in Seq(ReplyBytes) /\ sd' \in Seq(ReplyBytes) /\ wr' = 0
         /\ got' \in 0..Len(wire') /\ Len(wire') - got' <= KernelSz
         /\ Len(bytes) <= Free => sd' = <<>>
         /\ Out \in Seq(ReplyBytes) /\ Out' \in Seq(ReplyBytes) /\ Len(Out') = Len(Out) + Len(bytes)
         /\ \A k \in 1..Len(Out) : Out'[k] = Out[k]
         /\ \A k \in 1..Len(bytes) : Out'[Len(Out) + k] = bytes[k]
<1>1. wire \in Seq(ReplyBytes) /\ got \in 0..Len(wire) /\ Len(wire) - got <= KernelSz
  BY DEF HttpTyped
<1>2. Free \in Nat /\ Free = KernelSz - (Len(wire) - got) /\ Len(wire) \in Nat
  BY FreeIs DEF Free
<1>3. /\ wire' \in Seq(ReplyBytes) /\ sd' \in Seq(ReplyBytes) /\ wr' = 0
      /\ Out' = Out \o bytes /\ Out \in Seq(ReplyBytes)
      /\ Len(wire) <= Len(wire') /\ Len(wire') - Len(wire) <= Free
      /\ Len(bytes) <= Free => sd' = <<>>
  BY <1>1, <1>2, GivesMore
<1>4. /\ Out \o bytes \in Seq(ReplyBytes) /\ Len(Out \o bytes) = Len(Out) + Len(bytes)
      /\ \A k \in 1..Len(Out) : (Out \o bytes)[k] = Out[k]
      /\ \A k \in 1..Len(bytes) : (Out \o bytes)[Len(Out) + k] = bytes[k]
  BY <1>3, JoinIs
<1>5. got' \in 0..Len(wire') /\ Len(wire') - got' <= KernelSz
  <2>1. Len(wire') \in Nat /\ Len(wire) <= Len(wire') /\ Len(wire') - Len(wire) <= Free
    BY <1>3
  <2> QED
    BY <1>1, <1>2, <2>1, ConstsAre
<1> QED
  BY <1>3, <1>4, <1>5

\* Bytes of the last reply.
LEMMA BytesGiven ==
  ASSUME HttpTyped, HttpLaid, ~Pending, sd = <<>>, cur = K, Left # 0, Left \in Nat,
         NEW n \in 0..Left, Send([i \in 1..n |-> <<cur, "byte">>]), got' = got
  PROVE  /\ wire' \in Seq(ReplyBytes) /\ sd' \in Seq(ReplyBytes) /\ wr' = 0
         /\ got' \in 0..Len(wire') /\ Len(wire') - got' <= KernelSz
         /\ Layout(asked, Out', K, Left - n)
<1> DEFINE b == <<cur, "byte">>
           bytes == [i \in 1..n |-> b]
<1>1. K \in Nat
  BY ComingIs
<1>2. b \in ReplyBytes /\ ~IsHead(b) /\ AnswerTo(b) = K
  <2>1. b \in BodyBytes
    BY <1>1 DEF BodyBytes
  <2>2. b[1] = K /\ b[2] = "byte"
    OBVIOUS
  <2> QED
    BY <2>1, <2>2 DEF ReplyBytes, IsHead, AnswerTo
<1> HIDE DEF b
<1>3. n \in Nat
  OBVIOUS
<1>4. bytes \in Seq(ReplyBytes) /\ Len(bytes) = n /\ \A i \in 1..n : bytes[i] = b
  BY <1>2, <1>3
<1>5. Send(bytes)
  BY DEF b
<1> HIDE DEF bytes
<1>6. /\ wire' \in Seq(ReplyBytes) /\ sd' \in Seq(ReplyBytes) /\ wr' = 0
      /\ got' \in 0..Len(wire') /\ Len(wire') - got' <= KernelSz
      /\ Out \in Seq(ReplyBytes) /\ Out' \in Seq(ReplyBytes) /\ Len(Out') = Len(Out) + n
      /\ \A k \in 1..Len(Out) : Out'[k] = Out[k]
      /\ \A k \in 1..n : Out'[Len(Out) + k] = b
  BY <1>4, <1>5, GivenIs
<1>7. Layout(asked, Out, K, Left)
  BY DEF HttpLaid, Replied
<1> DEFINE q == Out'
           o == Out
           left == Left
<1>8. \A k \in (Len(o) + 1)..Len(q) : ~IsHead(q[k]) /\ AnswerTo(q[k]) = K
  <2> SUFFICES ASSUME NEW k \in (Len(o) + 1)..Len(q) PROVE q[k] = b
    BY <1>2
  <2>1. Len(o) \in Nat /\ Len(q) = Len(o) + n
    BY <1>6
  <2> HIDE DEF q, o
  <2>2. k - Len(o) \in 1..n /\ k = Len(o) + (k - Len(o))
    BY <1>3, <2>1
  <2> QED
    BY <1>6, <2>2 DEF q, o
<1>9. K > 0
  <2>1. K # 0
    BY <1>7, Zenon DEF Layout, Lays
  <2> QED
    BY <1>1, <2>1
<1>10. o \in Seq(ReplyBytes) /\ q \in Seq(ReplyBytes) /\ Len(q) = Len(o) + n
       /\ (\A k \in 1..Len(o) : q[k] = o[k]) /\ Layout(asked, o, K, left) /\ left \in Nat /\ n \in 0..left
  BY <1>6, <1>7
<1> HIDE DEF q, o, left
<1>11. Layout(asked, q, K, left - n)
  BY <1>1, <1>8, <1>9, <1>10, LaysBytes
<1> QED
  BY <1>6, <1>11 DEF q, left

\* The head of the reply to the last request.
LEMMA ReplyGiven ==
  ASSUME HttpTyped, HttpLaid, HttpTurned, Pending, cur = K,
         NEW what \in Whats \cup {"404"}, NEW len \in Nat, Reply(what, len), got' = got,
         ~RefusedIn(asked, K - 1) => what = asked[K].what
  PROVE  /\ wire' \in Seq(ReplyBytes) /\ sd' = <<>> /\ wr' = 0
         /\ got' \in 0..Len(wire') /\ Len(wire') - got' <= KernelSz
         /\ Layout(asked, Out', K, len)
<1> DEFINE t == <<cur, "head", what, len>>
           bytes == <<t>>
           h == K - 1
<1>1. K \in Nat
  BY ComingIs
<1>2. t \in ReplyBytes /\ IsHead(t) /\ AnswerTo(t) = K /\ WhatOf(t) = what /\ LengthOf(t) = len
  <2>1. t \in HeadBytes
    BY <1>1 DEF HeadBytes
  <2>2. t[1] = K /\ t[2] = "head" /\ t[3] = what /\ t[4] = len
    OBVIOUS
  <2> QED
    BY <2>1, <2>2 DEF ReplyBytes, IsHead, AnswerTo, WhatOf, LengthOf
<1>3. Send(bytes)
  BY DEF Reply
<1> HIDE DEF t
<1>4. bytes \in Seq(ReplyBytes) /\ Len(bytes) = 1 /\ bytes[1] = t
  BY <1>2
<1> HIDE DEF bytes
<1>5. sd = <<>> /\ got = Len(wire) /\ Left = 0 /\ K # 0
  BY DEF HttpTurned
<1>6. Free > 0 /\ Free \in Nat
  BY <1>5, FreeIs
<1>7. /\ wire' \in Seq(ReplyBytes) /\ sd' = <<>> /\ wr' = 0
      /\ got' \in 0..Len(wire') /\ Len(wire') - got' <= KernelSz
      /\ Out \in Seq(ReplyBytes) /\ Out' \in Seq(ReplyBytes) /\ Len(Out') = Len(Out) + 1
      /\ \A k \in 1..Len(Out) : Out'[k] = Out[k]
      /\ Out'[Len(Out) + 1] = t
  <2>1. Len(bytes) <= Free /\ 1 \in 1..Len(bytes)
    BY <1>4, <1>6
  <2> QED
    BY <1>3, <1>4, <1>5, <2>1, GivenIs
<1>8. h \in Nat /\ h + 1 = K
  BY <1>1, <1>5
<1>9. Layout(asked, Out, h, 0)
  BY <1>5 DEF HttpLaid, Replied
<1> DEFINE q == Out'
           o == Out
<1>10. o \in Seq(ReplyBytes) /\ q \in Seq(ReplyBytes) /\ Len(q) = Len(o) + 1 /\ q[Len(o) + 1] = t
       /\ (\A k \in 1..Len(o) : q[k] = o[k]) /\ Layout(asked, o, h, 0)
  BY <1>7, <1>9
<1>11. LengthOf(t) \in Nat /\ AnswerTo(t) = h + 1
       /\ (~RefusedIn(asked, h) => WhatOf(t) = asked[h + 1].what)
  BY <1>2, <1>8
<1> HIDE DEF q, o, h
<1>12. Layout(asked, q, h + 1, LengthOf(t))
  BY <1>2, <1>8, <1>10, <1>11, LaysHead
<1> QED
  BY <1>2, <1>7, <1>8, <1>12 DEF q
LEMMA SendFileKeeps == HttpInv /\ SendFile => HttpInv'
<1> SUFFICES ASSUME HttpInv, SendFile PROVE HttpInv'
  OBVIOUS
<1>1. HttpTyped /\ HttpTurned /\ HttpAsking /\ HttpLaid
  BY DEF HttpInv
<1> DEFINE n == FilePart
<1>2. /\ hpc = "send" /\ hpc' = "recv" /\ sd = <<>> /\ wstat = "sendfile" /\ fileLeft > 0
      /\ fileLeft' = fileLeft - n /\ sendSt' = 1 /\ got' = got
      /\ Send([i \in 1..n |-> <<cur, "byte">>])
      /\ UNCHANGED <<askVars, unread, read, cur, garbled, tls, cl, recvSt>>
  BY DEF SendFile, Goto
<1>3. \/ fileLeft' = 0 /\ wstat' = "alive" /\ rd' = 3
      \/ fileLeft' # 0 /\ wstat' = wstat /\ rd' = rd
  BY DEF SendFile, ERead
<1>4. fileLeft \in Nat /\ fileLeft \in 0..FileSz /\ n \in 0..fileLeft
  <2>1. fileLeft \in Nat /\ fileLeft \in 0..FileSz
    BY <1>1, ConstsAre DEF HttpTyped
  <2>2. n \in 0..SendSz /\ n <= fileLeft
    BY <2>1, ConstsAre, LesserIs DEF FilePart
  <2>3. n \in 0..fileLeft
    BY <2>1, <2>2, ConstsAre
  <2> QED
    BY <2>1, <2>3
<1> HIDE DEF n
<1>5. Left = fileLeft /\ Left # 0 /\ Left \in Nat /\ n \in 0..Left
  BY <1>2, <1>4 DEF Left
<1>6. cur = K /\ ~Pending
  BY <1>1, <1>5 DEF HttpTurned
<1>7. /\ wire' \in Seq(ReplyBytes) /\ sd' \in Seq(ReplyBytes) /\ wr' = 0
      /\ got' \in 0..Len(wire') /\ Len(wire') - got' <= KernelSz
      /\ Layout(asked, Out', K, Left - n)
  BY <1>1, <1>2, <1>5, <1>6, BytesGiven
<1>8. asked' = asked /\ K' = K /\ Coming' = Coming /\ HeadsOf(Coming)' = HeadsOf(Coming)
  BY <1>2 DEF askVars, K, Coming, HeadsOf
<1>9. ~Pending' /\ Replied' = K' /\ wstat' \notin {"post", "send"}
  BY <1>2, <1>3, <1>6, <1>8 DEF Pending, Replied
<1>10. Left' = fileLeft' /\ fileLeft' = Left - n /\ fileLeft' \in 0..FileSz
  <2>1. fileLeft' \in 0..FileSz
    BY <1>2, <1>4, ConstsAre
  <2> QED
    BY <1>2, <1>5, <2>1 DEF Left
<1>11. HttpTyped'
  <2>1. wstat' \in Stages /\ rd' \in 0..3 /\ wr' \in 0..1 /\ hpc' \in Turns
    BY <1>1, <1>2, <1>3, <1>7, SMTT(30) DEF HttpTyped, Stages, Turns
  <2> QED
    BY <1>1, <1>2, <1>7, <1>8, <1>10, <2>1 DEF HttpTyped, askVars
<1>12. HttpTurned'
  BY <1>2, <1>3, <1>6, <1>8, <1>9 DEF HttpTurned
<1>13. HttpAsking'
  <2>1. RefusedIn(asked, K)' <=> RefusedIn(asked, K)
    BY <1>8 DEF RefusedIn
  <2>2. RefusedIn(asked, K - 1)' <=> RefusedIn(asked, K - 1)
    BY <1>8 DEF RefusedIn
  <2> QED
    BY <1>1, <1>6, <1>8, <1>9, <2>1, <2>2 DEF HttpAsking
<1>14. HttpLaid'
  BY <1>7, <1>8, <1>9, <1>10 DEF HttpLaid
<1> QED
  BY <1>11, <1>12, <1>13, <1>14 DEF HttpInv

LEMMA SendTextKeeps == HttpInv /\ SendText => HttpInv'
<1> SUFFICES ASSUME HttpInv, SendText PROVE HttpInv'
  OBVIOUS
<1>1. HttpTyped /\ HttpTurned /\ HttpAsking /\ HttpLaid
  BY DEF HttpInv
<1>2. /\ hpc = "text" /\ hpc' = "serve" /\ sd = <<>> /\ wstat = "sendfile" /\ got' = got
      /\ Send([i \in 1..TextSz |-> <<cur, "byte">>])
      /\ UNCHANGED <<askVars, unread, read, wstat, cur, garbled, tls, fileLeft, rd, cl, sendSt, recvSt>>
  BY <1>1 DEF SendText, Goto, HttpTurned, stateVars
<1>3. fileLeft = 0
  BY <1>1, <1>2 DEF HttpTurned
<1>5. Left = TextSz /\ Left # 0 /\ Left \in Nat /\ TextSz \in 0..Left
  BY <1>2, ConstsAre DEF Left
<1>6. cur = K /\ ~Pending
  BY <1>1, <1>5 DEF HttpTurned
<1>7. /\ wire' \in Seq(ReplyBytes) /\ sd' \in Seq(ReplyBytes) /\ wr' = 0
      /\ got' \in 0..Len(wire') /\ Len(wire') - got' <= KernelSz
      /\ Layout(asked, Out', K, Left - TextSz)
  BY <1>1, <1>2, <1>5, <1>6, BytesGiven
<1>8. asked' = asked /\ K' = K /\ Coming' = Coming /\ HeadsOf(Coming)' = HeadsOf(Coming)
  BY <1>2 DEF askVars, K, Coming, HeadsOf
<1>9. ~Pending' /\ Replied' = K'
  BY <1>2, <1>6, <1>8 DEF Pending, Replied
<1>10. Left' = 0 /\ Left - TextSz = 0
  BY <1>2, <1>3, <1>5 DEF Left
<1>11. HttpTyped'
  <2>1. wr' \in 0..1 /\ hpc' \in Turns
    BY <1>2, <1>7 DEF Turns
  <2> QED
    BY <1>1, <1>2, <1>7, <1>8, <2>1 DEF HttpTyped, askVars
<1>12. HttpTurned'
  BY <1>2, <1>3, <1>6, <1>8, <1>9, <1>10 DEF HttpTurned
<1>13. HttpAsking'
  <2>1. RefusedIn(asked, K)' <=> RefusedIn(asked, K)
    BY <1>8 DEF RefusedIn
  <2>2. RefusedIn(asked, K - 1)' <=> RefusedIn(asked, K - 1)
    BY <1>8 DEF RefusedIn
  <2> QED
    BY <1>1, <1>2, <1>6, <1>8, <1>9, <2>1, <2>2 DEF HttpAsking
<1>14. HttpLaid'
  BY <1>7, <1>8, <1>9, <1>10 DEF HttpLaid
<1> QED
  BY <1>11, <1>12, <1>13, <1>14 DEF HttpInv

\* The head of a reply is given, and its body is as long as what is left then.
LEMMA ReplyKeeps ==
  ASSUME HttpInv, Pending, cur = K, wstat \in {"post", "send"}, hpc = "serve",
         NEW what \in Whats \cup {"404"}, NEW len \in Nat, Reply(what, len),
         ~RefusedIn(asked, K - 1) => what = asked[K].what,
         RefusedIn(asked, K) \/ Len(Coming) = 0,
         wstat' \in {"sendfile", "alive"}, fileLeft' \in 0..FileSz, hpc' \in {"serve", "text"},
         Left' = len, fileLeft' # 0 \/ hpc' = "text" => wstat' = "sendfile", hpc' = "text" => fileLeft' = 0,
         UNCHANGED <<askVars, unread, read, cur, garbled, tls, rd, cl, got, sendSt, recvSt>>
  PROVE  HttpInv'
<1>1. HttpTyped /\ HttpTurned /\ HttpAsking /\ HttpLaid
  BY DEF HttpInv
<1>2. got' = got
  OBVIOUS
<1>3. /\ wire' \in Seq(ReplyBytes) /\ sd' = <<>> /\ wr' = 0
      /\ got' \in 0..Len(wire') /\ Len(wire') - got' <= KernelSz
      /\ Layout(asked, Out', K, len)
  BY <1>1, <1>2, ReplyGiven
<1>4. asked' = asked /\ K' = K /\ Coming' = Coming /\ HeadsOf(Coming)' = HeadsOf(Coming)
  BY DEF askVars, K, Coming, HeadsOf
<1>5. HeadsOf(Coming) = {}
  BY <1>1 DEF HttpTurned
<1>6. ~Pending' /\ Replied' = K' /\ wstat' \notin {"post", "send"}
  BY <1>4, <1>5 DEF Pending, Replied
<1>7. HttpTyped'
  <2>1. wr' \in 0..1 /\ hpc' \in Turns /\ wstat' \in Stages
    BY <1>3 DEF Turns, Stages
  <2>2. sd' \in Seq(ReplyBytes)
    BY <1>3
  <2> QED
    BY <1>1, <1>3, <1>4, <2>1, <2>2 DEF HttpTyped, askVars
<1>8. HttpTurned'
  BY <1>3, <1>4, <1>6 DEF HttpTurned
<1>9. HttpAsking'
  <2>1. RefusedIn(asked, K)' <=> RefusedIn(asked, K)
    BY <1>4 DEF RefusedIn
  <2> QED
    BY <1>4, <1>5, <1>6, <2>1 DEF HttpAsking
<1>10. HttpLaid'
  BY <1>3, <1>4, <1>6 DEF HttpLaid
<1> QED
  BY <1>7, <1>8, <1>9, <1>10 DEF HttpInv

LEMMA RefusedGrows ==
  ASSUME NEW a, NEW k \in Nat, k # 0
  PROVE  /\ RefusedIn(a, k) <=> (RefusedIn(a, k - 1) \/ a[k].what = "big")
<1>1. \A j \in 1..k : j \in 1..(k - 1) \/ j = k
  OBVIOUS
<1>2. 1..(k - 1) \subseteq 1..k /\ k \in 1..k
  OBVIOUS
<1> QED
  BY <1>1, <1>2 DEF RefusedIn

LEMMA RefusePostKeeps == HttpInv /\ RefusePost => HttpInv'
<1> SUFFICES ASSUME HttpInv, RefusePost PROVE HttpInv'
  OBVIOUS
<1>1. HttpTyped /\ HttpTurned /\ HttpAsking /\ HttpLaid
  BY DEF HttpInv
<1>2. /\ hpc = "serve" /\ wstat = "post" /\ asked[cur].what = "big"
      /\ Reply("big", 0) /\ wstat' = "alive"
      /\ UNCHANGED <<askVars, unread, read, cur, garbled, tls, fileLeft, rd, cl, got, hpc, sendSt, recvSt>>
  BY DEF RefusePost, Serving, passVars
<1>3. Pending /\ cur = K /\ K # 0 /\ fileLeft = 0
  BY <1>1, <1>2 DEF Pending, HttpTurned
<1>4. RefusedIn(asked, K)
  BY <1>2, <1>3, RefusedGrows, ComingIs, <1>1
<1>5. Left' = 0
  BY <1>2, <1>3 DEF Left
<1>6. "big" \in Whats \cup {"404"} /\ 0 \in Nat /\ fileLeft' \in 0..FileSz
  BY <1>2, <1>3, ConstsAre DEF Whats
<1> QED
  BY <1>2, <1>3, <1>4, <1>5, <1>6, ReplyKeeps

LEMMA AnswerFileKeeps == HttpInv /\ AnswerFile => HttpInv'
<1> SUFFICES ASSUME HttpInv, AnswerFile PROVE HttpInv'
  OBVIOUS
<1>1. HttpTyped /\ HttpTurned /\ HttpAsking /\ HttpLaid
  BY DEF HttpInv
<1>2. /\ hpc = "serve" /\ wstat = "send" /\ asked[cur].what \in {"file", "empty"}
      /\ fileLeft' = (IF asked[cur].what = "file" THEN FileSz ELSE fileLeft)
      /\ Reply(asked[cur].what, fileLeft') /\ wstat' = "sendfile"
      /\ UNCHANGED <<askVars, unread, read, cur, garbled, tls, rd, cl, got, hpc, sendSt, recvSt>>
  BY DEF AnswerFile, Serving, passVars
<1>3. Pending /\ cur = K /\ K # 0 /\ fileLeft = 0
  BY <1>1, <1>2 DEF Pending, HttpTurned
<1> DEFINE what == asked[cur].what
           len == fileLeft'
<1>4. what \in Whats \cup {"404"}
  BY <1>2 DEF Whats
<1>5. len \in Nat /\ fileLeft' \in 0..FileSz /\ Left' = len
  BY <1>2, <1>3, ConstsAre DEF Left
<1>6. ~RefusedIn(asked, K - 1) => what = asked[K].what
  BY <1>3
<1>7. RefusedIn(asked, K) \/ Len(Coming) = 0
  BY <1>1, <1>2, <1>3, RefusedGrows, ComingIs DEF HttpAsking
<1>8. Reply(what, len)
  BY <1>2
<1> HIDE DEF what, len
<1> QED
  BY <1>2, <1>3, <1>4, <1>5, <1>6, <1>7, <1>8, ReplyKeeps

LEMMA AnswerTextKeeps == HttpInv /\ AnswerText => HttpInv'
<1> SUFFICES ASSUME HttpInv, AnswerText PROVE HttpInv'
  OBVIOUS
<1>1. HttpTyped /\ HttpTurned /\ HttpAsking /\ HttpLaid
  BY DEF HttpInv
<1> DEFINE what == IF garbled THEN "404" ELSE "text"
<1>2. /\ hpc = "serve" /\ wstat = "send" /\ (garbled \/ asked[cur].what \in {"text", "big"})
      /\ Reply(what, TextSz) /\ wstat' = "sendfile" /\ hpc' = "text"
      /\ UNCHANGED <<askVars, unread, read, cur, garbled, tls, fileLeft, rd, cl, got, sendSt, recvSt>>
  BY DEF AnswerText, Serving, Goto
<1>3. Pending /\ cur = K /\ K # 0 /\ fileLeft = 0
  BY <1>1, <1>2 DEF Pending, HttpTurned
<1>4. what \in Whats \cup {"404"}
  BY DEF Whats
<1>5. TextSz \in Nat /\ fileLeft' = 0 /\ fileLeft' \in 0..FileSz /\ Left' = TextSz
  BY <1>2, <1>3, ConstsAre DEF Left
<1>6. ~RefusedIn(asked, K - 1) => what = asked[K].what
  BY <1>1, <1>2, <1>3 DEF HttpAsking
<1>7. RefusedIn(asked, K) \/ Len(Coming) = 0
  BY <1>1, <1>2, <1>3, RefusedGrows, ComingIs DEF HttpAsking
<1> HIDE DEF what
<1> QED
  BY <1>2, <1>3, <1>4, <1>5, <1>6, <1>7, ReplyKeeps
------------------------------------------------------------------------------
\* The first n bytes of what came are taken.
LEMMA TakenIs ==
  ASSUME HttpTyped, NEW n \in 0..Len(read), read' = Drop(read, n), unread' = unread, unsaid' = unsaid
  PROVE  /\ read' \in Seq(AskBytes) /\ Coming' \in Seq(AskBytes)
         /\ Len(Coming) \in Nat /\ Len(Coming') = Len(Coming) - n
         /\ \A k \in 1..Len(Coming') : n + k \in 1..Len(Coming) /\ Coming'[k] = Coming[n + k]
         /\ \A k \in 1..Len(read) : k \in 1..Len(Coming) /\ Coming[k] = read[k]
<1>1. read \in Seq(AskBytes) /\ unread \in Seq(AskBytes) /\ unsaid \in Seq(AskBytes)
  BY DEF HttpTyped
<1> DEFINE d == Drop(read, n)
           r == unread \o unsaid
<1>2. d \in Seq(AskBytes) /\ Len(d) = Len(read) - n /\ \A i \in 1..(Len(read) - n) : d[i] = read[n + i]
  BY <1>1, LaterPart DEF Drop
<1>3. r \in Seq(AskBytes)
  BY <1>1, ConcatProperties
<1>4. read' = d /\ unread' = unread /\ unsaid' = unsaid
  OBVIOUS
<1> HIDE DEF d
<1>5. Associates(read, unread, unsaid) /\ Associates(d, unread, unsaid)
  BY <1>1, <1>2, Association
<1>6. Coming = read \o r /\ Coming' = d \o r
  BY <1>4, <1>5, Zenon DEF Associates, Coming
<1> HIDE DEF r
<1>7. /\ Len(read \o r) = Len(read) + Len(r)
      /\ \A k \in 1..Len(read) : (read \o r)[k] = read[k]
      /\ \A k \in 1..Len(r) : (read \o r)[Len(read) + k] = r[k]
  BY <1>1, <1>3, JoinIs
<1>8. /\ d \o r \in Seq(AskBytes) /\ Len(d \o r) = Len(d) + Len(r)
      /\ \A k \in 1..Len(d) : (d \o r)[k] = d[k]
      /\ \A k \in 1..Len(r) : (d \o r)[Len(d) + k] = r[k]
  <2>1. d \in Seq(AskBytes)
    BY <1>2
  <2> QED
    BY <1>3, <2>1, JoinIs
<1> DEFINE p == read \o r
           q == d \o r
<1>9. Len(read) \in Nat /\ Len(r) \in Nat /\ n \in Nat /\ n <= Len(read)
  BY <1>1, <1>3
<1>10. /\ Len(p) = Len(read) + Len(r) /\ (\A k \in 1..Len(read) : p[k] = read[k])
       /\ \A k \in 1..Len(r) : p[Len(read) + k] = r[k]
       /\ Len(q) = Len(d) + Len(r) /\ (\A k \in 1..Len(d) : q[k] = d[k])
       /\ \A k \in 1..Len(r) : q[Len(d) + k] = r[k]
  BY <1>7, <1>8
<1>11. Coming = p /\ Coming' = q /\ q \in Seq(AskBytes) /\ read' \in Seq(AskBytes)
  BY <1>2, <1>4, <1>6, <1>8
<1> HIDE DEF p, q
<1>12. Len(p) \in Nat /\ Len(q) = Len(p) - n
  BY <1>2, <1>9, <1>10
<1>13. ASSUME NEW k \in 1..Len(q) PROVE n + k \in 1..Len(p) /\ q[k] = p[n + k]
  <2>1. n + k \in 1..Len(p)
    BY <1>9, <1>12
  <2>2. CASE k \in 1..Len(d)
    <3>1. n + k \in 1..Len(read) /\ k \in 1..(Len(read) - n)
      BY <1>2, <1>9, <2>2
    <3> QED
      BY <1>2, <1>10, <2>1, <2>2, <3>1
  <2>3. CASE k \notin 1..Len(d)
    <3> DEFINE m == k - Len(d)
    <3>1. m \in 1..Len(r) /\ k = Len(d) + m /\ n + k = Len(read) + m
      BY <1>2, <1>9, <1>10, <2>3
    <3> HIDE DEF m
    <3> QED
      BY <1>10, <2>1, <3>1
  <2> QED
    BY <2>2, <2>3
<1>14. \A k \in 1..Len(read) : k \in 1..Len(p)
  BY <1>9, <1>10
<1> QED
  BY <1>10, <1>11, <1>12, <1>13, <1>14

LEMMA AnalysPostKeeps == HttpInv /\ AnalysPost => HttpInv'
<1> SUFFICES ASSUME HttpInv, AnalysPost PROVE HttpInv'
  OBVIOUS
<1>1. HttpTyped /\ HttpTurned /\ HttpAsking /\ HttpLaid
  BY DEF HttpInv
<1> DEFINE n == Body
<1>2. /\ hpc = "serve" /\ wstat = "post" /\ asked[cur].what # "big"
      /\ read' = Drop(read, n)
      /\ UNCHANGED <<askVars, unread, cur, garbled, fileLeft, wr, cl, sd, wire, got, sendSt>>
  BY DEF AnalysPost, Serving, Served, sockVars, passVars
<1>3. \/ /\ tls + n = asked[cur].body /\ tls' = 0 /\ wstat' = "send"
         /\ UNCHANGED <<rd, recvSt, hpc>>
      \/ /\ tls + n # asked[cur].body /\ tls' = tls + n /\ wstat' = wstat
         /\ rd' = 0 /\ recvSt' = 1 /\ hpc' = "end"
  BY DEF AnalysPost, Served, Goto, sockVars, passVars
<1>4. Pending /\ cur = K /\ K # 0 /\ K \in Nat /\ HeadsOf(Coming) = {} /\ fileLeft = 0
      /\ sd = <<>> /\ got = Len(wire)
  BY <1>1, <1>2, ComingIs DEF Pending, HttpTurned
<1> DEFINE b == asked[K].body
<1>5. b \in Nat /\ tls \in Nat /\ tls <= b /\ Len(read) \in Nat /\ ~garbled
  <2>1. asked[K] \in Requests
    BY <1>1, <1>4 DEF HttpTyped, K
  <2> QED
    BY <1>1, <1>2, <2>1, ConstsAre DEF HttpTyped, HttpAsking
<1>6. n \in 0..(b - tls) /\ n \in 0..Len(read)
  <2>1. n = Lesser(b - tls, Len(read))
    BY <1>4 DEF Body
  <2>2. b - tls \in Nat
    BY <1>5
  <2> HIDE DEF n, b
  <2>3. n \in 0..(b - tls) /\ n <= Len(read)
    BY <1>5, <2>1, <2>2, LesserIs
  <2> QED
    BY <1>5, <2>2, <2>3
<1> HIDE DEF n
<1>7. /\ read' \in Seq(AskBytes) /\ Coming' \in Seq(AskBytes)
      /\ Len(Coming) \in Nat /\ Len(Coming') = Len(Coming) - n
      /\ \A k \in 1..Len(Coming') : n + k \in 1..Len(Coming) /\ Coming'[k] = Coming[n + k]
  BY <1>1, <1>2, <1>6, TakenIs DEF askVars
<1>8. HeadsOf(Coming)' = {}
  <2>1. \A k \in 1..Len(Coming') : Coming'[k][2] # "head"
    BY <1>4, <1>7 DEF HeadsOf
  <2> QED
    BY <2>1 DEF HeadsOf
<1>9. asked' = asked /\ K' = K /\ Out' = Out /\ wstat' \in {"post", "send"} /\ hpc' # "text" /\ fileLeft' = 0
  BY <1>2, <1>3, <1>4 DEF askVars, K, Out
<1>10. Pending' /\ Replied' = Replied /\ Left' = Left
  BY <1>2, <1>4, <1>9 DEF Pending, Replied, Left
<1>11. tls' \in Nat
  BY <1>3, <1>5, <1>6
<1>12. HttpTyped'
  <2>1. rd' \in 0..3 /\ recvSt' \in {-1, 1} /\ hpc' \in Turns /\ wstat' \in Stages
    BY <1>1, <1>2, <1>3, SMTT(30) DEF HttpTyped, Turns, Stages
  <2> QED
    BY <1>1, <1>2, <1>7, <1>9, <1>11, <2>1 DEF HttpTyped, askVars
<1>13. HttpTurned'
  BY <1>2, <1>4, <1>8, <1>9, <1>10, <1>1 DEF HttpTurned
<1>14. HttpLaid'
  BY <1>1, <1>9, <1>10 DEF HttpLaid
<1>15. HttpAsking'
  <2>1. RefusedIn(asked, K - 1)' <=> RefusedIn(asked, K - 1)
    BY <1>9 DEF RefusedIn
  <2>2. ~RefusedIn(asked, K - 1) => Len(Coming) = b - tls
    BY <1>1, <1>2 DEF HttpAsking
  <2>3. asked'[K'].body = b /\ asked'[K'].what # "big" /\ garbled' = garbled
    BY <1>2, <1>4, <1>9
  <2>4. CASE wstat' = "send"
    <3>1. tls + n = b
      BY <1>2, <1>3, <1>4, <2>4
    <3> QED
      BY <1>5, <1>6, <1>7, <1>8, <1>10, <2>1, <2>2, <2>3, <2>4, <3>1 DEF HttpAsking
  <2>5. CASE wstat' # "send"
    <3>1. tls' = tls + n /\ tls' <= b
      BY <1>3, <1>5, <1>6, <2>5
    <3>2. ~RefusedIn(asked, K - 1) => Len(Coming') = b - tls'
      BY <1>5, <1>6, <1>7, <2>2, <3>1, SMTT(30)
    <3> QED
      BY <1>5, <1>8, <1>10, <2>1, <2>3, <2>5, <3>1, <3>2 DEF HttpAsking
  <2> QED
    BY <2>4, <2>5
<1> QED
  BY <1>12, <1>13, <1>14, <1>15 DEF HttpInv

LEMMA AnalysHeadKeeps == HttpInv /\ AnalysHead => HttpInv'
<1> SUFFICES ASSUME HttpInv, AnalysHead PROVE HttpInv'
  OBVIOUS
<1>1. HttpTyped /\ HttpTurned /\ HttpAsking /\ HttpLaid
  BY DEF HttpInv
<1> DEFINE n == HeadEnd
<1>2. /\ hpc = "serve" /\ wstat = "head" /\ n > 0
      /\ cur' = read[n][1] /\ garbled' = (n > 1) /\ tls' = 0 /\ read' = Drop(read, n)
      /\ wstat' = (IF n = 1 /\ asked[cur'].body > 0 THEN "post" ELSE "send")
      /\ UNCHANGED <<askVars, unread, fileLeft, sockVars, wire, got, passVars>>
  BY DEF AnalysHead, Serving
<1>3. n \in HeadsOf(read)
  <2> DEFINE H == HeadsOf(read)
  <2>1. H # {}
    BY <1>2 DEF HeadEnd
  <2>2. H \subseteq Nat
    BY DEF HeadsOf
  <2>3. n = Min(H)
    BY <2>1 DEF HeadEnd
  <2> HIDE DEF H, n
  <2>4. \E x \in H : \A y \in H : x <= y
    BY <2>1, <2>2, NatLeast
  <2>5. Min(H) \in H
    BY <2>4 DEF Min
  <2> QED
    BY <2>3, <2>5 DEF H
<1>4. n \in 1..Len(read) /\ read[n][2] = "head" /\ n \in 0..Len(read)
  <2>1. n \in 1..Len(read) /\ read[n][2] = "head"
    BY <1>3 DEF HeadsOf
  <2> QED
    BY <2>1
<1> HIDE DEF n
<1>5. /\ read' \in Seq(AskBytes) /\ Coming' \in Seq(AskBytes)
      /\ Len(Coming) \in Nat /\ Len(Coming') = Len(Coming) - n
      /\ \A k \in 1..Len(Coming') : n + k \in 1..Len(Coming) /\ Coming'[k] = Coming[n + k]
      /\ \A k \in 1..Len(read) : k \in 1..Len(Coming) /\ Coming[k] = read[k]
  BY <1>1, <1>2, <1>4, TakenIs DEF askVars
<1>6. n \in HeadsOf(Coming)
  BY <1>4, <1>5 DEF HeadsOf
<1>7. Pending /\ Left = 0 /\ K # 0 /\ sd = <<>> /\ got = Len(wire) /\ K \in Nat /\ fileLeft = 0
  BY <1>1, <1>2, <1>6, ComingIs DEF Pending, HttpTurned
<1>8. cur' = K /\ (\A l \in HeadsOf(Coming) : l = n)
      /\ (~RefusedIn(asked, K - 1) => n = 1 /\ Len(Coming) = 1 + asked[K].body)
  BY <1>1, <1>2, <1>4, <1>5, <1>6 DEF HttpAsking
<1>9. HeadsOf(Coming)' = {}
  <2>1. ASSUME NEW k \in 1..Len(Coming') PROVE Coming'[k][2] # "head"
    <3>1. n + k \in 1..Len(Coming) /\ Coming'[k] = Coming[n + k] /\ n + k # n
      BY <1>4, <1>5
    <3> QED
      BY <1>8, <3>1 DEF HeadsOf
  <2> QED
    BY <2>1 DEF HeadsOf
<1>10. asked' = asked /\ K' = K /\ Out' = Out /\ wstat' \in {"post", "send"} /\ hpc' = hpc
       /\ fileLeft' = 0 /\ sd' = sd /\ got' = got /\ wire' = wire
  BY <1>2, <1>7 DEF askVars, sockVars, passVars, K, Out
<1>11. Pending' /\ Replied' = Replied /\ Left' = Left
  BY <1>2, <1>7, <1>10 DEF Pending, Replied, Left
<1>12. asked[K] \in Requests
  BY <1>1, <1>7 DEF HttpTyped, K
<1>13. HttpTyped'
  <2>1. wstat' \in Stages /\ cur' \in 0..K' /\ garbled' \in BOOLEAN /\ tls' \in Nat
    BY <1>2, <1>7, <1>8, <1>10 DEF Stages
  <2> QED
    BY <1>1, <1>2, <1>5, <1>10, <2>1 DEF HttpTyped, askVars, sockVars, passVars
<1>14. HttpTurned'
  BY <1>1, <1>2, <1>7, <1>8, <1>9, <1>10, <1>11 DEF HttpTurned
<1>15. HttpLaid'
  BY <1>1, <1>10, <1>11 DEF HttpLaid
<1>16. HttpAsking'
  <2>1. RefusedIn(asked, K - 1)' <=> RefusedIn(asked, K - 1)
    BY <1>10 DEF RefusedIn
  <2>2. asked'[K'] = asked[K] /\ asked[cur'] = asked[K] /\ asked[K].body \in Nat
        /\ (asked[K].what = "big" => asked[K].body > 0)
    BY <1>8, <1>10, <1>12, ConstsAre
  <2>3. wstat' = "post" => n = 1 /\ asked[K].body > 0
    BY <1>2, <2>2
  <2>4. wstat' = "send" => ~(n = 1 /\ asked[K].body > 0)
    BY <1>2, <2>2
  <2>5. n = 1 => ~(n > 1)
    OBVIOUS
  <2>6. n = 1 => ~garbled'
    BY <1>2, <2>5, Zenon
  <2>7. wstat' = "post" => tls' <= asked'[K'].body /\ ~garbled'
    BY <1>2, <2>2, <2>3, <2>6
  <2>8. ~RefusedIn(asked, K - 1) => ~garbled' /\ Len(Coming') = asked[K].body
    <3>1. Len(Coming) \in Nat /\ Len(Coming') = Len(Coming) - n
      BY <1>5
    <3>2. ~RefusedIn(asked, K - 1) => n = 1 /\ Len(Coming) = 1 + asked[K].body
      BY <1>8
    <3> QED
      BY <3>1, <3>2, <2>2, <2>6, SMTT(30)
  <2>9. wstat' = "send" /\ ~RefusedIn(asked, K - 1) =>
          ~garbled' /\ asked'[K'].what # "big" /\ Len(Coming') = 0
    BY <1>8, <2>2, <2>4, <2>8
  <2>10. wstat' = "post" /\ ~RefusedIn(asked, K - 1) => Len(Coming') = asked'[K'].body - tls'
    BY <1>2, <2>2, <2>8
  <2> QED
    BY <1>9, <1>11, <2>1, <2>7, <2>9, <2>10 DEF HttpAsking
<1> QED
  BY <1>13, <1>14, <1>15, <1>16 DEF HttpInv

\* The bytes of a request.
LEMMA RequestIs ==
  ASSUME NEW m \in Nat, NEW b \in Nat
  PROVE  LET line == <<<<m, "head">>>> \o [i \in 1..b |-> <<m, "body">>] IN
         /\ line \in Seq(AskBytes) /\ Len(line) = 1 + b /\ line[1] = <<m, "head">>
         /\ \A k \in 2..Len(line) : line[k][2] # "head"
<1> DEFINE h == <<<<m, "head">>>>
           t == [i \in 1..b |-> <<m, "body">>]
           line == h \o t
<1>1. h \in Seq(AskBytes) /\ Len(h) = 1 /\ h[1] = <<m, "head">>
  BY DEF AskBytes
<1>2. t \in Seq(AskBytes) /\ Len(t) = b /\ \A i \in 1..b : t[i][2] # "head"
  <2>1. <<m, "body">> \in AskBytes /\ <<m, "body">>[2] # "head"
    BY DEF AskBytes
  <2> DEFINE x == <<m, "body">>
  <2> HIDE DEF x
  <2> QED
    BY <2>1 DEF x
<1> HIDE DEF h, t
<1>3. /\ h \o t \in Seq(AskBytes) /\ Len(h \o t) = Len(h) + Len(t)
      /\ \A k \in 1..Len(h) : (h \o t)[k] = h[k]
      /\ \A k \in 1..Len(t) : (h \o t)[Len(h) + k] = t[k]
  <2>1. h \in Seq(AskBytes) /\ t \in Seq(AskBytes)
    BY <1>1, <1>2
  <2> QED
    BY <2>1, JoinIs
<1>4. line \in Seq(AskBytes) /\ Len(line) = 1 + b /\ line[1] = h[1]
      /\ \A k \in 1..b : line[1 + k] = t[k]
  BY <1>1, <1>2, <1>3
<1> HIDE DEF line
<1>5. ASSUME NEW k \in 2..Len(line) PROVE line[k][2] # "head"
  <2>1. k - 1 \in 1..b /\ k = 1 + (k - 1)
    BY <1>4
  <2> QED
    BY <1>2, <1>4, <2>1, ZenonT(60)
<1>6. line[1] = <<m, "head">>
  BY <1>1, <1>4
<1> QED
  BY <1>4, <1>5, <1>6 DEF line, h, t

LEMMA AskKeeps ==
  ASSUME Patient, HttpInv, NEW r \in Requests, Ask(r)
  PROVE  HttpInv'
<1>1. HttpTyped /\ HttpTurned /\ HttpAsking /\ HttpLaid
  BY DEF HttpInv
<1> DEFINE line == <<<<Len(asked'), "head">>>> \o [i \in 1..r.body |-> <<Len(asked'), "body">>]
<1>2. /\ unsaid = <<>> /\ HasAll /\ asked' = Append(asked, r) /\ unsaid' = line
      /\ UNCHANGED <<unread, read, stateVars, sockVars, wire, got, passVars>>
  BY DEF Ask
<1>3. asked \in Seq(Requests) /\ K \in Nat /\ r.body \in Nat
      /\ read \in Seq(AskBytes) /\ unread \in Seq(AskBytes) /\ sd \in Seq(ReplyBytes) /\ wire \in Seq(ReplyBytes)
  BY <1>1, ComingIs, ConstsAre DEF HttpTyped
<1>4. asked' \in Seq(Requests) /\ K' = K + 1 /\ asked'[K + 1] = r /\ \A i \in 1..K : asked'[i] = asked[i]
  BY <1>2, <1>3 DEF K
<1>5. /\ line \in Seq(AskBytes) /\ Len(line) = 1 + r.body /\ line[1] = <<K + 1, "head">>
      /\ \A k \in 2..Len(line) : line[k][2] # "head"
  <2> DEFINE m == Len(asked')
  <2>1. m = K + 1 /\ m \in Nat
    BY <1>3, <1>4 DEF K
  <2> HIDE DEF m
  <2> DEFINE l == <<<<m, "head">>>> \o [i \in 1..r.body |-> <<m, "body">>]
  <2>2. /\ l \in Seq(AskBytes) /\ Len(l) = 1 + r.body /\ l[1] = <<m, "head">>
        /\ \A k \in 2..Len(l) : l[k][2] # "head"
    BY <1>3, <2>1, RequestIs
  <2>3. l = line
    BY DEF m
  <2> HIDE DEF l, line
  <2> QED
    BY <2>1, <2>2, <2>3
<1> HIDE DEF line
\* The peer has all there is.
<1>6. ~Pending /\ Len(wire) = Len(Out) /\ Left = 0 /\ got = Len(wire)
  <2>1. got = Len(wire) /\ Cardinality(HeadsOf(wire)) = K /\ (K # 0 => Len(wire) \in EndsOf(wire))
    <3>1. got = Len(wire) /\ Cardinality(HeadsOf(wire)) = K /\ (asked # <<>> => Len(wire) \in EndsOf(wire))
      BY <1>2 DEF HasAll, K
    <3>2. K # 0 => asked # <<>>
      BY <1>3 DEF K
    <3> QED
      BY <3>1, <3>2
  <2>2. Replied \in Nat /\ Replied <= K /\ (Replied = K => ~Pending)
    <3>1. Pending => K # 0
      BY <1>1 DEF HttpTurned
    <3> QED
      BY <1>3, <3>1 DEF Replied
  <2>3. Left \in Nat
    BY <1>1, ConstsAre DEF Left, HttpTyped
  <2>4. Layout(asked, Out, Replied, Left)
    BY <1>1 DEF HttpLaid
  <2> DEFINE h == Replied
             left == Left
             o == Out
             w == wire
             m == K
  <2>5. /\ h \in Nat /\ left \in Nat /\ o \in Seq(ReplyBytes) /\ w \in Seq(ReplyBytes) /\ m \in Nat
        /\ Layout(asked, o, h, left) /\ Part(w, o) /\ h <= m /\ Cardinality(HeadsOf(w)) = m
        /\ (m # 0 => Len(w) \in EndsOf(w))
    BY <1>1, <1>3, <2>1, <2>2, <2>3, <2>4, ComingIs
  <2> HIDE DEF h, left, o, w, m
  <2>6. h = m /\ Len(w) = Len(o) /\ left = 0
    BY <2>5, AllIsThere
  <2> QED
    BY <2>1, <2>2, <2>6 DEF h, left, o, w, m
<1>7. sd = <<>>
  <2>1. Len(Out) = Len(wire) + Len(sd)
    BY <1>3, JoinIs DEF Out
  <2>2. Len(wire) \in Nat /\ Len(sd) \in Nat
    BY <1>3
  <2>3. Len(sd) = 0
    BY <1>6, <2>1, <2>2
  <2> QED
    BY <1>3, <2>3
<1>8. hpc # "text" /\ fileLeft = 0 /\ wstat \notin {"post", "send"} /\ HeadsOf(Coming) = {}
  BY <1>6, ConstsAre DEF Left, Pending
\* What came is followed by the request.
<1> DEFINE c == Coming
           q == Coming'
<1>9. c \in Seq(AskBytes) /\ Len(c) \in Nat
  BY <1>1, ComingIs
<1>10. q = c \o line
  <2>1. Coming = read \o unread
    <3>1. read \o unread \in Seq(AskBytes)
      BY <1>3, ConcatProperties
    <3> QED
      BY <1>2, <3>1 DEF Coming
  <2>2. read' = read /\ unread' = unread /\ unsaid' = line
    BY <1>2
  <2>3. Coming' = (read \o unread) \o line
    BY <2>2, Zenon DEF Coming
  <2> QED
    BY <2>1, <2>3
<1>11. /\ q \in Seq(AskBytes) /\ Len(q) = Len(c) + (1 + r.body) /\ q[Len(c) + 1] = <<K + 1, "head">>
       /\ \A k \in 1..Len(c) : q[k] = c[k]
       /\ \A k \in 2..(1 + r.body) : q[Len(c) + k] = line[k]
  <2>1. /\ c \o line \in Seq(AskBytes) /\ Len(c \o line) = Len(c) + Len(line)
        /\ \A k \in 1..Len(c) : (c \o line)[k] = c[k]
        /\ \A k \in 1..Len(line) : (c \o line)[Len(c) + k] = line[k]
    BY <1>5, <1>9, JoinIs
  <2> HIDE DEF c, q
  <2> DEFINE p == c \o line
  <2>2. p = q /\ p \in Seq(AskBytes) /\ Len(p) = Len(c) + Len(line)
        /\ (\A k \in 1..Len(c) : p[k] = c[k])
        /\ \A k \in 1..Len(line) : p[Len(c) + k] = line[k]
    BY <1>10, <2>1
  <2> HIDE DEF p
  <2> QED
    <3>1. Len(line) = 1 + r.body /\ line[1] = <<K + 1, "head">>
      BY <1>5
    <3>2. 1 \in 1..Len(line) /\ 2..(1 + r.body) \subseteq 1..Len(line)
      BY <1>3, <3>1
    <3>3. p[Len(c) + 1] = <<K + 1, "head">> /\ \A k \in 2..(1 + r.body) : p[Len(c) + k] = line[k]
      BY <2>2, <3>1, <3>2, Zenon
    <3> QED
      BY <2>2, <3>1, <3>3, Zenon
<1>12. HeadsOf(Coming)' = {Len(c) + 1}
  <2>1. ASSUME NEW k \in 1..Len(q), k # Len(c) + 1 PROVE q[k][2] # "head"
    <3>1. CASE k \in 1..Len(c)
      BY <1>8, <1>11, <3>1 DEF HeadsOf
    <3>2. CASE k \notin 1..Len(c)
      <4> DEFINE m == k - Len(c)
      <4> HIDE DEF c, q
      <4>1. m \in 2..(1 + r.body) /\ k = Len(c) + m
        <5> DEFINE n == Len(c)
                   j == Len(q)
                   b == r.body
        <5>1. n \in Nat /\ b \in Nat /\ j = n + (1 + b) /\ k \in 1..j /\ k # n + 1 /\ k \notin 1..n
          BY <1>3, <1>9, <1>11, <2>1, <3>2
        <5> HIDE DEF n, j, b
        <5>2. k - n \in 2..(1 + b) /\ k = n + (k - n)
          BY <5>1
        <5> QED
          BY <5>2 DEF n, b
      <4> HIDE DEF m
      <4>2. q[k] = line[m] /\ m \in 2..Len(line)
        BY <1>5, <1>11, <4>1
      <4> QED
        BY <1>5, <4>2
    <3> QED
      BY <3>1, <3>2
  <2>2. Len(c) + 1 \in 1..Len(q) /\ q[Len(c) + 1][2] = "head"
    <3> HIDE DEF c, q
    <3> QED
      BY <1>3, <1>9, <1>11, SMTT(30)
  <2>3. HeadsOf(Coming)' = {k \in 1..Len(q) : q[k][2] = "head"}
    BY DEF HeadsOf
  <2> HIDE DEF q, c
  <2> QED
    BY <2>1, <2>2, <2>3
<1>13. Pending' /\ Replied' = K /\ Left' = 0
  <2>1. Pending'
    BY <1>12 DEF Pending
  <2>2. Left' = Left
    BY <1>2 DEF Left, stateVars, passVars
  <2> QED
    BY <1>3, <1>4, <1>6, <2>1, <2>2 DEF Replied
<1>14. HttpTyped'
  <2>1. unsaid' \in Seq(AskBytes) /\ cur' \in 0..K'
    BY <1>1, <1>2, <1>3, <1>4, <1>5 DEF HttpTyped, stateVars
  <2> QED
    BY <1>1, <1>2, <1>4, <2>1 DEF HttpTyped, stateVars, sockVars, passVars
<1>15. HttpTurned'
  BY <1>2, <1>3, <1>4, <1>6, <1>7, <1>8, <1>13 DEF HttpTurned, stateVars, sockVars, passVars
<1>16. HttpLaid'
  <2>1. Layout(asked, Out, K, 0)
    BY <1>1, <1>6 DEF HttpLaid, Replied
  <2>2. Out' = Out
    BY <1>2 DEF Out, sockVars
  <2> DEFINE a == asked
             b == asked'
             o == Out
             k == K
  <2>3. k \in Nat /\ Layout(a, o, k, 0) /\ \A i \in 1..k : b[i] = a[i]
    BY <1>3, <1>4, <2>1
  <2> HIDE DEF a, b, o, k
  <2>4. Layout(b, o, k, 0)
    BY <2>3, LaysAsked
  <2> QED
    BY <1>13, <2>2, <2>4 DEF HttpLaid, a, b, o, k
<1>17. HttpAsking'
  <2>1. wstat' \notin {"post", "send"}
    BY <1>2, <1>8 DEF stateVars
  <2>2. RefusedIn(asked, K - 1)' <=> RefusedIn(asked, K)
    <3>1. K' - 1 = K
      BY <1>3, <1>4
    <3> QED
      BY <1>4, <3>1 DEF RefusedIn
  <2>3. ~RefusedIn(asked, K) => Len(c) = 0
    BY <1>1, <1>6 DEF HttpAsking
  <2>4. ASSUME NEW k \in HeadsOf(Coming)'
        PROVE  /\ q[k][1] = K' /\ (\A l \in HeadsOf(Coming)' : k = l)
               /\ (~RefusedIn(asked, K) => k = 1 /\ Len(q) = 1 + asked'[K'].body)
    <3>1. k = Len(c) + 1
      BY <1>12
    <3>2. q[k][1] = K'
      BY <1>4, <1>11, <3>1
    <3>3. ~RefusedIn(asked, K) => k = 1 /\ Len(q) = 1 + asked'[K'].body
      <4>1. asked'[K'] = r
        BY <1>4
      <4> HIDE DEF c, q
      <4> QED
        BY <1>3, <1>11, <2>3, <3>1, <4>1
    <3> QED
      BY <1>12, <3>1, <3>2, <3>3
  <2> QED
    BY <1>13, <2>1, <2>2, <2>4 DEF HttpAsking
<1> QED
  BY <1>14, <1>15, <1>16, <1>17 DEF HttpInv

------------------------------------------------------------------------------
LEMMA HttpStarts == HttpInit => HttpInv
<1> SUFFICES ASSUME HttpInit PROVE HttpInv
  OBVIOUS
<1>1. Coming = <<>> /\ Out = <<>> /\ K = 0 /\ HeadsOf(Coming) = {}
  BY DEF HttpInit, Coming, Out, K, HeadsOf
<1>2. ~Pending /\ Replied = 0 /\ Left = 0
  BY <1>1 DEF Pending, Replied, Left, HttpInit
<1>3. HttpTyped
  <2>1. Len(asked) = 0 /\ Len(wire) = 0 /\ 0 \in 0..0 /\ 0 \in 0..FileSz /\ 0 - 0 <= KernelSz
    BY ConstsAre DEF HttpInit
  <2>2. "head" \in Stages /\ "idle" \in Turns /\ 0 \in 0..3 /\ 0 \in 0..1 /\ 1 \in {-1, 1} /\ 0 \in Nat
    BY DEF Stages, Turns
  <2>3. asked \in Seq(Requests) /\ unsaid \in Seq(AskBytes) /\ unread \in Seq(AskBytes)
        /\ read \in Seq(AskBytes) /\ sd \in Seq(ReplyBytes) /\ wire \in Seq(ReplyBytes)
    BY DEF HttpInit
  <2> QED
    BY <2>1, <2>2, <2>3 DEF HttpInit, HttpTyped, K
<1>4. HttpTurned
  BY <1>1, <1>2 DEF HttpTurned, HttpInit
<1>5. HttpAsking
  BY <1>1, <1>2 DEF HttpAsking, HttpInit
<1>6. HttpLaid
  <2> DEFINE pos == [i \in 1..0 |-> 0]
  <2>1. pos \in [1..0 -> 1..Len(Out)] /\ Len(Out) = 0 /\ 1..0 = {} /\ 1..(0 - 1) = {}
    BY <1>1
  <2> HIDE DEF pos
  <2>2. Lays(asked, Out, 0, 0, pos)
    BY <2>1 DEF Lays
  <2> QED
    BY <1>2, <2>2 DEF HttpLaid, Layout
<1> QED
  BY <1>3, <1>4, <1>5, <1>6 DEF HttpInv

LEMMA HttpSteps == Patient /\ HttpInv /\ [HttpNext]_httpVars => HttpInv'
<1> SUFFICES ASSUME Patient, HttpInv, [HttpNext]_httpVars PROVE HttpInv'
  OBVIOUS
<1>1. CASE \E r \in Requests : Ask(r)
  BY <1>1, AskKeeps
<1>2. CASE Say \/ PeerReads \/ Recv \/ SendQueue \/ GoesOn
  BY <1>2, SayKeeps, PeerReadsKeeps, RecvKeeps, SendQueueKeeps, GoesOnKeeps
<1>3. CASE SendFile \/ SendText \/ RefusePost \/ AnswerFile \/ AnswerText \/ AnalysPost \/ AnalysHead
  BY <1>3, SendFileKeeps, SendTextKeeps, RefusePostKeeps, AnswerFileKeeps, AnswerTextKeeps,
     AnalysPostKeeps, AnalysHeadKeeps
<1>4. CASE UNCHANGED httpVars
  <2>1. UNCHANGED <<asked, unsaid, unread, read, wstat, cur, garbled, tls, fileLeft, rd, wr, cl, sd,
                    wire, got, hpc, sendSt, recvSt>>
    BY <1>4 DEF httpVars, askVars, stateVars, sockVars, passVars
  <2>2. Coming' = Coming /\ Out' = Out
    BY <2>1 DEF Coming, Out
  <2>3. HttpTyped'
    BY <2>1 DEF HttpInv, HttpTyped, K
  <2>4. HttpTurned' /\ HttpAsking' /\ HttpLaid'
    BY <2>1, <2>2, RestsKeep DEF HttpInv, HttpTurned
  <2> QED
    BY <2>3, <2>4 DEF HttpInv
<1> QED
  BY <1>1, <1>2, <1>3, <1>4, Zenon DEF HttpNext, Work, GoesOn

\* The invariant of a peer that waits for the whole reply before it asks again.
THEOREM HttpInvHolds ==
  ASSUME Patient
  PROVE  HttpSpec => []HttpInv
<1>1. HttpInv /\ [HttpNext]_httpVars => HttpInv'
  BY HttpSteps
<1> QED
  BY <1>1, HttpStarts, PTL DEF HttpSpec

\* A connection, its buffers and the handler keep their types: what waits to be
\* sent fits in the socket, and what was asked are requests.
THEOREM HttpTypeCorrect ==
  ASSUME Patient
  PROVE  HttpSpec => []HttpTypeOK
<1>1. HttpInv => HttpTypeOK
  <2> SUFFICES ASSUME HttpTyped PROVE HttpTypeOK
    BY DEF HttpInv
  <2>1. \A i \in 1..Len(asked) : asked[i] \in Requests
    BY DEF HttpTyped
  <2>2. Free >= 0
    BY FreeIs
  <2> QED
    BY <2>1, <2>2 DEF HttpTyped, HttpTypeOK, Stages, Turns, K
<1> QED
  BY <1>1, HttpInvHolds, PTL

\* For any requests and sizes: the replies on the wire are framed as their heads
\* say, and answer the requests one by one and in order (RepliesSound), when the
\* peer waits for the whole reply before it asks again.
THEOREM RepliesAreSound ==
  ASSUME Patient
  PROVE  HttpSpec => []RepliesSound
<1>1. HttpInv => RepliesSound
  <2> SUFFICES ASSUME HttpInv PROVE RepliesSound
    OBVIOUS
  <2>1. HttpTyped /\ HttpTurned /\ HttpLaid
    BY DEF HttpInv
  <2>2. wire \in Seq(ReplyBytes) /\ Out \in Seq(ReplyBytes) /\ Part(wire, Out) /\ K \in Nat
    BY <2>1, ComingIs DEF HttpTyped
  <2>3. Replied \in Nat
    BY <2>1, <2>2 DEF Replied, HttpTurned
  <2>4. Left \in Nat
    BY <2>1, ConstsAre DEF Left, HttpTyped
  <2>5. Layout(asked, Out, Replied, Left)
    BY <2>1 DEF HttpLaid
  <2> DEFINE o == Out
             h == Replied
             left == Left
  <2>6. o \in Seq(ReplyBytes) /\ h \in Nat /\ left \in Nat /\ Layout(asked, o, h, left)
        /\ wire \in Seq(ReplyBytes) /\ Part(wire, o)
    BY <2>2, <2>3, <2>4, <2>5
  <2> HIDE DEF o, h, left
  <2>7. Framed
    BY <2>6, FramedIs
  <2>8. AnswersInOrder
    BY <2>6, InOrderIs
  <2> QED
    BY <2>7, <2>8 DEF RepliesSound
<1> QED
  BY <1>1, HttpInvHolds, PTL

------------------------------------------------------------------------------
(* MCProtocols                                                             *)

\* The parts of every protocol keep their types, whatever the peers say, when one
\* that asks for files waits for the whole reply before it asks again.
THEOREM ProtocolsTypeCorrect ==
  ASSUME Patient
  PROVE  Spec => []ProtocolsTypeOK
<1>1. Init => HttpInit /\ WebSocketInit /\ ProxyInit
  BY DEF Init
<1>2. [Next]_vars => [HttpNext]_httpVars /\ [WebSocketNext]_wsVars /\ [ProxyNext]_proxyVars
  BY DEF Next, Http, WebSockets, Proxy, Rests, OfHttp, OfWebSocket, OfProxy, Pair, vars
<1>3. Spec => HttpSpec /\ WebSocketSpec /\ ProxySpec
  BY <1>1, <1>2, PTL DEF Spec, HttpSpec, WebSocketSpec, ProxySpec
<1>4. HttpTypeOK /\ WebSocketTypeOK /\ ProxyTypeOK => ProtocolsTypeOK
  BY DEF ProtocolsTypeOK
<1> QED
  BY <1>3, <1>4, HttpTypeCorrect, WebSocketTypeCorrect, ProxyTypeCorrect, PTL
=============================================================================
