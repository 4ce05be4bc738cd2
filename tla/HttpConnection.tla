--------------------------- MODULE HttpConnection ---------------------------
(***************************************************************************)
(* One connection of listen_http (server/storm/listen-http.h) under the    *)
(* passes of StormCore::WorkDo, a peer that asks and reads, and a kernel   *)
(* whose send buffer has room for a few bytes.  The head of a request, of  *)
(* a reply, and each byte of a body are tokens: <<i, "head">> and          *)
(* <<i, "body">> of request i, <<i, "head", what, len>> and <<i, "byte">>  *)
(* of the reply to it.  Requests that are proxied or become web sockets    *)
(* are in other modules.                                                   *)
(***************************************************************************)
EXTENDS Integers, SequencesExt, FiniteSetsExt

CONSTANTS Requests,  \* [what, keep, body]: "file", "empty", "text" or "big" (413)
          FileSz,    \* bytes of a file
          TextSz,    \* bytes of a reply that is sent at once
          SendSz,    \* STORMSERVER_STACK_BUFF / 2, what storm_send may give
          KernelSz,  \* bytes the socket takes before the peer reads
          MaxHead,   \* S16K: bytes without the end of a head
          Patient,   \* the peer asks again when it has the whole reply
          MaxAsked   \* bound: requests of the peer

ASSUME HttpAssumption ==
  /\ \A r \in Requests : /\ r.what \in {"file", "empty", "text", "big"}
                         /\ r.keep \in BOOLEAN /\ r.body \in Nat
                         /\ r.what = "big" => r.body > 0
  /\ FileSz \in Nat \ {0} /\ TextSz \in Nat \ {0} /\ SendSz \in Nat \ {0}
  /\ KernelSz \in Nat \ {0} /\ MaxHead \in Nat /\ MaxAsked \in Nat
  /\ Patient \in BOOLEAN

VARIABLES
  asked, unsaid,         \* the peer: its requests, what it has not sent of the last
  unread, read,          \* bytes of the peer in the kernel; RecvDataD and the handler's view
  wstat, cur, garbled,   \* listen_http: state, the head it has, is that one damaged
  tls, fileLeft,         \* body bytes it has, send_file.size
  rd, wr, cl, sd,        \* storm_socket_data
  wire, got,             \* what send() took, and how much of it the peer has read
  hpc, sendSt, recvSt    \* WorkDo: where, s_status of its two halves

askVars == <<asked, unsaid>>
stateVars == <<wstat, cur, garbled, tls, fileLeft>>
sockVars == <<rd, wr, cl, sd>>
passVars == <<hpc, sendSt, recvSt>>
httpVars == <<askVars, unread, read, stateVars, sockVars, wire, got, passVars>>

HttpInit ==
  /\ asked = <<>> /\ unsaid = <<>> /\ unread = <<>> /\ read = <<>>
  /\ wstat = "head" /\ cur = 0 /\ garbled = FALSE /\ tls = 0 /\ fileLeft = 0
  /\ rd = 0 /\ wr = 0 /\ cl = FALSE /\ sd = <<>> /\ wire = <<>> /\ got = 0
  /\ hpc = "idle" /\ sendSt = 1 /\ recvSt = 1

Lesser(a, b) == IF a < b THEN a ELSE b
Take(seq, n) == SubSeq(seq, 1, n)
Drop(seq, n) == SubSeq(seq, n + 1, Len(seq))

Free == KernelSz - (Len(wire) - got)
Keeps == asked[cur].keep

------------------------------------------------------------------------------
(* The peer                                                                *)

HeadsOf(w) == {j \in 1..Len(w) : w[j][2] = "head"}
EndsOf(w) == {j + w[j][4] : j \in HeadsOf(w)}

\* The peer has read whole replies to all it asked.
HasAll ==
  /\ got = Len(wire) /\ Cardinality(HeadsOf(wire)) = Len(asked)
  /\ asked # <<>> => Len(wire) \in EndsOf(wire)

Ask(r) ==
  /\ Len(asked) < MaxAsked /\ unsaid = <<>> /\ hpc # "closed"
  /\ Patient => HasAll
  /\ \A i \in 1..Len(asked) : asked[i].keep
  /\ asked' = Append(asked, r)
  /\ unsaid' = <<<<Len(asked'), "head">>>> \o [i \in 1..r.body |-> <<Len(asked'), "body">>]
  /\ UNCHANGED <<unread, read, stateVars, sockVars, wire, got, passVars>>

Say ==
  /\ unsaid # <<>> /\ hpc # "closed"
  /\ unread' = Append(unread, Head(unsaid)) /\ unsaid' = Tail(unsaid)
  /\ UNCHANGED <<asked, read, stateVars, sockVars, wire, got, passVars>>

PeerReads ==
  /\ got < Len(wire) /\ got' = got + 1
  /\ UNCHANGED <<askVars, unread, read, stateVars, sockVars, wire, passVars>>

------------------------------------------------------------------------------
(* WorkDo                                                                  *)

Goto(pc) == hpc' = pc

\* Slip: all of it is taken for sent.
SendAll(bytes) == wire' = wire \o bytes /\ wr' = 0 /\ UNCHANGED sd

\* storm_socket_send of as much as the kernel takes, the rest into sd.
Send(bytes) ==
  LET n == Lesser(Len(bytes), Free) IN
    /\ wire' = wire \o Take(bytes, n)
    /\ sd' = sd \o Drop(bytes, n)
    /\ wr' = 0

\* epoll reports what is armed and there.
Event(in, out) ==
  /\ hpc = "idle" /\ (in \/ out)
  /\ in => rd = 0 /\ unread # <<>>
  /\ out => wr = 0 /\ Free > 0
  /\ rd' = IF in THEN 1 ELSE rd
  /\ wr' = IF out THEN 1 ELSE wr
  /\ Goto("send")
  /\ UNCHANGED <<askVars, unread, read, stateVars, cl, sd, wire, got, sendSt, recvSt>>

SendSkipped ==
  /\ hpc = "send" /\ wr # 1
  /\ sendSt' = 1 /\ Goto("recv")
  /\ UNCHANGED <<askVars, unread, read, stateVars, sockVars, wire, got, recvSt>>

\* WorkDoSend: bytes of sd, or OPENSSL_RECV_WAIT.
SendQueue ==
  /\ hpc = "send" /\ wr = 1 /\ sd # <<>>
  /\ LET n == Lesser(Len(sd), Free) IN wire' = wire \o Take(sd, n) /\ sd' = Drop(sd, n)
  /\ wr' = 0 /\ sendSt' = 1 /\ Goto("recv")
  /\ UNCHANGED <<askVars, unread, read, stateVars, rd, cl, got, recvSt>>

\* storm_send with nothing to say: -1.
SendNothing ==
  /\ hpc = "send" /\ wr = 1 /\ sd = <<>> /\ wstat # "sendfile"
  /\ sendSt' = -1 /\ Goto("recv")
  /\ UNCHANGED <<askVars, unread, read, stateVars, sockVars, wire, got, recvSt>>

\* Slip: reading is not enabled again.
ERead0 == UNCHANGED rd

\* wel.eread(): el->rd |= 3
ERead == rd' = 3

\* Slip: the file is read as far as there is room.
FilePartAll == SendSz

\* minel(send.sz, send_file.size)
FilePart == Lesser(SendSz, fileLeft)

\* storm_send with a file to send: as much of it as it may give.
SendFile ==
  /\ hpc = "send" /\ wr = 1 /\ sd = <<>> /\ wstat = "sendfile" /\ fileLeft > 0
  /\ fileLeft' = fileLeft - FilePart
  /\ IF fileLeft' = 0 THEN wstat' = "alive" /\ ERead ELSE UNCHANGED <<wstat, rd>>
  /\ Send([i \in 1..FilePart |-> <<cur, "byte">>])
  /\ sendSt' = 1 /\ Goto("recv")
  /\ UNCHANGED <<askVars, unread, read, cur, garbled, tls, cl, got, recvSt>>

\* storm_send after a reply without a file: the next request, or the end.
SendDone ==
  /\ hpc = "send" /\ wr = 1 /\ sd = <<>> /\ wstat = "sendfile" /\ fileLeft = 0
  /\ IF Keeps THEN wstat' = "head" /\ cl' = cl ELSE wstat' = "close" /\ cl' = TRUE
  /\ ERead /\ sendSt' = -1 /\ Goto("recv")
  /\ UNCHANGED <<askVars, unread, read, cur, garbled, tls, fileLeft, wr, sd, wire, got, recvSt>>

RecvSkipped ==
  /\ hpc = "recv" /\ rd \notin {1, 3}
  /\ recvSt' = -1 /\ Goto("end")
  /\ UNCHANGED <<askVars, unread, read, stateVars, sockVars, wire, got, sendSt>>

\* recv() beside the rest; with rd & 2 the rest alone.
Recv ==
  /\ hpc = "recv" /\ rd \in {1, 3}
  /\ IF rd = 1 THEN read' = read \o unread /\ unread' = <<>> ELSE UNCHANGED <<read, unread>>
  /\ Goto("serve")
  /\ UNCHANGED <<askVars, stateVars, sockVars, wire, got, sendSt, recvSt>>

\* storm_recv returns: el->rd = 0.
Served ==
  /\ rd' = 0 /\ recvSt' = 1 /\ Goto("end")
  /\ UNCHANGED <<askVars, unread, wr, sd, wire, got, sendSt>>

\* wel.close() and the verdict of WorkDo.
Deletes ==
  \/ sendSt = -1 /\ cl
  \/ recvSt = -1 /\ cl

EndPass ==
  /\ hpc = "end"
  /\ Goto(IF Deletes THEN "closed" ELSE "idle")
  /\ UNCHANGED <<askVars, unread, read, stateVars, sockVars, wire, got, sendSt, recvSt>>

------------------------------------------------------------------------------
(* storm_recv: one turn of its loop                                        *)

Serving(st) == hpc = "serve" /\ wstat = st

\* The end of the first head in the view, 0 if there is none.
HeadEnd == LET ends == HeadsOf(read) IN IF ends = {} THEN 0 ELSE Min(ends)

\* AnalysHead without the end of a head.
WaitHead ==
  /\ Serving("head") /\ HeadEnd = 0
  /\ cl' = (cl \/ Len(read) > MaxHead)
  /\ Served /\ UNCHANGED <<read, stateVars>>

\* AnalysHead: what is before the head is taken for its beginning.
AnalysHead ==
  /\ Serving("head") /\ HeadEnd > 0
  /\ cur' = read[HeadEnd][1]
  /\ garbled' = (HeadEnd > 1)
  /\ wstat' = IF HeadEnd = 1 /\ asked[cur'].body > 0 THEN "post" ELSE "send"
  /\ tls' = 0
  /\ read' = Drop(read, HeadEnd)
  /\ UNCHANGED <<askVars, unread, fileLeft, sockVars, wire, got, passVars>>

Reply(what, len) == Send(<<<<cur, "head", what, len>>>>)

\* AnalysPost of a body that is too long: the body stays to be read.
RefusePost ==
  /\ Serving("post") /\ asked[cur].what = "big"
  /\ Reply("big", 0)
  /\ wstat' = "alive"
  /\ UNCHANGED <<askVars, unread, read, cur, garbled, tls, fileLeft, rd, cl, got, passVars>>

\* What AnalysPost takes: the body, as far as it is there.
Body == Lesser(asked[cur].body - tls, Len(read))

AnalysPost ==
  /\ Serving("post") /\ asked[cur].what # "big"
  /\ read' = Drop(read, Body)
  /\ IF tls + Body = asked[cur].body
     THEN tls' = 0 /\ wstat' = "send" /\ UNCHANGED <<askVars, unread, sockVars, wire, got, passVars>>
     ELSE tls' = tls + Body /\ Served /\ UNCHANGED <<wstat, cl>>
  /\ UNCHANGED <<cur, garbled, fileLeft>>

\* AnalysSend of a file that is there: send_file.open, the range, SendHeader.
AnswerFile ==
  /\ Serving("send") /\ ~garbled /\ asked[cur].what \in {"file", "empty"}
  /\ fileLeft' = IF asked[cur].what = "file" THEN FileSz ELSE fileLeft
  /\ Reply(asked[cur].what, fileLeft')
  /\ wstat' = "sendfile"
  /\ UNCHANGED <<askVars, unread, read, cur, garbled, tls, rd, cl, got, passVars>>

\* AnalysSend otherwise: SendHeader, and then the reply by wel.send.
AnswerText ==
  /\ Serving("send") /\ (garbled \/ asked[cur].what \in {"text", "big"})
  /\ Reply(IF garbled THEN "404" ELSE "text", TextSz)
  /\ wstat' = "sendfile" /\ Goto("text")
  /\ UNCHANGED <<askVars, unread, read, cur, garbled, tls, fileLeft, rd, cl, got, sendSt, recvSt>>

SendText ==
  /\ hpc = "text"
  /\ Send([i \in 1..TextSz |-> <<cur, "byte">>])
  /\ Goto("serve")
  /\ UNCHANGED <<askVars, unread, read, stateVars, rd, cl, got, sendSt, recvSt>>

\* case STORMSERVER_HTTP_SENDFILE
Sending ==
  /\ Serving("sendfile")
  /\ Served /\ UNCHANGED <<read, stateVars, cl>>

\* case STORMSERVER_HTTP_ALIVE
AliveNext == wstat' = IF Keeps THEN "head" ELSE "close"

Alive ==
  /\ Serving("alive")
  /\ AliveNext
  /\ UNCHANGED <<askVars, unread, read, cur, garbled, tls, fileLeft, sockVars, wire, got, passVars>>

\* case STORMSERVER_HTTP_CLOSE
Close ==
  /\ Serving("close")
  /\ cl' = TRUE
  /\ Served /\ UNCHANGED <<read, stateVars>>

Work ==
  \/ SendSkipped \/ SendQueue \/ SendNothing \/ SendFile \/ SendDone \/ RecvSkipped \/ Recv \/ EndPass
  \/ WaitHead \/ AnalysHead \/ RefusePost \/ AnalysPost \/ AnswerFile \/ AnswerText
  \/ SendText \/ Sending \/ Alive \/ Close

HttpNext ==
  \/ \E r \in Requests : Ask(r)
  \/ Say \/ PeerReads
  \/ \E in, out \in BOOLEAN : Event(in, out)
  \/ Work

HttpSpec == HttpInit /\ [][HttpNext]_httpVars

------------------------------------------------------------------------------
(* Properties                                                              *)

HttpTypeOK ==
  /\ \A i \in 1..Len(asked) : asked[i] \in Requests
  /\ wstat \in {"head", "post", "send", "sendfile", "alive", "close"}
  /\ cur \in 0..Len(asked) /\ garbled \in BOOLEAN /\ tls \in Nat /\ fileLeft \in 0..FileSz
  /\ rd \in 0..3 /\ wr \in 0..1 /\ cl \in BOOLEAN
  /\ got \in 0..Len(wire) /\ Free >= 0
  /\ hpc \in {"idle", "send", "recv", "serve", "text", "end", "closed"}
  /\ sendSt \in {-1, 1} /\ recvSt \in {-1, 1}

\* Each head of a reply is followed by as many bytes as its Content-Length says
\* before the next one, across sendings in part, files, texts and replies of
\* one connection (SendHeader, storm_send, wel.send, sd).
Framed ==
  wire # <<>> =>
    /\ HeadsOf(wire) = {1} \cup {e + 1 : e \in {d \in EndsOf(wire) : d < Len(wire)}}
    /\ \A j \in HeadsOf(wire) : \A k \in 1..Len(wire) :
         j < k /\ k <= j + wire[j][4] => wire[k][1] = wire[j][1]

\* The replies answer the requests one by one, in order and with what was asked,
\* until a body was refused: its bytes are then taken for a head.
Refused(i) == \E j \in 1..i : asked[j].what = "big"

AnswersInOrder ==
  \A j \in HeadsOf(wire) :
    LET i == Cardinality({k \in HeadsOf(wire) : k <= j}) IN
      ~Refused(i - 1) => wire[j][1] = i /\ wire[j][3] = asked[i].what

RepliesSound == Framed /\ AnswersInOrder

\* A connection the server ends has nothing left to send, as the condition that
\* the core keeps as a comment beside its own asks: `el->cl&AIFOP_CLOSE &&
\* isnosend` (storm-core.h).
ClosedWhenSent == hpc = "closed" => sd = <<>>

\* A request of a patient peer is answered in full, or the connection ends: a
\* reply that was given in parts, or a request that came with the one before,
\* does not leave the connection with nothing that would wake it.
Answered == asked # <<>> /\ ~HasAll ~> HasAll \/ hpc = "closed"
=============================================================================
