------------------------------ MODULE WebSocket ------------------------------
(***************************************************************************)
(* Who reads the frames of a web socket (proto/websockets.cpp              *)
(* WebSocketDecodeData): listen_http after `Upgrade: websocket`,           *)
(* listen_websockets, LightServerWebsocket::RecvData, and                  *)
(* WebSocketsCli::Recv.  The bytes of the other side come in pieces; a     *)
(* byte is <<frame, number>>, frame 0 is the head of the handshake.        *)
(***************************************************************************)
EXTENDS Integers, SequencesExt, FiniteSetsExt

CONSTANTS Streams,  \* sequences of frames [op, size]: "text", "ping", "close"
          HelloSz,  \* bytes of the head
          MaxFrame, \* S1M: what a decoder takes for an error
          ServerBuf,\* STORMSERVER_STACK_BUFF, buf[S32K] of light.h
          GrowSz,   \* S4K: what Recv adds to a buffer that is full
          MaxBuf    \* WSCLI_MSG_MAX_SIZE

ASSUME WebSocketAssumption ==
  /\ Streams \subseteq Seq([op : {"text", "ping", "close"}, size : Nat \ {0}])
  /\ {HelloSz, MaxFrame, ServerBuf, GrowSz, MaxBuf} \subseteq Nat \ {0}

Readers == {"http", "websockets", "light", "client"}

VARIABLES
  reader, stream,  \* who reads, and what the other side sends
  coming, arrived, \* bytes not sent yet; in the kernel
  view, bufsz,     \* bytes read but not used; buf.sz of the client
  given, hello,    \* frames given to the program; was the head read
  ending, wpc      \* wel.close() was called; where the reader is

wsVars == <<reader, stream, coming, arrived, view, bufsz, given, hello, ending, wpc>>

SizeOf(i) == IF i = 0 THEN HelloSz ELSE stream[i].size
BytesOf(i) == [k \in 1..SizeOf(i) |-> <<i, k>>]
Frames(m, n) == FlattenSeq([i \in 1..(n - m + 1) |-> BytesOf(m + i - 1)])

WebSocketInit ==
  /\ reader \in Readers /\ stream \in Streams
  /\ coming = Frames(0, Len(stream)) /\ arrived = <<>>
  /\ view = <<>> /\ bufsz = 0 /\ given = <<>> /\ hello = FALSE
  /\ ending = FALSE /\ wpc = "idle"

Serves == reader # "client"
Is(pc) == wpc = pc
To(pc) == wpc' = pc
Skip(n) == SubSeq(view, n + 1, Len(view))

Comes ==
  /\ coming # <<>> /\ wpc # "closed"
  /\ arrived' = Append(arrived, Head(coming)) /\ coming' = Tail(coming)
  /\ UNCHANGED <<reader, stream, view, bufsz, given, hello, ending, wpc>>

------------------------------------------------------------------------------
(* WebSocketDecodeData                                                     *)

\* Slip: the mask is not counted.
DecodeShort(i) ==
  IF Len(view) < SizeOf(i) - 1 THEN -1 ELSE IF SizeOf(i) > MaxFrame THEN 0 ELSE SizeOf(i) - 1

\* The size of the frame; -1 for more data, also with a frame of two to four
\* bytes; 0 for one that is too long, when all of it is there.
Decode(i) ==
  IF Len(view) <= 4 \/ Len(view) < SizeOf(i) THEN -1
  ELSE IF SizeOf(i) > MaxFrame THEN 0 ELSE SizeOf(i)

Next1 == view[1][1]

\* PartLine(read, data, "\r\n\r\n"); Analys of the client checks the answer.
TakeHello(to) ==
  /\ ~hello /\ Len(view) >= HelloSz
  /\ hello' = TRUE /\ view' = Skip(HelloSz) /\ To(to)
  /\ UNCHANGED <<reader, stream, coming, arrived, bufsz, given, ending>>

NeedsMore ==
  IF hello THEN view # <<>> => Decode(Next1) = -1 ELSE Len(view) < HelloSz

Wait(to) ==
  /\ NeedsMore /\ To(to)
  /\ UNCHANGED <<reader, stream, coming, arrived, view, bufsz, given, hello, ending>>

\* The frame is given to the program; the server closes after all but text and
\* ping, and goes on with its loop.
Give(to) ==
  /\ hello /\ view # <<>> /\ Decode(Next1) > 0
  /\ given' = Append(given, Next1)
  /\ view' = Skip(Decode(Next1))
  /\ ending' = (ending \/ (Serves /\ stream[Next1].op = "close"))
  /\ To(to)
  /\ UNCHANGED <<reader, stream, coming, arrived, bufsz, hello>>

TooLong(to) ==
  /\ hello /\ view # <<>> /\ Decode(Next1) = 0
  /\ ending' = TRUE /\ To(to)
  /\ UNCHANGED <<reader, stream, coming, arrived, view, bufsz, given, hello>>

------------------------------------------------------------------------------
(* listen_http::AnalysWebSocket, listen_websockets::storm_recv,            *)
(* LightServerWebsocket::RecvData                                          *)

\* WorkDoRecv and RecvData read beside the rest, up to the size of the buffer;
\* without room recv() is asked for nothing, returns 0, and the connection ends.
ServerRecv ==
  /\ Serves /\ Is("idle") /\ arrived # <<>>
  /\ LET n == Min({Len(arrived), ServerBuf - Len(view)}) IN
       /\ view' = view \o SubSeq(arrived, 1, n)
       /\ arrived' = SubSeq(arrived, n + 1, Len(arrived))
       /\ To(IF n = 0 THEN "closed" ELSE "decode")
  /\ UNCHANGED <<reader, stream, coming, bufsz, given, hello, ending>>

\* The loop of the light server ends with what closes.
LightEnds == reader = "light" /\ (Decode(Next1) = 0 \/ stream[Next1].op = "close")

\* storm_recv; listen_websockets returns after the head, whatever came with it.
ServerDecode ==
  /\ Serves /\ Is("decode")
  /\ \/ TakeHello(IF reader = "websockets" THEN "idle" ELSE "decode")
     \/ Give(IF LightEnds THEN "closed" ELSE "decode")
     \/ Wait("idle")
     \/ TooLong(IF LightEnds THEN "closed" ELSE "idle")

\* A later pass deletes the connection.
ServerEnds ==
  /\ Serves /\ Is("idle") /\ ending /\ To("closed")
  /\ UNCHANGED <<reader, stream, coming, arrived, view, bufsz, given, hello, ending>>

------------------------------------------------------------------------------
(* WebSocketsCli::Recv                                                     *)

Unread == <<reader, stream, coming, arrived, given, hello, ending>>

\* The rest is moved to the front of the buffer, and looked at first.
CallRecv ==
  /\ ~Serves /\ Is("idle")
  /\ To(IF view = <<>> THEN "fill" ELSE "analys") /\ UNCHANGED <<Unread, view, bufsz>>

\* A full buffer grows; one that is as large as may be ends the connection.
Fill ==
  /\ ~Serves /\ Is("fill")
  /\ IF bufsz > Len(view) THEN To("wait") /\ UNCHANGED bufsz
     ELSE IF bufsz >= MaxBuf THEN To("closed") /\ UNCHANGED bufsz
     ELSE To("wait") /\ bufsz' = bufsz + GrowSz
  /\ UNCHANGED <<Unread, view>>

ClientRecv(n) ==
  /\ ~Serves /\ Is("wait") /\ n <= Len(arrived) /\ n <= bufsz - Len(view)
  /\ view' = view \o SubSeq(arrived, 1, n)
  /\ arrived' = SubSeq(arrived, n + 1, Len(arrived))
  /\ To("analys")
  /\ UNCHANGED <<reader, stream, coming, bufsz, given, hello, ending>>

\* Recv(state_test) returns -1, a Recv that waited for two hours closes.
ClientGivesUp ==
  /\ ~Serves /\ Is("wait") /\ arrived = <<>>
  /\ wpc' \in {"idle", "closed"} /\ UNCHANGED <<Unread, view, bufsz>>

Analys ==
  /\ ~Serves /\ Is("analys")
  /\ TakeHello("idle") \/ Give("idle") \/ Wait("fill") \/ TooLong("closed")

WebSocketNext ==
  \/ Comes
  \/ ServerRecv \/ ServerDecode \/ ServerEnds
  \/ CallRecv \/ Fill \/ ClientGivesUp \/ Analys
  \/ \E n \in 1..GrowSz : ClientRecv(n)

WebSocketSpec == WebSocketInit /\ [][WebSocketNext]_wsVars

------------------------------------------------------------------------------
(* Properties                                                              *)

WebSocketTypeOK ==
  /\ reader \in Readers /\ stream \in Streams
  /\ Len(view) <= Max({ServerBuf, bufsz}) /\ bufsz \in 0..(MaxBuf + GrowSz)
  /\ given \in Seq(DOMAIN stream) /\ hello \in BOOLEAN /\ ending \in BOOLEAN
  /\ wpc \in {"idle", "decode", "fill", "wait", "analys", "closed"}

\* However the bytes are cut, each frame is given to the program whole, once and in
\* order, and what is not given is still there.
FramesKept ==
  /\ given = [i \in 1..Len(given) |-> i]
  /\ Frames(IF hello THEN Len(given) + 1 ELSE 0, Len(stream)) = view \o arrived \o coming

\* A reader waits only while the next frame is not all there; but one of two to
\* four bytes waits for the next, and listen_websockets leaves what came with the
\* head until more comes.
Whole == hello /\ view # <<>> /\ Len(view) >= SizeOf(Next1)
Waits == ~ending /\ (IF Serves THEN Is("idle") ELSE Is("wait"))

WaitsForMore ==
  Waits /\ Whole => Len(view) <= 4 \/ (reader = "websockets" /\ given = <<>>)

WebSocketSound == FramesKept /\ WaitsForMore
=============================================================================
