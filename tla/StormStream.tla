----------------------------- MODULE StormStream -----------------------------
(***************************************************************************)
(* The bytes that leave on one connection of the storm core, and who puts  *)
(* them there without a common lock:                                       *)
(*   the worker that has the slot   WorkDoSend (the rest in sd, or the     *)
(*                                  bytes of storm_send) and               *)
(*                                  storm_work_el::send, which a handler   *)
(*                                  calls from storm_recv                  *)
(*   the apps                       StormSendData, under socket_free_lock  *)
(* Each operation of sd is one step (module SendData), and so is each call *)
(* of send(), which takes as many bytes as the kernel likes.  A byte is    *)
(* <<source, number>>; a message is two bytes.                             *)
(***************************************************************************)
EXTENDS Integers, SequencesExt

CONSTANTS Apps,       \* threads that call StormSendData
          Nobody,     \* socket_free_lock is free
          StackBuf,      \* STORMSERVER_STACK_BUFF
          Pipelined,  \* does the peer ask again before it has the whole reply
          Most        \* bound: messages of each source

Sources == Apps \cup {"reply", "stream"}

ASSUME StreamAssumption ==
  /\ Nobody \notin Apps /\ Apps \cap {"reply", "stream"} = {}
  /\ StackBuf \in Nat \ {0} /\ Pipelined \in BOOLEAN
  /\ Most \in [Sources -> Nat]

VARIABLES
  wire,         \* what the peer gets of each source, in order
  sd,           \* storm_socket_data::sd
  made,         \* messages each source has made so far
  wpc, hand,    \* the worker: where, the bytes it works on
  sent,         \*   and how many of them send() took
  lockBy,       \* who holds socket_free_lock
  adirect,      \* is the app with the lock going to call send()
  ahand         \* and what it has still to send

streamVars == <<wire, sd, made, wpc, hand, sent, lockBy, adirect, ahand>>

StreamInit ==
  /\ wire = [s \in Sources |-> <<>>] /\ sd = <<>> /\ made = [s \in Sources |-> 0]
  /\ wpc = "idle" /\ hand = <<>> /\ sent = 0
  /\ lockBy = Nobody /\ adirect = FALSE /\ ahand = <<>>

First(seq, n) == SubSeq(seq, 1, n)
After(seq, n) == SubSeq(seq, n + 1, Len(seq))

\* The bytes of a source among those of seq, in their order.
Of(s, seq) ==
  LET upto[n \in 0..Len(seq)] ==
        IF n = 0 THEN <<>>
        ELSE IF seq[n][1] = s THEN Append(upto[n - 1], seq[n]) ELSE upto[n - 1]
  IN upto[Len(seq)]

\* storm_socket_send: the kernel takes the first n bytes.
Wire(seq, n) == wire' = [s \in Sources |-> wire[s] \o Of(s, First(seq, n))]

\* A source makes its next message.
Make(s) == made[s] < Most[s] /\ made' = [made EXCEPT ![s] = @ + 1]
Message(s) == <<<<s, 2 * made[s] + 1>>, <<s, 2 * made[s] + 2>>>>

workerVars == <<wpc, hand, sent>>
appVars == <<lockBy, adirect, ahand>>

------------------------------------------------------------------------------
(* The worker: WorkDo                                                      *)

\* WorkDo with wr = 1; otherwise WorkDoSend does nothing.
WorkDo ==
  /\ wpc = "idle"
  /\ wpc' \in {"send", "recv"}
  /\ UNCHANGED <<wire, sd, made, hand, sent, appVars>>

\* if(el->sd.Size()) el->sd.SdGet(buff, ..)
SdGet ==
  /\ wpc = "send" /\ sd # <<>>
  /\ hand' = First(sd, IF Len(sd) < StackBuf THEN Len(sd) ELSE StackBuf)
  /\ wpc' = "queued"
  /\ UNCHANGED <<wire, sd, made, sent, appVars>>

\* No byte is taken: OPENSSL_RECV_WAIT.
SendQueued(n) ==
  /\ wpc = "queued" /\ Wire(hand, n)
  /\ IF n > 0 THEN wpc' = "del" /\ sent' = n /\ hand' = hand
              ELSE wpc' = "recv" /\ sent' = 0 /\ hand' = <<>>
  /\ UNCHANGED <<sd, made, appVars>>

\* Slip: all that was offered is deleted.
SdDelAll ==
  /\ wpc = "del"
  /\ sd' = After(sd, Len(hand))
  /\ wpc' = "recv" /\ hand' = <<>> /\ sent' = 0
  /\ UNCHANGED <<wire, made, appVars>>

SdDel ==
  /\ wpc = "del"
  /\ sd' = After(sd, sent)
  /\ wpc' = "recv" /\ hand' = <<>> /\ sent' = 0
  /\ UNCHANGED <<wire, made, appVars>>

\* storm_send has a message, or none.
StormSend ==
  /\ wpc = "send" /\ sd = <<>>
  /\ \/ Make("stream") /\ hand' = Message("stream") /\ wpc' = "made"
     \/ wpc' = "recv" /\ UNCHANGED <<made, hand>>
  /\ UNCHANGED <<wire, sd, sent, appVars>>

\* storm_recv sends a message, or none.
StormRecv ==
  /\ wpc = "recv"
  /\ \/ /\ Pipelined \/ Len(wire["reply"]) = 2 * made["reply"]
        /\ Make("reply") /\ hand' = Message("reply") /\ wpc' = "answer"
     \/ wpc' = "idle" /\ UNCHANGED <<made, hand>>
  /\ UNCHANGED <<wire, sd, sent, appVars>>

\* send() of what storm_send gave, or in storm_work_el::send, whatever sd has.
SendNew(n) ==
  /\ wpc \in {"made", "answer"}
  /\ Wire(hand, n)
  /\ hand' = After(hand, n)
  /\ wpc' = IF wpc = "made" THEN "keep" ELSE "keep answer"
  /\ UNCHANGED <<sd, made, sent, appVars>>

\* What is left goes into sd.
Keep ==
  /\ wpc \in {"keep", "keep answer"}
  /\ sd' = sd \o hand /\ hand' = <<>>
  /\ wpc' = IF wpc = "keep" THEN "recv" ELSE "idle"
  /\ UNCHANGED <<wire, made, sent, appVars>>

\* A pass ends the connection, whatever still waits, and cleans the slot.
DelSocketData ==
  /\ wpc = "idle" /\ lockBy = Nobody
  /\ wpc' = "closed" /\ sd' = <<>>
  /\ UNCHANGED <<wire, made, hand, sent, appVars>>

------------------------------------------------------------------------------
(* The apps: StormSendData                                                 *)

\* Slip: the bytes that wait are not asked for.
SendsAtOnceAny == adirect' \in BOOLEAN

\* if(!sdata->sd.Size() && ifsend(sdata->sock))
SendsAtOnce == adirect' \in (IF sd = <<>> THEN BOOLEAN ELSE {FALSE})

StormSendData(a) ==
  /\ lockBy = Nobody /\ wpc # "closed"
  /\ Make(a) /\ ahand' = Message(a)
  /\ lockBy' = a
  /\ SendsAtOnce
  /\ UNCHANGED <<wire, sd, workerVars>>

AppSends(n) ==
  /\ lockBy # Nobody /\ adirect
  /\ Wire(ahand, n) /\ ahand' = After(ahand, n)
  /\ adirect' = FALSE
  /\ UNCHANGED <<sd, made, workerVars, lockBy>>

AppKeeps ==
  /\ lockBy # Nobody /\ ~adirect
  /\ sd' = sd \o ahand /\ ahand' = <<>>
  /\ lockBy' = Nobody
  /\ UNCHANGED <<wire, made, workerVars, adirect>>

StreamNext ==
  \/ WorkDo \/ SdGet \/ SdDel \/ StormSend \/ StormRecv \/ Keep \/ DelSocketData
  \/ \E n \in 0..Len(hand) : SendQueued(n) \/ SendNew(n)
  \/ \E a \in Apps : StormSendData(a)
  \/ AppKeeps
  \/ \E n \in 0..Len(ahand) : AppSends(n)

StreamSpec == StreamInit /\ [][StreamNext]_streamVars

------------------------------------------------------------------------------
(* Properties                                                              *)

Bytes == Sources \X Nat

StreamTypeOK ==
  /\ wire \in [Sources -> Seq(Bytes)] /\ {sd, hand, ahand} \subseteq Seq(Bytes)
  /\ made \in [Sources -> Nat] /\ \A s \in Sources : made[s] <= Most[s]
  /\ wpc \in {"idle", "send", "queued", "del", "made", "keep", "recv", "answer",
              "keep answer", "closed"}
  /\ sent \in IF wpc = "del" THEN 1..Len(hand) ELSE {0}
  /\ lockBy \in Apps \cup {Nobody}
  /\ adirect \in BOOLEAN
  /\ lockBy = Nobody => ahand = <<>> /\ ~adirect

\* The bytes that have not reached the wire, wherever they are.
Unsent ==
  (IF wpc = "del" THEN After(sd, sent) ELSE sd)
    \o (IF wpc \in {"made", "keep", "answer", "keep answer"} THEN hand ELSE <<>>)
    \o ahand

\* While the connection is open no byte is lost or sent twice, although the
\* worker reads sd, sends and deletes from sd in three steps, with no lock,
\* while apps send on the same socket and put more into sd.
EachOnce ==
  wpc # "closed" =>
    \A s \in Sources :
      LET got == wire[s] \o Of(s, Unsent) IN
        Len(got) = 2 * made[s] /\ Range(got) = {<<s, n>> : n \in 1..(2 * made[s])}

\* The peer gets the bytes of each source in the order they were made: nothing
\* that is sent directly overtakes what the same source has waiting in sd.
InOrder ==
  \A s \in Sources : wire[s] = [i \in 1..Len(wire[s]) |-> <<s, i>>]
=============================================================================
