------------------------------ MODULE StormWork ------------------------------
(***************************************************************************)
(* One pass of StormCore::WorkDo over a connection (storm-core.h:1145):    *)
(* first WorkDoSend, then WorkDoRecv, then the decision to close.  The     *)
(* connection is the record io of the fields of storm_socket_data that     *)
(* WorkDo and the socket handles share:                                    *)
(*   rd  0..3   bit 0: readable, bit 1: reading is stopped                 *)
(*   wr  0..1   1: writable                                                *)
(*   cl         AIFOP_CLOSE is set                                         *)
(*   q          bytes waiting in sd, counted up to QMax                    *)
(* Each phase is the set of its outcomes: the kernel may take all, some or *)
(* none of the bytes or fail, and the protocol handler may do what the     *)
(* records in Handlers say.                                                *)
(***************************************************************************)
EXTENDS Integers

CONSTANTS QMax,       \* bound on the bytes counted in sd
          Handlers    \* effects a protocol handler may have on storm_work_el

\* A handler may send (leaving some bytes unsent: -1 is no send at all), stop
\* or resume reading (dread, eread) and close.
HandlerEffects == [send : {-1, 0, 1}, eread : {-1, 0, 1}, close : BOOLEAN]

ASSUME WorkAssumption == QMax \in Nat \ {0} /\ Handlers \subseteq HandlerEffects

IoStates == [rd : 0..3, wr : 0..1, cl : BOOLEAN, q : 0..QMax]

NewIo == [rd |-> 0, wr |-> 0, cl |-> FALSE, q |-> 0]

\* What WorkDo carries from its first phase to its decision: the status of
\* WorkDoSend and wel.s_close.
Phases == [st : {-1, 0, 1}, close : BOOLEAN]

NoPhase == [st |-> 1, close |-> FALSE]

Readable(io) == io.rd \in {1, 3}
Stopped(io) == io.rd \in {2, 3}

\* sd.Set of k bytes, the queue counted up to QMax.
Queue(io, k) == [io EXCEPT !.q = IF @ + k > QMax THEN QMax ELSE @ + k]

\* el->cl |= AIFOP_CLOSE
Closed(io) == [io EXCEPT !.cl = TRUE]

\* storm_work_el::send: the socket takes what it takes, sd the rest.
HandlerSend(io, h) ==
  IF h.send = -1 THEN io ELSE [Queue(io, h.send) EXCEPT !.wr = 0]

\* Slip: rd += 3 for rd |= 3.
ResumeReadAdds(io, h) == IF h.eread > 0 THEN [io EXCEPT !.rd = @ + 3] ELSE io

\* if(wel.s_eread > 0) el->rd |= 3, asked after the send phase only.
ResumeRead(io, h) == IF h.eread > 0 THEN [io EXCEPT !.rd = 3] ELSE io

\* if(wel.s_eread < 0) el->rd |= 2, asked after the receive phase only.
StopRead(io, h) ==
  IF h.eread < 0 THEN [io EXCEPT !.rd = IF Readable(io) THEN 3 ELSE 2] ELSE io

------------------------------------------------------------------------------
\* WorkDoSend with bytes waiting: sent in part or in full, not now
\* (OPENSSL_RECV_WAIT), or the socket failed.
SendQueued(io) ==
  {[io |-> [io EXCEPT !.wr = 0, !.q = k], st |-> 1, close |-> FALSE] : k \in 0..io.q}
    \cup {[io |-> Closed(io), st |-> 0, close |-> FALSE]}

\* WorkDoSend with nothing waiting: storm_send has no bytes (-1), or its bytes
\* are sent in full or in part, or the socket failed.
HandlerOutcomes(io, h) ==
  LET done == HandlerSend(io, h) IN
    {[io |-> ResumeRead(done, h), st |-> -1, close |-> h.close]}
      \cup {[io |-> ResumeRead([Queue(done, k) EXCEPT !.wr = 0], h),
             st |-> 1, close |-> h.close] : k \in 0..1}
      \cup {[io |-> ResumeRead(Closed(done), h), st |-> 0, close |-> h.close]}

SendHandler(io) == UNION {HandlerOutcomes(io, h) : h \in Handlers}

SendPhase(io) ==
  IF io.wr = 0 THEN {[io |-> io, st |-> 1, close |-> FALSE]}
  ELSE IF io.q > 0 THEN SendQueued(io) ELSE SendHandler(io)

------------------------------------------------------------------------------
\* storm_recv was called: el->rd = 0, then a dread() stops reading.
RecvHandler(io) ==
  {[io |-> StopRead([HandlerSend(io, h) EXCEPT !.rd = 0], h), st |-> 1, close |-> h.close]
   : h \in Handlers}

\* WorkDoRecv: nothing readable (-1); recv would block (-1); end of file, an
\* error or more saved bytes than the buffer holds (0); or the handler ran (1).
\* With reading stopped the handler is given the saved bytes, without a recv.
RecvPhase(io) ==
  IF ~Readable(io) THEN {[io |-> io, st |-> -1, close |-> FALSE]}
  ELSE RecvHandler(io)
         \cup {[io |-> Closed(io), st |-> 0, close |-> FALSE]}
         \cup IF Stopped(io) THEN {}
              ELSE {[io |-> [io EXCEPT !.rd = 0], st |-> -1, close |-> FALSE]}

\* s_close after both phases: 1 close now, -1 close if asked to, 0 go on.
Verdict(sendSt, recvSt) ==
  IF sendSt = 0 \/ recvSt = 0 THEN 1
  ELSE IF sendSt = -1 \/ recvSt = -1 THEN -1 ELSE 0

\* storm_timeout closes; that of listen_xml2s sends a ping instead.
TimeoutEffects ==
  {[send |-> -1, eread |-> 0, close |-> TRUE]}
    \cup {[send |-> k, eread |-> 0, close |-> FALSE] : k \in 0..1}

\* No timeout is no effect.
OnTime == {[send |-> -1, eread |-> 0, close |-> FALSE]}

\* The end of WorkDo: wel.close() of any handler sets AIFOP_CLOSE, and a
\* verdict of -1 with it deletes the connection.
Finish(sent, got, t) ==
  LET done == HandlerSend(got.io, t)
      io == IF sent.close \/ got.close \/ t.close THEN Closed(done) ELSE done
      v == Verdict(sent.st, got.st)
  IN [io |-> io, delete |-> v = 1 \/ (v = -1 /\ io.cl)]

RecvOutcomes(io, sent, timedOut) ==
  {Finish(sent, got, t) :
     got \in RecvPhase(io), t \in IF timedOut THEN TimeoutEffects ELSE OnTime}
=============================================================================
