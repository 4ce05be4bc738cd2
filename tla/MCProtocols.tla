---------------------------- MODULE MCProtocols ----------------------------
(***************************************************************************)
(* A TLC instance of the protocols of the storm server.  Each behaviour is *)
(* one of one of them, the subject, and the others stay as they are        *)
(* initially.                                                              *)
(***************************************************************************)
EXTENDS HttpConnection, WebSocket, ProxyPair

VARIABLE subject

vars == <<httpVars, wsVars, proxyVars, subject>>

Init ==
  /\ subject \in {"http", "websocket", "proxy", "early"}
  /\ HttpInit /\ WebSocketInit /\ ProxyInit
  /\ subject # "websocket" => /\ reader = CHOOSE r \in Readers : TRUE
                              /\ stream = CHOOSE s \in Streams : TRUE
  /\ subject = "early" => kind = "socks"
  /\ subject \in {"http", "websocket"} => kind = (CHOOSE k \in Kinds : TRUE) /\ connected

OfHttp == UNCHANGED <<subject, wsVars, proxyVars>>
OfWebSocket == UNCHANGED <<subject, httpVars, proxyVars>>
OfProxy == UNCHANGED <<subject, httpVars, wsVars>>

Http == subject = "http" /\ HttpNext /\ OfHttp
WebSockets == subject = "websocket" /\ WebSocketNext /\ OfWebSocket

\* Of a pair either each side says one byte and there may be a stranger, or only the
\* server says some, so that it may speak, be refused, and speak again.
Pair == subject \in {"proxy", "early"} /\ OfProxy
Proxy ==
  /\ ProxyNext /\ Pair
  /\ IF subject = "early" THEN UNCHANGED stranger /\ said'["client"] = 0
                          ELSE said'["server"] <= 1

\* Programs that say nothing more, and connections that are closed.
Rests == UNCHANGED vars

Next == Http \/ WebSockets \/ Proxy \/ Rests

\* A worker goes on with its pass, and the poller reports in the end what stays
\* there: bytes to read, an end, room to send in.  A connection to nobody is silent
\* until it times out.
Fairness ==
  /\ WF_vars(subject = "http" /\ Work /\ OfHttp)
  /\ WF_vars(subject = "http" /\ (\E in, out \in BOOLEAN : Event(in, out)) /\ OfHttp)
  /\ WF_vars(subject = "http" /\ Say /\ OfHttp)
  /\ WF_vars(subject = "http" /\ PeerReads /\ OfHttp)
  /\ \A x \in Sides :
       /\ WF_vars((Turn(x) \/ (x = "client" /\ Joins)) /\ Pair)
       /\ WF_vars((\E out \in BOOLEAN : Polled(x, TRUE, out)) /\ Pair)
       /\ WF_vars((\E in \in BOOLEAN : Polled(x, in, TRUE)) /\ Pair)
  /\ WF_vars(~connected /\ TimesOut("server") /\ Pair)

Spec == Init /\ [][Next]_vars /\ Fairness

------------------------------------------------------------------------------
Request(what, keep, body) == [what |-> what, keep |-> keep, body |-> body]
SomeRequests ==
  {Request("file", TRUE, 0), Request("empty", TRUE, 0), Request("text", TRUE, 2),
   Request("file", FALSE, 0), Request("big", TRUE, 3)}

Frame(op, size) == [op |-> op, size |-> size]
SomeStreams ==
  {<<Frame("text", 7), Frame("ping", 6), Frame("close", 6), Frame("text", 7)>>,
   <<Frame("ping", 2), Frame("text", 5)>>,
   <<Frame("text", 12), Frame("text", 7)>>,
   <<Frame("text", 9), Frame("text", 6)>>}

FewBytes == [x \in Sides |-> IF x = "server" THEN 2 ELSE 1]

ProtocolsTypeOK == HttpTypeOK /\ WebSocketTypeOK /\ ProxyTypeOK
=============================================================================
