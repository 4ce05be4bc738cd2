------------------------------ MODULE ProxyPair ------------------------------
(***************************************************************************)
(* Two connections of the storm core joined by a proxy: the client's and   *)
(* the one its handler makes to a server (listen_http::AnalysSend with     *)
(* ProxyPass, listen_proxy::AnalysHead for SOCKS5).  Each has its own      *)
(* worker passes (StormCore::WorkDo); what one reads is sent on the other  *)
(* with storm_socket::SendData, and the end of one closes the other from   *)
(* storm_stop.  The new connection tells the handler's through the static  *)
(* variable static_con that storm_setsock of ANY connection looks at; the  *)
(* stranger is one of the same class that the acceptor adds meanwhile.     *)
(* A byte is <<side, number>>.  Either program speaks when it likes: in    *)
(* SOCKS5 a pass over the server's connection before its state is PROXY    *)
(* takes what it reads for a request, answers it with the error page and   *)
(* is going to close.  (No server's first byte is taken for a version of   *)
(* SOCKS.)  The page is one piece; where it stands in sd is left out.      *)
(* The address of a ProxyPass may name no host: then http adds descriptor  *)
(* 0, whose own events are left out.                                       *)
(***************************************************************************)
EXTENDS Integers, SequencesExt

CONSTANTS Kinds,       \* {"http", "socks"}: listen_http, listen_proxy
          MaxSaid,     \* bound: bytes of each side, [Sides -> Nat]
          FlushSz      \* STORMSERVER_STACK_BUFF: bytes of sd one pass may send

Sides == {"client", "server"}

ASSUME ProxyAssumption ==
  /\ Kinds \subseteq {"http", "socks"}
  /\ MaxSaid \in [Sides -> Nat] /\ FlushSz \in Nat \ {0}

Other(x) == IF x = "client" THEN "server" ELSE "client"

VARIABLES
  kind, connected,       \* connected: ConIp::Connect() gave a socket
  said, ended,           \* the two programs: bytes they sent, have they closed
  kernel,                \* bytes of them the core has still to read
  wires,                 \* what send() took for each of them
  states,                \* wstat: "none", "head", "proxy"; "gone": deleted
  rds, wrs, cls, sds,    \* storm_socket_data of each
  page,                  \* the server's sd holds the error page too
  ppc, hands, skips,     \* WorkDo of each: where, what rv and the view of
                         \*   storm_recv hold, did a half of it return -1
  staticCon, listLock,   \* static_con # 0; the handler has storm_items_list
  sock,                  \* whom the client's storm_socket names
  stranger, strangerGot  \* its state, and what was sent to it

progVars == <<said, ended>>
dataVars == <<rds, wrs, cls, sds, page>>
turnVars == <<ppc, hands, skips>>
addVars == <<staticCon, listLock, sock, stranger>>
pairVars == <<kind, connected>>
proxyVars == <<pairVars, progVars, kernel, wires, states, dataVars, turnVars, addVars, strangerGot>>

Each(v) == [x \in Sides |-> v]

\* The handler of the client's connection has its request.
ProxyInit ==
  /\ kind \in Kinds /\ connected \in BOOLEAN
  /\ kind = "socks" => connected
  /\ said = Each(0) /\ ended = Each(FALSE) /\ kernel = Each(<<>>) /\ wires = Each(<<>>)
  /\ states = [client |-> "head", server |-> "none"]
  /\ rds = Each(0) /\ wrs = Each(0) /\ cls = Each(FALSE) /\ sds = Each(<<>>)
  /\ page = FALSE
  /\ ppc = [client |-> "connect", server |-> "idle"] /\ hands = Each(<<>>) /\ skips = Each(FALSE)
  /\ staticCon = FALSE /\ listLock = FALSE /\ sock = "none"
  /\ stranger = "none" /\ strangerGot = <<>>

Upto(seq, n) == SubSeq(seq, 1, n)
Beyond(seq, n) == SubSeq(seq, n + 1, Len(seq))
Open(x) == states[x] \in {"head", "proxy"}
Set(f, x, v) == [f EXCEPT ![x] = v]

------------------------------------------------------------------------------
(* The two programs                                                        *)

\* What they say to a connection that is no more is lost, and left out.
There(x) == states[x] # "gone" /\ (x = "server" => connected)

Says(x) ==
  /\ There(x) /\ ~ended[x] /\ said[x] < MaxSaid[x]
  /\ said' = [said EXCEPT ![x] = @ + 1]
  /\ kernel' = [kernel EXCEPT ![x] = Append(@, <<x, said'[x]>>)]
  /\ UNCHANGED <<pairVars, ended, wires, states, dataVars, turnVars, addVars, strangerGot>>

Ends(x) ==
  /\ There(x) /\ ~ended[x] /\ ended' = Set(ended, x, TRUE)
  /\ UNCHANGED <<pairVars, said, kernel, wires, states, dataVars, turnVars, addVars, strangerGot>>

------------------------------------------------------------------------------
(* Making the pair: a handler with storm_items_list                        *)

Joining == ppc["client"] \in {"connect", "add", "tell"}

\* con = static_storm_new(); con->socket = wel; static_con = this.  Before it,
\* listen_proxy answers a failed Connect(); listen_http does not look at it.
TakeStatic ==
  /\ ppc["client"] = "connect" /\ ~listLock
  /\ listLock' = TRUE /\ staticCon' = TRUE /\ ppc' = Set(ppc, "client", "add")
  /\ UNCHANGED <<pairVars, progVars, kernel, wires, states, dataVars, hands, skips, sock, stranger, strangerGot>>

\* storm_setsock: whoever is added while static_con is set is its partner; the
\* handle to a connection with descriptor 0 is a handle to none.
Tell(con) ==
  sock' = IF ~staticCon THEN sock
          ELSE IF con = "server" /\ ~connected THEN "none" ELSE con

\* StormAddSock: NewSocketData under socket_free_lock; from here on the
\* connection may have passes.
AddServer ==
  /\ ppc["client"] = "add"
  /\ states' = Set(states, "server", IF kind = "http" THEN "proxy" ELSE "head")
  /\ Tell("server")
  /\ ppc' = Set(ppc, "client", "tell")
  /\ UNCHANGED <<pairVars, progVars, kernel, wires, dataVars, hands, skips, staticCon, listLock, stranger, strangerGot>>

\* The kernel takes n bytes, the rest goes into sd.
Put(y, line, n) ==
  /\ wires' = [wires EXCEPT ![y] = @ \o Upto(line, n)]
  /\ sds' = [sds EXCEPT ![y] = @ \o Beyond(line, n)]
  /\ UNCHANGED page

Paged(x) == x = "server" /\ page

\* StormSendData: what the kernel takes goes at once if nothing waits in sd.
SendTo(y, line) ==
  \E n \in IF sds[y] = <<>> /\ ~Paged(y) THEN 0..Len(line) ELSE {0} :
    Put(y, line, n) /\ wrs' = IF n < Len(line) THEN Set(wrs, y, 0) ELSE wrs

\* storm_work_el::send: at once in any case.
SendHere(x, line) ==
  \E n \in 0..Len(line) : Put(x, line, n) /\ wrs' = Set(wrs, x, 0)

\* A handle to a connection that is no more sends nothing.
SendBySock(line) ==
  IF sock = "server" /\ Open("server")
  THEN SendTo("server", line) /\ UNCHANGED strangerGot
  ELSE /\ strangerGot' = IF sock = "stranger" THEN strangerGot \o line ELSE strangerGot
       /\ UNCHANGED <<wires, sds, wrs, page>>

\* static_con = 0; http sends the request to the server, socks a reply to the
\* client; both are PROXY, and the loop of storm_recv goes on with the view.
Joined ==
  /\ ppc["client"] = "tell"
  /\ staticCon' = FALSE /\ listLock' = FALSE
  /\ IF kind = "http" THEN SendBySock(<<<<"client", 0>>>>)
                      ELSE SendHere("client", <<<<"server", 0>>>>) /\ UNCHANGED strangerGot
  /\ states' = [x \in Sides |-> IF Open(x) THEN "proxy" ELSE states[x]]
  /\ ppc' = Set(ppc, "client", "relay")
  /\ UNCHANGED <<pairVars, progVars, kernel, rds, cls, hands, skips, sock, stranger>>

\* The acceptor: storm_new() takes storm_items_list, StormAddSock does not.  One
\* stranger after the other, until one is taken for a partner; those that come
\* when the pair is made, with static_con = 0, are left out, and so is the end of it.
StrangerNew ==
  /\ stranger = "none" /\ ~listLock /\ Joining /\ stranger' = "new"
  /\ UNCHANGED <<pairVars, progVars, kernel, wires, states, dataVars, turnVars, staticCon, listLock, sock, strangerGot>>

StrangerAdded ==
  /\ stranger = "new" /\ Tell("stranger")
  /\ stranger' = IF staticCon THEN "taken" ELSE "none"
  /\ UNCHANGED <<pairVars, progVars, kernel, wires, states, dataVars, turnVars, staticCon, listLock, strangerGot>>

------------------------------------------------------------------------------
(* WorkDo                                                                  *)

At(x, pc) == ppc[x] = pc /\ Open(x)
Goes(x, pc) == ppc' = Set(ppc, x, pc)

Polled(x, in, out) ==
  /\ At(x, "idle") /\ There(x) /\ (in \/ out)
  /\ in => kernel[x] # <<>> \/ ended[x]
  /\ out => wrs[x] = 0
  /\ rds' = IF in THEN Set(rds, x, 1) ELSE rds
  /\ wrs' = IF out THEN Set(wrs, x, 1) ELSE wrs
  /\ Goes(x, "send") /\ skips' = Set(skips, x, FALSE)
  /\ UNCHANGED <<pairVars, progVars, kernel, wires, states, cls, sds, page, hands, addVars, strangerGot>>

\* The timeout scan hands out a connection that was silent too long: a pass that
\* has nothing to send or to read, and storm_timeout closes.
TimesOut(x) ==
  /\ At(x, "idle")
  /\ cls' = Set(cls, x, TRUE) /\ skips' = Set(skips, x, TRUE) /\ Goes(x, "end")
  /\ UNCHANGED <<pairVars, progVars, kernel, wires, states, rds, wrs, sds, page, hands, addVars, strangerGot>>

\* WorkDoSend with bytes in sd: as many as the kernel takes.
Flush(x) ==
  /\ At(x, "send") /\ wrs[x] = 1 /\ (sds[x] # <<>> \/ Paged(x))
  /\ \E n \in 0..FlushSz, ofPage \in BOOLEAN :
       /\ n <= Len(sds[x]) /\ (IF ofPage THEN Paged(x) /\ n < FlushSz ELSE n > 0)
       /\ page' = (page /\ ~ofPage)
       /\ wires' = [wires EXCEPT ![x] = @ \o Upto(sds[x], n)]
       /\ sds' = [sds EXCEPT ![x] = Beyond(@, n)]
  /\ wrs' = Set(wrs, x, 0) /\ Goes(x, "recv")
  /\ UNCHANGED <<pairVars, progVars, kernel, states, rds, cls, hands, skips, addVars, strangerGot>>

\* WorkDoSend otherwise: 1, or -1 of storm_send.
NoFlush(x) ==
  /\ At(x, "send") /\ (wrs[x] = 0 \/ (sds[x] = <<>> /\ ~Paged(x)))
  /\ skips' = Set(skips, x, wrs[x] = 1) /\ Goes(x, "recv")
  /\ UNCHANGED <<pairVars, progVars, kernel, wires, states, dataVars, hands, addVars, strangerGot>>

ReadNothing(x) ==
  /\ At(x, "recv") /\ rds[x] = 0
  /\ skips' = Set(skips, x, TRUE) /\ Goes(x, "end")
  /\ UNCHANGED <<pairVars, progVars, kernel, wires, states, dataVars, hands, addVars, strangerGot>>

\* Slip: what rv held is forgotten.
ReadsAfresh(x) ==
  /\ At(x, "recv") /\ rds[x] = 1 /\ kernel[x] # <<>>
  /\ hands' = Set(hands, x, kernel[x]) /\ kernel' = Set(kernel, x, <<>>)
  /\ Goes(x, "relay")
  /\ UNCHANGED <<pairVars, progVars, wires, states, dataVars, skips, addVars, strangerGot>>

\* What recv() gives follows what the handler left in rv.
Reads(x) ==
  /\ At(x, "recv") /\ rds[x] = 1 /\ kernel[x] # <<>>
  /\ hands' = Set(hands, x, hands[x] \o kernel[x]) /\ kernel' = Set(kernel, x, <<>>)
  /\ Goes(x, "relay")
  /\ UNCHANGED <<pairVars, progVars, wires, states, dataVars, skips, addVars, strangerGot>>

\* recv() returned 0.
ReadsEnd(x) ==
  /\ At(x, "recv") /\ rds[x] = 1 /\ kernel[x] = <<>>
  /\ Goes(x, "delete")
  /\ UNCHANGED <<pairVars, progVars, kernel, wires, states, dataVars, hands, skips, addVars, strangerGot>>

\* AnalysHead, before con->wstat = PROXY: the server's bytes are no request.
ReadsHead ==
  /\ At("server", "relay") /\ states["server"] = "head" /\ Goes("server", "refuse")
  /\ UNCHANGED <<pairVars, progVars, kernel, wires, states, dataVars, hands, skips, addVars, strangerGot>>

\* SendError sends the page to the one that spoke and closes; none of the bytes
\* counts as read, and rv keeps them.
SendError ==
  /\ At("server", "refuse")
  /\ page' \in {page, TRUE} /\ wrs' = Set(wrs, "server", 0)
  /\ cls' = Set(cls, "server", TRUE) /\ rds' = Set(rds, "server", 0) /\ Goes("server", "end")
  /\ UNCHANGED <<pairVars, progVars, kernel, wires, states, sds, hands, skips, addVars, strangerGot>>

PartnerOpen(x) == IF x = "server" THEN Open("client")
                  ELSE sock = "stranger" \/ (sock = "server" /\ Open("server"))

\* A handle to none refuses even the empty view that http sends on after joining.
Declined(x) == ~PartnerOpen(x) /\ (hands[x] # <<>> \/ (x = "client" /\ sock = "none"))

\* case PROXY, AnalysProxy: SendData of the view, or close.
Relay(x) ==
  /\ At(x, "relay") /\ states[x] = "proxy"
  /\ IF x = "client" THEN SendBySock(hands[x])
     ELSE /\ UNCHANGED strangerGot
          /\ IF Open("client") THEN SendTo("client", hands[x]) ELSE UNCHANGED <<wires, sds, wrs, page>>
  /\ cls' = Set(cls, x, cls[x] \/ Declined(x))
  /\ hands' = Set(hands, x, <<>>) /\ rds' = Set(rds, x, 0) /\ Goes(x, "end")
  /\ UNCHANGED <<pairVars, progVars, kernel, states, skips, addVars>>

\* The verdict: with a close pending, a pass in which a half had nothing to do
\* ends the connection, whatever sd still holds.
EndOfPass(x) ==
  /\ At(x, "end")
  /\ Goes(x, IF cls[x] /\ skips[x] THEN "delete" ELSE "idle") /\ skips' = Set(skips, x, FALSE)
  /\ UNCHANGED <<pairVars, progVars, kernel, wires, states, dataVars, hands, addVars, strangerGot>>

\* Slip: the partner is not closed.
CloseNobody(x) == FALSE

\* storm_stop: does the CloseSocket() of x's handle reach the other of the pair?
CloseSocket(x) == PartnerOpen(x) /\ (x = "client" => sock = "server")

\* DelSocketData: closesocket, storm_stop, clean(); a partner that is to close is
\* polled again.
Deleted(x) ==
  /\ At(x, "delete")
  /\ states' = Set(states, x, "gone")
  /\ cls' = [y \in Sides |-> y # x /\ (cls[y] \/ CloseSocket(x))]
  /\ wrs' = [y \in Sides |-> IF y = x \/ CloseSocket(x) THEN 0 ELSE wrs[y]]
  /\ rds' = Set(rds, x, 0) /\ sds' = Set(sds, x, <<>>) /\ page' = (page /\ x # "server")
  /\ hands' = Set(hands, x, <<>>) /\ kernel' = Set(kernel, x, <<>>) /\ Goes(x, "idle")
  /\ UNCHANGED <<pairVars, progVars, wires, skips, addVars, strangerGot>>

Turn(x) ==
  \/ Flush(x) \/ NoFlush(x) \/ ReadNothing(x) \/ Reads(x) \/ ReadsEnd(x)
  \/ Relay(x) \/ (x = "server" /\ (ReadsHead \/ SendError))
  \/ EndOfPass(x) \/ Deleted(x)

Joins == TakeStatic \/ AddServer \/ Joined

ProxyNext ==
  \/ Joins \/ StrangerNew \/ StrangerAdded
  \/ \E x \in Sides :
       \/ Says(x) \/ Ends(x) \/ TimesOut(x) \/ Turn(x)
       \/ \E in, out \in BOOLEAN : Polled(x, in, out)

ProxySpec == ProxyInit /\ [][ProxyNext]_proxyVars

------------------------------------------------------------------------------
(* Properties                                                              *)

ProxyTypeOK ==
  /\ kind \in Kinds /\ connected \in BOOLEAN
  /\ \A x \in Sides : said[x] \in 0..MaxSaid[x]
  /\ ended \in [Sides -> BOOLEAN]
  /\ states \in [Sides -> {"none", "head", "proxy", "gone"}]
  /\ rds \in [Sides -> 0..1] /\ wrs \in [Sides -> 0..1] /\ cls \in [Sides -> BOOLEAN]
  /\ page \in BOOLEAN
  /\ ppc \in [Sides -> {"idle", "connect", "add", "tell", "relay", "refuse", "send", "recv",
                        "end", "delete"}]
  /\ skips \in [Sides -> BOOLEAN] /\ staticCon \in BOOLEAN /\ listLock \in BOOLEAN
  /\ sock \in {"none", "server", "stranger"}
  /\ stranger \in {"none", "new", "taken"}

\* What x's partner is to get: the request or the reply of the proxy, and all x said.
Told(x) ==
  (IF (kind = "http") = (x = "client") THEN <<<<x, 0>>>> ELSE <<>>)
    \o [i \in 1..said[x] |-> <<x, i>>]

\* The client's connection took a stranger for its server.
Strayed(x) == x = "client" /\ sock = "stranger"

Reached(x) == IF Strayed(x) THEN strangerGot ELSE wires[Other(x)]
Waiting(x) == IF Strayed(x) THEN <<>> ELSE sds[Other(x)]
Linked(x) == Strayed(x) \/ (connected /\ Open(Other(x)))

\* What reaches x's partner is a beginning of what x said, once and in order, however
\* early x spoke; and while both connections are open, the rest is in sd, in rv or the
\* hands of a handler, or in the kernel.  One of a stranger and the server gets all
\* that the client says, the other nothing.
Relayed ==
  /\ \/ strangerGot = <<>>
     \/ sock = "stranger" /\ wires["server"] = <<>> /\ sds["server"] = <<>>
  /\ \A x \in Sides : IsPrefix(Reached(x), Told(x))
  /\ ~Joining =>
       \A x \in Sides : Open(x) /\ Linked(x) =>
         Told(x) = Reached(x) \o Waiting(x) \o hands[x] \o kernel[x]

\* The end of one connection is in the end that of the other: also when the server
\* closes, or was refused, before its handler is done with adding it, and when it was
\* never reached.  Not of one that took a stranger for its partner.
EndsTogether ==
  sock # "stranger" /\ (\E x \in Sides : states[x] = "gone")
    ~> sock = "stranger" \/ (\A x \in Sides : states[x] = "gone")
=============================================================================
