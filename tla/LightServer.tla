---------------------------- MODULE LightServer ----------------------------
(***************************************************************************)
(* Class LightServer (server/light/light.h) with a thread for each         *)
(* connection, as LightServerHttp and LightServerWebsocket run it: Listen  *)
(* accepts, counts and starts a thread, which serves, closes the socket    *)
(* and counts down.  What is said on a connection is in WebSocket.         *)
(***************************************************************************)
EXTENDS Integers, FiniteSets

CONSTANTS
  Clients,      \* connections that come
  Descriptors,  \* numbers the kernel gives to accepted sockets
  MaxConnect,   \* max_connect, 0 for no limit
  MaxListens,   \* bound: calls of Listen
  Listener,     \* the thread in Listen
  NoHolder      \* nobody, no connection

ASSUME LightAssumption ==
  /\ MaxConnect \in Nat /\ MaxListens \in Nat
  /\ IsFiniteSet(Clients) /\ Listener \notin Clients /\ NoHolder \notin Clients \cup {Listener}

VARIABLES
  lightAt,        \* where Listen is
  listens,        \* calls of Listen
  portOpen,       \* a listening socket holds the port
  stopserver,
  backlog,        \* connections that wait for accept()
  socks,          \* what accept() returned; NoHolder for -1
  count_connect,
  holder,         \* who holds lock
  loaded,         \* count_connect as the holder has read it, 0 when nobody holds
  phase,          \* of a connection
  sock,           \* acc.sock
  owner,          \* whose socket a descriptor is
  strays          \* threads that serve the socket -1

lightVars == <<lightAt, listens, portOpen, stopserver, backlog, socks,
               count_connect, holder, loaded, phase, sock, owner, strays>>
countVars == <<count_connect, holder, loaded>>
clientVars == <<backlog, phase, sock, owner>>

LightInit ==
  /\ lightAt = "out" /\ listens = 0 /\ portOpen = FALSE /\ stopserver = FALSE
  /\ backlog = {} /\ socks = NoHolder /\ strays = 0
  /\ count_connect = 0 /\ holder = NoHolder /\ loaded = 0
  /\ phase = [c \in Clients |-> "new"] /\ sock = [c \in Clients |-> NoHolder]
  /\ owner = [f \in Descriptors |-> NoHolder]

At(from, to) == lightAt = from /\ lightAt' = to

\* closesocket by number, whoever the number is of now.
CloseSocket(c) ==
  /\ owner' = [owner EXCEPT ![sock[c]] = NoHolder]
  /\ sock' = [sock EXCEPT ![c] = NoHolder]

------------------------------------------------------------------------------
(* Clients, and the program                                                *)

Connect(c) ==
  /\ portOpen /\ phase[c] = "new"
  /\ phase' = [phase EXCEPT ![c] = "waiting"] /\ backlog' = backlog \cup {c}
  /\ UNCHANGED <<lightAt, listens, portOpen, stopserver, socks, countVars, sock, owner, strays>>

StopServer ==
  /\ ~stopserver /\ stopserver' = TRUE
  /\ UNCHANGED <<lightAt, listens, portOpen, socks, countVars, clientVars, strays>>

------------------------------------------------------------------------------
(* Listen                                                                  *)

\* cip.Listen(): a listening socket that nobody closed keeps the port, and
\* Listen returns.
Open ==
  /\ listens < MaxListens /\ listens' = listens + 1
  /\ lightAt = "out"
  /\ lightAt' = IF portOpen THEN "out" ELSE "opened"
  /\ portOpen' = TRUE
  /\ UNCHANGED <<stopserver, socks, countVars, clientVars, strays>>

\* stopserver = 0: what StopServer asked before is forgotten.
RunServer ==
  /\ At("opened", "while") /\ stopserver' = FALSE
  /\ UNCHANGED <<listens, portOpen, socks, countVars, clientVars, strays>>

\* while(!stopserver); the listening socket stays open.
While ==
  /\ lightAt = "while"
  /\ lightAt' = IF stopserver THEN "out" ELSE "select"
  /\ UNCHANGED <<listens, portOpen, stopserver, socks, countVars, clientVars, strays>>

\* A timeout clears rfds; a signal leaves it as it was, and accept() may wait.
Select ==
  /\ At("select", "accept") \/ (backlog = {} /\ At("select", "while"))
  /\ UNCHANGED <<listens, portOpen, stopserver, socks, countVars, clientVars, strays>>

AcceptGives(c, f) ==
  /\ At("accept", "test") /\ c \in backlog /\ owner[f] = NoHolder
  /\ socks' = c /\ backlog' = backlog \ {c}
  /\ phase' = [phase EXCEPT ![c] = "accepted"]
  /\ sock' = [sock EXCEPT ![c] = f] /\ owner' = [owner EXCEPT ![f] = c]
  /\ UNCHANGED <<listens, portOpen, stopserver, countVars, strays>>

\* socks <= 0: the listening socket goes, and the code goes on with socks.
AcceptFails ==
  /\ At("accept", "test")
  /\ socks' = NoHolder /\ portOpen' = FALSE /\ stopserver' = TRUE
  /\ backlog' = {}
  /\ phase' = [c \in Clients |-> IF c \in backlog THEN "refused" ELSE phase[c]]
  /\ UNCHANGED <<listens, countVars, sock, owner, strays>>

\* Read without the lock.
AtLimit == MaxConnect # 0 /\ MaxConnect <= count_connect

TurnAway ==
  /\ AtLimit /\ At("test", "while")
  /\ IF socks = NoHolder THEN UNCHANGED <<phase, sock, owner>>
     ELSE phase' = [phase EXCEPT ![socks] = "refused"] /\ CloseSocket(socks)
  /\ socks' = NoHolder
  /\ UNCHANGED <<listens, portOpen, stopserver, backlog, countVars, strays>>

\* Slip: the count is changed without the lock.
LockFreeAny == TRUE

LockFree == holder = NoHolder

\* UGLOCK(lock), and the load of the count.
LockCount(who) == LockFree /\ holder' = who /\ loaded' = count_connect

\* The store, and the lock goes at the end of the block.
StoreCount(d) == count_connect' = loaded + d /\ holder' = NoHolder /\ loaded' = 0

CountIn ==
  /\ ~AtLimit /\ At("test", "count") /\ LockCount(Listener)
  /\ UNCHANGED <<listens, portOpen, stopserver, socks, count_connect, clientVars, strays>>

\* count_connect ++, and Accept(acc) starts the thread.
StartServing ==
  /\ At("count", "while")
  /\ StoreCount(1) /\ socks' = NoHolder
  /\ IF socks = NoHolder THEN strays' = strays + 1 /\ UNCHANGED phase
     ELSE phase' = [phase EXCEPT ![socks] = "served"] /\ UNCHANGED strays
  /\ UNCHANGED <<listens, portOpen, stopserver, backlog, sock, owner>>

------------------------------------------------------------------------------
(* MCOT: the thread of a connection.  One with the socket -1 stays in the  *)
(* loop of AcceptData: ifrecv(-1) says no for ever.                        *)

Turns(c, from, to) == phase[c] = from /\ phase' = [phase EXCEPT ![c] = to]

EndServing(c) ==
  /\ Turns(c, "served", "closed") /\ CloseSocket(c)
  /\ UNCHANGED <<lightAt, listens, portOpen, stopserver, backlog, socks, countVars, strays>>

LockOut(c) ==
  /\ Turns(c, "closed", "counting") /\ LockCount(c)
  /\ UNCHANGED <<lightAt, listens, portOpen, stopserver, backlog, socks, count_connect, sock, owner, strays>>

CountOut(c) ==
  /\ Turns(c, "counting", "ended")
  /\ StoreCount(-1)
  /\ UNCHANGED <<lightAt, listens, portOpen, stopserver, backlog, socks, sock, owner, strays>>

LightNext ==
  \/ Open \/ RunServer \/ StopServer \/ While \/ Select
  \/ AcceptFails \/ TurnAway \/ CountIn \/ StartServing
  \/ \E c \in Clients :
       \/ Connect(c) \/ EndServing(c) \/ LockOut(c) \/ CountOut(c)
       \/ \E f \in Descriptors : AcceptGives(c, f)

LightSpec == LightInit /\ [][LightNext]_lightVars

------------------------------------------------------------------------------
(* Properties                                                              *)

LightTypeOK ==
  /\ lightAt \in {"out", "opened", "while", "select", "accept", "test", "count"}
  /\ listens \in 0..MaxListens /\ portOpen \in BOOLEAN /\ stopserver \in BOOLEAN
  /\ backlog \subseteq Clients /\ socks \in Clients \cup {NoHolder}
  /\ count_connect \in Nat /\ loaded \in Nat /\ strays \in 0..MaxListens
  /\ holder \in Clients \cup {Listener, NoHolder}
  /\ phase \in [Clients -> {"new", "waiting", "accepted", "refused", "served",
                            "closed", "counting", "ended"}]
  /\ sock \in [Clients -> Descriptors \cup {NoHolder}]
  /\ owner \in [Descriptors -> Clients \cup {NoHolder}]

Counted == {c \in Clients : phase[c] \in {"served", "closed", "counting"}}

\* count_connect is right whenever nobody is changing it, in the presence of
\* threads that end while Listen counts up; it counts a thread for the socket -1
\* for ever.
CountRight == holder = NoHolder => count_connect = Cardinality(Counted) + strays

\* The limit holds although Listen reads the count without the lock: only Listen
\* counts up.
Limited == MaxConnect # 0 => Cardinality(Counted) + strays <= MaxConnect

\* A thread closes the socket it serves and no other: the number is free for
\* accept() before the thread has counted down, but never closed twice, and no
\* socket that was turned away stays open.
ClosesOwn ==
  /\ \A c \in Clients : phase[c] \in {"accepted", "served"} => owner[sock[c]] = c
  /\ \A f \in Descriptors :
       owner[f] # NoHolder => phase[owner[f]] \in {"accepted", "served"} /\ sock[owner[f]] = f

LightServerSound == CountRight /\ Limited /\ ClosesOwn
=============================================================================
