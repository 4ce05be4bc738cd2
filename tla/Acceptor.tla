------------------------------ MODULE Acceptor ------------------------------
(***************************************************************************)
(* The acceptor of a storm server (StormServer::Listen in storm-server.h): *)
(* one thread that opens the ports of the configuration, waits for them in *)
(* turns of at most MaxSelect sockets, takes one connection of each that   *)
(* is ready and gives it to the protocol that its port names.              *)
(* What becomes of a connection after StormAddSock is StormCore's.         *)
(***************************************************************************)
EXTENDS Integers, Sequences, FiniteSets, SequencesExt

CONSTANTS
  Peers,       \* who connects, each once
  PortProto,   \* cons[i].proto, a word of letters: LoadConf ends it at a space
  Registered,  \* protos: the names of InsertProto, in their order
  MaxSelect,   \* 32, the sockets of one select()
  MaxFailed    \* bound: calls of accept() that fail for now

Space == " "

\* A port that leaves it open who has its connections.
Anyone(text) == text \in {<<>>, <<"*">>}

ASSUME AcceptorAssumption ==
  /\ MaxSelect \in Nat \ {0, 1} /\ MaxFailed \in Nat
  /\ PortProto \in Seq(Seq(STRING)) /\ Registered \in Seq(Seq(STRING))
  /\ \A i \in DOMAIN PortProto : \A j \in DOMAIN PortProto[i] : PortProto[i][j] # Space
  /\ \A k \in DOMAIN Registered : ~Anyone(Registered[k])

\* The indices of cons.
Entries == 0..(Len(PortProto) - 1)
ProtoOf(i) == PortProto[i + 1]

VARIABLES
  accepting,  \* where the thread is: "open", "select", "scan", "ended"
  opened,     \* the entries with a socket
  conpos,     \* the first entry of this turn
  conpos2,    \* the entry where its scan stops
  ready,      \* rfds after select()
  peer,       \* of each peer: "away", "waiting", "added" or "closed"
  calledAt,   \* the entry it connected to
  given,      \* the index in protos of who has it, 0 if nobody
  failed      \* calls of accept() that failed

acceptVars ==
  <<accepting, opened, conpos, conpos2, ready, peer, calledAt, given, failed>>

AcceptInit ==
  /\ accepting = "open" /\ opened = {} /\ conpos = 0 /\ conpos2 = 0
  /\ ready = {} /\ failed = 0
  /\ peer = [p \in Peers |-> "away"] /\ calledAt = [p \in Peers |-> 0]
  /\ given = [p \in Peers |-> 0]

------------------------------------------------------------------------------
(* A protocol by name                                                      *)

FoundAt(text, name, p) ==
  p + Len(name) - 1 <= Len(text) /\ SubSeq(text, p, p + Len(name) - 1) = name

\* rtms: where the name is first found in the text, 0 if nowhere.
Found(text, name) ==
  LET at == {p \in 1..Len(text) : FoundAt(text, name, p)}
  IN  IF at = {} THEN 0 ELSE CHOOSE p \in at : \A q \in at : p <= q

\* A space or an end of the text is on either side of the name.
Whole(text, name, p) ==
  /\ p = 1 \/ text[p - 1] = Space
  /\ p + Len(name) = Len(text) + 1 \/ text[p + Len(name)] = Space

Matching(text) ==
  {k \in DOMAIN Registered :
     LET p == Found(text, Registered[k]) IN p > 0 /\ Whole(text, Registered[k], p)}

\* The first protocol for a port that names none, the last of those it names.
NewProtoEl(text) ==
  IF Anyone(text) THEN IF Registered = <<>> THEN 0 ELSE 1
  ELSE IF Matching(text) = {} THEN 0
  ELSE CHOOSE k \in Matching(text) : \A j \in Matching(text) : j <= k

------------------------------------------------------------------------------
(* The thread                                                              *)

\* A port that cannot be bound keeps the socket 0; with none the thread ends.
OpenPort ==
  /\ accepting = "open"
  /\ opened' \in SUBSET Entries
  /\ accepting' = IF opened' = {} THEN "ended" ELSE "select"
  /\ UNCHANGED <<conpos, conpos2, ready, peer, calledAt, given, failed>>

\* The sockets of a turn, and the entry at which the loop that sets them
\* stops: the last one it set, or the end of cons.
InTurn ==
  {i \in opened : i >= conpos
     /\ Cardinality({j \in opened : conpos <= j /\ j < i}) < MaxSelect}
StopsAt ==
  IF Cardinality(InTurn) < MaxSelect THEN Len(PortProto)
  ELSE CHOOSE i \in InTurn : \A j \in InTurn : j <= i

Waiting(i) == {p \in Peers : peer[p] = "waiting" /\ calledAt[p] = i}

\* FD_SET and select(), which returns after a second if nobody comes.
SelectTurn ==
  /\ accepting = "select"
  /\ conpos2' = StopsAt
  /\ ready' = {i \in InTurn : Waiting(i) # {}}
  /\ accepting' = "scan"
  /\ UNCHANGED <<opened, conpos, peer, calledAt, given, failed>>

\* select() fails, by a signal for example: nobody accepts any more.
SelectFails ==
  /\ accepting = "select"
  /\ accepting' = "ended"
  /\ UNCHANGED <<opened, conpos, conpos2, ready, peer, calledAt, given, failed>>

Scanned(i) == i \in ready /\ i < conpos2 /\ \A j \in ready : i <= j

\* accept() and Accept: a connection nobody is to have is closed.
AcceptOne ==
  /\ accepting = "scan"
  /\ \E i \in Entries : Scanned(i)
       /\ ready' = ready \ {i}
       /\ \E p \in Waiting(i) :
            LET k == NewProtoEl(ProtoOf(i)) IN
              /\ peer' = [peer EXCEPT ![p] = IF k = 0 THEN "closed" ELSE "added"]
              /\ given' = [given EXCEPT ![p] = k]
  /\ UNCHANGED <<accepting, opened, conpos, conpos2, calledAt, failed>>

\* No descriptor is left: the connection waits for a later turn.
TakeFails ==
  /\ accepting = "scan" /\ failed < MaxFailed
  /\ \E i \in Entries : Scanned(i) /\ ready' = ready \ {i}
  /\ failed' = failed + 1
  /\ UNCHANGED <<accepting, opened, conpos, conpos2, peer, calledAt, given>>

\* Slip: every turn begins with the first socket.
NextTurnFirst == 0

NextTurn == IF conpos2 = Len(PortProto) THEN 0 ELSE conpos2

\* What is ready at conpos2 is left to the next turn, which begins there.
TurnEnds ==
  /\ accepting = "scan" /\ \A i \in Entries : ~Scanned(i)
  /\ conpos' = NextTurn /\ accepting' = "select"
  /\ UNCHANGED <<opened, conpos2, ready, peer, calledAt, given, failed>>

\* A peer connects to a port that listens, whether anyone will accept or not.
PeerConnects(p) ==
  /\ peer[p] = "away"
  /\ \E i \in opened : calledAt' = [calledAt EXCEPT ![p] = i]
  /\ peer' = [peer EXCEPT ![p] = "waiting"]
  /\ UNCHANGED <<accepting, opened, conpos, conpos2, ready, given, failed>>

AcceptStep == OpenPort \/ SelectTurn \/ AcceptOne \/ TurnEnds

AcceptNext ==
  AcceptStep \/ SelectFails \/ TakeFails \/ \E p \in Peers : PeerConnects(p)

AcceptSpec == AcceptInit /\ [][AcceptNext]_acceptVars

------------------------------------------------------------------------------
AcceptTypeOK ==
  /\ accepting \in {"open", "select", "scan", "ended"}
  /\ opened \subseteq Entries /\ ready \subseteq opened
  /\ conpos \in Entries \cup {0} /\ conpos2 \in 0..Len(PortProto) /\ failed \in 0..MaxFailed
  /\ peer \in [Peers -> {"away", "waiting", "added", "closed"}]
  /\ calledAt \in [Peers -> Entries \cup {0}]
  /\ given \in [Peers -> 0..Len(Registered)]

\* A connection is with the protocol that has the name its port gives, the
\* last one if several do, or with the first of all when the port leaves it
\* open; it is closed only if there is none.  The search for a name anywhere
\* in the text must come to just that.
NamedProtocol ==
  \A p \in Peers :
    LET text == ProtoOf(calledAt[p])
        named == {k \in DOMAIN Registered : Registered[k] = text}
    IN
      /\ peer[p] = "added" =>
           \/ Anyone(text) /\ given[p] = 1
           \/ given[p] \in named /\ \A k \in named : k <= given[p]
      /\ peer[p] = "closed" => named = {} /\ ~(Anyone(text) /\ Registered # <<>>)

\* Whichever of the ports it waits at, and however many others there are, a
\* connection is taken from the backlog while the acceptor runs: turns begin
\* where the last one stopped, and all of cons comes up again and again.
ConnectionsTaken ==
  \A p \in Peers :
    peer[p] = "waiting" ~> (peer[p] # "waiting" \/ accepting = "ended")
=============================================================================
