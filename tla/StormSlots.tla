------------------------------ MODULE StormSlots ------------------------------
(***************************************************************************)
(* What the storm core promises about a socket slot (storm_socket_data,    *)
(* storm-core.h:137): a connection is opened in a free slot, is handed     *)
(* from the poller to one worker and back, and leaves the slot only in the *)
(* hands of the worker that closes it.                                     *)
(***************************************************************************)
EXTENDS Naturals

CONSTANTS Slots,      \* slots for connections
          Conns       \* identities of connections; 0 is none

States == {"free", "polled", "queued", "working", "closing"}

VARIABLES state,      \* where each slot is
          conn        \* the connection in it, 0 when free

vars == <<state, conn>>

TypeOK == state \in [Slots -> States] /\ conn \in [Slots -> Conns \cup {0}]

Init ==
  /\ state = [s \in Slots |-> "free"]
  /\ conn = [s \in Slots |-> 0]

Move(s, from, to) ==
  /\ state[s] = from
  /\ state' = [state EXCEPT ![s] = to]

Open(s, c) ==
  /\ Move(s, "free", "polled")
  /\ \A o \in Slots : conn[o] # c
  /\ conn' = [conn EXCEPT ![s] = c]

Wake(s)  == Move(s, "polled", "queued") /\ UNCHANGED conn
Take(s)  == Move(s, "queued", "working") /\ UNCHANGED conn
Again(s) == Move(s, "working", "polled") /\ UNCHANGED conn
Close(s) == Move(s, "working", "closing") /\ UNCHANGED conn
Free(s)  == Move(s, "closing", "free") /\ conn' = [conn EXCEPT ![s] = 0]

Next ==
  \E s \in Slots :
    \/ \E c \in Conns : Open(s, c)
    \/ Wake(s) \/ Take(s) \/ Again(s) \/ Close(s) \/ Free(s)

Spec == Init /\ [][Next]_vars
=============================================================================
