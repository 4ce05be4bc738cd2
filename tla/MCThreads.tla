------------------------------ MODULE MCThreads ------------------------------
(***************************************************************************)
(* TLC instances of the lock, of the threads of a program, of how the      *)
(* storm core's poller wakes its workers, of the acceptor, and of the      *)
(* light server.  Each behaviour is one of one of them, the subject, and   *)
(* the others stay as they are initially.                                  *)
(***************************************************************************)
EXTENDS TLock, StormStart, StormRing, LightServer, Acceptor

VARIABLE subject

vars == <<lockVars, startVars, ringVars, lightVars, acceptVars, subject>>

Init ==
  /\ subject \in {"lock", "start", "ring", "light", "accept"}
  /\ LockInit /\ StartInit /\ RingInit /\ LightInit /\ AcceptInit

OfLock == UNCHANGED <<subject, startVars, ringVars, lightVars, acceptVars>>
OfStart == UNCHANGED <<subject, lockVars, ringVars, lightVars, acceptVars>>
OfRing == UNCHANGED <<subject, lockVars, startVars, lightVars, acceptVars>>
OfLight == UNCHANGED <<subject, lockVars, startVars, ringVars, acceptVars>>
OfAccept == UNCHANGED <<subject, lockVars, startVars, ringVars, lightVars>>

Lock == subject = "lock" /\ LockNext /\ OfLock
Start == subject = "start" /\ StartNext /\ OfStart
Ring == subject = "ring" /\ RingNext /\ OfRing
Light == subject = "light" /\ LightNext /\ OfLight
Accept == subject = "accept" /\ AcceptNext /\ OfAccept

\* A server that listens, waits for ever or has stopped does nothing more.
Rests == subject \in {"start", "light", "accept"} /\ UNCHANGED vars

Next == Lock \/ Start \/ Ring \/ Light \/ Accept \/ Rests

\* A thread of the program goes on; one with the lock leaves its critical
\* sections in the end, and a mutex does not pass over a waiter for ever.  That
\* events come, or that a wait returns unasked, is not assumed.
Fairness ==
  /\ \A t \in Threads :
       /\ WF_vars(subject = "lock" /\ GoesOn(t) /\ OfLock)
       /\ WF_vars(subject = "lock" /\ UnLockCall(t) /\ OfLock)
       /\ SF_vars(subject = "lock" /\ (LastUnLock(t) \/ MutexLock(t)) /\ OfLock)
  /\ \A c \in Callers : WF_vars(subject = "start" /\ CotStep(c) /\ OfStart)
  /\ \A t \in CotThreads : WF_vars(subject = "start" /\ ThreadStep(t) /\ OfStart)
  /\ WF_vars(subject = "accept" /\ AcceptStep /\ OfAccept)
  /\ WF_vars(subject = "ring" /\ Poller /\ OfRing)
  /\ \A w \in Workers : SF_vars(subject = "ring" /\ Worker(w) /\ OfRing)

Spec == Init /\ [][Next]_vars /\ Fairness

ThreadsTypeOK == LockTypeOK /\ StartTypeOK /\ RingTypeOK /\ LightTypeOK /\ AcceptTypeOK

\* A connection goes to the protocol its port names, and none waits for ever
\* while the acceptor runs.
AcceptorServes == []NamedProtocol /\ ConnectionsTaken

\* Four ports: for anyone, for one protocol, for a name that has it inside,
\* and for another one.
SomePorts == <<<<"*">>, <<"h", "t">>, <<"h", "t", "r">>, <<"r">>>>
SomeProtocols == <<<<"r">>, <<"h", "t">>>>
=============================================================================
