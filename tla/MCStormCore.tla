----------------------------- MODULE MCStormCore -----------------------------
(* TLC instances of StormCore.                                              *)
EXTENDS StormCore, TLC

\* What the protocols do in a handler: nothing, send with bytes left over, stop
\* or resume reading, close.
Effect(s, e, c) == [send |-> s, eread |-> e, close |-> c]
SomeHandlers ==
  {Effect(-1, 0, FALSE), Effect(1, 0, FALSE), Effect(-1, -1, FALSE),
   Effect(0, 1, FALSE), Effect(-1, 0, TRUE)}

\* Only whether the handler closes matters for who owns a slot.
FewHandlers == {Effect(-1, 0, FALSE), Effect(-1, 0, TRUE)}

\* Without eread(): a handler that resumes reading in every pass keeps a
\* connection with a close pending alive as long as it has bytes to send.
LiveHandlers ==
  {Effect(-1, 0, FALSE), Effect(1, 0, FALSE), Effect(-1, -1, FALSE), Effect(-1, 0, TRUE)}

Symmetry == Permutations(Workers)
=============================================================================
