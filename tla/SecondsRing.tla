----------------------------- MODULE SecondsRing -----------------------------
(***************************************************************************)
(* Class listen_http_msring (server/storm/listen-http-modstate.h): a ring  *)
(* of counts, one for each second (minute, hour), which the handlers add   *)
(* to under the lock of listen_http_modstate and the page of statistics    *)
(* prints.                                                                 *)
(***************************************************************************)
EXTENDS Integers

CONSTANTS
  StatSz,  \* size
  Low,     \* 2^32: an int is one half of a slot
  Ticks,   \* bound: the times the clock shows
  Counts,  \* what is counted at a time
  MaxAdds  \* bound: calls of Add

ASSUME SecondsAssumption ==
  /\ StatSz \in Nat \ {0} /\ Low \in Nat \ {0} /\ MaxAdds \in Nat
  /\ Counts \subseteq Nat \ {0}
  /\ Ticks \subseteq Nat /\ \A t \in Ticks : t >= StatSz

VARIABLES
  slots, ltm, spos, ssz,  \* ring, ltm, pos, sz
  counted, adds,          \* what was counted in each second, and how often
  regular                 \* the clock went on by one second, or by a whole ring
                          \*   or more, and no count reached 2^32

secondsVars == <<slots, ltm, spos, ssz, counted, adds, regular>>

SecondsInit ==
  /\ slots = [i \in 0..(StatSz - 1) |-> 0] /\ ltm = 0 /\ spos = 0 /\ ssz = 0
  /\ counted = [t \in Ticks |-> 0] /\ adds = 0 /\ regular = TRUE

Fewer(a, b) == IF a < b THEN a ELSE b

\* memset(ring + from, 0, m * sizeof(int)), half of what m slots take.
Cleared(r, from, m) ==
  [i \in DOMAIN r |->
     IF i \in from..(from + m \div 2 - 1) THEN 0
     ELSE IF m % 2 = 1 /\ i = from + m \div 2 THEN (r[i] \div Low) * Low
     ELSE r[i]]

\* Slip: the slots at the start of the ring are not cleared.
AnewAtEnd(r, s) == Cleared(r, spos + 1, Fewer(s, StatSz - (spos + 1)))

\* The slots of s new seconds: after pos, and from the start when that is past
\* the end.
Anew(r, s) ==
  LET m == Fewer(s, StatSz - (spos + 1))
      after == Cleared(r, spos + 1, m)
  IN IF spos + s >= StatSz THEN Cleared(after, 0, s - m) ELSE after

\* A time before ltm is taken for the next second.
Passed(tm) == IF tm > ltm THEN tm - ltm ELSE 1

SameSecond(tm, n) ==
  /\ tm = ltm
  /\ slots' = [slots EXCEPT ![spos] = @ + n] /\ UNCHANGED <<spos, ssz>>

NewSecond(tm, n) ==
  /\ tm # ltm /\ Passed(tm) < StatSz
  /\ spos' = (spos + Passed(tm)) % StatSz
  /\ ssz' = Fewer(ssz + Passed(tm), StatSz)
  /\ slots' = [Anew(slots, Passed(tm)) EXCEPT ![spos'] = @ + n]

WholeRing(tm, n) ==
  /\ tm # ltm /\ Passed(tm) >= StatSz
  /\ spos' = 0 /\ ssz' = 1 /\ slots' = [slots EXCEPT ![0] = n]

AddAt(tm, n) ==
  /\ adds < MaxAdds /\ adds' = adds + 1
  /\ SameSecond(tm, n) \/ NewSecond(tm, n) \/ WholeRing(tm, n)
  /\ ltm' = tm
  /\ counted' = [counted EXCEPT ![tm] = @ + n]
  /\ regular' = (/\ regular /\ counted'[tm] < Low
                 /\ tm - ltm \in {0, 1} \cup {d \in Ticks : d >= StatSz})

\* What Get prints: a time and a count for each slot, the oldest first.
Printed ==
  [i \in 1..ssz |-> <<ltm - ssz + i - 1, slots[(spos + StatSz - ssz + i) % StatSz]>>]

SecondsNext == \E t \in Ticks, n \in Counts : AddAt(t, n)
SecondsSpec == SecondsInit /\ [][SecondsNext]_secondsVars

------------------------------------------------------------------------------
(* Properties                                                              *)

SecondsTypeOK ==
  /\ slots \in [0..(StatSz - 1) -> Nat] /\ spos \in 0..(StatSz - 1) /\ ssz \in 0..StatSz
  /\ ltm \in Ticks \cup {0} /\ counted \in [Ticks -> Nat]
  /\ adds \in 0..MaxAdds /\ regular \in BOOLEAN

\* The page shows each of the last seconds with its count, under the time of the
\* second before it, however often the ring was turned; as long as no second was
\* skipped, which leaves old counts in the slots that the short memset misses,
\* the clock was not set back, and no count outgrew the half that it clears.
ShowsSeconds ==
  regular =>
    \A i \in 1..ssz :
      LET t == ltm - ssz + i IN Printed[i] = <<t - 1, counted[t]>>
=============================================================================
