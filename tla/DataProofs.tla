----------------------------- MODULE DataProofs -----------------------------
(***************************************************************************)
(* What the proofs about the modules need of numbers, functions and        *)
(* sequences: induction and recursion over the naturals, parts.            *)
(***************************************************************************)
EXTENDS Integers, SequencesExt, SequenceTheorems, WellFoundedInduction, TLAPS

------------------------------------------------------------------------------
(* Induction over the naturals, for sets and functions                     *)

LEMMA NatLeast ==
  ASSUME NEW T, T \subseteq Nat, T # {}
  PROVE  \E x \in T : \A y \in T : x <= y
<1> DEFINE R == OpToRel(<, Nat)
<1>1. IsWellFoundedOn(R, Nat)
  BY NatLessThanWellFounded
<1>2. \A x, y \in Nat : y < x => <<y, x>> \in R
  BY DEF OpToRel
<1> HIDE DEF R
<1>3. PICK x \in T : \A y \in T : ~(<<y, x>> \in R)
  BY <1>1, WFMin
<1>4. \A y \in T : ~ (y < x)
  BY <1>2, <1>3, Zenon
<1>5. \A y \in T : x <= y
  BY <1>4
<1> QED
  BY <1>5

LEMMA NatGreatest ==
  ASSUME NEW n \in Nat, NEW T, T \subseteq 0..n, T # {}
  PROVE  \E x \in T : \A y \in T : y <= x
<1> DEFINE M == {n - y : y \in T}
<1>1. M \subseteq Nat /\ M # {}
  <2>1. M \subseteq Nat
    OBVIOUS
  <2>2. M # {}
    OBVIOUS
  <2> QED
    BY <2>1, <2>2
<1>2. PICK m \in M : \A l \in M : m <= l
  <2> HIDE DEF M
  <2> QED
    BY <1>1, NatLeast
<1>3. PICK x \in T : m = n - x
  BY <1>2
<1>4. ASSUME NEW y \in T PROVE y <= x
  <2>1. m <= n - y
    BY <1>2
  <2>2. x \in 0..n /\ y \in 0..n
    OBVIOUS
  <2> QED
    BY <1>3, <2>1, <2>2
<1> QED
  BY <1>4

LEMMA Inductive ==
  ASSUME NEW I, 0 \in I, \A n \in Nat : n \in I => n + 1 \in I
  PROVE  Nat \subseteq I
<1> SUFFICES ASSUME NEW m \in Nat, m \notin I PROVE FALSE
  OBVIOUS
<1> DEFINE T == {n \in Nat : n \notin I}
<1>1. PICK x \in T : \A y \in T : x <= y
  <2> T \subseteq Nat /\ m \in T
    OBVIOUS
  <2> HIDE DEF T
  <2> QED
    BY NatLeast
<1>2. x # 0
  OBVIOUS
<1>3. x - 1 \in Nat /\ x - 1 \notin T
  BY <1>1, <1>2
<1> QED
  BY <1>3

\* The functions on the naturals whose values follow each from the one before.
StepsOn(S) == [Nat -> [S -> S]]
Runs(S, base, step) ==
  {f \in [Nat -> S] : f[0] = base /\ \A n \in Nat : f[n + 1] = step[n][f[n]]}

LEMMA Recursive ==
  ASSUME NEW S, NEW base \in S, NEW step \in StepsOn(S)
  PROVE  \E f : f \in Runs(S, base, step)
<1> USE DEF StepsOn
<1> DEFINE Starts(g, n) ==
             /\ g \in [0..n -> S] /\ g[0] = base
             /\ \A i \in Nat : i < n => g[i + 1] = step[i][g[i]]
<1>1. ASSUME NEW n \in Nat PROVE \E g : Starts(g, n)
  <2> DEFINE I == {k \in Nat : \E g : Starts(g, k)}
  <2>1. 0 \in I
    <3>1. Starts([i \in 0..0 |-> base], 0)
      OBVIOUS
    <3> QED
      BY <3>1
  <2>2. ASSUME NEW k \in Nat, k \in I PROVE k + 1 \in I
    <3>1. PICK g : Starts(g, k)
      BY <2>2
    <3> DEFINE h == [i \in 0..(k + 1) |-> IF i <= k THEN g[i] ELSE step[k][g[k]]]
    <3>2. h \in [0..(k + 1) -> S] /\ h[0] = base
      BY <3>1
    <3>3. ASSUME NEW i \in Nat, i < k + 1 PROVE h[i + 1] = step[i][h[i]]
      BY <3>1, <3>3
    <3>4. Starts(h, k + 1)
      <4> HIDE DEF h
      <4> QED
        BY <3>2, <3>3
    <3> HIDE DEF h, Starts
    <3>5. k + 1 \in Nat
      OBVIOUS
    <3> QED
      BY <3>4, <3>5
  <2> HIDE DEF I
  <2>3. Nat \subseteq I
    BY <2>1, <2>2, Inductive
  <2> QED
    BY <2>3 DEF I
<1>2. ASSUME NEW m \in Nat, NEW n \in Nat, NEW g, NEW h, Starts(g, m), Starts(h, n)
      PROVE  \A i \in Nat : i <= m /\ i <= n => g[i] = h[i]
  <2> DEFINE I == {i \in Nat : i <= m /\ i <= n => g[i] = h[i]}
  <2>1. 0 \in I
    BY <1>2
  <2>2. ASSUME NEW k \in Nat, k \in I PROVE k + 1 \in I
    BY <1>2, <2>2
  <2> HIDE DEF I
  <2>3. Nat \subseteq I
    BY <2>1, <2>2, Inductive
  <2> QED
    BY <2>3 DEF I
<1> DEFINE G(n) == CHOOSE g : Starts(g, n)
           f == [n \in Nat |-> G(n)[n]]
<1>3. \A n \in Nat : Starts(G(n), n)
  <2> HIDE DEF Starts
  <2> QED
    BY <1>1
<1>4. \A n \in Nat : G(n)[n] = G(n + 1)[n]
  <2> SUFFICES ASSUME NEW n \in Nat PROVE G(n)[n] = G(n + 1)[n]
    OBVIOUS
  <2>1. n + 1 \in Nat /\ n <= n /\ n <= n + 1
    OBVIOUS
  <2>2. Starts(G(n), n) /\ Starts(G(n + 1), n + 1)
    BY <1>3, <2>1
  <2> HIDE DEF G, Starts
  <2> QED
    BY <1>2, <2>1, <2>2
<1>5. \A n \in Nat : G(n)[n] \in S /\ G(n + 1)[n + 1] = step[n][G(n + 1)[n]]
  <2> HIDE DEF G
  <2> QED
    BY <1>3
<1>6. G(0)[0] = base
  <2> HIDE DEF G
  <2> QED
    BY <1>3
<1> HIDE DEF G, Starts
<1>7. f \in [Nat -> S] /\ f[0] = base
  BY <1>5, <1>6
<1>8. \A n \in Nat : f[n + 1] = step[n][f[n]]
  BY <1>4, <1>5
<1> QED
  BY <1>7, <1>8 DEF Runs

------------------------------------------------------------------------------
(* Sequences in two parts                                                  *)

LEMMA Together ==
  ASSUME NEW S, NEW a \in Seq(S), NEW b \in Seq(S), NEW c \in Seq(S)
  PROVE  (a \o b) \o c = a \o (b \o c)
OBVIOUS

\* The same, for a proof whose hypotheses have concatenations of their own.
Associates(a, b, c) == (a \o b) \o c = a \o (b \o c)

LEMMA Association ==
  ASSUME NEW S, NEW a \in Seq(S), NEW b \in Seq(S), NEW c \in Seq(S)
  PROVE  Associates(a, b, c)
BY Together DEF Associates

LEMMA PartsIs ==
  ASSUME NEW S, NEW q \in Seq(S), NEW n \in 0..Len(q)
  PROVE  /\ SubSeq(q, 1, n) \in Seq(S) /\ SubSeq(q, n + 1, Len(q)) \in Seq(S)
         /\ Len(SubSeq(q, 1, n)) = n /\ Len(SubSeq(q, n + 1, Len(q))) = Len(q) - n
         /\ SubSeq(q, 1, n) \o SubSeq(q, n + 1, Len(q)) = q
<1>1. Len(q) \in Nat /\ n \in Nat /\ n <= Len(q) /\ 1 \in Int /\ n \in Int
  OBVIOUS
<1>2. SubSeq(q, 1, n) \in Seq(S) /\ Len(SubSeq(q, 1, n)) = n
  <2>1. \A i \in 1..n : q[i] \in S
    BY <1>1, ElementOfSeq
  <2>2. /\ SubSeq(q, 1, n) \in Seq(S)
        /\ Len(SubSeq(q, 1, n)) = IF 1 <= n THEN n - 1 + 1 ELSE 0
    BY <1>1, <2>1, SubSeqProperties
  <2> QED
    BY <1>1, <2>2
<1>3. SubSeq(q, n + 1, Len(q)) \in Seq(S) /\ Len(SubSeq(q, n + 1, Len(q))) = Len(q) - n
  <2> DEFINE m == n + 1
             k == Len(q)
  <2>1. m \in Int /\ k \in Int /\ \A i \in m..k : q[i] \in S
    BY <1>1, ElementOfSeq
  <2> HIDE DEF m, k
  <2>2. SubSeq(q, m, k) \in Seq(S) /\ Len(SubSeq(q, m, k)) = IF m <= k THEN k - m + 1 ELSE 0
    BY <2>1, SubSeqProperties
  <2> QED
    BY <1>1, <2>2 DEF m, k
<1>4. SubSeq(q, 1, n) \o SubSeq(q, n + 1, Len(q)) = q
  <2> DEFINE k == Len(q)
  <2>1. 1 \in 1..(Len(q) + 1) /\ n \in (1 - 1)..Len(q) /\ k \in n..Len(q)
    BY <1>1
  <2>2. SubSeq(q, 1, k) = q
    BY SubSeqFull
  <2> HIDE DEF k
  <2>3. SubSeq(q, 1, n) \o SubSeq(q, n + 1, k) = SubSeq(q, 1, k)
    BY <2>1, ConcatAdjacentSubSeq
  <2> QED
    BY <2>2, <2>3 DEF k
<1> QED
  BY <1>2, <1>3, <1>4

LEMMA CancelFirst ==
  ASSUME NEW S, NEW a \in Seq(S), NEW b \in Seq(S), NEW c \in Seq(S), NEW d \in Seq(S),
         a \o b = c \o d, Len(a) = Len(c)
  PROVE  a = c /\ b = d
<1> DEFINE t == a \o b
           u == c \o d
<1>1. /\ Len(t) = Len(a) + Len(b) /\ Len(u) = Len(c) + Len(d)
      /\ \A i \in 1..(Len(a) + Len(b)) : t[i] = IF i <= Len(a) THEN a[i] ELSE b[i - Len(a)]
      /\ \A i \in 1..(Len(c) + Len(d)) : u[i] = IF i <= Len(c) THEN c[i] ELSE d[i - Len(c)]
  BY ConcatProperties
<1>2. t = u
  OBVIOUS
<1>3. Len(a) \in Nat /\ Len(b) \in Nat /\ Len(d) \in Nat /\ Len(b) = Len(d)
  <2>1. Len(a) \in Nat /\ Len(b) \in Nat /\ Len(d) \in Nat
    OBVIOUS
  <2> QED
    BY <1>1, <1>2, <2>1
<1> HIDE DEF t, u
<1>4. \A i \in 1..Len(a) : a[i] = c[i]
  BY <1>1, <1>2, <1>3
<1>5. a = c
  BY <1>4, SeqEqual
<1>6. ASSUME NEW i \in 1..Len(b) PROVE b[i] = d[i]
  <2> DEFINE k == Len(a) + i
  <2>1. k \in 1..(Len(a) + Len(b)) /\ ~(k <= Len(a)) /\ k - Len(a) = i
    BY <1>3
  <2> HIDE DEF k
  <2>2. t[k] = b[k - Len(a)] /\ u[k] = d[k - Len(a)]
    BY <1>1, <1>3, <2>1
  <2> QED
    BY <1>2, <2>1, <2>2
<1>7. b = d
  BY <1>3, <1>6, SeqEqual
<1> QED
  BY <1>5, <1>7

\* Of two ways to read the same bytes, the longer beginning has the shorter.
BeginsAlike(S, a, b, c, d) ==
  a \o b = c \o d =>
    /\ SubSeq(a, 1, Len(c)) = c
    /\ SubSeq(a, Len(c) + 1, Len(a)) \in Seq(S)
    /\ SubSeq(a, Len(c) + 1, Len(a)) \o b = d

LEMMA CutFront ==
  ASSUME NEW S, NEW a \in Seq(S), NEW b \in Seq(S), NEW c \in Seq(S), NEW d \in Seq(S),
         Len(c) <= Len(a)
  PROVE  BeginsAlike(S, a, b, c, d)
<1> DEFINE n == Len(c)
           u == SubSeq(a, 1, n)
           v == SubSeq(a, n + 1, Len(a))
<1>1. n \in 0..Len(a)
  OBVIOUS
<1> HIDE DEF n
<1>2. u \in Seq(S) /\ v \in Seq(S) /\ Len(u) = n /\ u \o v = a
  BY <1>1, PartsIs
<1> HIDE DEF u, v
<1>3. PICK x \in Seq(S), y \in Seq(S) : x = u /\ y = v
  BY <1>2
<1>4. (x \o y) \o b = x \o (y \o b)
  BY Together
<1>5. PICK z \in Seq(S) : z = y \o b
  BY ConcatProperties
<1>6. x \o y = a /\ Len(x) = Len(c)
  BY <1>2, <1>3 DEF n
<1>7. SUFFICES ASSUME a \o b = c \o d PROVE x = c /\ z = d
  BY <1>2, <1>3, <1>5 DEF u, v, n, BeginsAlike
<1>8. x \o z = c \o d
  BY <1>4, <1>5, <1>6, <1>7, Zenon
<1> QED
  BY <1>6, <1>8, CancelFirst

LEMMA PrefixIs ==
  ASSUME NEW S, NEW w \in Seq(S), NEW r \in Seq(S)
  PROVE  IsPrefix(w, w \o r)
<1> DEFINE t == w \o r
<1>1. /\ t \in Seq(S) /\ Len(t) = Len(w) + Len(r) /\ Len(w) \in Nat /\ Len(r) \in Nat
      /\ \A i \in 1..(Len(w) + Len(r)) : t[i] = IF i <= Len(w) THEN w[i] ELSE r[i - Len(w)]
  BY ConcatProperties
<1> HIDE DEF t
<1>2. \A i \in 1..Len(w) : t[i] = w[i] /\ w[i] \in S /\ t[i] \in S
  BY <1>1, ElementOfSeq
<1> DEFINE p == SubSeq(t, 1, Len(w))
           q == SubSeq(w, 1, Len(w))
<1>3. 1 \in Int /\ Len(w) \in Int
  BY <1>1
<1>4. p \in Seq(S) /\ Len(p) = Len(w) /\ \A i \in 1..Len(w) : p[i] = t[i]
  BY <1>1, <1>2, <1>3, SubSeqProperties
<1>5. q = w
  BY SubSeqFull
<1>6. p = w
  <2> HIDE DEF p
  <2>1. \A i \in 1..Len(p) : p[i] = w[i]
    BY <1>2, <1>4
  <2> QED
    BY <1>4, <2>1, SeqEqual
<1>7. Len(w) <= Len(t)
  BY <1>1
<1> QED
  BY <1>5, <1>6, <1>7 DEF IsPrefix, t

LEMMA MoveHead ==
  ASSUME NEW S, NEW b \in Seq(S), NEW c \in Seq(S), c # <<>>
  PROVE  /\ Append(b, Head(c)) \in Seq(S) /\ Tail(c) \in Seq(S)
         /\ Append(b, Head(c)) \o Tail(c) = b \o c
<1>1. Head(c) \in S /\ Tail(c) \in Seq(S) /\ c = <<Head(c)>> \o Tail(c)
  OBVIOUS
<1> DEFINE h == Head(c)
           t == Tail(c)
<1> HIDE DEF h, t
<1>2. h \in S /\ t \in Seq(S) /\ c = <<h>> \o t
  BY <1>1 DEF h, t
<1>3. Append(b, h) = b \o <<h>> /\ Append(b, h) \in Seq(S) /\ <<h>> \in Seq(S)
  BY <1>2
<1>4. (b \o <<h>>) \o t = b \o (<<h>> \o t)
  BY <1>2, <1>3, ConcatAssociative
<1> QED
  BY <1>2, <1>3, <1>4 DEF h, t

------------------------------------------------------------------------------
(* Sequences of sequences: FlattenSeq                                      *)

Flattening(S, q) ==
  {f \in [0..Len(q) -> Seq(S)] :
     /\ f[0] = <<>> /\ f[Len(q)] = FlattenSeq(q)
     /\ \A n \in 0..(Len(q) - 1) : f[n + 1] = f[n] \o q[n + 1]}

LEMMA FlattenSteps ==
  ASSUME NEW S, NEW q \in Seq(Seq(S))
  PROVE  \E f : f \in Flattening(S, q)
<1> DEFINE T == Seq(S)
           next(n, r) == r \o q[n + 1]
           step == [n \in Nat |-> [r \in T |-> IF n < Len(q) THEN next(n, r) ELSE r]]
           Is(f) == f = [i \in 1..Len(q) |-> IF i = 1 THEN q[i] ELSE f[i - 1] \o q[i]]
<1>0. \A n \in 0..(Len(q) - 1) : q[n + 1] \in T
  OBVIOUS
<1>1. \A n \in 0..(Len(q) - 1), r \in T : next(n, r) \in T
  BY <1>0, ConcatProperties
<1>2. <<>> \in T /\ Len(q) \in Nat
  OBVIOUS
<1> HIDE DEF next
<1>3. step \in StepsOn(T)
  BY <1>1, <1>2 DEF StepsOn
<1>4. \A n \in Nat, r \in T : step[n][r] = IF n < Len(q) THEN next(n, r) ELSE r
  OBVIOUS
<1> HIDE DEF step, T
<1>5. PICK h \in [Nat -> T] :
        h[0] = <<>> /\ \A n \in Nat : h[n + 1] = step[n][h[n]]
  <2>1. PICK h : h \in Runs(T, <<>>, step)
    BY <1>2, <1>3, Recursive
  <2> QED
    BY <2>1 DEF Runs
<1>6. \A n \in 0..(Len(q) - 1) : h[n + 1] = next(n, h[n])
  BY <1>2, <1>4, <1>5
<1> DEFINE g == [n \in 1..Len(q) |-> h[n]]
<1>7. q # <<>> => h[1] = q[1]
  <2> SUFFICES ASSUME q # <<>> PROVE h[1] = q[1]
    OBVIOUS
  <2>1. 0 \in 0..(Len(q) - 1) /\ 0 + 1 = 1
    OBVIOUS
  <2>2. h[1] = <<>> \o q[1] /\ q[1] \in T
    BY <1>0, <1>5, <1>6, <2>1 DEF next
  <2> QED
    BY <2>2, ConcatEmptySeq DEF T
<1>8. \A i \in 1..Len(q) : i # 1 => h[i] = h[i - 1] \o q[i]
  <2> SUFFICES ASSUME NEW i \in 1..Len(q), i # 1 PROVE h[i] = h[i - 1] \o q[i]
    OBVIOUS
  <2>1. i - 1 \in 0..(Len(q) - 1) /\ (i - 1) + 1 = i
    BY <1>2
  <2> QED
    BY <1>6, <2>1 DEF next
<1>9. Is(g)
  <2>1. \A i \in 1..Len(q) : g[i] = IF i = 1 THEN q[i] ELSE g[i - 1] \o q[i]
    <3> SUFFICES ASSUME NEW i \in 1..Len(q)
                 PROVE  g[i] = IF i = 1 THEN q[i] ELSE g[i - 1] \o q[i]
      OBVIOUS
    <3>1. i # 1 => i - 1 \in 1..Len(q)
      BY <1>2
    <3>2. q # <<>>
      BY <1>2
    <3> QED
      BY <1>7, <1>8, <3>1, <3>2
  <2>2. g = [n \in 1..Len(q) |-> g[n]]
    OBVIOUS
  <2> HIDE DEF g
  <2> QED
    BY <2>1, <2>2
<1> DEFINE u == CHOOSE f : Is(f)
<1>10. Is(u)
  <2> HIDE DEF Is, g
  <2> QED
    BY <1>9
<1>11. Len(q) # 0 => FlattenSeq(q) = u[Len(q)]
  BY Zenon DEF FlattenSeq
<1>12. \A i \in 1..Len(q) : u[i] = IF i = 1 THEN q[i] ELSE u[i - 1] \o q[i]
  <2> HIDE DEF u, g
  <2> QED
    BY <1>10
<1> HIDE DEF u, Is, g
<1>13. \A n \in Nat : n + 1 <= Len(q) => u[n + 1] = h[n + 1]
  <2> DEFINE I == {n \in Nat : n + 1 <= Len(q) => u[n + 1] = h[n + 1]}
  <2>1. 0 \in I
    <3>1. 1 <= Len(q) => 1 \in 1..Len(q) /\ q # <<>>
      BY <1>2
    <3> QED
      BY <1>7, <1>12, <3>1
  <2>2. ASSUME NEW n \in Nat, n \in I PROVE n + 1 \in I
    <3> SUFFICES ASSUME n + 1 + 1 <= Len(q) PROVE u[n + 1 + 1] = h[n + 1 + 1]
      OBVIOUS
    <3> DEFINE i == n + 1 + 1
    <3>1. i \in 1..Len(q) /\ i # 1 /\ i - 1 = n + 1 /\ n + 1 <= Len(q)
      BY <1>2
    <3>2. u[n + 1] = h[n + 1]
      BY <2>2, <3>1
    <3> HIDE DEF i
    <3>3. u[i] = u[i - 1] \o q[i] /\ h[i] = h[i - 1] \o q[i]
      BY <1>8, <1>12, <3>1, Zenon
    <3>4. u[i] = h[i]
      BY <3>1, <3>2, <3>3, Zenon
    <3> QED
      BY <3>4 DEF i
  <2> HIDE DEF I
  <2>3. Nat \subseteq I
    BY <2>1, <2>2, Inductive
  <2> QED
    BY <2>3 DEF I
<1>14. h[Len(q)] = FlattenSeq(q)
  <2>1. CASE Len(q) = 0
    <3>1. q = <<>> /\ FlattenSeq(q) = q
      BY <2>1 DEF FlattenSeq
    <3> QED
      BY <1>5, <2>1, <3>1
  <2>2. CASE Len(q) # 0
    <3>1. Len(q) - 1 \in Nat /\ (Len(q) - 1) + 1 <= Len(q) /\ (Len(q) - 1) + 1 = Len(q)
      BY <1>2, <2>2
    <3>2. u[(Len(q) - 1) + 1] = h[(Len(q) - 1) + 1]
      BY <1>13, <3>1
    <3> QED
      BY <1>11, <2>2, <3>1, <3>2
  <2> QED
    BY <2>1, <2>2
<1> DEFINE f == [n \in 0..Len(q) |-> h[n]]
<1>15. f \in [0..Len(q) -> T] /\ f[0] = <<>> /\ f[Len(q)] = FlattenSeq(q)
  BY <1>2, <1>5, <1>14
<1>16. \A n \in 0..(Len(q) - 1) : f[n + 1] = f[n] \o q[n + 1]
  <2> SUFFICES ASSUME NEW n \in 0..(Len(q) - 1) PROVE f[n + 1] = f[n] \o q[n + 1]
    OBVIOUS
  <2>1. n \in 0..Len(q) /\ n + 1 \in 0..Len(q)
    BY <1>2
  <2>2. h[n + 1] = h[n] \o q[n + 1]
    BY <1>6 DEF next
  <2> QED
    BY <2>1, <2>2, Zenon
<1> QED
  BY <1>15, <1>16 DEF T, Flattening

LEMMA FlattenEmpty ==
  FlattenSeq(<<>>) = <<>>
BY DEF FlattenSeq

LEMMA FlattenType ==
  ASSUME NEW S, NEW q \in Seq(Seq(S))
  PROVE  FlattenSeq(q) \in Seq(S)
<1>1. PICK f : f \in Flattening(S, q)
  BY FlattenSteps
<1>2. Len(q) \in 0..Len(q)
  OBVIOUS
<1> QED
  BY <1>1, <1>2 DEF Flattening

LEMMA FlattenAppend ==
  ASSUME NEW S, NEW q \in Seq(Seq(S)), NEW b \in Seq(S)
  PROVE  FlattenSeq(Append(q, b)) = FlattenSeq(q) \o b
<1> DEFINE r == Append(q, b)
<1>1. /\ r \in Seq(Seq(S)) /\ Len(q) \in Nat /\ Len(r) = Len(q) + 1
      /\ r[Len(q) + 1] = b /\ \A n \in 1..Len(q) : r[n] = q[n]
  BY AppendProperties
<1> HIDE DEF r
<1>2. PICK f \in [0..Len(q) -> Seq(S)] :
        /\ f[0] = <<>> /\ f[Len(q)] = FlattenSeq(q)
        /\ \A n \in 0..(Len(q) - 1) : f[n + 1] = f[n] \o q[n + 1]
  <2>1. PICK f : f \in Flattening(S, q)
    BY FlattenSteps
  <2> QED
    BY <2>1 DEF Flattening
<1>3. PICK g \in [0..Len(r) -> Seq(S)] :
        /\ g[0] = <<>> /\ g[Len(r)] = FlattenSeq(r)
        /\ \A n \in 0..(Len(r) - 1) : g[n + 1] = g[n] \o r[n + 1]
  <2>1. PICK g : g \in Flattening(S, r)
    BY <1>1, FlattenSteps
  <2> QED
    BY <2>1 DEF Flattening
<1>4. \A n \in Nat : n <= Len(q) => g[n] = f[n]
  <2> DEFINE I == {n \in Nat : n <= Len(q) => g[n] = f[n]}
  <2>1. 0 \in I
    BY <1>2, <1>3
  <2>2. ASSUME NEW n \in Nat, n \in I PROVE n + 1 \in I
    <3> SUFFICES ASSUME n + 1 <= Len(q) PROVE g[n + 1] = f[n + 1]
      OBVIOUS
    <3>1. n \in 0..(Len(q) - 1) /\ n \in 0..(Len(r) - 1) /\ r[n + 1] = q[n + 1] /\ g[n] = f[n]
      BY <1>1, <2>2
    <3> QED
      BY <1>2, <1>3, <3>1, ZenonT(60)
  <2> HIDE DEF I
  <2>3. Nat \subseteq I
    BY <2>1, <2>2, Inductive
  <2> QED
    BY <2>3 DEF I
<1>5. g[Len(q)] = FlattenSeq(q) /\ Len(q) \in 0..(Len(r) - 1)
  BY <1>1, <1>2, <1>4
<1>6. FlattenSeq(r) = FlattenSeq(q) \o b
  BY <1>1, <1>3, <1>5
<1> QED
  BY <1>6 DEF r

LEMMA FlattenConcat ==
  ASSUME NEW S, NEW p \in Seq(Seq(S)), NEW q \in Seq(Seq(S))
  PROVE  FlattenSeq(p \o q) = FlattenSeq(p) \o FlattenSeq(q)
<1> DEFINE T == Seq(S)
           I == {n \in Nat : \A t \in Seq(T) :
                   Len(t) = n => FlattenSeq(p \o t) = FlattenSeq(p) \o FlattenSeq(t)}
<1>0. FlattenSeq(p) \in T
  BY FlattenType
<1>1. 0 \in I
  <2> SUFFICES ASSUME NEW t \in Seq(T), Len(t) = 0
               PROVE  FlattenSeq(p \o t) = FlattenSeq(p) \o FlattenSeq(t)
    OBVIOUS
  <2>1. t = <<>>
    OBVIOUS
  <2>2. p \o <<>> = p
    BY ConcatEmptySeq
  <2>3. FlattenSeq(p) \o <<>> = FlattenSeq(p)
    BY <1>0, ConcatEmptySeq
  <2> QED
    BY <2>1, <2>2, <2>3, FlattenEmpty
<1>2. ASSUME NEW n \in Nat, n \in I PROVE n + 1 \in I
  <2> SUFFICES ASSUME NEW t \in Seq(T), Len(t) = n + 1
               PROVE  FlattenSeq(p \o t) = FlattenSeq(p) \o FlattenSeq(t)
    OBVIOUS
  <2> HIDE DEF T
  <2> DEFINE u == SubSeq(t, 1, n)
             b == t[n + 1]
  <2>1. u \in Seq(T) /\ Len(u) = n /\ b \in T /\ t = Append(u, b)
    OBVIOUS
  <2> HIDE DEF u, b
  <2>2. p \o u \in Seq(T) /\ p \o Append(u, b) = Append(p \o u, b)
    BY <2>1 DEF T
  <2>3. FlattenSeq(p \o u) = FlattenSeq(p) \o FlattenSeq(u)
    BY <1>2, <2>1
  <2>4. FlattenSeq(u) \in Seq(S) /\ FlattenSeq(p) \in Seq(S) /\ b \in Seq(S)
    BY <1>0, <2>1, FlattenType DEF T
  <2>5. FlattenSeq(Append(u, b)) = FlattenSeq(u) \o b
    BY <2>1, FlattenAppend DEF T
  <2>6. FlattenSeq(Append(p \o u, b)) = FlattenSeq(p \o u) \o b
    BY <2>1, <2>2, FlattenAppend DEF T
  <2>7. (FlattenSeq(p) \o FlattenSeq(u)) \o b = FlattenSeq(p) \o (FlattenSeq(u) \o b)
    BY <2>4, ConcatAssociative
  <2> QED
    BY <2>1, <2>2, <2>3, <2>5, <2>6, <2>7
<1> HIDE DEF I
<1>3. Nat \subseteq I
  BY <1>1, <1>2, Inductive
<1>4. Len(q) \in Nat
  OBVIOUS
<1> QED
  BY <1>3, <1>4 DEF I

\* What is flattened begins with the first sequence.
LEMMA FlattenFirst ==
  ASSUME NEW S, NEW b \in Seq(S), NEW q \in Seq(Seq(S))
  PROVE  FlattenSeq(<<b>> \o q) = b \o FlattenSeq(q)
<1>1. <<b>> \in Seq(Seq(S)) /\ <<>> \in Seq(Seq(S)) /\ <<b>> = Append(<<>>, b)
  OBVIOUS
<1>2. FlattenSeq(<<b>>) = <<>> \o b
  BY <1>1, FlattenAppend, FlattenEmpty
<1>3. <<>> \o b = b
  BY ConcatEmptySeq
<1> QED
  BY <1>1, <1>2, <1>3, FlattenConcat

------------------------------------------------------------------------------
(* Parts of sequences                                                      *)

\* A sequence that has one element more at its end.
LEMMA AppendIs ==
  ASSUME NEW S, NEW s \in Seq(S), NEW x \in S, NEW r \in Seq(S), Len(r) = Len(s) + 1,
         r[Len(s) + 1] = x, \A i \in 1..Len(s) : r[i] = s[i]
  PROVE  r = Append(s, x)
<1> DEFINE t == Append(s, x)
<1>1. t \in Seq(S) /\ Len(t) = Len(s) + 1 /\ \A i \in 1..Len(t) : t[i] = r[i]
  OBVIOUS
<1> HIDE DEF t
<1> QED
  BY <1>1, SeqEqual DEF t

\* A sequence that has one element more in front.
LEMMA FirstIs ==
  ASSUME NEW S, NEW s \in Seq(S), NEW x \in S, NEW r \in Seq(S), Len(r) = Len(s) + 1,
         r[1] = x, \A i \in 2..Len(r) : r[i] = s[i - 1]
  PROVE  r = <<x>> \o s
<1> DEFINE t == <<x>> \o s
<1>1. t \in Seq(S) /\ Len(t) = Len(s) + 1 /\ \A i \in 1..Len(t) : t[i] = r[i]
  OBVIOUS
<1> HIDE DEF t
<1> QED
  BY <1>1, SeqEqual DEF t

\* A sequence is its front and its last element.
LEMMA FrontAndLast ==
  ASSUME NEW S, NEW q \in Seq(S), q # <<>>
  PROVE  /\ Front(q) \in Seq(S) /\ Last(q) \in S /\ Len(Front(q)) = Len(q) - 1
         /\ q = Append(Front(q), Last(q))
<1>1. Len(q) \in Nat \ {0}
  OBVIOUS
<1>2. Front(q) \in Seq(S) /\ Len(Front(q)) = Len(q) - 1 /\ \A i \in 1..(Len(q) - 1) : Front(q)[i] = q[i]
  <2> DEFINE n == Len(q) - 1
  <2>1. 1 \in Int /\ n \in Int /\ n \in Nat /\ \A i \in 1..n : q[i] \in S
    BY <1>1
  <2> HIDE DEF n
  <2>2. /\ SubSeq(q, 1, n) \in Seq(S) /\ Len(SubSeq(q, 1, n)) = IF 1 <= n THEN n - 1 + 1 ELSE 0
        /\ \A i \in 1..(n - 1 + 1) : SubSeq(q, 1, n)[i] = q[1 + i - 1]
    BY <2>1, SubSeqProperties
  <2>3. \A i \in 1..n : SubSeq(q, 1, n)[i] = q[i]
    BY <2>1, <2>2
  <2>4. Len(SubSeq(q, 1, n)) = n
    BY <2>1, <2>2
  <2> QED
    BY <2>2, <2>3, <2>4 DEF Front, n
<1>3. Last(q) \in S /\ Last(q) = q[Len(q)]
  BY <1>1 DEF Last
<1>4. q = Append(Front(q), Last(q))
  BY <1>1, <1>2, <1>3, AppendIs
<1> QED
  BY <1>2, <1>3, <1>4

LEMMA FrontOfAppend ==
  ASSUME NEW S, NEW p \in Seq(S), NEW b \in S
  PROVE  Front(Append(p, b)) = p /\ Last(Append(p, b)) = b /\ Append(p, b) # <<>>
<1> DEFINE q == Append(p, b)
<1>1. q \in Seq(S) /\ Len(q) = Len(p) + 1 /\ q[Len(q)] = b /\ \A i \in 1..Len(p) : q[i] = p[i]
  OBVIOUS
<1> HIDE DEF q
<1>2. q # <<>> /\ Last(q) = b
  BY <1>1 DEF Last
<1>3. /\ Front(q) \in Seq(S) /\ Len(Front(q)) = Len(p)
      /\ \A i \in 1..Len(p) : Front(q)[i] = p[i]
  BY <1>1, <1>2 DEF Front
<1>4. Front(q) = p
  BY <1>3, SeqEqual
<1> QED
  BY <1>2, <1>4 DEF q

\* The elements of the first part of a sequence.
LEMMA FirstPart ==
  ASSUME NEW S, NEW q \in Seq(S), NEW n \in 0..Len(q)
  PROVE  /\ SubSeq(q, 1, n) \in Seq(S) /\ Len(SubSeq(q, 1, n)) = n
         /\ \A i \in 1..n : SubSeq(q, 1, n)[i] = q[i]
<1>1. 1 \in Int /\ n \in Int /\ n \in Nat /\ \A i \in 1..n : q[i] \in S
  <2>1. n \in Nat /\ n <= Len(q) /\ Len(q) \in Nat
    OBVIOUS
  <2> QED
    BY <2>1, ElementOfSeq
<1>2. /\ SubSeq(q, 1, n) \in Seq(S) /\ Len(SubSeq(q, 1, n)) = IF 1 <= n THEN n - 1 + 1 ELSE 0
      /\ \A i \in 1..(n - 1 + 1) : SubSeq(q, 1, n)[i] = q[1 + i - 1]
  BY <1>1, SubSeqProperties
<1>3. \A i \in 1..n : SubSeq(q, 1, n)[i] = q[i]
  BY <1>1, <1>2
<1>4. Len(SubSeq(q, 1, n)) = n
  BY <1>1, <1>2
<1> QED
  BY <1>2, <1>3, <1>4

\* The elements of what comes after it.
LEMMA LaterPart ==
  ASSUME NEW S, NEW q \in Seq(S), NEW n \in 0..Len(q)
  PROVE  /\ SubSeq(q, n + 1, Len(q)) \in Seq(S) /\ Len(SubSeq(q, n + 1, Len(q))) = Len(q) - n
         /\ \A i \in 1..(Len(q) - n) : SubSeq(q, n + 1, Len(q))[i] = q[n + i]
<1> DEFINE m == n + 1
           k == Len(q)
<1>1. m \in Int /\ k \in Int /\ \A i \in m..k : q[i] \in S
  BY ElementOfSeq
<1>2. n \in Nat /\ k \in Nat /\ n <= k /\ m = n + 1
  OBVIOUS
<1> HIDE DEF m, k
<1>3. /\ SubSeq(q, m, k) \in Seq(S) /\ Len(SubSeq(q, m, k)) = IF m <= k THEN k - m + 1 ELSE 0
      /\ \A i \in 1..(k - m + 1) : SubSeq(q, m, k)[i] = q[m + i - 1]
  BY <1>1, SubSeqProperties
<1>4. Len(SubSeq(q, m, k)) = k - n
  BY <1>2, <1>3
<1>5. ASSUME NEW i \in 1..(k - n) PROVE SubSeq(q, m, k)[i] = q[n + i]
  <2>1. i \in 1..(k - m + 1) /\ m + i - 1 = n + i
    BY <1>2
  <2> QED
    BY <1>3, <2>1
<1> QED
  BY <1>3, <1>4, <1>5 DEF m, k

\* A sequence is its head and its tail.
LEMMA HeadAndTail ==
  ASSUME NEW S, NEW q \in Seq(S), q # <<>>
  PROVE  Head(q) \in S /\ Tail(q) \in Seq(S) /\ q = <<Head(q)>> \o Tail(q) /\ Len(Tail(q)) = Len(q) - 1
OBVIOUS

LEMMA OfFirst ==
  ASSUME NEW S, NEW b \in S, NEW q \in Seq(S)
  PROVE  Head(<<b>> \o q) = b /\ Tail(<<b>> \o q) = q
OBVIOUS
=============================================================================
