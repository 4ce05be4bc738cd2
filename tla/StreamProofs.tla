---------------------------- MODULE StreamProofs ----------------------------
(***************************************************************************)
(* Proofs about the bytes that a connection of the storm core sends: what  *)
(* the worker and the apps send on it, for any number of apps, messages    *)
(* and bytes.                                                              *)
(***************************************************************************)
EXTENDS StormStream, DataProofs

------------------------------------------------------------------------------
(* The bytes of one source: Of                                             *)

\* What Of computes, one byte after the other.
Sorting(s, q) ==
  {f \in [0..Len(q) -> Seq(Bytes)] :
     /\ f[0] = <<>> /\ f[Len(q)] = Of(s, q)
     /\ \A n \in 0..(Len(q) - 1) :
          f[n + 1] = IF q[n + 1][1] = s THEN Append(f[n], q[n + 1]) ELSE f[n]}

LEMMA OfSteps ==
  ASSUME NEW s, NEW q \in Seq(Bytes)
  PROVE  \E f : f \in Sorting(s, q)
<1> DEFINE S == Seq(Bytes)
           next(n, r) == IF q[n + 1][1] = s THEN Append(r, q[n + 1]) ELSE r
           step == [n \in Nat |-> [r \in S |-> IF n < Len(q) THEN next(n, r) ELSE r]]
           Is(f) == f = [n \in 0..Len(q) |->
                      IF n = 0 THEN <<>>
                      ELSE IF q[n][1] = s THEN Append(f[n - 1], q[n]) ELSE f[n - 1]]
<1>1. \A n \in 0..(Len(q) - 1), r \in S : next(n, r) \in S
  OBVIOUS
<1>2. <<>> \in S /\ Len(q) \in Nat
  OBVIOUS
<1> HIDE DEF S, next
<1>3. step \in StepsOn(S)
  BY <1>1, <1>2 DEF StepsOn
<1>4. \A n \in Nat, r \in S : step[n][r] = IF n < Len(q) THEN next(n, r) ELSE r
  OBVIOUS
<1> HIDE DEF step
<1>5. PICK h \in [Nat -> S] :
        h[0] = <<>> /\ \A n \in Nat : h[n + 1] = step[n][h[n]]
  <2>1. PICK h : h \in Runs(S, <<>>, step)
    BY <1>2, <1>3, Recursive
  <2> QED
    BY <2>1 DEF Runs
<1>6. \A n \in 0..(Len(q) - 1) : h[n + 1] = next(n, h[n])
  BY <1>2, <1>4, <1>5
<1> DEFINE g == [n \in 0..Len(q) |-> h[n]]
<1>7. g \in [0..Len(q) -> S] /\ g[0] = <<>>
  BY <1>2, <1>5
<1>8. \A n \in 0..(Len(q) - 1) : g[n + 1] = next(n, g[n])
  BY <1>2, <1>6
<1>9. \A n \in 0..Len(q) : g[n] = IF n = 0 THEN <<>>
                             ELSE IF q[n][1] = s THEN Append(g[n - 1], q[n]) ELSE g[n - 1]
  <2> HIDE DEF g
  <2> SUFFICES ASSUME NEW n \in 0..Len(q), n # 0
               PROVE  g[n] = IF q[n][1] = s THEN Append(g[n - 1], q[n]) ELSE g[n - 1]
    BY <1>7
  <2>1. n - 1 \in 0..(Len(q) - 1) /\ (n - 1) + 1 = n
    BY <1>2
  <2>2. g[(n - 1) + 1] = next(n - 1, g[n - 1])
    BY <1>8, <2>1
  <2> QED
    BY <2>1, <2>2 DEF next
<1>10. Is(g)
  <2>1. g = [n \in 0..Len(q) |-> g[n]]
    OBVIOUS
  <2> HIDE DEF g
  <2> QED
    BY <1>9, <2>1
<1> DEFINE u == CHOOSE f : Is(f)
<1>11. Is(u)
  <2> HIDE DEF Is, g
  <2> QED
    BY <1>10
<1>12. Of(s, q) = u[Len(q)]
  BY Zenon DEF Of
<1>13. \A n \in 0..Len(q) :
         u[n] = IF n = 0 THEN <<>>
                ELSE IF q[n][1] = s THEN Append(u[n - 1], q[n]) ELSE u[n - 1]
  <2> HIDE DEF u, g
  <2> QED
    BY <1>11
<1> HIDE DEF u, Is, g
<1>14. \A n \in 0..(Len(q) - 1) : u[n + 1] = next(n, u[n])
  <2> SUFFICES ASSUME NEW n \in 0..(Len(q) - 1) PROVE u[n + 1] = next(n, u[n])
    OBVIOUS
  <2>1. n + 1 \in 0..Len(q) /\ n + 1 # 0 /\ (n + 1) - 1 = n
    BY <1>2
  <2>2. u[n + 1] = IF q[n + 1][1] = s THEN Append(u[(n + 1) - 1], q[n + 1]) ELSE u[(n + 1) - 1]
    BY <1>13, <2>1
  <2> QED
    BY <2>1, <2>2 DEF next
<1>15. \A n \in Nat : n <= Len(q) => u[n] = g[n]
  <2> DEFINE I == {n \in Nat : n <= Len(q) => u[n] = g[n]}
  <2>1. 0 \in I
    BY <1>2, <1>7, <1>13
  <2>2. ASSUME NEW n \in Nat, n \in I PROVE n + 1 \in I
    BY <1>2, <1>8, <1>14, <2>2
  <2> HIDE DEF I
  <2>3. Nat \subseteq I
    BY <2>1, <2>2, Inductive
  <2> QED
    BY <2>3 DEF I
<1>16. Of(s, q) = g[Len(q)]
  BY <1>2, <1>12, <1>15
<1> QED
  BY <1>7, <1>8, <1>16 DEF S, next, Sorting

LEMMA OfSeq ==
  ASSUME NEW s, NEW q \in Seq(Bytes)
  PROVE  Of(s, q) \in Seq(Bytes)
<1>1. PICK f : f \in Sorting(s, q)
  BY OfSteps
<1>2. Len(q) \in 0..Len(q)
  OBVIOUS
<1> QED
  BY <1>1, <1>2 DEF Sorting

LEMMA OfEmpty ==
  ASSUME NEW s
  PROVE  Of(s, <<>>) = <<>>
<1>1. <<>> \in Seq(Bytes) /\ Len(<<>>) = 0
  OBVIOUS
<1>2. PICK f : f \in Sorting(s, <<>>)
  BY <1>1, OfSteps
<1> QED
  BY <1>1, <1>2 DEF Sorting

LEMMA OfAppend ==
  ASSUME NEW s, NEW q \in Seq(Bytes), NEW b \in Bytes
  PROVE  Of(s, Append(q, b)) = IF b[1] = s THEN Append(Of(s, q), b) ELSE Of(s, q)
<1> DEFINE r == Append(q, b)
<1>1. /\ r \in Seq(Bytes) /\ Len(q) \in Nat /\ Len(r) = Len(q) + 1
      /\ r[Len(q) + 1] = b /\ \A n \in 1..Len(q) : r[n] = q[n]
  OBVIOUS
<1> HIDE DEF r
<1>2. PICK f \in [0..Len(q) -> Seq(Bytes)] :
        /\ Of(s, q) = f[Len(q)] /\ f[0] = <<>>
        /\ \A n \in 0..(Len(q) - 1) :
             f[n + 1] = IF q[n + 1][1] = s THEN Append(f[n], q[n + 1]) ELSE f[n]
  <2>1. PICK f : f \in Sorting(s, q)
    BY OfSteps
  <2> QED
    BY <2>1 DEF Sorting
<1>3. PICK g \in [0..Len(r) -> Seq(Bytes)] :
        /\ Of(s, r) = g[Len(r)] /\ g[0] = <<>>
        /\ \A n \in 0..(Len(r) - 1) :
             g[n + 1] = IF r[n + 1][1] = s THEN Append(g[n], r[n + 1]) ELSE g[n]
  <2>1. PICK g : g \in Sorting(s, r)
    BY <1>1, OfSteps
  <2> QED
    BY <2>1 DEF Sorting
<1>4. \A n \in Nat : n <= Len(q) => g[n] = f[n]
  <2> DEFINE I == {n \in Nat : n <= Len(q) => g[n] = f[n]}
  <2>1. 0 \in I
    BY <1>2, <1>3
  <2>2. ASSUME NEW n \in Nat, n \in I PROVE n + 1 \in I
    <3> SUFFICES ASSUME n + 1 <= Len(q) PROVE g[n + 1] = f[n + 1]
      OBVIOUS
    <3>1. n \in 0..(Len(q) - 1) /\ n \in 0..(Len(r) - 1) /\ r[n + 1] = q[n + 1] /\ g[n] = f[n]
      BY <1>1, <2>2
    <3> QED
      BY <1>2, <1>3, <3>1, ZenonT(60)
  <2> HIDE DEF I
  <2>3. Nat \subseteq I
    BY <2>1, <2>2, Inductive
  <2> QED
    BY <2>3 DEF I
<1>5. g[Len(q)] = Of(s, q) /\ Len(q) \in 0..(Len(r) - 1)
  BY <1>1, <1>2, <1>4
<1>6. Of(s, r) = IF b[1] = s THEN Append(Of(s, q), b) ELSE Of(s, q)
  BY <1>1, <1>3, <1>5
<1> QED
  BY <1>6 DEF r

LEMMA OfConcat ==
  ASSUME NEW s, NEW q \in Seq(Bytes), NEW r \in Seq(Bytes)
  PROVE  Of(s, q \o r) = Of(s, q) \o Of(s, r)
<1> DEFINE I == {n \in Nat : \A t \in Seq(Bytes) :
                               Len(t) = n => Of(s, q \o t) = Of(s, q) \o Of(s, t)}
<1>1. 0 \in I
  <2> SUFFICES ASSUME NEW t \in Seq(Bytes), Len(t) = 0
               PROVE  Of(s, q \o t) = Of(s, q) \o Of(s, t)
    OBVIOUS
  <2>1. t = <<>>
    OBVIOUS
  <2>2. q \o <<>> = q /\ Of(s, q) \o <<>> = Of(s, q)
    BY OfSeq, ConcatEmptySeq
  <2> QED
    BY <2>1, <2>2, OfEmpty
<1>2. ASSUME NEW n \in Nat, n \in I PROVE n + 1 \in I
  <2> SUFFICES ASSUME NEW t \in Seq(Bytes), Len(t) = n + 1
               PROVE  Of(s, q \o t) = Of(s, q) \o Of(s, t)
    OBVIOUS
  <2> DEFINE u == SubSeq(t, 1, n)
             b == t[n + 1]
  <2>1. u \in Seq(Bytes) /\ Len(u) = n /\ b \in Bytes /\ t = Append(u, b)
    OBVIOUS
  <2> HIDE DEF u, b
  <2>2. q \o u \in Seq(Bytes) /\ q \o Append(u, b) = Append(q \o u, b)
    BY <2>1
  <2>3. Of(s, q \o u) = Of(s, q) \o Of(s, u)
    BY <1>2, <2>1
  <2>4. Of(s, q) \in Seq(Bytes) /\ Of(s, u) \in Seq(Bytes)
    BY <2>1, OfSeq
  <2>5. Of(s, q) \o Append(Of(s, u), b) = Append(Of(s, q) \o Of(s, u), b)
    BY <2>1, <2>4
  <2>6. Of(s, Append(u, b)) = IF b[1] = s THEN Append(Of(s, u), b) ELSE Of(s, u)
    BY <2>1, OfAppend
  <2>7. Of(s, Append(q \o u, b))
          = IF b[1] = s THEN Append(Of(s, q \o u), b) ELSE Of(s, q \o u)
    BY <2>1, <2>2, OfAppend
  <2>8. /\ Of(s, t) = IF b[1] = s THEN Append(Of(s, u), b) ELSE Of(s, u)
        /\ Of(s, q \o t) = IF b[1] = s THEN Append(Of(s, q \o u), b) ELSE Of(s, q \o u)
    BY <2>1, <2>2, <2>6, <2>7
  <2> QED
    BY <2>3, <2>5, <2>8
<1> HIDE DEF I
<1>3. Nat \subseteq I
  BY <1>1, <1>2, Inductive
<1>4. Len(r) \in Nat
  OBVIOUS
<1> QED
  BY <1>3, <1>4 DEF I

LEMMA PartsOf ==
  ASSUME NEW q \in Seq(Bytes), NEW n \in 0..Len(q)
  PROVE  /\ First(q, n) \in Seq(Bytes) /\ After(q, n) \in Seq(Bytes)
         /\ Len(First(q, n)) = n /\ Len(After(q, n)) = Len(q) - n
         /\ \A i \in 1..n : First(q, n)[i] = q[i]
         /\ \A i \in 1..(Len(q) - n) : After(q, n)[i] = q[n + i]
         /\ First(q, n) \o After(q, n) = q
<1>1. /\ First(q, n) \in Seq(Bytes) /\ Len(First(q, n)) = n
      /\ \A i \in 1..n : First(q, n)[i] = q[i]
  BY DEF First
<1>2. /\ After(q, n) \in Seq(Bytes) /\ Len(After(q, n)) = Len(q) - n
      /\ \A i \in 1..(Len(q) - n) : After(q, n)[i] = q[n + i]
  BY DEF After
<1>3. First(q, n) \o After(q, n) = q
  <2> DEFINE r == First(q, n) \o After(q, n)
  <2>1. /\ r \in Seq(Bytes) /\ Len(r) = Len(q)
        /\ \A i \in 1..Len(q) : r[i] = IF i <= n THEN First(q, n)[i] ELSE After(q, n)[i - n]
    BY <1>1, <1>2, ConcatProperties
  <2> HIDE DEF r
  <2>2. \A i \in 1..Len(q) : r[i] = q[i]
    BY <1>1, <1>2, <2>1
  <2>3. r = q
    BY <2>1, <2>2, SeqEqual
  <2> QED
    BY <2>3 DEF r
<1> QED
  BY <1>1, <1>2, <1>3

LEMMA OfParts ==
  ASSUME NEW s, NEW q \in Seq(Bytes), NEW n \in 0..Len(q)
  PROVE  Of(s, q) = Of(s, First(q, n)) \o Of(s, After(q, n))
<1>1. First(q, n) \in Seq(Bytes) /\ After(q, n) \in Seq(Bytes) /\ First(q, n) \o After(q, n) = q
  BY PartsOf
<1>2. Of(s, First(q, n) \o After(q, n)) = Of(s, First(q, n)) \o Of(s, After(q, n))
  BY <1>1, OfConcat
<1> QED
  BY <1>1, <1>2

\* What a source has not in the whole it has in no part.
LEMMA OfNone ==
  ASSUME NEW s, NEW q \in Seq(Bytes), NEW n \in 0..Len(q), Of(s, q) = <<>>
  PROVE  Of(s, First(q, n)) = <<>> /\ Of(s, After(q, n)) = <<>>
<1>1. Of(s, First(q, n)) \in Seq(Bytes) /\ Of(s, After(q, n)) \in Seq(Bytes)
  BY PartsOf, OfSeq
<1>2. Of(s, First(q, n)) \o Of(s, After(q, n)) = <<>>
  BY OfParts
<1> QED
  BY <1>1, <1>2, ConcatEqualIffEmpty

LEMMA OfPair ==
  ASSUME NEW s, NEW x \in Sources, NEW i \in Nat, NEW j \in Nat
  PROVE  Of(s, <<<<x, i>>, <<x, j>>>>) = IF s = x THEN <<<<x, i>>, <<x, j>>>> ELSE <<>>
<1> DEFINE b == <<x, i>>
           c == <<x, j>>
<1>1. b \in Bytes /\ c \in Bytes /\ b[1] = x /\ c[1] = x
  BY DEF Bytes
<1> HIDE DEF b, c
<1>2. /\ <<>> \in Seq(Bytes) /\ Append(<<>>, b) \in Seq(Bytes)
      /\ <<b, c>> = Append(Append(<<>>, b), c)
  BY <1>1
<1>3. Of(s, Append(<<>>, b)) = IF b[1] = s THEN Append(Of(s, <<>>), b) ELSE Of(s, <<>>)
  BY <1>1, <1>2, OfAppend
<1>4. Of(s, Append(Append(<<>>, b), c))
        = IF c[1] = s THEN Append(Of(s, Append(<<>>, b)), c) ELSE Of(s, Append(<<>>, b))
  BY <1>1, <1>2, OfAppend
<1>5. Of(s, <<b, c>>) = IF s = x THEN <<b, c>> ELSE <<>>
  BY <1>1, <1>2, <1>3, <1>4, OfEmpty
<1> QED
  BY <1>5 DEF b, c

------------------------------------------------------------------------------
(* The bytes of one source: what the peer has, what waits in sd, what the  *)
(* worker and what an app hold                                             *)

Total(w, a, b, c) == w \o ((a \o b) \o c)

\* Bytes that leave the front of what waits, at each place they can.
LEMMA QueueSends ==
  ASSUME NEW w \in Seq(Bytes), NEW a \in Seq(Bytes), NEW b \in Seq(Bytes),
         NEW c \in Seq(Bytes), NEW x \in Seq(Bytes)
  PROVE  Total(w \o x, a, b, c) = Total(w, x \o a, b, c)
<1>1. ASSUME NEW y \in Seq(Bytes) PROVE (w \o x) \o y = w \o (x \o y)
  BY SMTT(30)
<1>2. (w \o x) \o ((a \o b) \o c) = w \o (x \o ((a \o b) \o c))
  <2>1. (a \o b) \o c \in Seq(Bytes)
    OBVIOUS
  <2> QED
    BY <1>1, <2>1, Zenon
<1>3. x \o ((a \o b) \o c) = (x \o (a \o b)) \o c /\ x \o (a \o b) = (x \o a) \o b
  BY SMTT(30)
<1> QED
  BY <1>2, <1>3, Zenon DEF Total

LEMMA HeldSends ==
  ASSUME NEW w \in Seq(Bytes), NEW b \in Seq(Bytes), NEW c \in Seq(Bytes),
         NEW x \in Seq(Bytes)
  PROVE  Total(w \o x, <<>>, b, c) = Total(w, <<>>, x \o b, c)
<1>1. <<>> \o b = b /\ <<>> \o (x \o b) = x \o b /\ x \o (b \o c) = (x \o b) \o c
  BY SMTT(30)
<1>2. (w \o x) \o (b \o c) = w \o (x \o (b \o c))
  OBVIOUS
<1> QED
  BY <1>1, <1>2, Zenon DEF Total

LEMMA AppSendsMore ==
  ASSUME NEW w \in Seq(Bytes), NEW c \in Seq(Bytes), NEW x \in Seq(Bytes)
  PROVE  Total(w \o x, <<>>, <<>>, c) = Total(w, <<>>, <<>>, x \o c)
BY DEF Total

\* Bytes that go into sd, and new ones.
LEMMA HeldKept ==
  ASSUME NEW w \in Seq(Bytes), NEW a \in Seq(Bytes), NEW b \in Seq(Bytes),
         NEW c \in Seq(Bytes)
  PROVE  Total(w, a \o b, <<>>, c) = Total(w, a, b, c)
BY DEF Total

LEMMA AppKept ==
  ASSUME NEW w \in Seq(Bytes), NEW a \in Seq(Bytes), NEW c \in Seq(Bytes)
  PROVE  Total(w, a \o c, <<>>, <<>>) = Total(w, a, <<>>, c)
BY DEF Total

LEMMA AppMakes ==
  ASSUME NEW w \in Seq(Bytes), NEW a \in Seq(Bytes), NEW b \in Seq(Bytes),
         NEW x \in Seq(Bytes)
  PROVE  Total(w, a, b, <<>>) \o x = Total(w, a, b, x)
<1>1. (a \o b) \o <<>> = a \o b
  OBVIOUS
<1>2. (w \o (a \o b)) \o x = w \o ((a \o b) \o x)
  <2>1. ASSUME NEW y \in Seq(Bytes) PROVE (w \o y) \o x = w \o (y \o x)
    OBVIOUS
  <2>2. a \o b \in Seq(Bytes)
    OBVIOUS
  <2> QED
    BY <2>1, <2>2, Zenon
<1> QED
  BY <1>1, <1>2, Zenon DEF Total

LEMMA HeldMakes ==
  ASSUME NEW w \in Seq(Bytes), NEW a \in Seq(Bytes), NEW x \in Seq(Bytes)
  PROVE  Total(w, a, <<>>, <<>>) \o x = Total(w, a, x, <<>>)
BY DEF Total

\* The first n bytes of a source, in the order they are made.
Numbered(s, n) == [i \in 1..n |-> <<s, i>>]

LEMMA NumberedSeq ==
  ASSUME NEW s \in Sources, NEW n \in Nat
  PROVE  /\ Numbered(s, n) \in Seq(Bytes) /\ Len(Numbered(s, n)) = n
         /\ \A i \in 1..n : Numbered(s, n)[i] = <<s, i>>
BY DEF Numbered, Bytes

LEMMA NumberedMore ==
  ASSUME NEW s \in Sources, NEW m \in Nat
  PROVE  Numbered(s, 2 * m) \o <<<<s, 2 * m + 1>>, <<s, 2 * m + 2>>>>
           = Numbered(s, 2 * (m + 1))
<1> DEFINE q == Numbered(s, 2 * m)
           t == <<<<s, 2 * m + 1>>, <<s, 2 * m + 2>>>>
           r == Numbered(s, 2 * (m + 1))
<1>1. q \in Seq(Bytes) /\ Len(q) = 2 * m /\ \A i \in 1..(2 * m) : q[i] = <<s, i>>
  BY NumberedSeq
<1>2. /\ r \in Seq(Bytes) /\ Len(r) = 2 * m + 2
      /\ \A i \in 1..(2 * m + 2) : r[i] = <<s, i>>
  BY NumberedSeq
<1>3. /\ t \in Seq(Bytes) /\ Len(t) = 2
      /\ t[1] = <<s, 2 * m + 1>> /\ t[2] = <<s, 2 * m + 2>>
  BY DEF Bytes
<1> HIDE DEF q, t, r
<1>4. /\ q \o t \in Seq(Bytes) /\ Len(q \o t) = 2 * m + 2
      /\ \A i \in 1..(2 * m + 2) :
           (q \o t)[i] = IF i <= 2 * m THEN q[i] ELSE t[i - 2 * m]
  <2>1. q \o t \in Seq(Bytes) /\ Len(q \o t) = Len(q) + Len(t)
    BY <1>1, <1>3, ConcatProperties
  <2>2. \A i \in 1..(Len(q) + Len(t)) :
          (q \o t)[i] = IF i <= Len(q) THEN q[i] ELSE t[i - Len(q)]
    BY <1>1, <1>3, ConcatProperties
  <2>3. Len(q) + Len(t) = 2 * m + 2
    BY <1>1, <1>3
  <2> QED
    BY <1>1, <2>1, <2>2, <2>3
<1>5. \A i \in 1..(2 * m + 2) : (q \o t)[i] = r[i]
  <2> SUFFICES ASSUME NEW i \in 1..(2 * m + 2) PROVE (q \o t)[i] = <<s, i>>
    BY <1>2
  <2>1. CASE i <= 2 * m
    BY <1>1, <1>4, <2>1
  <2>2. CASE i = 2 * m + 1
    BY <1>3, <1>4, <2>2
  <2>3. CASE i = 2 * m + 2
    BY <1>3, <1>4, <2>3
  <2>4. i <= 2 * m \/ i = 2 * m + 1 \/ i = 2 * m + 2
    OBVIOUS
  <2> QED
    BY <2>1, <2>2, <2>3, <2>4, Zenon
<1>6. q \o t = r
  BY <1>2, <1>4, <1>5, SeqEqual
<1> QED
  BY <1>6 DEF q, t, r

LEMMA NumberedPrefix ==
  ASSUME NEW s \in Sources, NEW n \in Nat, NEW w \in Seq(Bytes), NEW x \in Seq(Bytes),
         w \o x = Numbered(s, n)
  PROVE  w = Numbered(s, Len(w))
<1>1. /\ Len(w) \in Nat /\ Len(w) <= n /\ \A i \in 1..Len(w) : w[i] = (w \o x)[i]
  <2>1. Len(w \o x) = Len(w) + Len(x) /\ Len(w) \in Nat /\ Len(x) \in Nat
    OBVIOUS
  <2>2. Len(w \o x) = n
    BY NumberedSeq
  <2>3. \A i \in 1..Len(w) : w[i] = (w \o x)[i]
    OBVIOUS
  <2> QED
    BY <2>1, <2>2, <2>3
<1>2. \A i \in 1..Len(w) : w[i] = <<s, i>>
  <2>1. \A i \in 1..n : (w \o x)[i] = <<s, i>>
    BY NumberedSeq
  <2> QED
    BY <1>1, <2>1
<1>3. w = [i \in 1..Len(w) |-> w[i]]
  OBVIOUS
<1> QED
  BY <1>2, <1>3 DEF Numbered

------------------------------------------------------------------------------
(* What the operators of a step do                                         *)

LEMMA WireTakes ==
  ASSUME wire \in [Sources -> Seq(Bytes)],
         NEW q \in Seq(Bytes), NEW n \in 0..Len(q), Wire(q, n)
  PROVE  /\ wire' \in [Sources -> Seq(Bytes)]
         /\ \A s \in Sources : wire'[s] = wire[s] \o Of(s, First(q, n))
<1>1. \A s \in Sources : Of(s, First(q, n)) \in Seq(Bytes)
  BY PartsOf, OfSeq
<1>2. \A s \in Sources : wire[s] \o Of(s, First(q, n)) \in Seq(Bytes)
  BY <1>1
<1> QED
  BY <1>2 DEF Wire

LEMMA MakeTakes ==
  ASSUME made \in [Sources -> Nat], \A s \in Sources : made[s] <= Most[s],
         StreamAssumption, NEW x \in Sources, Make(x)
  PROVE  /\ made' \in [Sources -> Nat] /\ \A s \in Sources : made'[s] <= Most[s]
         /\ \A s \in Sources : made'[s] = IF s = x THEN made[s] + 1 ELSE made[s]
BY DEF Make, StreamAssumption

LEMMA MessageOf ==
  ASSUME made \in [Sources -> Nat], NEW x \in Sources
  PROVE  /\ Message(x) \in Seq(Bytes)
         /\ \A s : Of(s, Message(x)) = IF s = x THEN Message(x) ELSE <<>>
<1>1. made[x] \in Nat /\ 2 * made[x] + 1 \in Nat /\ 2 * made[x] + 2 \in Nat
  OBVIOUS
<1>2. Message(x) \in Seq(Bytes)
  BY <1>1 DEF Message, Bytes
<1>3. ASSUME NEW s PROVE Of(s, Message(x)) = IF s = x THEN Message(x) ELSE <<>>
  <2>1. Of(s, <<<<x, 2 * made[x] + 1>>, <<x, 2 * made[x] + 2>>>>)
          = IF s = x THEN <<<<x, 2 * made[x] + 1>>, <<x, 2 * made[x] + 2>>>> ELSE <<>>
    BY <1>1, OfPair
  <2> QED
    BY <2>1 DEF Message
<1> QED
  BY <1>2, <1>3

------------------------------------------------------------------------------
(* The invariant                                                           *)

\* What of sd the peer does not have, and what the worker has from a handler.
QueuedBytes == IF wpc = "del" THEN After(sd, sent) ELSE sd
HeldBytes == IF wpc \in {"made", "keep", "answer", "keep answer"} THEN hand ELSE <<>>

\* The bytes of each source are with the peer, in sd, with the worker and with
\* an app, one part after the other.
WaitingOf(s) == Total(wire[s], Of(s, QueuedBytes), Of(s, HeldBytes), Of(s, ahand))

Whole == wpc # "closed" => \A s \in Sources : WaitingOf(s) = Numbered(s, 2 * made[s])

\* Whose bytes each of them holds, and that who sends at once finds none of its
\* own in sd.
Hands ==
  /\ wpc \in {"queued", "del"} => Len(hand) <= Len(sd) /\ hand = First(sd, Len(hand))
  /\ wpc \in {"made", "keep"} => \A s \in Sources : s # "stream" => Of(s, hand) = <<>>
  /\ wpc \in {"answer", "keep answer"} =>
       \A s \in Sources : s # "reply" => Of(s, hand) = <<>>
  /\ wpc = "made" => Of("stream", sd) = <<>>
  /\ wpc = "answer" => Of("reply", sd) = <<>>
  /\ \A s \in Sources : s # lockBy => Of(s, ahand) = <<>>
  /\ adirect => lockBy # Nobody /\ Of(lockBy, sd) = <<>>
  /\ wpc = "closed" => lockBy = Nobody

StreamInv == StreamTypeOK /\ Hands /\ Whole /\ InOrder

LEMMA StreamTypeStep ==
  ASSUME StreamAssumption, StreamTypeOK, Hands, StreamNext
  PROVE  StreamTypeOK'
<1>1. /\ wire \in [Sources -> Seq(Bytes)]
      /\ sd \in Seq(Bytes) /\ hand \in Seq(Bytes) /\ ahand \in Seq(Bytes)
      /\ "reply" \in Sources /\ "stream" \in Sources /\ Apps \subseteq Sources
      /\ <<>> \in Seq(Bytes)
  <2>1. "reply" \in Sources /\ "stream" \in Sources /\ Apps \subseteq Sources
    BY DEF Sources
  <2>2. <<>> \in Seq(Bytes)
    OBVIOUS
  <2> QED
    BY <2>1, <2>2 DEF StreamTypeOK
<1>2. StackBuf \in Nat /\ Len(sd) \in Nat
  BY <1>1 DEF StreamAssumption
<1> DEFINE taken == IF Len(sd) < StackBuf THEN Len(sd) ELSE StackBuf
<1>3. taken \in 0..Len(sd)
  BY <1>2
<1> HIDE DEF taken
<1> USE DEF StreamTypeOK
<1>4. CASE WorkDo
  BY <1>4 DEF WorkDo, appVars
<1>5. CASE SdGet
  <2>1. hand' \in Seq(Bytes)
    BY <1>1, <1>5, <1>3, PartsOf DEF SdGet, taken
  <2> QED
    BY <1>5, <2>1 DEF SdGet, appVars
<1>6. CASE SdDel
  <2>1. sent \in 0..Len(sd)
    BY <1>1, <1>6 DEF SdDel, Hands
  <2>2. sd' \in Seq(Bytes)
    BY <1>1, <1>6, <2>1, PartsOf DEF SdDel
  <2> QED
    BY <1>1, <1>6, <2>2 DEF SdDel, appVars
<1>7. CASE StormSend
  <2>1. CASE wpc' = "recv" /\ UNCHANGED <<made, hand>>
    BY <1>7, <2>1 DEF StormSend, appVars
  <2>2. CASE Make("stream") /\ hand' = Message("stream") /\ wpc' = "made"
    BY <1>1, <1>7, <2>2, MakeTakes, MessageOf DEF StormSend, appVars
  <2> QED
    BY <1>7, <2>1, <2>2 DEF StormSend
<1>8. CASE StormRecv
  <2>1. CASE wpc' = "idle" /\ UNCHANGED <<made, hand>>
    BY <1>8, <2>1 DEF StormRecv, appVars
  <2>2. CASE Make("reply") /\ hand' = Message("reply") /\ wpc' = "answer"
    BY <1>1, <1>8, <2>2, MakeTakes, MessageOf DEF StormRecv, appVars
  <2> QED
    BY <1>8, <2>1, <2>2 DEF StormRecv
<1>9. CASE Keep
  <2>1. sd \o hand \in Seq(Bytes)
    BY <1>1, ConcatProperties
  <2> QED
    BY <1>1, <1>9, <2>1 DEF Keep, appVars
<1>10. CASE DelSocketData
  BY <1>1, <1>10 DEF DelSocketData, appVars
<1>11. ASSUME NEW n \in 0..Len(hand), SendQueued(n)
      PROVE  StreamTypeOK'
  <2>1. wire' \in [Sources -> Seq(Bytes)]
    BY <1>1, <1>11, WireTakes DEF SendQueued
  <2>2. CASE n > 0
    BY <1>1, <1>11, <2>1, <2>2, SMTT(30) DEF SendQueued, appVars
  <2>3. CASE ~(n > 0)
    BY <1>1, <1>11, <2>1, <2>3 DEF SendQueued, appVars
  <2> QED
    BY <2>1, <2>2, <2>3
<1>12. ASSUME NEW n \in 0..Len(hand), SendNew(n)
       PROVE  StreamTypeOK'
  <2>1. wire' \in [Sources -> Seq(Bytes)]
    BY <1>1, <1>12, WireTakes DEF SendNew
  <2>2. hand' \in Seq(Bytes)
    BY <1>1, <1>12, PartsOf DEF SendNew
  <2> QED
    BY <1>1, <1>12, <2>1, <2>2 DEF SendNew, appVars
<1>13. ASSUME NEW a \in Apps, StormSendData(a)
       PROVE  StreamTypeOK'
  <2>1. adirect' \in BOOLEAN
    BY <1>13 DEF StormSendData, SendsAtOnce
  <2>2. a # Nobody
    BY DEF StreamAssumption
  <2>3. Make(a) /\ ahand' = Message(a) /\ a \in Sources
    BY <1>1, <1>13 DEF StormSendData
  <2>4. ahand' \in Seq(Bytes)
    BY <2>3, MessageOf
  <2>5. made' \in [Sources -> Nat] /\ \A s \in Sources : made'[s] <= Most[s]
    BY <2>3, MakeTakes
  <2> QED
    BY <1>1, <1>13, <2>1, <2>2, <2>4, <2>5 DEF StormSendData, workerVars
<1>14. CASE AppKeeps
  <2>1. sd \o ahand \in Seq(Bytes)
    BY <1>1, ConcatProperties
  <2> QED
    BY <1>1, <1>14, <2>1 DEF AppKeeps, workerVars
<1>15. ASSUME NEW n \in 0..Len(ahand), AppSends(n)
       PROVE  StreamTypeOK'
  <2>1. wire' \in [Sources -> Seq(Bytes)]
    BY <1>1, <1>15, WireTakes DEF AppSends
  <2>2. ahand' \in Seq(Bytes)
    BY <1>1, <1>15, PartsOf DEF AppSends
  <2> QED
    BY <1>1, <1>15, <2>1, <2>2 DEF AppSends, workerVars
<1> QED
  BY <1>4, <1>5, <1>6, <1>7, <1>8, <1>9, <1>10, <1>11, <1>12, <1>13, <1>14, <1>15
     DEF StreamNext

\* What the proofs below need of the state before a step.
LEMMA StreamFacts ==
  ASSUME StreamAssumption, StreamTypeOK
  PROVE  /\ wire \in [Sources -> Seq(Bytes)] /\ made \in [Sources -> Nat]
         /\ sd \in Seq(Bytes) /\ hand \in Seq(Bytes) /\ ahand \in Seq(Bytes)
         /\ "reply" \in Sources /\ "stream" \in Sources /\ Apps \subseteq Sources
         /\ lockBy \in Apps \cup {Nobody} /\ Nobody \notin Apps
         /\ "reply" \notin Apps /\ "stream" \notin Apps
         /\ StackBuf \in Nat \ {0} /\ Len(sd) \in Nat /\ Len(hand) \in Nat
         /\ Len(ahand) \in Nat
<1>1. "reply" \in Sources /\ "stream" \in Sources /\ Apps \subseteq Sources
  BY DEF Sources
<1>2. /\ wire \in [Sources -> Seq(Bytes)] /\ made \in [Sources -> Nat]
      /\ sd \in Seq(Bytes) /\ hand \in Seq(Bytes) /\ ahand \in Seq(Bytes)
      /\ lockBy \in Apps \cup {Nobody}
  BY DEF StreamTypeOK
<1>3. /\ Nobody \notin Apps /\ StackBuf \in Nat \ {0}
      /\ "reply" \notin Apps /\ "stream" \notin Apps
  BY DEF StreamAssumption
<1> HIDE DEF StreamTypeOK
<1>4. Len(sd) \in Nat /\ Len(hand) \in Nat /\ Len(ahand) \in Nat
  BY <1>2
<1> QED
  BY <1>1, <1>2, <1>3, <1>4

\* What a sequence has not a sequence put behind it has not either.
LEMMA OfBoth ==
  ASSUME NEW s, NEW q \in Seq(Bytes), NEW r \in Seq(Bytes), Of(s, q) = <<>>, Of(s, r) = <<>>
  PROVE  Of(s, q \o r) = <<>>
<1>1. <<>> \o <<>> = <<>>
  OBVIOUS
<1> QED
  BY <1>1, OfConcat

LEMMA PartsOfConcat ==
  ASSUME NEW q \in Seq(Bytes), NEW r \in Seq(Bytes), NEW n \in 0..Len(q)
  PROVE  First(q \o r, n) = First(q, n) /\ After(q \o r, n) = After(q, n) \o r
<1> DEFINE t == q \o r
<1>1. /\ t \in Seq(Bytes) /\ Len(t) = Len(q) + Len(r) /\ Len(q) \in Nat /\ Len(r) \in Nat
      /\ \A i \in 1..(Len(q) + Len(r)) : t[i] = IF i <= Len(q) THEN q[i] ELSE r[i - Len(q)]
  BY ConcatProperties
<1> HIDE DEF t
<1>2. n \in 0..Len(t)
  BY <1>1
<1>3. /\ First(t, n) \in Seq(Bytes) /\ After(t, n) \in Seq(Bytes)
      /\ Len(First(t, n)) = n /\ Len(After(t, n)) = Len(t) - n
      /\ \A i \in 1..n : First(t, n)[i] = t[i]
      /\ \A i \in 1..(Len(t) - n) : After(t, n)[i] = t[n + i]
  BY <1>1, <1>2, PartsOf
<1>4. /\ First(q, n) \in Seq(Bytes) /\ After(q, n) \in Seq(Bytes)
      /\ Len(First(q, n)) = n /\ Len(After(q, n)) = Len(q) - n
      /\ \A i \in 1..n : First(q, n)[i] = q[i]
      /\ \A i \in 1..(Len(q) - n) : After(q, n)[i] = q[n + i]
  BY PartsOf
<1>5. First(t, n) = First(q, n)
  <2>1. \A i \in 1..n : First(t, n)[i] = First(q, n)[i]
    BY <1>1, <1>3, <1>4
  <2> QED
    BY <1>3, <1>4, <2>1, SeqEqual
<1>6. After(t, n) = After(q, n) \o r
  <2> DEFINE u == After(q, n) \o r
  <2>1. /\ u \in Seq(Bytes) /\ Len(u) = Len(t) - n
        /\ \A i \in 1..(Len(t) - n) :
             u[i] = IF i <= Len(q) - n THEN After(q, n)[i] ELSE r[i - (Len(q) - n)]
    <3> DEFINE v == After(q, n)
    <3>1. v \in Seq(Bytes) /\ Len(v) = Len(q) - n
      BY <1>4
    <3> HIDE DEF v
    <3>2. /\ v \o r \in Seq(Bytes) /\ Len(v \o r) = Len(v) + Len(r)
          /\ \A i \in 1..(Len(v) + Len(r)) :
               (v \o r)[i] = IF i <= Len(v) THEN v[i] ELSE r[i - Len(v)]
      BY <3>1, ConcatProperties
    <3>3. Len(v) + Len(r) = Len(t) - n
      BY <1>1, <3>1
    <3> QED
      BY <3>1, <3>2, <3>3 DEF v
  <2> HIDE DEF u
  <2>2. ASSUME NEW i \in 1..(Len(t) - n) PROVE u[i] = After(t, n)[i]
    <3>1. CASE i <= Len(q) - n
      BY <1>1, <1>3, <1>4, <2>1, <3>1
    <3>2. CASE i > Len(q) - n
      <4>1. After(t, n)[i] = t[n + i] /\ n + i \in 1..(Len(q) + Len(r)) /\ ~(n + i <= Len(q))
        BY <1>1, <1>3, <3>2
      <4>2. (n + i) - Len(q) = i - (Len(q) - n)
        BY <1>1
      <4>3. t[n + i] = r[(n + i) - Len(q)]
        BY <1>1, <4>1
      <4>4. ~(i <= Len(q) - n)
        BY <1>1, <3>2
      <4>5. u[i] = r[i - (Len(q) - n)]
        BY <2>1, <4>4
      <4> QED
        BY <4>1, <4>2, <4>3, <4>5
    <3> QED
      BY <1>1, <3>1, <3>2
  <2>3. u = After(t, n)
    BY <1>3, <2>1, <2>2, SeqEqual
  <2> QED
    BY <2>3 DEF u
<1> QED
  BY <1>5, <1>6 DEF t

\* When the peer has all bytes of a source nothing of it waits.
LEMMA NothingWaits ==
  ASSUME NEW w \in Seq(Bytes), NEW a \in Seq(Bytes), NEW b \in Seq(Bytes),
         NEW c \in Seq(Bytes), Len(Total(w, a, b, c)) = Len(w)
  PROVE  a = <<>>
<1>1. Len(w \o ((a \o b) \o c)) = Len(w) + (Len(a) + Len(b) + Len(c))
  OBVIOUS
<1>2. Len(w) \in Nat /\ Len(a) \in Nat /\ Len(b) \in Nat /\ Len(c) \in Nat
  OBVIOUS
<1>3. Len(a) = 0
  BY <1>1, <1>2 DEF Total
<1> QED
  BY <1>3, EmptySeq

LEMMA HandsStep ==
  ASSUME StreamAssumption, ~Pipelined, StreamTypeOK, Hands, Whole, StreamNext
  PROVE  Hands'
<1>1. /\ wire \in [Sources -> Seq(Bytes)] /\ made \in [Sources -> Nat]
      /\ sd \in Seq(Bytes) /\ hand \in Seq(Bytes) /\ ahand \in Seq(Bytes)
      /\ "reply" \in Sources /\ "stream" \in Sources /\ Apps \subseteq Sources
      /\ lockBy \in Apps \cup {Nobody} /\ Nobody \notin Apps
      /\ "reply" \notin Apps /\ "stream" \notin Apps
      /\ StackBuf \in Nat \ {0} /\ Len(sd) \in Nat /\ Len(hand) \in Nat
      /\ Len(ahand) \in Nat
  BY StreamFacts
<1>2. CASE WorkDo
  BY <1>2 DEF WorkDo, appVars, Hands
<1>3. CASE SdGet
  <2> DEFINE n == IF Len(sd) < StackBuf THEN Len(sd) ELSE StackBuf
  <2>1. n \in 0..Len(sd)
    BY <1>1
  <2>2. hand' = First(sd, n) /\ sd' = sd /\ Len(hand') = n
    BY <1>1, <1>3, <2>1, PartsOf DEF SdGet
  <2> QED
    BY <1>3, <2>1, <2>2 DEF SdGet, Hands, appVars
<1>4. CASE SdDel
  <2>1. sent \in 0..Len(sd)
    BY <1>1, <1>4 DEF SdDel, Hands, StreamTypeOK
  <2>2. \A s : Of(s, sd) = <<>> => Of(s, sd') = <<>>
    BY <1>1, <1>4, <2>1, OfNone DEF SdDel
  <2> QED
    BY <1>4, <2>2 DEF SdDel, Hands, appVars
<1>5. CASE StormSend
  <2>1. CASE wpc' = "recv" /\ UNCHANGED <<made, hand>>
    BY <1>5, <2>1 DEF StormSend, Hands, appVars
  <2>2. CASE Make("stream") /\ hand' = Message("stream") /\ wpc' = "made"
    <3>1. \A s \in Sources : s # "stream" => Of(s, hand') = <<>>
      BY <1>1, <2>2, MessageOf
    <3>2. Of("stream", sd') = <<>>
      BY <1>5, OfEmpty DEF StormSend
    <3> QED
      BY <1>5, <2>2, <3>1, <3>2 DEF StormSend, Hands, appVars
  <2> QED
    BY <1>5, <2>1, <2>2 DEF StormSend
<1>6. CASE StormRecv
  <2>1. CASE wpc' = "idle" /\ UNCHANGED <<made, hand>>
    BY <1>6, <2>1 DEF StormRecv, Hands, appVars
  <2>2. CASE Make("reply") /\ hand' = Message("reply") /\ wpc' = "answer"
    <3>1. \A s \in Sources : s # "reply" => Of(s, hand') = <<>>
      BY <1>1, <2>2, MessageOf
    <3>2. Of("reply", sd) = <<>>
      <4>1. Len(wire["reply"]) = 2 * made["reply"]
        BY <1>6, <2>2 DEF StormRecv
      <4>2. QueuedBytes = sd /\ wpc # "closed"
        BY <1>6 DEF StormRecv, QueuedBytes
      <4>3. WaitingOf("reply") = Numbered("reply", 2 * made["reply"])
        BY <1>1, <4>2 DEF Whole
      <4>4. /\ wire["reply"] \in Seq(Bytes) /\ Of("reply", sd) \in Seq(Bytes)
            /\ Of("reply", HeldBytes) \in Seq(Bytes) /\ Of("reply", ahand) \in Seq(Bytes)
        <5>1. HeldBytes \in Seq(Bytes)
          BY <1>6, EmptySeq DEF StormRecv, HeldBytes
        <5>2. wire["reply"] \in Seq(Bytes)
          BY <1>1
        <5> QED
          BY <1>1, <5>1, <5>2, OfSeq
      <4>5. 2 * made["reply"] \in Nat
        BY <1>1
      <4>6. Len(WaitingOf("reply")) = 2 * made["reply"]
        BY <1>1, <4>3, <4>5, NumberedSeq
      <4> QED
        BY <4>1, <4>2, <4>4, <4>6, NothingWaits DEF WaitingOf
    <3> QED
      BY <1>6, <2>2, <3>1, <3>2 DEF StormRecv, Hands, appVars
  <2> QED
    BY <1>6, <2>1, <2>2 DEF StormRecv
<1>7. CASE Keep
  <2>1. sd' = sd \o hand /\ hand' = <<>>
    BY <1>7 DEF Keep
  <2>2. \A s : Of(s, sd) = <<>> /\ Of(s, hand) = <<>> => Of(s, sd') = <<>>
    BY <1>1, <2>1, OfBoth
  <2>3. adirect => lockBy \in Sources /\ lockBy # "stream" /\ lockBy # "reply"
    BY <1>1 DEF Hands
  <2>4. adirect => Of(lockBy, hand) = <<>>
    BY <1>7, <2>3 DEF Keep, Hands
  <2>5. adirect => Of(lockBy, sd') = <<>>
    BY <2>2, <2>4 DEF Hands
  <2> QED
    BY <1>7, <2>5 DEF Keep, Hands, appVars
<1>8. CASE DelSocketData
  <2>1. Of(lockBy, sd') = <<>>
    BY <1>8, OfEmpty DEF DelSocketData
  <2> QED
    BY <1>8, <2>1 DEF DelSocketData, Hands, appVars
<1>9. ASSUME NEW n \in 0..Len(hand), SendQueued(n)
      PROVE  Hands'
  BY <1>9 DEF SendQueued, Hands, appVars
<1>10. ASSUME NEW n \in 0..Len(hand), SendNew(n)
       PROVE  Hands'
  <2>1. \A s : Of(s, hand) = <<>> => Of(s, hand') = <<>>
    BY <1>1, <1>10, OfNone DEF SendNew
  <2> QED
    BY <1>10, <2>1 DEF SendNew, Hands, appVars
<1>11. ASSUME NEW a \in Apps, StormSendData(a)
       PROVE  Hands'
  <2>1. \A s \in Sources : s # a => Of(s, ahand') = <<>>
    BY <1>1, <1>11, MessageOf DEF StormSendData
  <2>2. adirect' => Of(a, sd') = <<>>
    BY <1>11, OfEmpty DEF StormSendData, SendsAtOnce
  <2>3. lockBy' = a /\ a # Nobody /\ wpc' = wpc /\ wpc # "closed" /\ sd' = sd /\ hand' = hand
    BY <1>1, <1>11 DEF StormSendData, workerVars
  <2> QED
    BY <2>1, <2>2, <2>3 DEF Hands
<1>12. CASE AppKeeps
  <2>1. sd' = sd \o ahand /\ ahand' = <<>> /\ lockBy' = Nobody
        /\ wpc' = wpc /\ hand' = hand /\ adirect' = FALSE
    BY <1>12 DEF AppKeeps, workerVars
  <2>2. \A s : Of(s, sd) = <<>> /\ Of(s, ahand) = <<>> => Of(s, sd') = <<>>
    BY <1>1, <2>1, OfBoth
  <2>3. lockBy # "stream" /\ lockBy # "reply"
    BY <1>1, <1>12 DEF AppKeeps
  <2>4. Of("stream", ahand) = <<>> /\ Of("reply", ahand) = <<>>
    BY <1>1, <2>3 DEF Hands
  <2>5. \A s \in Sources : Of(s, ahand') = <<>>
    BY <2>1, OfEmpty
  <2>6. wpc \in {"queued", "del"} => Len(hand') <= Len(sd') /\ hand' = First(sd', Len(hand'))
    <3> SUFFICES ASSUME wpc \in {"queued", "del"}
                 PROVE  Len(hand) <= Len(sd') /\ hand = First(sd', Len(hand))
      BY <2>1
    <3>1. Len(hand) \in 0..Len(sd) /\ hand = First(sd, Len(hand))
      <4>1. Len(hand) <= Len(sd) /\ hand = First(sd, Len(hand))
        BY DEF Hands
      <4> QED
        BY <1>1, <4>1
    <3>2. Len(sd') = Len(sd) + Len(ahand)
      BY <1>1, <2>1, ConcatProperties
    <3> QED
      BY <1>1, <2>1, <3>1, <3>2, PartsOfConcat
  <2>7. wpc' # "closed"
    BY <1>12, <2>1 DEF AppKeeps, Hands
  <2> QED
    BY <2>1, <2>2, <2>4, <2>5, <2>6, <2>7 DEF Hands
<1>13. ASSUME NEW n \in 0..Len(ahand), AppSends(n)
       PROVE  Hands'
  <2>1. \A s : Of(s, ahand) = <<>> => Of(s, ahand') = <<>>
    BY <1>1, <1>13, OfNone DEF AppSends
  <2> QED
    BY <1>13, <2>1 DEF AppSends, Hands, workerVars
<1> QED
  BY <1>2, <1>3, <1>4, <1>5, <1>6, <1>7, <1>8, <1>9, <1>10, <1>11, <1>12, <1>13
     DEF StreamNext

LEMMA FirstOfFirst ==
  ASSUME NEW q \in Seq(Bytes), NEW m \in 0..Len(q), NEW n \in 0..m
  PROVE  First(First(q, m), n) = First(q, n)
<1> DEFINE t == First(q, m)
<1>1. /\ t \in Seq(Bytes) /\ Len(t) = m /\ \A i \in 1..m : t[i] = q[i]
      /\ Len(q) \in Nat
  BY PartsOf
<1> HIDE DEF t
<1>2. n \in 0..Len(t) /\ n \in 0..Len(q)
  BY <1>1
<1>3. /\ First(t, n) \in Seq(Bytes) /\ Len(First(t, n)) = n
      /\ \A i \in 1..n : First(t, n)[i] = t[i]
  BY <1>1, <1>2, PartsOf
<1>4. /\ First(q, n) \in Seq(Bytes) /\ Len(First(q, n)) = n
      /\ \A i \in 1..n : First(q, n)[i] = q[i]
  BY <1>2, PartsOf
<1>5. \A i \in 1..n : First(t, n)[i] = First(q, n)[i]
  BY <1>1, <1>3, <1>4
<1>6. First(t, n) = First(q, n)
  BY <1>3, <1>4, <1>5, SeqEqual
<1> QED
  BY <1>6 DEF t

LEMMA PartsTyped ==
  ASSUME StreamAssumption, StreamTypeOK, Hands
  PROVE  QueuedBytes \in Seq(Bytes) /\ HeldBytes \in Seq(Bytes)
<1>1. sd \in Seq(Bytes) /\ hand \in Seq(Bytes) /\ Len(sd) \in Nat /\ Len(hand) \in Nat
  BY StreamFacts
<1>2. wpc = "del" => sent \in 0..Len(sd)
  <2> SUFFICES ASSUME wpc = "del" PROVE sent \in 0..Len(sd)
    OBVIOUS
  <2>1. sent \in 1..Len(hand)
    BY DEF StreamTypeOK
  <2>2. Len(hand) <= Len(sd)
    BY DEF Hands
  <2> QED
    BY <1>1, <2>1, <2>2
<1>3. QueuedBytes \in Seq(Bytes)
  BY <1>1, <1>2, PartsOf DEF QueuedBytes
<1>4. HeldBytes \in Seq(Bytes)
  BY <1>1, EmptySeq DEF HeldBytes
<1> QED
  BY <1>3, <1>4

LEMMA WholeStep ==
  ASSUME StreamAssumption, ~Pipelined, StreamTypeOK, Hands, Whole, StreamNext
  PROVE  Whole'
<1>1. /\ wire \in [Sources -> Seq(Bytes)] /\ made \in [Sources -> Nat]
      /\ sd \in Seq(Bytes) /\ hand \in Seq(Bytes) /\ ahand \in Seq(Bytes)
      /\ "reply" \in Sources /\ "stream" \in Sources /\ Apps \subseteq Sources
      /\ lockBy \in Apps \cup {Nobody} /\ Nobody \notin Apps
      /\ "reply" \notin Apps /\ "stream" \notin Apps
      /\ StackBuf \in Nat \ {0} /\ Len(sd) \in Nat /\ Len(hand) \in Nat
      /\ Len(ahand) \in Nat
  BY StreamFacts
<1>2. QueuedBytes \in Seq(Bytes) /\ HeldBytes \in Seq(Bytes)
  BY PartsTyped
<1> SUFFICES ASSUME wpc' # "closed", NEW s \in Sources
             PROVE  WaitingOf(s)' = Numbered(s, 2 * made'[s])
  BY DEF Whole
<1> DEFINE w == wire[s]
           a == Of(s, QueuedBytes)
           b == Of(s, HeldBytes)
           c == Of(s, ahand)
<1>3. w \in Seq(Bytes) /\ a \in Seq(Bytes) /\ b \in Seq(Bytes) /\ c \in Seq(Bytes)
  BY <1>1, <1>2, OfSeq
<1>4. wpc # "closed"
  <2> SUFFICES ASSUME wpc = "closed" PROVE FALSE
    OBVIOUS
  <2>1. lockBy = Nobody /\ wpc = "closed"
    BY DEF Hands
  <2> QED
    BY <2>1 DEF StreamNext, WorkDo, SdGet, SdDel, StormSend, StormRecv, Keep, DelSocketData,
                SendQueued, SendNew, StormSendData, AppKeeps, AppSends, workerVars
<1>5. Total(w, a, b, c) = Numbered(s, 2 * made[s])
  BY <1>4 DEF Whole, WaitingOf
<1>6. WaitingOf(s)' = Total(w', a', b', c')
  BY DEF WaitingOf
<1> DEFINE Same == Total(w', a', b', c') = Total(w, a, b, c) /\ made'[s] = made[s]
           More == /\ Total(w', a', b', c') = Total(w, a, b, c) \o Message(s)
                   /\ made'[s] = made[s] + 1
<1>7. s # "stream" /\ s # "reply" => b = <<>>
  BY OfEmpty DEF HeldBytes, Hands
<1>8. s # lockBy => c = <<>>
  BY DEF Hands
<1>9. ASSUME NEW x \in {"stream", "reply"}, Make(x), HeldBytes = <<>>, HeldBytes' = Message(x),
              wire' = wire, QueuedBytes' = QueuedBytes, ahand' = ahand
       PROVE  Same \/ More
  <2>1. w' = w /\ a' = a /\ c' = c /\ b = <<>>
    BY <1>9, OfEmpty
  <2>2. made'[s] = IF s = x THEN made[s] + 1 ELSE made[s]
    BY <1>1, <1>9, MakeTakes DEF StreamTypeOK
  <2>3. b' = IF s = x THEN Message(s) ELSE <<>>
    BY <1>1, <1>9, MessageOf, ZenonT(60)
  <2>4. s = x => c = <<>>
    <3>1. lockBy = Nobody => c = <<>>
      BY OfEmpty DEF StreamTypeOK
    <3> QED
      BY <1>1, <1>8, <3>1
  <2>5. Message(s) \in Seq(Bytes)
    BY <1>1, MessageOf
  <2>6. Total(w, a, Message(s), <<>>) = Total(w, a, <<>>, <<>>) \o Message(s)
    BY <1>3, <2>5, HeldMakes
  <2> HIDE DEF w, a, b, c
  <2> QED
    BY <2>1, <2>2, <2>3, <2>4, <2>6
<1>10. ASSUME WorkDo PROVE Same
  <2>1. w' = w /\ a' = a /\ b' = b /\ c' = c /\ made' = made
    BY <1>10 DEF WorkDo, appVars, QueuedBytes, HeldBytes
  <2> QED
    BY <2>1
<1>11. ASSUME SdGet PROVE Same
  <2>1. w' = w /\ a' = a /\ b' = b /\ c' = c /\ made' = made
    BY <1>11 DEF SdGet, appVars, QueuedBytes, HeldBytes
  <2> QED
    BY <2>1
<1>12. ASSUME SdDel PROVE Same
  <2>1. w' = w /\ a' = a /\ b' = b /\ c' = c /\ made' = made
    BY <1>12 DEF SdDel, appVars, QueuedBytes, HeldBytes
  <2> QED
    BY <2>1
<1>13. ASSUME StormSend PROVE Same \/ More
  <2>1. CASE wpc' = "recv" /\ UNCHANGED <<made, hand>>
    <3>1. w' = w /\ a' = a /\ b' = b /\ c' = c /\ made' = made
      BY <1>13, <2>1 DEF StormSend, appVars, QueuedBytes, HeldBytes
    <3> QED
      BY <3>1
  <2>2. CASE Make("stream") /\ hand' = Message("stream") /\ wpc' = "made"
    <3>1. /\ HeldBytes = <<>> /\ HeldBytes' = Message("stream")
          /\ wire' = wire /\ QueuedBytes' = QueuedBytes /\ ahand' = ahand
      BY <1>13, <2>2 DEF StormSend, appVars, QueuedBytes, HeldBytes
    <3> QED
      BY <1>9, <2>2, <3>1
  <2> QED
    BY <1>13, <2>1, <2>2 DEF StormSend
<1>14. ASSUME StormRecv PROVE Same \/ More
  <2>1. CASE wpc' = "idle" /\ UNCHANGED <<made, hand>>
    <3>1. w' = w /\ a' = a /\ b' = b /\ c' = c /\ made' = made
      BY <1>14, <2>1 DEF StormRecv, appVars, QueuedBytes, HeldBytes
    <3> QED
      BY <3>1
  <2>2. CASE Make("reply") /\ hand' = Message("reply") /\ wpc' = "answer"
    <3>1. /\ HeldBytes = <<>> /\ HeldBytes' = Message("reply")
          /\ wire' = wire /\ QueuedBytes' = QueuedBytes /\ ahand' = ahand
      BY <1>14, <2>2 DEF StormRecv, appVars, QueuedBytes, HeldBytes
    <3> QED
      BY <1>9, <2>2, <3>1
  <2> QED
    BY <1>14, <2>1, <2>2 DEF StormRecv
<1>15. ASSUME Keep PROVE Same
  <2>1. /\ w' = w /\ c' = c /\ made' = made
        /\ QueuedBytes = sd /\ HeldBytes = hand /\ QueuedBytes' = sd \o hand /\ HeldBytes' = <<>>
    BY <1>15 DEF Keep, appVars, QueuedBytes, HeldBytes
  <2>2. a' = a \o b
    BY <1>1, <2>1, OfConcat
  <2>3. b' = <<>>
    BY <2>1, OfEmpty
  <2>4. Total(w, a \o b, <<>>, c) = Total(w, a, b, c)
    BY <1>3, HeldKept
  <2> HIDE DEF w, a, b, c
  <2> QED
    BY <2>1, <2>2, <2>3, <2>4
<1>16. ASSUME DelSocketData PROVE Same
  BY <1>16 DEF DelSocketData
<1>17. ASSUME NEW n \in 0..Len(hand), SendQueued(n)
       PROVE  Same
  <2>1. /\ wpc = "queued" /\ QueuedBytes = sd /\ HeldBytes = <<>> /\ HeldBytes' = <<>> /\ Wire(hand, n)
        /\ sd' = sd /\ ahand' = ahand /\ made' = made
        /\ QueuedBytes' = IF n > 0 THEN After(sd, n) ELSE sd
    BY <1>17 DEF SendQueued, appVars, QueuedBytes, HeldBytes
  <2>2. Len(hand) \in 0..Len(sd) /\ hand = First(sd, Len(hand))
    <3>1. Len(hand) <= Len(sd) /\ hand = First(sd, Len(hand))
      BY <2>1 DEF Hands
    <3> QED
      BY <1>1, <3>1
  <2>3. First(hand, n) = First(sd, n) /\ n \in 0..Len(sd)
    <3>1. n \in 0..Len(sd)
      BY <1>1, <2>2
    <3>2. First(First(sd, Len(hand)), n) = First(sd, n)
      BY <1>1, <2>2, FirstOfFirst
    <3> QED
      BY <2>2, <3>1, <3>2
  <2>4. QueuedBytes' = After(sd, n)
    <3>1. n = 0 => After(sd, n) = sd
      BY <1>1, SubSeqFull DEF After
    <3> QED
      BY <2>1, <3>1
  <2> DEFINE x == Of(s, First(sd, n))
  <2>5. w' = w \o x
    BY <1>1, <2>1, <2>3, WireTakes
  <2>6. a = x \o a' /\ x \in Seq(Bytes) /\ a' \in Seq(Bytes)
    <3>1. First(sd, n) \in Seq(Bytes) /\ After(sd, n) \in Seq(Bytes)
      BY <1>1, <2>3, PartsOf
    <3>2. Of(s, sd) = x \o Of(s, After(sd, n))
      BY <1>1, <2>3, OfParts
    <3>3. x \in Seq(Bytes) /\ Of(s, After(sd, n)) \in Seq(Bytes)
      BY <3>1, OfSeq
    <3> QED
      BY <2>1, <2>4, <3>2, <3>3
  <2>7. b' = b /\ c' = c /\ made' = made
    BY <2>1
  <2> HIDE DEF w, a, b, c, x
  <2>8. Total(w \o x, a', b, c) = Total(w, x \o a', b, c)
    BY <1>3, <2>6, QueueSends
  <2> QED
    BY <2>5, <2>6, <2>7, <2>8
<1>18. ASSUME NEW n \in 0..Len(hand), SendNew(n)
       PROVE  Same
  <2>1. /\ QueuedBytes = sd /\ QueuedBytes' = sd /\ HeldBytes = hand /\ HeldBytes' = After(hand, n) /\ Wire(hand, n)
        /\ ahand' = ahand /\ made' = made
    BY <1>18 DEF SendNew, appVars, QueuedBytes, HeldBytes
  <2> DEFINE x == Of(s, First(hand, n))
  <2>2. w' = w \o x
    BY <1>1, <2>1, WireTakes
  <2>3. b = x \o b' /\ x \in Seq(Bytes) /\ b' \in Seq(Bytes)
    <3>1. First(hand, n) \in Seq(Bytes) /\ After(hand, n) \in Seq(Bytes)
      BY <1>1, PartsOf
    <3>2. Of(s, hand) = x \o Of(s, After(hand, n))
      BY <1>1, OfParts
    <3>3. x \in Seq(Bytes) /\ Of(s, After(hand, n)) \in Seq(Bytes)
      BY <3>1, OfSeq
    <3> QED
      BY <2>1, <3>2, <3>3
  <2>4. a' = a /\ c' = c /\ made' = made
    BY <2>1
  <2>5. a = <<>> \/ (x = <<>> /\ b' = <<>> /\ b = <<>>)
    <3>1. a = <<>> \/ b = <<>>
      BY <1>18, <2>1 DEF SendNew, Hands
    <3>2. b = <<>> => x = <<>> /\ b' = <<>>
      BY <1>1, <2>1, OfNone
    <3> QED
      BY <3>1, <3>2
  <2> HIDE DEF w, a, b, c, x
  <2>6. Total(w \o x, <<>>, b', c) = Total(w, <<>>, x \o b', c)
    BY <1>3, <2>3, HeldSends
  <2>7. w \o <<>> = w
    BY <1>3, ConcatEmptySeq
  <2> QED
    BY <2>2, <2>3, <2>4, <2>5, <2>6, <2>7
<1>19. ASSUME NEW x \in Apps, StormSendData(x)
       PROVE  Same \/ More
  <2>1. /\ Make(x) /\ ahand' = Message(x) /\ lockBy = Nobody /\ x \in Sources
        /\ wire' = wire /\ QueuedBytes' = QueuedBytes /\ HeldBytes' = HeldBytes
    BY <1>1, <1>19 DEF StormSendData, workerVars, QueuedBytes, HeldBytes
  <2>2. made'[s] = IF s = x THEN made[s] + 1 ELSE made[s]
    BY <1>1, <2>1, MakeTakes DEF StreamTypeOK
  <2>3. c = <<>>
    BY <1>1, <1>8, <2>1, OfEmpty DEF StreamTypeOK
  <2>4. c' = IF s = x THEN Message(s) ELSE <<>>
    BY <1>1, <2>1, MessageOf
  <2>5. w' = w /\ a' = a /\ b' = b
    BY <2>1
  <2>6. Message(s) \in Seq(Bytes)
    BY <1>1, MessageOf
  <2> HIDE DEF w, a, b, c
  <2>7. Total(w, a, b, <<>>) \o Message(s) = Total(w, a, b, Message(s))
    BY <1>3, <2>6, AppMakes
  <2> QED
    BY <2>2, <2>3, <2>4, <2>5, <2>7
<1>20. ASSUME AppKeeps PROVE Same
  <2>1. /\ sd' = sd \o ahand /\ ahand' = <<>> /\ lockBy # Nobody
        /\ wire' = wire /\ made' = made /\ hand' = hand /\ sent' = sent /\ wpc' = wpc
    BY <1>20 DEF AppKeeps, workerVars
  <2>2. QueuedBytes' = QueuedBytes \o ahand
    <3>1. CASE wpc = "del"
      <4>1. sent \in 0..Len(sd)
        <5>1. sent \in 1..Len(hand)
          BY <3>1 DEF StreamTypeOK
        <5>2. Len(hand) <= Len(sd)
          BY <3>1 DEF Hands
        <5> QED
          BY <1>1, <5>1, <5>2
      <4>2. After(sd \o ahand, sent) = After(sd, sent) \o ahand
        BY <1>1, <4>1, PartsOfConcat
      <4> QED
        BY <2>1, <3>1, <4>2 DEF QueuedBytes
    <3>2. CASE wpc # "del"
      BY <2>1, <3>2 DEF QueuedBytes
    <3> QED
      BY <3>1, <3>2
  <2>3. a' = a \o c
    BY <1>1, <1>2, <2>2, OfConcat
  <2>4. w' = w /\ b' = b /\ c' = <<>>
    BY <2>1, OfEmpty DEF HeldBytes
  <2>5. b = <<>> \/ c = <<>>
    BY <1>1, <1>7, <1>8, <2>1
  <2> HIDE DEF w, a, b, c
  <2>6. Total(w, a \o c, <<>>, <<>>) = Total(w, a, <<>>, c)
    BY <1>3, AppKept
  <2>7. a \o <<>> = a
    BY <1>3, ConcatEmptySeq
  <2> QED
    BY <2>1, <2>3, <2>4, <2>5, <2>6, <2>7
<1>21. ASSUME NEW n \in 0..Len(ahand), AppSends(n)
       PROVE  Same
  <2>1. /\ adirect /\ Wire(ahand, n) /\ ahand' = After(ahand, n) /\ made' = made
        /\ QueuedBytes' = QueuedBytes /\ HeldBytes' = HeldBytes
    BY <1>21 DEF AppSends, workerVars, QueuedBytes, HeldBytes
  <2>2. lockBy # Nobody /\ Of(lockBy, sd) = <<>>
    BY <2>1 DEF Hands
  <2> DEFINE x == Of(s, First(ahand, n))
  <2>3. w' = w \o x
    BY <1>1, <2>1, WireTakes
  <2>4. c = x \o c' /\ x \in Seq(Bytes) /\ c' \in Seq(Bytes)
    <3>1. First(ahand, n) \in Seq(Bytes) /\ After(ahand, n) \in Seq(Bytes)
      BY <1>1, PartsOf
    <3>2. Of(s, ahand) = x \o Of(s, After(ahand, n))
      BY <1>1, OfParts
    <3>3. x \in Seq(Bytes) /\ Of(s, After(ahand, n)) \in Seq(Bytes)
      BY <3>1, OfSeq
    <3> QED
      BY <2>1, <3>2, <3>3
  <2>5. a' = a /\ b' = b
    BY <2>1
  <2>6. s = lockBy => a = <<>> /\ b = <<>>
    <3> SUFFICES ASSUME s = lockBy PROVE a = <<>> /\ b = <<>>
      OBVIOUS
    <3>1. b = <<>>
      BY <1>1, <1>7, <2>2
    <3>2. CASE wpc = "del"
      <4>1. sent \in 0..Len(sd)
        <5>1. sent \in 1..Len(hand)
          BY <3>2 DEF StreamTypeOK
        <5>2. Len(hand) <= Len(sd)
          BY <3>2 DEF Hands
        <5> QED
          BY <1>1, <5>1, <5>2
      <4>2. Of(s, After(sd, sent)) = <<>>
        BY <1>1, <2>2, <4>1, OfNone
      <4> QED
        BY <3>1, <3>2, <4>2 DEF QueuedBytes
    <3>3. CASE wpc # "del"
      BY <2>2, <3>1, <3>3 DEF QueuedBytes
    <3> QED
      BY <3>2, <3>3
  <2>7. s # lockBy => c = <<>> /\ x = <<>> /\ c' = <<>>
    BY <1>1, <1>8, <2>1, OfNone
  <2> HIDE DEF w, a, b, c, x
  <2>8. Total(w \o x, <<>>, <<>>, c') = Total(w, <<>>, <<>>, x \o c')
    BY <1>3, <2>4, AppSendsMore
  <2>9. w \o <<>> = w
    BY <1>3, ConcatEmptySeq
  <2> QED
    BY <2>1, <2>3, <2>4, <2>5, <2>6, <2>7, <2>8, <2>9
<1>22. Same \/ More
  <2> HIDE DEF Same, More
  <2> QED
    BY <1>10, <1>11, <1>12, <1>13, <1>14, <1>15, <1>16, <1>17, <1>18, <1>19, <1>20, <1>21
       DEF StreamNext
<1>23. Total(w, a, b, c) \o Message(s) = Numbered(s, 2 * (made[s] + 1))
  BY <1>1, <1>5, NumberedMore DEF Message
<1> HIDE DEF w, a, b, c
<1> QED
  BY <1>5, <1>6, <1>22, <1>23

\* What the peer has of each source is where the numbering starts.
LEMMA OrderStep ==
  ASSUME StreamAssumption, StreamTypeOK, StreamTypeOK', Hands, Hands', Whole', InOrder, StreamNext
  PROVE  InOrder'
<1> SUFFICES ASSUME NEW s \in Sources PROVE (wire[s] = Numbered(s, Len(wire[s])))'
  BY DEF InOrder, Numbered
<1>1. CASE wpc' = "closed"
  <2>1. wpc = "closed" => lockBy = Nobody
    BY DEF Hands
  <2>2. wire' = wire
    BY <1>1, <2>1 DEF StreamNext, WorkDo, SdGet, SdDel, StormSend, StormRecv, Keep,
         DelSocketData, SendQueued, SendNew, StormSendData, AppKeeps, AppSends, workerVars
  <2> QED
    BY <2>2 DEF InOrder, Numbered
<1>2. CASE wpc' # "closed"
  <2> DEFINE w == wire'[s]
             x == (Of(s, QueuedBytes) \o Of(s, HeldBytes)) \o Of(s, ahand)
  <2>1. w \o x' = Numbered(s, 2 * made'[s])
    BY <1>2 DEF Whole, WaitingOf, Total
  <2>2. w \in Seq(Bytes) /\ 2 * made'[s] \in Nat
    <3>1. wire' \in [Sources -> Seq(Bytes)] /\ made' \in [Sources -> Nat]
      BY DEF StreamTypeOK
    <3>2. w \in Seq(Bytes) /\ made'[s] \in Nat
      BY <3>1
    <3> QED
      BY <3>2
  <2>3. x' \in Seq(Bytes)
    <3>1. sd' \in Seq(Bytes) /\ hand' \in Seq(Bytes) /\ ahand' \in Seq(Bytes)
      BY DEF StreamTypeOK
    <3>2. ASSUME wpc' = "del" PROVE sent' \in 0..Len(sd')
      <4>1. sent' \in 1..Len(hand') /\ Len(hand') <= Len(sd')
        BY <3>2 DEF StreamTypeOK, Hands
      <4>2. Len(hand') \in Nat /\ Len(sd') \in Nat
        BY <3>1
      <4> QED
        BY <4>1, <4>2
    <3>3. QueuedBytes' \in Seq(Bytes)
      BY <3>1, <3>2, PartsOf DEF QueuedBytes
    <3>4. HeldBytes' \in Seq(Bytes)
      BY <3>1, EmptySeq DEF HeldBytes
    <3>5. /\ Of(s, QueuedBytes') \in Seq(Bytes) /\ Of(s, HeldBytes') \in Seq(Bytes)
          /\ Of(s, ahand') \in Seq(Bytes)
      BY <3>1, <3>3, <3>4, OfSeq
    <3> QED
      BY <3>5
  <2> HIDE DEF x
  <2> QED
    BY <2>1, <2>2, <2>3, NumberedPrefix
<1> QED
  BY <1>1, <1>2

------------------------------------------------------------------------------
(* The theorems                                                            *)

LEMMA StreamStart ==
  ASSUME StreamAssumption, StreamInit
  PROVE  StreamInv
<1>1. /\ wire \in [Sources -> Seq(Bytes)] /\ made \in [Sources -> Nat]
      /\ \A s \in Sources : wire[s] = <<>> /\ made[s] = 0
      /\ sd = <<>> /\ hand = <<>> /\ ahand = <<>> /\ <<>> \in Seq(Bytes)
      /\ wpc = "idle" /\ sent = 0 /\ lockBy = Nobody /\ adirect = FALSE
  BY EmptySeq DEF StreamInit
<1>2. StreamTypeOK
  <2>1. \A s \in Sources : made[s] <= Most[s]
    BY <1>1 DEF StreamAssumption
  <2> QED
    BY <1>1, <2>1 DEF StreamTypeOK
<1>3. Hands
  BY <1>1, OfEmpty DEF Hands
<1>4. \A s \in Sources : Numbered(s, 0) = <<>>
  BY NumberedSeq, EmptySeq
<1>5. Whole
  <2>1. QueuedBytes = <<>> /\ HeldBytes = <<>>
    BY <1>1 DEF QueuedBytes, HeldBytes
  <2>2. <<>> \o <<>> = <<>>
    OBVIOUS
  <2>3. \A s \in Sources : WaitingOf(s) = <<>>
    BY <1>1, <2>1, <2>2, OfEmpty DEF WaitingOf, Total
  <2> QED
    BY <1>1, <1>4, <2>3 DEF Whole
<1>6. InOrder
  BY <1>1, <1>4 DEF InOrder, Numbered
<1> QED
  BY <1>2, <1>3, <1>5, <1>6 DEF StreamInv

LEMMA StreamStep ==
  ASSUME StreamAssumption, ~Pipelined, StreamInv, [StreamNext]_streamVars
  PROVE  StreamInv'
<1>1. CASE StreamNext
  <2>1. StreamTypeOK' /\ Hands' /\ Whole'
    BY <1>1, StreamTypeStep, HandsStep, WholeStep DEF StreamInv
  <2>2. InOrder'
    BY <1>1, <2>1, OrderStep DEF StreamInv
  <2> QED
    BY <2>1, <2>2 DEF StreamInv
<1>2. CASE UNCHANGED streamVars
  BY <1>2 DEF streamVars, StreamInv, StreamTypeOK, Hands, Whole, WaitingOf, QueuedBytes, HeldBytes, InOrder
<1> QED
  BY <1>1, <1>2

\* What the invariant says of the bytes together.
LEMMA WholeIsOnce ==
  ASSUME StreamAssumption, StreamInv
  PROVE  EachOnce
<1> SUFFICES ASSUME wpc # "closed", NEW s \in Sources
             PROVE  LET got == wire[s] \o Of(s, Unsent) IN
                      /\ Len(got) = 2 * made[s]
                      /\ Range(got) = {<<s, n>> : n \in 1..(2 * made[s])}
  BY DEF EachOnce
<1> DEFINE got == wire[s] \o Of(s, Unsent)
<1>1. 2 * made[s] \in Nat
  <2>1. made \in [Sources -> Nat]
    BY DEF StreamInv, StreamTypeOK
  <2>2. made[s] \in Nat
    BY <2>1
  <2> QED
    BY <2>2
<1>2. got = Numbered(s, 2 * made[s])
  <2>1. sd \in Seq(Bytes) /\ ahand \in Seq(Bytes) /\ QueuedBytes \in Seq(Bytes) /\ HeldBytes \in Seq(Bytes)
    BY StreamFacts, PartsTyped DEF StreamInv
  <2>2. Unsent = (QueuedBytes \o HeldBytes) \o ahand
    BY DEF Unsent, QueuedBytes, HeldBytes
  <2>3. Of(s, Unsent) = (Of(s, QueuedBytes) \o Of(s, HeldBytes)) \o Of(s, ahand)
    <3> HIDE DEF QueuedBytes, HeldBytes, Unsent
    <3>1. QueuedBytes \o HeldBytes \in Seq(Bytes)
      BY <2>1, ConcatProperties
    <3>2. Of(s, (QueuedBytes \o HeldBytes) \o ahand) = Of(s, QueuedBytes \o HeldBytes) \o Of(s, ahand)
      BY <2>1, <3>1, OfConcat
    <3>3. Of(s, QueuedBytes \o HeldBytes) = Of(s, QueuedBytes) \o Of(s, HeldBytes)
      BY <2>1, OfConcat
    <3> QED
      BY <2>2, <3>2, <3>3
  <2> QED
    BY <2>3 DEF StreamInv, Whole, WaitingOf, Total
<1>3. Len(got) = 2 * made[s]
  BY <1>1, <1>2, NumberedSeq
<1>4. Range(got) = {<<s, n>> : n \in 1..(2 * made[s])}
  BY <1>2 DEF Numbered, Range
<1> QED
  BY <1>3, <1>4

\* While the peer asks again only when it has the reply, the parts of the
\* connection keep their types and what each thread relies on of the others.
THEOREM StreamInvariant ==
  ASSUME ~Pipelined
  PROVE  StreamSpec => []StreamInv
<1>1. StreamInit => StreamInv
  BY StreamAssumption, StreamStart
<1>2. StreamInv /\ [StreamNext]_streamVars => StreamInv'
  BY StreamAssumption, StreamStep
<1> QED
  BY <1>1, <1>2, PTL DEF StreamSpec

\* No byte of an open connection is lost or sent twice, however the sends of
\* the worker and of the apps fall between each other (WorkDoSend,
\* storm_work_el::send and StormSendData).
THEOREM BytesOnce ==
  ASSUME ~Pipelined
  PROVE  StreamSpec => []EachOnce
<1>1. StreamInv => EachOnce
  BY StreamAssumption, WholeIsOnce
<1> QED
  BY <1>1, StreamInvariant, PTL

\* The peer gets the bytes of each source in the order they were made.
THEOREM BytesInOrder ==
  ASSUME ~Pipelined
  PROVE  StreamSpec => []InOrder
<1>1. StreamInv => InOrder
  BY DEF StreamInv
<1> QED
  BY <1>1, StreamInvariant, PTL
=============================================================================
