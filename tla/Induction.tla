------------------------------ MODULE Induction -------------------------------
(***************************************************************************)
(* Induction and recursion over the naturals, proved from the order of the *)
(* naturals being well founded, and what they say of powers of two and of  *)
(* sequences put together.  An induction here is over a set: that of the   *)
(* numbers a fact holds for.                                               *)
(***************************************************************************)
EXTENDS Powers, SequencesExt, SequenceTheorems, WellFoundedInduction, TLAPS

-----------------------------------------------------------------------------
(* Induction.                                                              *)

(* Every set of naturals that is not empty has a least element. *)
LEMMA Least ==
  ASSUME NEW T, T \subseteq Nat, T # {}
  PROVE  \E n \in T : \A m \in T : n <= m
<1>1. PICK n \in T : \A m \in T : ~(<<m, n>> \in OpToRel(<, Nat))
  BY NatLessThanWellFounded, WFMin
<1>2. ASSUME NEW m \in T, m < n PROVE FALSE
  <2>1. m \in Nat /\ n \in Nat
    OBVIOUS
  <2>2. <<m, n>> \in OpToRel(<, Nat)
    BY <1>2, <2>1 DEF OpToRel
  <2>3. QED
    BY <1>1, <2>2
<1>3. \A m \in T : n <= m
  <2>1. \A m \in T : m \in Nat /\ n \in Nat
    OBVIOUS
  <2>2. QED
    BY <1>2, <2>1
<1>4. QED
  BY <1>3

(* Induction: a set of naturals closed under successor has them all. *)
LEMMA Induct ==
  ASSUME NEW S, 0 \in S, \A n \in Nat : n \in S => n + 1 \in S
  PROVE  Nat \subseteq S
<1> SUFFICES ASSUME Nat \ S # {} PROVE FALSE
  OBVIOUS
<1>1. PICK n \in Nat \ S : \A m \in Nat \ S : n <= m
  BY Least
<1>2. n # 0 /\ n - 1 \in Nat
  BY <1>1
<1>3. n - 1 \in S
  BY <1>1, <1>2
<1>4. QED
  BY <1>1, <1>2, <1>3

(* The same up to a bound. *)
LEMMA InductUpTo ==
  ASSUME NEW N \in Nat, NEW S, 0 \in S, \A n \in 0 .. N - 1 : n \in S => n + 1 \in S
  PROVE  0 .. N \subseteq S
<1> DEFINE T == {n \in Nat : n <= N => n \in S}
<1>1. 0 \in T /\ \A n \in Nat : n \in T => n + 1 \in T
  OBVIOUS
<1> HIDE DEF T
<1>2. Nat \subseteq T
  BY <1>1, Induct
<1>3. QED
  BY <1>2 DEF T

(* A recursion over the naturals has a solution: up to n first. *)
Solves(S, c, F, n, g) ==
  /\ g \in [0 .. n -> S] /\ g[0] = c
  /\ \A i \in 0 .. n - 1 : g[i + 1] = F[<<i, g[i]>>]

LEMMA RecursionUpTo ==
  ASSUME NEW S, NEW c \in S, NEW F \in [Nat \X S -> S], NEW n \in Nat
  PROVE  \E g : Solves(S, c, F, n, g)
<1> DEFINE T == {m \in Nat : \E g : Solves(S, c, F, m, g)}
<1>1. 0 \in T
  <2>1. Solves(S, c, F, 0, [i \in 0 .. 0 |-> c])
    BY DEF Solves
  <2>2. QED
    BY <2>1
<1>2. ASSUME NEW m \in Nat, m \in T PROVE m + 1 \in T
  <2>0. PICK g : Solves(S, c, F, m, g)
    BY <1>2
  <2>1. /\ g \in [0 .. m -> S] /\ g[0] = c
        /\ \A i \in 0 .. m - 1 : g[i + 1] = F[<<i, g[i]>>]
    BY <2>0 DEF Solves
  <2> DEFINE h == [i \in 0 .. m + 1 |-> IF i = m + 1 THEN F[<<m, g[m]>>] ELSE g[i]]
  <2>2. g[m] \in S /\ F[<<m, g[m]>>] \in S
    <3>1. g[m] \in S
      BY <2>1
    <3>2. <<m, g[m]>> \in Nat \X S
      BY <3>1
    <3>3. QED
      BY <3>1, <3>2
  <2>3. h \in [0 .. m + 1 -> S]
    BY <2>1, <2>2
  <2>4. h[0] = c
    BY <2>1
  <2>5. ASSUME NEW i \in 0 .. m PROVE h[i + 1] = F[<<i, h[i]>>]
    <3>1. h[i] = g[i]
      OBVIOUS
    <3>2. CASE i = m
      <4>1. i + 1 = m + 1 /\ h[m + 1] = F[<<m, g[m]>>]
        BY <3>2
      <4>2. QED
        BY <3>1, <3>2, <4>1
    <3>3. CASE i # m
      <4>1. i \in 0 .. m - 1 /\ i + 1 \in 0 .. m + 1 /\ i + 1 # m + 1
        BY <3>3
      <4>2. h[i + 1] = g[i + 1]
        BY <4>1
      <4>3. QED
        BY <2>1, <3>1, <4>1, <4>2
    <3>4. QED
      BY <3>2, <3>3
  <2> HIDE DEF h
  <2>6. (m + 1) - 1 = m
    OBVIOUS
  <2>7. Solves(S, c, F, m + 1, h)
    BY <2>3, <2>4, <2>5, <2>6 DEF Solves
  <2>8. QED
    BY <2>7
<1> HIDE DEF T
<1>3. n \in T
  BY <1>1, <1>2, Induct
<1>4. QED
  BY <1>3 DEF T

(* The whole of it. *)
Iterates(S, c, F, f) ==
  f \in [Nat -> S] /\ f[0] = c /\ \A i \in Nat : f[i + 1] = F[<<i, f[i]>>]

LEMMA Recursion ==
  ASSUME NEW S, NEW c \in S, NEW F \in [Nat \X S -> S]
  PROVE  \E f : Iterates(S, c, F, f)
<1> DEFINE s == [n \in Nat |-> CHOOSE g : Solves(S, c, F, n, g)]
           f == [n \in Nat |-> s[n][n]]
<1>2. \A n \in Nat : Solves(S, c, F, n, s[n])
  BY RecursionUpTo
<1> HIDE DEF s
<1>3. ASSUME NEW n \in Nat PROVE s[n + 1][n] = s[n][n]
  <2> DEFINE T == {i \in Nat : i <= n => s[n + 1][i] = s[n][i]}
  <2>1. Solves(S, c, F, n, s[n]) /\ Solves(S, c, F, n + 1, s[n + 1])
    BY <1>2
  <2>2. 0 \in T
    BY <2>1 DEF Solves
  <2>3. ASSUME NEW i \in Nat, i \in T PROVE i + 1 \in T
    <3>1. SUFFICES ASSUME i + 1 <= n PROVE s[n + 1][i + 1] = s[n][i + 1]
      OBVIOUS
    <3>2. s[n + 1][i] = s[n][i] /\ i \in 0 .. n - 1 /\ i \in 0 .. (n + 1) - 1
      BY <2>3, <3>1
    <3>3. s[n + 1][i + 1] = F[<<i, s[n + 1][i]>>] /\ s[n][i + 1] = F[<<i, s[n][i]>>]
      BY <2>1, <3>2 DEF Solves
    <3>4. QED
      BY <3>2, <3>3
  <2> HIDE DEF T
  <2>4. n \in T
    BY <2>2, <2>3, Induct
  <2>5. QED
    BY <2>4 DEF T
<1>4. \A n \in Nat : s[n][n] \in S
  <2> TAKE n \in Nat
  <2>1. s[n] \in [0 .. n -> S] /\ n \in 0 .. n
    BY <1>2 DEF Solves
  <2>2. QED
    BY <2>1
<1>5. f[0] = c
  <2>1. s[0][0] = c
    BY <1>2 DEF Solves
  <2>2. QED
    BY <2>1
<1>6. ASSUME NEW i \in Nat PROVE f[i + 1] = F[<<i, f[i]>>]
  <2>1. Solves(S, c, F, i + 1, s[i + 1]) /\ i \in 0 .. (i + 1) - 1
    BY <1>2
  <2>2. s[i + 1][i + 1] = F[<<i, s[i + 1][i]>>]
    BY <2>1 DEF Solves
  <2>3. QED
    BY <2>2, <1>3
<1>7. f \in [Nat -> S]
  BY <1>4
<1> HIDE DEF f
<1>8. QED
  BY <1>5, <1>6, <1>7 DEF Iterates

-----------------------------------------------------------------------------
(* Powers of two, products and remainders.                                 *)

LEMMA Pow2Recursion ==
  Pow2 \in [Nat -> Nat \ {0}] /\ Pow2[0] = 1 /\ \A n \in Nat : Pow2[n + 1] = 2 * Pow2[n]
<1> DEFINE P == Nat \ {0}
           F == [x \in Nat \X P |-> 2 * x[2]]
<1>1. F \in [Nat \X P -> P] /\ 1 \in P
  OBVIOUS
<1> HIDE DEF F, P
<1>a. PICK f : Iterates(P, 1, F, f)
  BY <1>1, Recursion
<1>2. f \in [Nat -> P] /\ f[0] = 1
  BY <1>a DEF Iterates
<1>3. \A n \in Nat : f[n + 1] = 2 * f[n]
  BY <1>a, <1>2 DEF Iterates, F
<1> USE DEF P
<1>4. f = [n \in Nat |-> IF n = 0 THEN 1 ELSE 2 * f[n - 1]]
  <2>1. \A n \in Nat : f[n] = IF n = 0 THEN 1 ELSE 2 * f[n - 1]
    <3> TAKE n \in Nat
    <3>1. CASE n = 0
      BY <1>2, <3>1
    <3>2. CASE n # 0
      <4>1. n - 1 \in Nat /\ (n - 1) + 1 = n
        BY <3>2
      <4>2. f[(n - 1) + 1] = 2 * f[n - 1]
        BY <1>3, <4>1
      <4>3. QED
        BY <3>2, <4>1, <4>2
    <3>3. QED
      BY <3>1, <3>2
  <2>2. QED
    BY <1>2, <2>1
<1>5. Pow2 = [n \in Nat |-> IF n = 0 THEN 1 ELSE 2 * Pow2[n - 1]]
  <2>1. Pow2 = CHOOSE g : g = [n \in Nat |-> IF n = 0 THEN 1 ELSE 2 * g[n - 1]]
    BY DEF Pow2
  <2>2. \E g : g = [n \in Nat |-> IF n = 0 THEN 1 ELSE 2 * g[n - 1]]
    BY <1>4, Zenon
  <2>3. QED
    BY <2>1, <2>2
<1>6. Pow2[0] = 1
  BY <1>5
<1>7. \A n \in Nat : Pow2[n + 1] = 2 * Pow2[n]
  <2> TAKE n \in Nat
  <2>1. n + 1 \in Nat /\ n + 1 # 0 /\ (n + 1) - 1 = n
    OBVIOUS
  <2>2. QED
    BY <1>5, <2>1
<1>8. \A n \in Nat : Pow2[n] \in Nat \ {0}
  <2> DEFINE T == {n \in Nat : Pow2[n] \in Nat \ {0}}
  <2>1. 0 \in T /\ \A n \in Nat : n \in T => n + 1 \in T
    BY <1>6, <1>7
  <2> HIDE DEF T
  <2>2. Nat \subseteq T
    BY <2>1, Induct
  <2>3. QED
    BY <2>2 DEF T
<1>9. QED
  BY <1>5, <1>6, <1>7, <1>8

LEMMA Pow2Type == \A n \in Nat : Pow2[n] \in Nat /\ Pow2[n] > 0
BY Pow2Recursion

LEMMA Products == \A x, y \in Nat : x * y \in Nat
OBVIOUS

LEMMA Multiples == \A m \in Nat \ {0}, q \in Nat : q > 0 => m * q >= m
OBVIOUS

LEMMA Pow2Sum == \A m, n \in Nat : Pow2[m + n] = Pow2[m] * Pow2[n]
<1> TAKE m \in Nat
<1> DEFINE T == {n \in Nat : Pow2[m + n] = Pow2[m] * Pow2[n]}
<1>1. 0 \in T
  BY Pow2Recursion
<1>2. ASSUME NEW n \in Nat, n \in T PROVE n + 1 \in T
  <2>1. Pow2[m + (n + 1)] = 2 * Pow2[m + n]
    <3>1. m + n \in Nat /\ m + (n + 1) = (m + n) + 1
      OBVIOUS
    <3>2. QED
      BY <3>1, Pow2Recursion
  <2>2. Pow2[m + n] = Pow2[m] * Pow2[n]
    BY <1>2
  <2>3. Pow2[n + 1] = 2 * Pow2[n]
    BY Pow2Recursion
  <2>4. \A x, y \in Nat : 2 * (x * y) = x * (2 * y)
    OBVIOUS
  <2>5. 2 * (Pow2[m] * Pow2[n]) = Pow2[m] * (2 * Pow2[n])
    BY <2>4, Pow2Type
  <2>6. QED
    BY <2>1, <2>2, <2>3, <2>5
<1> HIDE DEF T
<1>3. Nat \subseteq T
  BY <1>1, <1>2, Induct
<1>4. QED
  BY <1>3 DEF T

LEMMA Pow2Monotone == \A m, n \in Nat : m <= n => Pow2[m] <= Pow2[n]
<1> TAKE m, n \in Nat
<1> HAVE m <= n
<1>1. n - m \in Nat /\ m + (n - m) = n
  OBVIOUS
<1>2. Pow2[n] = Pow2[m] * Pow2[n - m]
  BY <1>1, Pow2Sum
<1>3. QED
  BY <1>1, <1>2, Pow2Type, Multiples

(* What division leaves. *)
LEMMA DivMod ==
  \A a \in Nat, m \in Nat \ {0} :
    /\ a \div m \in Nat /\ a % m \in Nat /\ a % m < m
    /\ a = m * (a \div m) + (a % m)
OBVIOUS

LEMMA ModUnique ==
  ASSUME NEW m \in Nat \ {0}, NEW q \in Nat, NEW r \in Nat, r < m
  PROVE  (m * q + r) % m = r
<1> DEFINE a == m * q + r
           d == a \div m
           e == a % m
<1>1. a \in Nat /\ a = m * q + r
  BY Products
<1> HIDE DEF a
<1>2. d \in Nat /\ e \in Nat /\ e < m /\ a = m * d + e
  BY <1>1, DivMod
<1> HIDE DEF d, e
<1>3. \A x, y \in Nat : m * (x - y) = m * x - m * y
  OBVIOUS
<1>4. m * q \in Nat /\ m * d \in Nat
  BY <1>2, Products
<1>5. CASE q < d
  <2>1. m * (d - q) >= m
    BY <1>2, <1>5, Multiples
  <2>2. m * d - m * q >= m
    BY <1>2, <1>3, <2>1
  <2>3. QED
    BY <1>1, <1>2, <1>4, <2>2
<1>6. CASE q > d
  <2>1. m * (q - d) >= m
    BY <1>2, <1>6, Multiples
  <2>2. m * q - m * d >= m
    BY <1>2, <1>3, <2>1
  <2>3. QED
    BY <1>1, <1>2, <1>4, <2>2
<1>7. CASE q = d
  BY <1>1, <1>2, <1>4, <1>7 DEF a, e
<1>8. QED
  BY <1>2, <1>5, <1>6, <1>7

LEMMA ModSmall == \A m \in Nat \ {0}, a \in Nat : a < m => a % m = a
OBVIOUS

(* Bits shifted past the width are lost, the others stay. *)
LEMMA ShiftedOut ==
  ASSUME NEW a \in Nat, NEW s \in Nat, NEW w \in Nat, s <= w
  PROVE  (a * Pow2[s]) % Pow2[w] = (a % Pow2[w - s]) * Pow2[s]
<1> DEFINE M == Pow2[w - s]
           q == a \div M
           r == a % M
<1>1. w - s \in Nat /\ (w - s) + s = w
  OBVIOUS
<1>2. M \in Nat \ {0} /\ Pow2[s] \in Nat \ {0} /\ Pow2[w] \in Nat \ {0}
  BY <1>1, Pow2Type
<1>3. Pow2[w] = M * Pow2[s]
  BY <1>1, Pow2Sum
<1> HIDE DEF M
<1>4. q \in Nat /\ r \in Nat /\ r < M /\ a = M * q + r
  BY <1>2, DivMod
<1> HIDE DEF q, r
<1>5. \A m, p, x, y \in Nat : (m * x + y) * p = (m * p) * x + y * p
  OBVIOUS
<1>6. a * Pow2[s] = Pow2[w] * q + r * Pow2[s]
  BY <1>2, <1>3, <1>4, <1>5
<1>7. \A x, m, p \in Nat : x < m /\ p > 0 => x * p < m * p
  OBVIOUS
<1>8. r * Pow2[s] \in Nat /\ r * Pow2[s] < Pow2[w]
  BY <1>2, <1>3, <1>4, <1>7, Products
<1>9. (Pow2[w] * q + r * Pow2[s]) % Pow2[w] = r * Pow2[s]
  BY <1>2, <1>4, <1>8, ModUnique
<1>10. QED
  BY <1>6, <1>9 DEF r, M

(* A number below 2^s and a multiple of 2^s below 2^w are together below 2^w. *)
LEMMA GroupsDoNotOverlap ==
  ASSUME NEW v \in Nat, NEW a \in Nat, NEW s \in Nat, NEW w \in Nat, s <= w,
         v < Pow2[s], a < Pow2[w - s]
  PROVE  v + a * Pow2[s] \in Nat /\ v + a * Pow2[s] < Pow2[w]
<1>1. w - s \in Nat /\ (w - s) + s = w
  OBVIOUS
<1>2. Pow2[w] = Pow2[w - s] * Pow2[s]
  BY <1>1, Pow2Sum
<1>3. Pow2[s] \in Nat /\ Pow2[w - s] \in Nat
  BY <1>1, Pow2Type
<1>4. \A x, y, p \in Nat : x < y => x * p + p <= y * p
  <2> TAKE x, y, p \in Nat
  <2> HAVE x < y
  <2>1. (y - x) * p >= p /\ (y - x) * p = y * p - x * p
    BY Multiples
  <2>2. x * p \in Nat /\ y * p \in Nat
    BY Products
  <2>3. QED
    BY <2>1, <2>2
<1>5. a * Pow2[s] + Pow2[s] <= Pow2[w - s] * Pow2[s]
  BY <1>3, <1>4
<1>6. a * Pow2[s] \in Nat /\ Pow2[w] \in Nat
  BY <1>3, Products, Pow2Type
<1>7. QED
  BY <1>2, <1>3, <1>5, <1>6

-----------------------------------------------------------------------------
(* Concatenation: of a sequence of sequences, and of one more.             *)

LEMMA FlattenIterates ==
  ASSUME NEW S, NEW ss \in Seq(Seq(S))
  PROVE  \E f : /\ f \in [Nat -> Seq(S)] /\ f[0] = << >>
                /\ \A i \in Nat : i < Len(ss) => f[i + 1] = f[i] \o ss[i + 1]
                /\ FlattenSeq(ss) = f[Len(ss)]
<1> DEFINE Q == Seq(S)
           N == Len(ss)
           F == [x \in Nat \X Q |-> IF x[1] < N THEN x[2] \o ss[x[1] + 1] ELSE x[2]]
<1>0. N \in Nat /\ (\A i \in 1 .. N : ss[i] \in Q) /\ << >> \in Q
  <2>1. << >> \in Q
    BY EmptySeq
  <2>2. QED
    BY <2>1
<1>a. \A s, t \in Q : s \o t \in Q
  BY ConcatProperties
<1>b. \A q \in Q : << >> \o q = q
  BY ConcatEmptySeq
<1>1. F \in [Nat \X Q -> Q]
  <2> HIDE DEF Q, N
  <2>1. \A x \in Nat \X Q : x[1] \in Nat /\ x[2] \in Q
    OBVIOUS
  <2>2. \A i \in Nat : i < N => i + 1 \in 1 .. N
    BY <1>0
  <2>3. \A x \in Nat \X Q : (IF x[1] < N THEN x[2] \o ss[x[1] + 1] ELSE x[2]) \in Q
    BY <1>0, <1>a, <2>1, <2>2
  <2>4. QED
    BY <2>3, Zenon
<1> HIDE DEF F, N, Q
<1>2. PICK f : Iterates(Q, << >>, F, f)
  <2> HIDE DEF Q
  <2>1. QED
    BY <1>0, <1>1, Recursion
<1>3. f \in [Nat -> Q] /\ f[0] = << >>
  BY <1>2 DEF Iterates
<1>4. ASSUME NEW i \in Nat, i < N PROVE f[i + 1] = f[i] \o ss[i + 1]
  <2> HIDE DEF Q
  <2>1. f[i + 1] = F[<<i, f[i]>>] /\ <<i, f[i]>> \in Nat \X Q
    BY <1>2, <1>3 DEF Iterates
  <2>2. QED
    BY <1>4, <2>1 DEF F
<1>5. FlattenSeq(ss) = f[N]
  <2>1. CASE N = 0
    <3>1. ss = << >>
      BY <2>1, EmptySeq DEF N
    <3>2. QED
      BY <1>3, <2>1, <3>1 DEF FlattenSeq, N
  <2>2. CASE N # 0
    <3> DEFINE Flattens(g) ==
          g = [i \in 1 .. N |-> IF i = 1 THEN ss[i] ELSE g[i - 1] \o ss[i]]
    <3>1. FlattenSeq(ss) = (CHOOSE g : Flattens(g))[N]
      BY <2>2 DEF FlattenSeq, N
    <3>2. \E g : Flattens(g)
      <4> DEFINE h == [i \in 1 .. N |-> f[i]]
      <4>1. ASSUME NEW i \in 1 .. N
            PROVE  h[i] = IF i = 1 THEN ss[i] ELSE h[i - 1] \o ss[i]
        <5>1. CASE i = 1
          <6>0. 0 \in Nat /\ 0 < N
            BY <1>0, <2>2
          <6>1. f[1] = f[0] \o ss[1]
            <7>1. \A k, j : k \in Nat /\ k < N /\ j = k + 1 => f[j] = f[k] \o ss[j]
              BY <1>4
            <7>2. 1 = 0 + 1
              OBVIOUS
            <7>3. QED
              BY <6>0, <7>1, <7>2
          <6>2. << >> \o ss[1] = ss[1]
            BY <1>0, <1>b, <2>2
          <6>3. QED
            BY <1>3, <5>1, <6>1, <6>2
        <5>2. CASE i # 1
          <6>1. i - 1 \in Nat /\ i - 1 < N /\ (i - 1) + 1 = i /\ i - 1 \in 1 .. N
            BY <1>0, <5>2
          <6>2. f[(i - 1) + 1] = f[i - 1] \o ss[(i - 1) + 1]
            BY <1>4, <6>1
          <6>3. QED
            BY <5>2, <6>1, <6>2
        <5>3. QED
          BY <5>1, <5>2
      <4>2. Flattens(h)
        <5>1. h = [i \in 1 .. N |-> h[i]]
          OBVIOUS
        <5> HIDE DEF h
        <5>2. QED
          BY <4>1, <5>1
      <4>3. QED
        BY <4>2
    <3>3. ASSUME NEW g, Flattens(g) PROVE g[N] = f[N]
      <4>1. \A i \in 1 .. N : g[i] = IF i = 1 THEN ss[i] ELSE g[i - 1] \o ss[i]
        BY <3>3
      <4> HIDE DEF Flattens
      <4> DEFINE T == {i \in Nat : i \in 1 .. N => g[i] = f[i]}
      <4>2. 0 \in T
        OBVIOUS
      <4>3. ASSUME NEW i \in Nat, i \in T PROVE i + 1 \in T
        <5>1. SUFFICES ASSUME i + 1 \in 1 .. N PROVE g[i + 1] = f[i + 1]
          OBVIOUS
        <5>0. i < N
          BY <1>0, <5>1
        <5>2. i < N /\ f[i + 1] = f[i] \o ss[i + 1]
          BY <1>4, <5>0
        <5>3. CASE i = 0
          <6>1. g[1] = ss[1] /\ << >> \o ss[1] = ss[1]
            BY <1>0, <1>b, <4>1, <5>1, <5>3
          <6>2. i + 1 = 1 /\ f[i] = << >>
            BY <1>3, <5>3
          <6>3. QED
            BY <5>2, <6>1, <6>2
        <5>4. CASE i # 0
          <6>1. i \in 1 .. N /\ i + 1 # 1 /\ (i + 1) - 1 = i
            BY <1>0, <5>2, <5>4
          <6>2. g[i + 1] = g[(i + 1) - 1] \o ss[i + 1]
            BY <4>1, <5>1, <6>1
          <6>3. QED
            BY <4>3, <5>2, <6>1, <6>2
        <5>5. QED
          BY <5>3, <5>4
      <4> HIDE DEF T
      <4>4. N \in T
        BY <1>0, <4>2, <4>3, Induct
      <4>5. QED
        BY <1>0, <2>2, <4>4 DEF T
    <3>4. QED
      <4> HIDE DEF Flattens
      <4>1. QED
        BY <3>1, <3>2, <3>3
  <2>3. QED
    BY <2>1, <2>2
<1>6. QED
  BY <1>3, <1>4, <1>5 DEF N, Q

LEMMA FlattenType ==
  ASSUME NEW S, NEW ss \in Seq(Seq(S))
  PROVE  FlattenSeq(ss) \in Seq(S)
<1>1. PICK f : f \in [Nat -> Seq(S)] /\ FlattenSeq(ss) = f[Len(ss)]
  BY FlattenIterates
<1>2. QED
  BY <1>1

LEMMA FlattenAppend ==
  ASSUME NEW S, NEW ss \in Seq(Seq(S)), NEW x \in Seq(S)
  PROVE  FlattenSeq(Append(ss, x)) = FlattenSeq(ss) \o x
<1> DEFINE Q == Seq(S)
           N == Len(ss)
           tt == Append(ss, x)
<1>1. N \in Nat /\ tt \in Seq(Seq(S)) /\ Len(tt) = N + 1 /\ tt[N + 1] = x
      /\ \A i \in 1 .. N : tt[i] = ss[i]
  OBVIOUS
<1> HIDE DEF tt
<1>2. PICK f : /\ f \in [Nat -> Seq(S)] /\ f[0] = << >>
               /\ \A i \in Nat : i < Len(ss) => f[i + 1] = f[i] \o ss[i + 1]
               /\ FlattenSeq(ss) = f[Len(ss)]
  BY FlattenIterates
<1>3. PICK g : /\ g \in [Nat -> Seq(S)] /\ g[0] = << >>
               /\ \A i \in Nat : i < Len(tt) => g[i + 1] = g[i] \o tt[i + 1]
               /\ FlattenSeq(tt) = g[Len(tt)]
  BY <1>1, FlattenIterates
<1>4. \A i \in Nat : i < N => f[i + 1] = f[i] \o ss[i + 1]
  BY <1>2
<1>5. \A i \in Nat : i < N + 1 => g[i + 1] = g[i] \o tt[i + 1]
  BY <1>1, <1>3
<1> DEFINE T == {i \in Nat : i <= N => g[i] = f[i]}
<1>6. 0 \in T
  BY <1>2, <1>3
<1> HIDE DEF N
<1>7. ASSUME NEW i \in Nat, i \in T PROVE i + 1 \in T
  <2>1. SUFFICES ASSUME i + 1 <= N PROVE g[i + 1] = f[i + 1]
    OBVIOUS
  <2>2. i < N /\ i < N + 1 /\ i + 1 \in 1 .. N /\ g[i] = f[i]
    BY <1>1, <1>7, <2>1
  <2>3. f[i + 1] = f[i] \o ss[i + 1] /\ g[i + 1] = g[i] \o tt[i + 1]
    BY <1>4, <1>5, <2>2
  <2>4. tt[i + 1] = ss[i + 1]
    BY <1>1, <2>2
  <2>5. QED
    BY <2>2, <2>3, <2>4
<1> HIDE DEF T
<1>8. N \in T
  BY <1>1, <1>6, <1>7, Induct
<1>9. g[N] = f[N]
  BY <1>1, <1>8 DEF T
<1>10. g[N + 1] = g[N] \o x
  <2>1. N < N + 1
    BY <1>1
  <2>2. g[N + 1] = g[N] \o tt[N + 1]
    BY <1>1, <1>5, <2>1, Zenon
  <2>3. QED
    BY <1>1, <2>2, Zenon
<1>11. FlattenSeq(ss) = f[N] /\ FlattenSeq(tt) = g[N + 1]
  BY <1>1, <1>2, <1>3 DEF N
<1>12. QED
  BY <1>9, <1>10, <1>11 DEF tt

(* Where the parts of a concatenation are. *)
LaidOut(ss, off) ==
  /\ off \in [0 .. Len(ss) -> Nat] /\ off[0] = 0
  /\ off[Len(ss)] = Len(FlattenSeq(ss))
  /\ \A i \in 0 .. Len(ss) - 1 :
       off[i + 1] = off[i] + Len(ss[i + 1]) /\ off[i + 1] <= off[Len(ss)]
  /\ \A i \in 0 .. Len(ss) - 1 : \A m \in 1 .. Len(ss[i + 1]) :
       FlattenSeq(ss)[off[i] + m] = ss[i + 1][m]

LEMMA Layout ==
  ASSUME NEW S, NEW ss \in Seq(Seq(S))
  PROVE  \E off : LaidOut(ss, off)
<1> DEFINE N == Len(ss)
<1>1. N \in Nat /\ \A i \in 1 .. N : ss[i] \in Seq(S) /\ Len(ss[i]) \in Nat
  <2>1. N \in Nat /\ \A i \in 1 .. N : ss[i] \in Seq(S)
    OBVIOUS
  <2>2. \A s \in Seq(S) : Len(s) \in Nat
    OBVIOUS
  <2>3. QED
    BY <2>1, <2>2
<1>2. PICK f : /\ f \in [Nat -> Seq(S)] /\ f[0] = << >>
               /\ \A i \in Nat : i < N => f[i + 1] = f[i] \o ss[i + 1]
               /\ FlattenSeq(ss) = f[N]
  BY FlattenIterates
<1> DEFINE o == [i \in Nat |-> Len(f[i])]
<1>3. \A i \in Nat : f[i] \in Seq(S) /\ Len(f[i]) \in Nat
  <2>1. \A i \in Nat : f[i] \in Seq(S)
    BY <1>2
  <2>2. \A s \in Seq(S) : Len(s) \in Nat
    OBVIOUS
  <2>3. QED
    BY <2>1, <2>2
<1>4. \A i \in Nat : o[i] = Len(f[i]) /\ o[i] \in Nat
  BY <1>3
<1>5. o[0] = 0
  BY <1>2, <1>4
<1> HIDE DEF o, N
<1>6. ASSUME NEW i \in Nat, i < N
      PROVE  /\ o[i + 1] = o[i] + Len(ss[i + 1])
             /\ \A m \in 1 .. o[i] : f[i + 1][m] = f[i][m]
             /\ \A m \in 1 .. Len(ss[i + 1]) : f[i + 1][o[i] + m] = ss[i + 1][m]
  <2> DEFINE s == f[i]
             t == ss[i + 1]
  <2>1. /\ i + 1 \in 1 .. N /\ i + 1 \in Nat /\ f[i + 1] = s \o t
        /\ o[i] = Len(s) /\ o[i + 1] = Len(f[i + 1])
    <3>1. i + 1 \in 1 .. N /\ i + 1 \in Nat
      BY <1>1, <1>6
    <3>2. f[i + 1] = f[i] \o ss[i + 1]
      BY <1>2, <1>6, Zenon
    <3>3. o[i] = Len(f[i]) /\ o[i + 1] = Len(f[i + 1])
      BY <1>4, <3>1
    <3>4. QED
      BY <3>1, <3>2, <3>3
  <2>2. s \in Seq(S) /\ t \in Seq(S) /\ Len(s) \in Nat /\ Len(t) \in Nat
    BY <1>1, <1>3, <2>1
  <2> HIDE DEF s, t
  <2>3. /\ Len(s \o t) = Len(s) + Len(t)
        /\ \A m \in 1 .. Len(s) + Len(t) :
             (s \o t)[m] = IF m <= Len(s) THEN s[m] ELSE t[m - Len(s)]
    BY <2>2, ConcatProperties
  <2>4. \A m \in 1 .. Len(s) : (s \o t)[m] = s[m]
    BY <2>2, <2>3
  <2>5. \A m \in 1 .. Len(t) : (s \o t)[Len(s) + m] = t[m]
    <3> TAKE m \in 1 .. Len(t)
    <3>1. /\ Len(s) + m \in 1 .. Len(s) + Len(t) /\ ~(Len(s) + m <= Len(s))
          /\ (Len(s) + m) - Len(s) = m
      BY <2>2
    <3>2. QED
      BY <2>3, <3>1
  <2>6. QED
    BY <2>1, <2>3, <2>4, <2>5 DEF s, t
<1> DEFINE Kept(j) == \A i \in Nat : i < j =>
             /\ o[i] + Len(ss[i + 1]) <= o[j]
             /\ \A m \in 1 .. Len(ss[i + 1]) : f[j][o[i] + m] = ss[i + 1][m]
           T == {j \in Nat : j <= N => Kept(j)}
<1>7. 0 \in T
  BY <1>1
<1>8. ASSUME NEW j \in Nat, j \in T PROVE j + 1 \in T
  <2> HIDE DEF Kept
  <2> SUFFICES ASSUME j + 1 <= N PROVE Kept(j + 1)
    OBVIOUS
  <2> USE DEF Kept
  <2>1. j < N /\ Kept(j)
    BY <1>1, <1>8
  <2>2. /\ o[j + 1] = o[j] + Len(ss[j + 1])
        /\ \A m \in 1 .. o[j] : f[j + 1][m] = f[j][m]
        /\ \A m \in 1 .. Len(ss[j + 1]) : f[j + 1][o[j] + m] = ss[j + 1][m]
    BY <1>6, <2>1
  <2> SUFFICES ASSUME NEW i \in Nat, i < j + 1
               PROVE  /\ o[i] + Len(ss[i + 1]) <= o[j + 1]
                      /\ \A m \in 1 .. Len(ss[i + 1]) : f[j + 1][o[i] + m] = ss[i + 1][m]
    OBVIOUS
  <2>3. /\ Len(ss[i + 1]) \in Nat /\ Len(ss[j + 1]) \in Nat /\ o[i] \in Nat /\ o[j] \in Nat
    <3>1. i + 1 \in 1 .. N /\ j + 1 \in 1 .. N
      BY <1>1, <2>1
    <3>2. QED
      BY <1>1, <1>4, <3>1
  <2>4. CASE i = j
    BY <2>2, <2>3, <2>4
  <2>5. CASE i # j
    <3>1. i < j
      BY <2>5
    <3>2. /\ o[i] + Len(ss[i + 1]) <= o[j]
          /\ \A m \in 1 .. Len(ss[i + 1]) : f[j][o[i] + m] = ss[i + 1][m]
      BY <2>1, <3>1
    <3>3. \A m \in 1 .. Len(ss[i + 1]) : o[i] + m \in 1 .. o[j]
      BY <2>3, <3>2
    <3>4. o[i] + Len(ss[i + 1]) <= o[j + 1]
      BY <2>2, <2>3, <3>2
    <3>5. ASSUME NEW m \in 1 .. Len(ss[i + 1]) PROVE f[j + 1][o[i] + m] = ss[i + 1][m]
      <4>1. f[j + 1][o[i] + m] = f[j][o[i] + m]
        BY <2>2, <3>3
      <4>2. QED
        BY <3>2, <4>1
    <3>6. QED
      BY <3>4, <3>5
  <2>6. QED
    BY <2>4, <2>5
<1> HIDE DEF T, Kept
<1>9. Kept(N)
  <2>1. N \in T
    BY <1>1, <1>7, <1>8, Induct
  <2>2. QED
    BY <1>1, <2>1 DEF T
<1> DEFINE off == [i \in 0 .. N |-> o[i]]
<1>10. off \in [0 .. N -> Nat] /\ off[0] = 0 /\ \A i \in 0 .. N : off[i] = o[i]
  BY <1>1, <1>4, <1>5
<1> HIDE DEF off
<1>11. off[N] = Len(FlattenSeq(ss))
  <2>1. off[N] = o[N] /\ o[N] = Len(f[N])
    BY <1>1, <1>4, <1>10
  <2>2. QED
    BY <1>2, <2>1
<1>12. ASSUME NEW i \in 0 .. N - 1
       PROVE  /\ off[i + 1] = off[i] + Len(ss[i + 1]) /\ off[i + 1] <= off[N]
              /\ \A m \in 1 .. Len(ss[i + 1]) : FlattenSeq(ss)[off[i] + m] = ss[i + 1][m]
  <2>1. i \in Nat /\ i < N /\ i \in 0 .. N /\ i + 1 \in 0 .. N
    BY <1>1
  <2>2. N \in 0 .. N
    BY <1>1
  <2>3. QED
    BY <1>2, <1>6, <1>9, <1>10, <2>1, <2>2 DEF Kept
<1>13. LaidOut(ss, off)
  BY <1>10, <1>11, <1>12 DEF LaidOut, N
<1>14. QED
  BY <1>13
===============================================================================
