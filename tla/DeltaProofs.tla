------------------------------ MODULE DeltaProofs ------------------------------
(***************************************************************************)
(* Proofs about Delta, for every string of bytes, every base and every     *)
(* width of the integers.                                                  *)
(*                                                                         *)
(* First, whatever the bytes are: what is put together reaches outside     *)
(* neither the base nor the part of the delta that was passed, and takes   *)
(* no byte of the delta twice; and every variable keeps its type.          *)
(*                                                                         *)
(* Then, for the strings a writer wrote: the numbers at the head are read  *)
(* back as they were written, each copy is found to have the offset and    *)
(* the size that were meant, whichever of its argument bytes are written   *)
(* out, and so the instructions are followed one by one, from the place    *)
(* where each of them is written.                                          *)
(***************************************************************************)
EXTENDS Delta, Induction, FiniteSetTheorems

-----------------------------------------------------------------------------
(* The operands of a copy are numbers: the argument bytes it names follow. *)

Octet == 0 .. 255

LEMMA OctetsAreNumbers == \A b \in Octet : b \in Nat
BY DEF Octet

-----------------------------------------------------------------------------
(* The powers of two that occur.                                           *)

LEMMA NextPower == \A m, n : m \in Nat /\ n = m + 1 => Pow2[n] = 2 * Pow2[m]
BY Pow2Recursion

LEMMA PowersUpToEight ==
  /\ Pow2[0] = 1 /\ Pow2[1] = 2 /\ Pow2[2] = 4 /\ Pow2[3] = 8 /\ Pow2[4] = 16
  /\ Pow2[5] = 32 /\ Pow2[6] = 64 /\ Pow2[7] = 128 /\ Pow2[8] = 256
<1>0. Pow2[0] = 1
  BY Pow2Recursion
<1>1. Pow2[1] = 2
  BY <1>0, NextPower
<1>2. Pow2[2] = 4
  BY <1>1, NextPower
<1>3. Pow2[3] = 8
  BY <1>2, NextPower
<1>4. Pow2[4] = 16
  BY <1>3, NextPower
<1>5. Pow2[5] = 32
  BY <1>4, NextPower
<1>6. Pow2[6] = 64
  BY <1>5, NextPower
<1>7. Pow2[7] = 128
  BY <1>6, NextPower
<1>8. Pow2[8] = 256
  BY <1>7, NextPower
<1>9. QED
  BY <1>0, <1>1, <1>2, <1>3, <1>4, <1>5, <1>6, <1>7, <1>8

LEMMA PowersOfBytes ==
  /\ Pow2[16] = Pow2[8] * 256 /\ Pow2[24] = Pow2[16] * 256
  /\ Pow2[8] \in Nat \ {0} /\ Pow2[16] \in Nat \ {0} /\ Pow2[24] \in Nat \ {0}
<1>1. Pow2[8 + 8] = Pow2[8] * Pow2[8] /\ Pow2[16 + 8] = Pow2[16] * Pow2[8]
  BY Pow2Sum
<1>2. 8 + 8 = 16 /\ 16 + 8 = 24
  OBVIOUS
<1>3. QED
  BY <1>1, <1>2, PowersUpToEight, Pow2Type

LEMMA DeltaConstants ==
  /\ Group = 7 /\ Width \in Nat /\ Width > 0 /\ Pow2[Group] = 128
  /\ 0 .. 2 * Pow2[Group] - 1 = Octet
  /\ MaxSize \in Nat /\ BaseSize \subseteq Nat
BY DeltaAssumption, VarIntAssumption, PowersUpToEight DEF Octet

LEMMA PresentFinite ==
  ASSUME NEW op
  PROVE  IsFiniteSet(Present(op)) /\ Cardinality(Present(op)) \in Nat
<1>1. Present(op) \in SUBSET Nat /\ 6 \in Nat /\ \A k \in Present(op) : k <= 6
  BY DEF Present
<1>2. IsFiniteSet(Present(op))
  BY <1>1, FS_BoundedSetOfNaturals
<1>3. QED
  BY <1>2, FS_CardinalityType

(* An argument byte has fewer than all of them before it. *)
LEMMA FewerBefore ==
  ASSUME NEW op, NEW k \in Present(op)
  PROVE  /\ Cardinality({j \in Present(op) : j < k}) \in Nat
         /\ Cardinality({j \in Present(op) : j < k}) < Cardinality(Present(op))
<1> DEFINE Before == {j \in Present(op) : j < k}
<1>1. Before \in SUBSET Present(op) /\ Before # Present(op)
  BY DEF Present
<1> HIDE DEF Before
<1>2. IsFiniteSet(Before) /\ Cardinality(Before) <= Cardinality(Present(op))
  BY <1>1, PresentFinite, FS_Subset
<1>3. Cardinality(Before) # Cardinality(Present(op))
  BY <1>1, PresentFinite, FS_Subset
<1>4. Cardinality(Before) \in Nat
  BY <1>2, FS_CardinalityType
<1>5. QED
  BY <1>2, <1>3, <1>4, PresentFinite DEF Before

LEMMA ArgumentType ==
  ASSUME input \in Seq(Octet), position \in Nat,
         position + 1 + Cardinality(Present(Byte)) <= Len(input), NEW k
  PROVE  Argument(k) \in Nat
<1>1. CASE k \in Present(Byte)
  <2> DEFINE n == Cardinality({j \in Present(Byte) : j < k})
  <2>1. n \in Nat /\ n < Cardinality(Present(Byte)) /\ Cardinality(Present(Byte)) \in Nat
    BY <1>1, FewerBefore, PresentFinite
  <2> HIDE DEF n
  <2>2. position + 2 + n \in 1 .. Len(input)
    BY <2>1
  <2>3. \A i \in 1 .. Len(input) : input[i] \in Nat
    BY OctetsAreNumbers
  <2>4. QED
    BY <1>1, <2>2, <2>3 DEF Argument, n
<1>2. CASE k \notin Present(Byte)
  BY <1>2 DEF Argument
<1>3. QED
  BY <1>1, <1>2

LEMMA CopyType ==
  ASSUME input \in Seq(Octet), position \in Nat,
         position + 1 + Cardinality(Present(Byte)) <= Len(input)
  PROVE  CopyOffset \in Nat /\ CopySize \in Nat \ {0}
<1>1. ASSUME NEW k PROVE Argument(k) \in Nat
  BY ArgumentType
<1>2. Pow2[8] \in Nat /\ Pow2[16] \in Nat /\ Pow2[24] \in Nat
  BY Pow2Type
<1>3. \A x, y \in Nat : x * y \in Nat
  OBVIOUS
<1>4. \A k : /\ Pow2[8] * Argument(k) \in Nat /\ Pow2[16] * Argument(k) \in Nat
           /\ Pow2[24] * Argument(k) \in Nat
  BY <1>1, <1>2, <1>3
<1>5. \A w, x, y, z \in Nat : w + x + y + z \in Nat /\ w + x + y \in Nat
  OBVIOUS
<1>6. SizeField \in Nat
  BY <1>1, <1>4, <1>5, Zenon DEF SizeField
<1>7. CopyOffset \in Nat
  BY <1>1, <1>4, <1>5, Zenon DEF CopyOffset
<1>8. QED
  BY <1>6, <1>7 DEF CopySize


-----------------------------------------------------------------------------
(* The sizes: a number is read as it was written.                          *)

LEMMA GroupsAreEnough ==
  Groups \in Nat /\ Groups >= 1 /\ Width <= Group * Groups
<1>1. Group \in Nat \ {0} /\ Width \in Nat /\ Width > 0 /\ Group > 0
  BY VarIntAssumption
<1> DEFINE a == Width + Group - 1
<1>2. a \in Nat /\ a >= Group
  BY <1>1
<1> HIDE DEF a
<1>3. /\ a \div Group \in Nat /\ a % Group \in Nat /\ a % Group < Group
      /\ a = Group * (a \div Group) + (a % Group)
  BY <1>1, <1>2, DivMod
<1>4. a \div Group # 0
  BY <1>1, <1>2, <1>3
<1> DEFINE p == Group * (a \div Group)
<1>5. p \in Nat /\ a < p + Group
  BY <1>1, <1>3, Products
<1> HIDE DEF p
<1>6. Width <= p
  BY <1>1, <1>5 DEF a
<1>7. Groups = a \div Group
  BY DEF Groups, a
<1>8. QED
  BY <1>3, <1>4, <1>6, <1>7 DEF p

LEMMA NeededGroupsSuffice ==
  ASSUME NEW n \in 0 .. Pow2[Width] - 1
  PROVE  LET k == NeededGroups(n) IN
         /\ k \in Nat /\ k >= 1 /\ n < Pow2[Group * k] /\ Group * (k - 1) <= Width - 1
<1> DEFINE M == {m \in Nat : m >= 1 /\ n < Pow2[Group * m]}
<1>1. /\ Group \in Nat /\ Group > 0 /\ Width \in Nat /\ Width > 0 /\ Groups \in Nat
      /\ Groups >= 1 /\ Width <= Group * Groups /\ n \in Nat /\ n < Pow2[Width]
  BY VarIntAssumption, GroupsAreEnough, Pow2Type
<1>2. \A m \in Nat : Group * m \in Nat /\ Pow2[Group * m] \in Nat
  BY <1>1, Products, Pow2Type
<1>3. Groups \in M
  <2>1. Pow2[Width] <= Pow2[Group * Groups]
    BY <1>1, <1>2, Pow2Monotone
  <2>2. n < Pow2[Group * Groups]
    BY <1>1, <1>2, <2>1, Pow2Type
  <2>3. QED
    BY <1>1, <2>2
<1>4. PICK k \in M : \A m \in M : k <= m
  BY <1>3, Least
<1>5. k \in 1 .. Groups /\ n < Pow2[Group * k]
  BY <1>1, <1>3, <1>4
<1>6. k > 1 => n >= Pow2[Group * (k - 1)]
  <2> SUFFICES ASSUME k > 1, ~(n >= Pow2[Group * (k - 1)]) PROVE FALSE
    OBVIOUS
  <2>1. k - 1 \in Nat /\ k - 1 >= 1 /\ k - 1 < k
    BY <1>5
  <2>a. Pow2[Group * (k - 1)] \in Nat
    BY <1>2, <2>1, Zenon
  <2>2. n < Pow2[Group * (k - 1)]
    BY <1>1, <2>a
  <2>3. k - 1 \in M
    BY <2>1, <2>2
  <2>4. k <= k - 1
    BY <1>4, <2>3
  <2>5. QED
    BY <2>1, <2>4
<1> DEFINE Needed(m) == n < Pow2[Group * m] /\ (m > 1 => n >= Pow2[Group * (m - 1)])
           g == NeededGroups(n)
<1>7. g \in 1 .. Groups /\ Needed(g)
  <2>1. g = CHOOSE m \in 1 .. Groups : Needed(m)
    BY DEF NeededGroups
  <2>2. Needed(k)
    BY <1>5, <1>6
  <2> HIDE DEF Needed, g
  <2>3. QED
    BY <1>5, <2>1, <2>2, Zenon
<1> HIDE DEF g
<1>8. g \in Nat /\ g >= 1 /\ n < Pow2[Group * g]
  BY <1>1, <1>7
<1>9. Group * (g - 1) <= Width - 1
  <2>1. CASE g = 1
    <3>1. Group * 0 = 0
      BY <1>1
    <3>2. QED
      BY <1>1, <2>1, <3>1
  <2>2. CASE g > 1
    <3>1. g - 1 \in Nat /\ n >= Pow2[Group * (g - 1)]
      BY <1>1, <1>7, <2>2
    <3> DEFINE s == Group * (g - 1)
    <3>2. s \in Nat /\ Pow2[s] <= n
      BY <1>2, <3>1, <1>1
    <3> HIDE DEF s
    <3>3. ~(Width <= s)
      <4> SUFFICES ASSUME Width <= s PROVE FALSE
        OBVIOUS
      <4>1. Pow2[Width] <= Pow2[s]
        BY <1>1, <3>2, Pow2Monotone
      <4>2. QED
        BY <1>1, <3>2, <4>1, Pow2Type
    <3>4. s <= Width - 1
      BY <1>1, <3>2, <3>3
    <3>5. QED
      BY <3>4 DEF s
  <2>3. QED
    BY <1>8, <2>1, <2>2
<1>10. QED
  BY <1>8, <1>9 DEF g

(* The bytes of a number: seven of its bits, and whether more follow. *)
Digit(n, j) == (n \div Pow2[Group * (j - 1)]) % Pow2[Group]

LEMMA NumberBytes ==
  ASSUME NEW n \in 0 .. Pow2[Width] - 1
  PROVE  LET k == NeededGroups(n)
             s == EncodeVarInt(n) IN
         /\ s \in Seq(Octet) /\ Len(s) = k
         /\ \A j \in 1 .. k : Payload(s[j]) = Digit(n, j) /\ (Continues(s[j]) <=> j < k)
<1> DEFINE k == NeededGroups(n)
           s == EncodeVarInt(n)
<1>1. k \in Nat /\ n \in Nat /\ Group \in Nat /\ Pow2[Group] = 128
  BY NeededGroupsSuffice, DeltaConstants, Pow2Type
<1>2. ASSUME NEW j \in 1 .. k PROVE Digit(n, j) \in Nat /\ Digit(n, j) < 128
  <2>1. Group * (j - 1) \in Nat
    <3>1. j - 1 \in Nat
      BY <1>1
    <3>2. QED
      BY <1>1, <3>1, Products
  <2>2. Pow2[Group * (j - 1)] \in Nat \ {0}
    BY <2>1, Pow2Type
  <2>3. n \div Pow2[Group * (j - 1)] \in Nat
    BY <1>1, <2>2, DivMod
  <2>4. QED
    BY <1>1, <2>3, DivMod DEF Digit
<1>3. s = [j \in 1 .. k |-> Digit(n, j) + IF j < k THEN 128 ELSE 0]
  BY <1>1 DEF EncodeVarInt, Digit
<1> HIDE DEF k, s
<1>4. \A j \in 1 .. k : s[j] = Digit(n, j) + IF j < k THEN 128 ELSE 0
  BY <1>3
<1>5. \A j \in 1 .. k : s[j] \in Octet
  <2> TAKE j \in 1 .. k
  <2>1. Digit(n, j) \in Nat /\ Digit(n, j) < 128
    BY <1>2 DEF k
  <2>2. QED
    BY <1>4, <2>1 DEF Octet
<1>6. s \in Seq(Octet) /\ Len(s) = k
  BY <1>1, <1>3, <1>5
<1>7. ASSUME NEW j \in 1 .. k
      PROVE  Payload(s[j]) = Digit(n, j) /\ (Continues(s[j]) <=> j < k)
  <2> DEFINE d == Digit(n, j)
  <2>1. d \in Nat /\ d < 128
    BY <1>2 DEF k
  <2>2. s[j] = d + IF j < k THEN 128 ELSE 0
    BY <1>4
  <2> HIDE DEF d
  <2>3. CASE j < k
    <3>1. s[j] = d + 128
      BY <2>2, <2>3
    <3>2. s[j] % 128 = d /\ (s[j] \div 128) % 2 = 1
      BY <2>1, <3>1
    <3>3. QED
      BY <1>1, <2>3, <3>2 DEF Payload, Continues, d
  <2>4. CASE ~(j < k)
    <3>1. s[j] = d
      BY <2>1, <2>2, <2>4
    <3>2. s[j] % 128 = d /\ s[j] \div 128 = 0
      BY <2>1, <3>1
    <3>3. QED
      BY <1>1, <2>4, <3>2 DEF Payload, Continues, d
  <2>5. QED
    BY <2>3, <2>4
<1>8. QED
  BY <1>6, <1>7 DEF k, s

(* Remainders by a product are remainders by its factors. *)
LEMMA ModOfProduct ==
  ASSUME NEW n \in Nat, NEW a \in Nat \ {0}, NEW b \in Nat \ {0}
  PROVE  n % (a * b) = (n % a) + a * ((n \div a) % b)
<1> DEFINE q == n \div a
           r == n % a
           x == q \div b
           y == q % b
<1>1. q \in Nat /\ r \in Nat /\ r < a /\ n = a * q + r
  BY DivMod
<1> HIDE DEF q, r
<1>2. x \in Nat /\ y \in Nat /\ y < b /\ q = b * x + y
  BY <1>1, DivMod
<1> HIDE DEF x, y
<1>3. a * b \in Nat /\ a * b > 0 /\ a * y \in Nat /\ a * y + r \in Nat
  BY <1>1, <1>2, Products
<1>4. a * y + r < a * b
  <2>1. a * (b - y) >= a
    BY <1>2, Multiples
  <2>2. a * (b - y) = a * b - a * y
    BY <1>2
  <2>3. QED
    BY <1>1, <1>3, <2>1, <2>2
<1>5. n = (a * b) * x + (a * y + r)
  <2>1. a * (b * x + y) = (a * b) * x + a * y
    BY <1>2
  <2>2. (a * b) * x \in Nat
    BY <1>2, <1>3, Products
  <2>3. QED
    BY <1>1, <1>2, <1>3, <2>1, <2>2
<1> DEFINE m == a * b
           z == a * y + r
<1>6. m \in Nat \ {0} /\ z \in Nat /\ z < m /\ n = m * x + z
  BY <1>3, <1>4, <1>5
<1> HIDE DEF m, z
<1>7. n % m = z
  BY <1>2, <1>6, ModUnique
<1>8. QED
  BY <1>1, <1>3, <1>7 DEF m, z, r, q, y

(* A further group of a number that fits is collected as it is. *)
LEMMA GroupOfNumber ==
  ASSUME NEW n \in 0 .. Pow2[Width] - 1, NEW s \in Nat
  PROVE  LET d == (n \div Pow2[s]) % Pow2[Group] IN
         (n % Pow2[s]) + ((d * Pow2[s]) % Pow2[Width]) = n % Pow2[s + Group]
<1> DEFINE P == Pow2[s]
           q == n \div P
           d == q % Pow2[Group]
<1>1. /\ n \in Nat /\ P \in Nat \ {0} /\ Pow2[Group] \in Nat \ {0}
      /\ Pow2[Width] \in Nat \ {0} /\ n < Pow2[Width]
      /\ Pow2[s + Group] = P * Pow2[Group]
  <2>1. Group \in Nat /\ Width \in Nat
    BY DeltaConstants
  <2>2. Pow2[s + Group] = Pow2[s] * Pow2[Group]
    BY <2>1, Pow2Sum, Zenon
  <2>3. QED
    BY <2>1, <2>2, Pow2Type
<1> HIDE DEF P
<1>2. q \in Nat /\ n % P \in Nat /\ n = P * q + (n % P)
  BY <1>1, DivMod
<1> HIDE DEF q
<1>3. d \in Nat /\ d <= q
  <2>1. q \div Pow2[Group] \in Nat /\ d \in Nat
        /\ q = Pow2[Group] * (q \div Pow2[Group]) + d
    BY <1>1, <1>2, DivMod
  <2>2. Pow2[Group] * (q \div Pow2[Group]) \in Nat
    BY <1>1, <2>1, Products
  <2>3. QED
    BY <1>2, <2>1, <2>2
<1>4. d * P \in Nat /\ d * P = P * d /\ d * P < Pow2[Width]
  <2>1. \A u, v, w \in Nat : u <= v => w * u <= w * v
    OBVIOUS
  <2> HIDE DEF d
  <2>2. P * d <= P * q /\ P * q \in Nat /\ P * d \in Nat /\ d * P = P * d
    BY <1>1, <1>2, <1>3, <2>1, Products
  <2>3. QED
    BY <1>1, <1>2, <2>2
<1>5. (d * P) % Pow2[Width] = P * d
  BY <1>1, <1>4, ModSmall
<1>6. n % (P * Pow2[Group]) = (n % P) + P * d
  BY <1>1, ModOfProduct DEF d, q
<1>7. QED
  BY <1>1, <1>5, <1>6 DEF d, q, P

(* The number n is written from position a on, and what was read of it. *)
NumberAt(a, n) ==
  /\ a + NeededGroups(n) <= Len(input)
  /\ \A j \in 1 .. NeededGroups(n) : input[a + j] = EncodeVarInt(n)[j]

Reads(a, n) ==
  \/ /\ status = "reading"
     /\ position - a \in 0 .. NeededGroups(n) - 1
     /\ shift = Group * (position - a) /\ value = n % Pow2[shift]
  \/ /\ status = "ok"
     /\ position = a + NeededGroups(n) /\ value = n

LEMMA NumberStarts ==
  ASSUME NEW n \in 0 .. Pow2[Width] - 1, NEW a \in Nat,
         position = a, value = 0, shift = 0, status = "reading"
  PROVE  Reads(a, n)
<1>1. NeededGroups(n) \in Nat /\ NeededGroups(n) >= 1 /\ n \in Nat /\ Group = 7
  BY NeededGroupsSuffice, DeltaConstants
<1>2. n % Pow2[0] = 0 /\ a - a = 0 /\ Group * 0 = 0
  BY <1>1, PowersUpToEight
<1>3. QED
  BY <1>1, <1>2 DEF Reads

LEMMA NumberGoesOn ==
  ASSUME NEW n \in 0 .. Pow2[Width] - 1, NEW a \in Nat, position \in Nat,
         input \in Seq(Octet), NumberAt(a, n), Reads(a, n),
         status = "reading", VarIntNext
  PROVE  Reads(a, n)' /\ position' \in Nat /\ position <= position' /\ UNCHANGED input
<1> DEFINE k == NeededGroups(n)
           i == position - a
           t == Group * i
<1>1. /\ k \in Nat /\ n \in Nat /\ i \in 0 .. k - 1 /\ position = a + i
      /\ n < Pow2[Group * k] /\ Group * (k - 1) <= Width - 1 /\ Group = 7 /\ Width \in Nat
      /\ shift = t /\ value = n % Pow2[t] /\ a + k <= Len(input) /\ Len(input) \in Nat
      /\ \A j \in 1 .. k : input[a + j] = EncodeVarInt(n)[j]
  BY NeededGroupsSuffice, DeltaConstants DEF Reads, NumberAt
<1> HIDE DEF k, i
<1>2. i + 1 \in 1 .. k /\ position + 1 = a + (i + 1) /\ position < Len(input) /\ t \in Nat
  BY <1>1
<1>3. Byte = EncodeVarInt(n)[i + 1]
  BY <1>1, <1>2 DEF Byte
<1>4. Payload(Byte) = (n \div Pow2[t]) % Pow2[Group] /\ (Continues(Byte) <=> i + 1 < k)
  <2>1. Payload(Byte) = Digit(n, i + 1) /\ (Continues(Byte) <=> i + 1 < k)
    BY <1>2, <1>3, NumberBytes DEF k
  <2>2. (i + 1) - 1 = i
    BY <1>1
  <2>3. QED
    BY <2>1, <2>2 DEF Digit
<1>5. Collected = n % Pow2[t + Group]
  BY <1>1, <1>2, <1>4, GroupOfNumber DEF Collected
<1>6. t + Group = Group * (i + 1)
  BY <1>1
<1> HIDE DEF t
<1>7. CASE i + 1 < k
  <2>1. VarIntMore
    BY <1>2, <1>4, <1>7 DEF VarIntNext, VarIntEnds, VarIntLast
  <2>2. /\ position' = position + 1 /\ value' = n % Pow2[t + Group] /\ shift' = t + Group
        /\ status' = IF shift' > Width - 1 THEN "pack_delta_invalid" ELSE status
        /\ UNCHANGED input
    BY <1>1, <1>5, <2>1 DEF VarIntMore
  <2>3. shift' <= Width - 1
    <3>1. i + 1 <= k - 1 /\ Group * (i + 1) <= Group * (k - 1)
      BY <1>1, <1>7
    <3>2. QED
      BY <1>1, <1>2, <1>6, <2>2, <3>1
  <2>4. ~(shift' > Width - 1)
    BY <1>1, <1>2, <2>2, <2>3
  <2>5. status' = "reading"
    BY <2>2, <2>4
  <2>6. position' - a = i + 1 /\ i + 1 \in 0 .. k - 1
    BY <1>1, <1>2, <1>7, <2>2
  <2>7. Reads(a, n)'
    BY <1>6, <2>2, <2>5, <2>6 DEF Reads, k
  <2>8. QED
    BY <2>2, <2>7
<1>8. CASE ~(i + 1 < k)
  <2>1. VarIntLast
    BY <1>2, <1>4, <1>8 DEF VarIntNext, VarIntEnds, VarIntMore
  <2>2. /\ position' = position + 1 /\ value' = n % Pow2[t + Group]
        /\ status' = "ok" /\ UNCHANGED input
    BY <1>5, <2>1 DEF VarIntLast
  <2>3. i + 1 = k
    BY <1>1, <1>2, <1>8
  <2>4. n % Pow2[t + Group] = n
    <3>1. Group * k \in Nat
      BY <1>1
    <3>2. Pow2[Group * k] \in Nat \ {0}
      BY <3>1, Pow2Type
    <3>3. n % Pow2[Group * k] = n
      BY <1>1, <3>2, ModSmall
    <3>4. QED
      BY <1>6, <2>3, <3>3
  <2>5. position' = a + k
    BY <1>2, <2>2, <2>3
  <2>6. Reads(a, n)'
    BY <2>2, <2>4, <2>5 DEF Reads, k
  <2>7. QED
    BY <2>2, <2>6
<1>9. QED
  BY <1>7, <1>8

-----------------------------------------------------------------------------
(* The operands of a copy: those that are written are found again.         *)

LEMMA CopyInstructionType ==
  ASSUME NEW i \in CopyInstruction
  PROVE  /\ i.copy /\ i.offset \in Nat /\ i.size \in Nat /\ i.written \in Seq(0 .. 6)
         /\ Writable(i)
BY DEF CopyInstruction

(* The flags of an opcode do not meet. *)
LEMMA FlagsApart ==
  \A a \in {0, 1}, b \in {0, 2}, c \in {0, 4}, d \in {0, 8}, e \in {0, 16},
     f \in {0, 32}, g \in {0, 64} :
    LET op == 128 + a + b + c + d + e + f + g IN
    /\ op \in 128 .. 255
    /\ (op \div 1) % 2 = 1 <=> a = 1
    /\ (op \div 2) % 2 = 1 <=> b = 2
    /\ (op \div 4) % 2 = 1 <=> c = 4
    /\ (op \div 8) % 2 = 1 <=> d = 8
    /\ (op \div 16) % 2 = 1 <=> e = 16
    /\ (op \div 32) % 2 = 1 <=> f = 32
    /\ (op \div 64) % 2 = 1 <=> g = 64
BY SMTT(30)

Opcode(i) == 128 + Flag(i, 0) + Flag(i, 1) + Flag(i, 2) + Flag(i, 3)
                 + Flag(i, 4) + Flag(i, 5) + Flag(i, 6)

LEMMA OpcodeNamesWritten ==
  ASSUME NEW i \in CopyInstruction
  PROVE  Opcode(i) \in 128 .. 255 /\ Present(Opcode(i)) = Written(i)
<1> DEFINE op == Opcode(i)
<1>1. /\ Flag(i, 0) \in {0, 1} /\ Flag(i, 1) \in {0, 2} /\ Flag(i, 2) \in {0, 4}
      /\ Flag(i, 3) \in {0, 8} /\ Flag(i, 4) \in {0, 16} /\ Flag(i, 5) \in {0, 32}
      /\ Flag(i, 6) \in {0, 64}
  BY PowersUpToEight DEF Flag
<1>2. \A k \in 0 .. 6 : k \in Written(i) <=> Flag(i, k) = Pow2[k]
  BY Pow2Type DEF Flag
<1>3. /\ op \in 128 .. 255
      /\ (op \div 1) % 2 = 1 <=> Flag(i, 0) = 1
      /\ (op \div 2) % 2 = 1 <=> Flag(i, 1) = 2
      /\ (op \div 4) % 2 = 1 <=> Flag(i, 2) = 4
      /\ (op \div 8) % 2 = 1 <=> Flag(i, 3) = 8
      /\ (op \div 16) % 2 = 1 <=> Flag(i, 4) = 16
      /\ (op \div 32) % 2 = 1 <=> Flag(i, 5) = 32
      /\ (op \div 64) % 2 = 1 <=> Flag(i, 6) = 64
  BY <1>1, FlagsApart DEF Opcode
<1> HIDE DEF op
<1>4. \A k \in 0 .. 6 : (op \div Pow2[k]) % 2 = 1 <=> k \in Written(i)
  <2> TAKE k \in 0 .. 6
  <2>1. k = 0 \/ k = 1 \/ k = 2 \/ k = 3 \/ k = 4 \/ k = 5 \/ k = 6
    OBVIOUS
  <2>2. (op \div Pow2[k]) % 2 = 1 <=> Flag(i, k) = Pow2[k]
    BY <1>3, <2>1, PowersUpToEight
  <2>3. QED
    BY <1>2, <2>2
<1>5. Written(i) \subseteq 0 .. 6
  BY CopyInstructionType DEF Written
<1>6. Present(op) = Written(i)
  BY <1>4, <1>5 DEF Present
<1>7. QED
  BY <1>3, <1>6 DEF op

(* In an ascending sequence as many come before an element as are smaller. *)
LEMMA AscendingCounts ==
  ASSUME NEW w \in Seq(Nat), \A m, n \in 1 .. Len(w) : m < n => w[m] < w[n],
         NEW c \in 0 .. Len(w)
  PROVE  Cardinality({w[m] : m \in 1 .. c}) = c
<1> DEFINE S == {w[m] : m \in 1 .. c}
           f == [m \in 1 .. c |-> w[m]]
<1>1. c \in Nat /\ \A m \in 1 .. c : m \in 1 .. Len(w) /\ w[m] \in Nat
  OBVIOUS
<1>2. \A m, n \in 1 .. c : m # n => w[m] # w[n]
  <2> TAKE m, n \in 1 .. c
  <2>1. m < n \/ n < m \/ m = n
    BY <1>1
  <2>2. QED
    BY <1>1, <2>1
<1>3. f \in Bijection(1 .. c, S)
  BY <1>2 DEF Bijection, Injection, Surjection, IsInjective
<1>4. ExistsBijection(1 .. c, S)
  BY <1>3 DEF ExistsBijection
<1>5. IsFiniteSet(1 .. c) /\ Cardinality(1 .. c) = c
  <2>1. 1 \in Int /\ c \in Int
    BY <1>1
  <2>2. IsFiniteSet(1 .. c) /\ Cardinality(1 .. c) = IF 1 > c THEN 0 ELSE c - 1 + 1
    BY <2>1, FS_Interval
  <2>3. QED
    BY <1>1, <2>2
<1>6. QED
  BY <1>4, <1>5, FS_Bijection

LEMMA OperandsInOrder ==
  ASSUME NEW i \in CopyInstruction
  PROVE  /\ Cardinality(Written(i)) = Len(i.written)
         /\ \A n \in 1 .. Len(i.written) :
              Cardinality({j \in Written(i) : j < i.written[n]}) = n - 1
<1> DEFINE w == i.written
<1>1. w \in Seq(0 .. 6) /\ \A m, n \in 1 .. Len(w) : m < n => w[m] < w[n]
  BY CopyInstructionType DEF Writable
<1>2. w \in Seq(Nat) /\ Len(w) \in Nat /\ \A n \in 1 .. Len(w) : w[n] \in Nat
  <2>1. Len(w) \in Nat /\ \A n \in 1 .. Len(w) : w[n] \in 0 .. 6
    BY <1>1
  <2>2. QED
    BY <1>1, <2>1
<1>3. Written(i) = {w[m] : m \in 1 .. Len(w)}
  BY DEF Written
<1> HIDE DEF w
<1>4. Cardinality(Written(i)) = Len(w)
  BY <1>1, <1>2, <1>3, AscendingCounts
<1>5. ASSUME NEW n \in 1 .. Len(w)
      PROVE  Cardinality({j \in Written(i) : j < w[n]}) = n - 1
  <2>1. \A m \in 1 .. Len(w) : w[m] < w[n] <=> m < n
    <3> TAKE m \in 1 .. Len(w)
    <3>1. m < n \/ m = n \/ n < m
      BY <1>2
    <3>2. QED
      BY <1>1, <1>2, <3>1
  <2>2. n - 1 \in 0 .. Len(w) /\ \A m \in 1 .. Len(w) : m < n <=> m \in 1 .. n - 1
    BY <1>2
  <2>3. {j \in Written(i) : j < w[n]} = {w[m] : m \in 1 .. n - 1}
    <3>1. \A j : j \in Written(i) /\ j < w[n] <=> \E m \in 1 .. n - 1 : j = w[m]
      <4>1. \A m \in 1 .. n - 1 : m \in 1 .. Len(w)
        BY <1>2
      <4>2. QED
        BY <1>3, <2>1, <2>2, <4>1
    <3>2. QED
      BY <3>1
  <2>4. QED
    BY <1>1, <1>2, <2>2, <2>3, AscendingCounts
<1>6. QED
  BY <1>4, <1>5 DEF w

(* A number of four bytes and one of three are the sums of their bytes. *)
LEMMA SumsOfBytes ==
  ASSUME NEW o \in Nat
  PROVE  /\ o % Pow2[24] = (o % 256) + Pow2[8] * ((o \div Pow2[8]) % 256)
                             + Pow2[16] * ((o \div Pow2[16]) % 256)
         /\ o % Pow2[16] = (o % 256) + Pow2[8] * ((o \div Pow2[8]) % 256)
         /\ o \div Pow2[24] < 256 =>
              o = (o % Pow2[24]) + Pow2[24] * ((o \div Pow2[24]) % 256)
         /\ o \div Pow2[16] < 256 =>
              o = (o % Pow2[16]) + Pow2[16] * ((o \div Pow2[16]) % 256)
<1> DEFINE B == 256
<1>b. B \in Nat \ {0} /\ Pow2[16] = Pow2[8] * B /\ Pow2[24] = Pow2[16] * B
  BY PowersOfBytes
<1>c. Pow2[8] \in Nat \ {0} /\ Pow2[16] \in Nat \ {0}
  BY PowersOfBytes
<1> HIDE DEF B
<1>1. o % Pow2[16] = (o % Pow2[8]) + Pow2[8] * ((o \div Pow2[8]) % B)
  <2>1. o % (Pow2[8] * B) = (o % Pow2[8]) + Pow2[8] * ((o \div Pow2[8]) % B)
    BY ONLY <1>b, <1>c, ModOfProduct, o \in Nat, Zenon
  <2>2. QED
    BY <1>b, <2>1, Zenon
<1>2. o % Pow2[24] = (o % Pow2[16]) + Pow2[16] * ((o \div Pow2[16]) % B)
  <2>1. o % (Pow2[16] * B) = (o % Pow2[16]) + Pow2[16] * ((o \div Pow2[16]) % B)
    BY ONLY <1>b, <1>c, ModOfProduct, o \in Nat, Zenon
  <2>2. QED
    BY <1>b, <2>1, Zenon
<1>3. ASSUME NEW P \in Nat \ {0}, o \div P < 256 PROVE o = (o % P) + P * ((o \div P) % 256)
  <2>1. o \div P \in Nat /\ o % P \in Nat /\ o = P * (o \div P) + (o % P)
    BY DivMod
  <2>2. (o \div P) % 256 = o \div P
    BY <1>3, <2>1, ModSmall
  <2> DEFINE q == P * (o \div P)
             r == o % P
  <2>3. q \in Nat /\ r \in Nat /\ o = q + r
    BY <2>1, Products
  <2> HIDE DEF q, r
  <2>4. o = r + q
    BY <2>3
  <2>5. QED
    BY <2>2, <2>4 DEF q, r
<1>4. o % Pow2[16] = (o % B) + Pow2[8] * ((o \div Pow2[8]) % B)
  <2>1. Pow2[8] = B
    BY PowersUpToEight DEF B
  <2>2. QED
    BY <1>1, <2>1, Zenon
<1>5. o % Pow2[24]
        = (o % B) + Pow2[8] * ((o \div Pow2[8]) % B) + Pow2[16] * ((o \div Pow2[16]) % B)
  BY <1>2, <1>4, Zenon
<1>6. Pow2[24] \in Nat \ {0} /\ Pow2[16] \in Nat \ {0}
  BY PowersOfBytes
<1>7. o \div Pow2[24] < 256 => o = (o % Pow2[24]) + Pow2[24] * ((o \div Pow2[24]) % 256)
  BY <1>3, <1>6
<1>8. o \div Pow2[16] < 256 => o = (o % Pow2[16]) + Pow2[16] * ((o \div Pow2[16]) % 256)
  BY <1>3, <1>6
<1>9. QED
  BY ONLY <1>4, <1>5, <1>7, <1>8, Zenon DEF B

LEMMA ArgumentsOfCopy ==
  ASSUME NEW i \in CopyInstruction
  PROVE  /\ ArgumentOf(i, 0) + Pow2[8] * ArgumentOf(i, 1) + Pow2[16] * ArgumentOf(i, 2)
              + Pow2[24] * ArgumentOf(i, 3) = i.offset
         /\ ArgumentOf(i, 4) + Pow2[8] * ArgumentOf(i, 5) + Pow2[16] * ArgumentOf(i, 6) = i.size
         /\ \A k \in 0 .. 6 : ArgumentOf(i, k) \in Octet
<1> DEFINE o == i.offset
           n == i.size
<1>1. /\ o \in Nat /\ n \in Nat /\ o \div Pow2[24] < 256 /\ n \div Pow2[16] < 256
  BY CopyInstructionType DEF Writable
<1> HIDE DEF o, n
<1>2. /\ ArgumentOf(i, 0) = o % 256 /\ ArgumentOf(i, 1) = (o \div Pow2[8]) % 256
      /\ ArgumentOf(i, 2) = (o \div Pow2[16]) % 256 /\ ArgumentOf(i, 3) = (o \div Pow2[24]) % 256
      /\ ArgumentOf(i, 4) = n % 256 /\ ArgumentOf(i, 5) = (n \div Pow2[8]) % 256
      /\ ArgumentOf(i, 6) = (n \div Pow2[16]) % 256
  <2>1. o \div Pow2[0] = o /\ n \div Pow2[0] = n
    BY <1>1, PowersUpToEight
  <2>2. /\ 8 * 0 = 0 /\ 8 * 1 = 8 /\ 8 * 2 = 16 /\ 8 * 3 = 24
        /\ 8 * (4 - 4) = 0 /\ 8 * (5 - 4) = 8 /\ 8 * (6 - 4) = 16
    OBVIOUS
  <2>3. /\ ArgumentOf(i, 0) = (o \div Pow2[0]) % 256 /\ ArgumentOf(i, 1) = (o \div Pow2[8]) % 256
        /\ ArgumentOf(i, 2) = (o \div Pow2[16]) % 256
        /\ ArgumentOf(i, 3) = (o \div Pow2[24]) % 256
    BY <2>2 DEF ArgumentOf, o
  <2>4. /\ ArgumentOf(i, 4) = (n \div Pow2[0]) % 256 /\ ArgumentOf(i, 5) = (n \div Pow2[8]) % 256
        /\ ArgumentOf(i, 6) = (n \div Pow2[16]) % 256
    BY <2>2 DEF ArgumentOf, n
  <2>5. QED
    BY <2>1, <2>3, <2>4
<1>3. \A k \in 0 .. 6 : ArgumentOf(i, k) \in Octet
  <2>1. \A x \in Nat : x % 256 \in Octet
    BY DEF Octet
  <2>2. \A x \in Nat : \A m \in {Pow2[8], Pow2[16], Pow2[24]} : (x \div m) % 256 \in Octet
    <3>1. \A x \in Nat : \A m \in {Pow2[8], Pow2[16], Pow2[24]} : x \div m \in Nat
      BY DivMod, PowersOfBytes
    <3>2. QED
      BY <2>1, <3>1
  <2>3. \A k \in 0 .. 6 : k = 0 \/ k = 1 \/ k = 2 \/ k = 3 \/ k = 4 \/ k = 5 \/ k = 6
    OBVIOUS
  <2>4. QED
    BY <1>1, <1>2, <2>1, <2>2, <2>3
<1>4. QED
  BY <1>1, <1>2, <1>3, SumsOfBytes DEF o, n

LEMMA Joined ==
  ASSUME NEW s \in Seq(Octet), NEW t \in Seq(Octet)
  PROVE  /\ s \o t \in Seq(Octet) /\ Len(s \o t) = Len(s) + Len(t)
         /\ \A m \in 1 .. Len(s) : (s \o t)[m] = s[m]
         /\ \A m \in 1 .. Len(t) : (s \o t)[Len(s) + m] = t[m]
OBVIOUS

(* The bytes of a copy: its opcode and the operands that are written. *)
LEMMA CopyBytes ==
  ASSUME NEW i \in CopyInstruction
  PROVE  LET s == EncodeInstruction(i) IN
         /\ s \in Seq(Octet) /\ Len(s) = Len(i.written) + 1 /\ Len(i.written) \in Nat
         /\ s[1] = Opcode(i)
         /\ \A n \in 1 .. Len(i.written) : s[n + 1] = ArgumentOf(i, i.written[n])
<1> DEFINE w == i.written
           t == [n \in 1 .. Len(w) |-> ArgumentOf(i, w[n])]
<1>1. /\ i.copy /\ w \in Seq(0 .. 6)
  BY CopyInstructionType
<1>2. Len(w) \in Nat /\ \A n \in 1 .. Len(w) : w[n] \in 0 .. 6
  BY <1>1
<1>3. \A n \in 1 .. Len(w) : ArgumentOf(i, w[n]) \in Octet
  BY <1>2, ArgumentsOfCopy
<1>4. t \in Seq(Octet) /\ Len(t) = Len(w) /\ \A n \in 1 .. Len(w) : t[n] = ArgumentOf(i, w[n])
  BY <1>2, <1>3
<1> HIDE DEF t
<1>5. EncodeInstruction(i) = <<Opcode(i)>> \o t
  BY <1>1 DEF EncodeInstruction, EncodeCopy, Opcode, t
<1>6. Opcode(i) \in Octet
  BY OpcodeNamesWritten DEF Octet
<1> DEFINE h == <<Opcode(i)>>
<1>7. h \in Seq(Octet) /\ Len(h) = 1 /\ h[1] = Opcode(i)
  BY <1>6
<1> HIDE DEF h
<1>8. /\ h \o t \in Seq(Octet) /\ Len(h \o t) = Len(h) + Len(t)
      /\ \A m \in 1 .. Len(h) : (h \o t)[m] = h[m]
      /\ \A m \in 1 .. Len(t) : (h \o t)[Len(h) + m] = t[m]
  BY <1>4, <1>7, Joined
<1>9. \A n \in 1 .. Len(w) : Len(h) + n = n + 1
  BY <1>2, <1>7
<1>10. \A n \in 1 .. Len(w) : (h \o t)[n + 1] = ArgumentOf(i, w[n])
  BY <1>4, <1>8, <1>9
<1>12. (h \o t)[1] = Opcode(i)
  BY <1>7, <1>8
<1>13. Len(h \o t) = Len(w) + 1
  BY <1>2, <1>4, <1>7, <1>8
<1>14. EncodeInstruction(i) = h \o t
  BY <1>5 DEF h
<1>15. QED
  BY <1>2, <1>8, <1>10, <1>12, <1>13, <1>14 DEF w

LEMMA CopyIsRead ==
  ASSUME NEW i \in CopyInstruction, position \in Nat,
         \A m \in 1 .. Len(i.written) + 1 : input[position + m] = EncodeInstruction(i)[m]
  PROVE  /\ Byte \in 128 .. 255 /\ Cardinality(Present(Byte)) = Len(i.written)
         /\ CopyOffset = i.offset /\ CopySize = i.size
<1> DEFINE w == i.written
           A(k) == ArgumentOf(i, k)
<1>1. /\ w \in Seq(0 .. 6) /\ Len(w) \in Nat /\ i.offset \in Nat /\ i.size \in Nat /\ i.size > 0
      /\ \A k \in LeftOut(i) \cap 0 .. 3 : A(k) = 0
      /\ \/ \A k \in LeftOut(i) \cap 4 .. 6 : A(k) = 0
         \/ i.size = 65536 /\ 4 .. 6 \subseteq LeftOut(i)
  BY CopyInstructionType DEF Writable
<1>2. Byte = Opcode(i)
  <2>1. 1 \in 1 .. Len(w) + 1
    BY <1>1
  <2>2. QED
    BY <2>1, CopyBytes DEF Byte
<1>3. Present(Byte) = Written(i) /\ Byte \in 128 .. 255
  BY <1>2, OpcodeNamesWritten
<1>4. ASSUME NEW k \in Written(i) PROVE Argument(k) = A(k)
  <2>1. PICK n \in 1 .. Len(w) : k = w[n]
    BY DEF Written
  <2>2. Cardinality({j \in Written(i) : j < k}) = n - 1
    BY <2>1, OperandsInOrder
  <2>3. Argument(k) = input[position + 2 + (n - 1)]
    BY <1>3, <2>2 DEF Argument
  <2>4. position + 2 + (n - 1) = position + (n + 1) /\ n + 1 \in 1 .. Len(w) + 1
    BY <1>1
  <2>5. EncodeInstruction(i)[n + 1] = A(k)
    BY <2>1, CopyBytes
  <2>6. QED
    BY <2>3, <2>4, <2>5
<1>5. ASSUME NEW k \in LeftOut(i) PROVE Argument(k) = 0
  BY <1>3 DEF Argument, LeftOut
<1>6. \A k \in 0 .. 6 : k \in Written(i) \/ k \in LeftOut(i)
  BY DEF LeftOut
<1>7. /\ A(0) + Pow2[8] * A(1) + Pow2[16] * A(2) + Pow2[24] * A(3) = i.offset
      /\ A(4) + Pow2[8] * A(5) + Pow2[16] * A(6) = i.size
  BY ArgumentsOfCopy
<1> HIDE DEF A
<1>8. CopyOffset = i.offset
  <2>1. \A k \in 0 .. 3 : Argument(k) = A(k)
    <3> TAKE k \in 0 .. 3
    <3>1. k \in 0 .. 6
      OBVIOUS
    <3>2. QED
      BY <1>1, <1>4, <1>5, <1>6, <3>1
  <2>2. /\ Argument(0) = A(0) /\ Argument(1) = A(1) /\ Argument(2) = A(2) /\ Argument(3) = A(3)
    BY <2>1
  <2>3. QED
    BY <1>7, <2>2, Zenon DEF CopyOffset
<1>9. CopySize = i.size
  <2>1. CASE \A k \in LeftOut(i) \cap 4 .. 6 : A(k) = 0
    <3>1. \A k \in 4 .. 6 : Argument(k) = A(k)
      <4> TAKE k \in 4 .. 6
      <4>1. k \in 0 .. 6
        OBVIOUS
      <4>2. QED
        BY <1>4, <1>5, <1>6, <2>1, <4>1
    <3>2. Argument(4) = A(4) /\ Argument(5) = A(5) /\ Argument(6) = A(6)
      BY <3>1
    <3>3. SizeField = i.size
      BY <1>7, <3>2, Zenon DEF SizeField
    <3>4. QED
      BY <1>1, <3>3 DEF CopySize
  <2>2. CASE i.size = 65536 /\ 4 .. 6 \subseteq LeftOut(i)
    <3>1. 4 \in LeftOut(i) /\ 5 \in LeftOut(i) /\ 6 \in LeftOut(i)
      BY <2>2
    <3>2. Argument(4) = 0 /\ Argument(5) = 0 /\ Argument(6) = 0
      BY <1>5, <3>1
    <3>3. \A x, y \in Nat : 0 + x * 0 + y * 0 = 0
      OBVIOUS
    <3>4. SizeField = 0
      BY <3>2, <3>3, PowersOfBytes DEF SizeField
    <3>5. QED
      BY <2>2, <3>4 DEF CopySize
  <2>3. QED
    BY <1>1, <2>1, <2>2
<1>10. QED
  BY <1>3, <1>8, <1>9, OperandsInOrder

(* The bytes of an insertion: how many they are, and themselves. *)
LEMMA InsertBytes ==
  ASSUME NEW i \in InsertInstruction
  PROVE  LET s == EncodeInstruction(i) IN
         /\ ~i.copy /\ i.bytes \in Seq(Octet) /\ Len(i.bytes) \in 1 .. 127
         /\ s \in Seq(Octet) /\ Len(s) = Len(i.bytes) + 1 /\ s[1] = Len(i.bytes)
         /\ \A n \in 1 .. Len(i.bytes) : s[n + 1] = i.bytes[n]
<1> DEFINE b == i.bytes
           h == <<Len(b)>>
<1>1. ~i.copy /\ b \in Seq(Octet) /\ Len(b) \in 1 .. 127
  BY DEF InsertInstruction, Octet
<1> HIDE DEF b
<1>2. Len(b) \in Octet
  BY <1>1 DEF Octet
<1>3. h \in Seq(Octet) /\ Len(h) = 1 /\ h[1] = Len(b)
  BY <1>2
<1>4. EncodeInstruction(i) = h \o b
  BY <1>1 DEF EncodeInstruction, b
<1> HIDE DEF h
<1>5. /\ h \o b \in Seq(Octet) /\ Len(h \o b) = Len(h) + Len(b)
      /\ \A m \in 1 .. Len(h) : (h \o b)[m] = h[m]
      /\ \A m \in 1 .. Len(b) : (h \o b)[Len(h) + m] = b[m]
  BY <1>1, <1>3, Joined
<1>6. Len(h) + Len(b) = Len(b) + 1 /\ \A n \in 1 .. Len(b) : Len(h) + n = n + 1
  BY <1>1, <1>3
<1>7. (h \o b)[1] = Len(b) /\ \A n \in 1 .. Len(b) : (h \o b)[n + 1] = b[n]
  BY <1>3, <1>5, <1>6
<1>8. QED
  BY <1>1, <1>4, <1>5, <1>6, <1>7 DEF b

-----------------------------------------------------------------------------
(* The parts of a delta: its two sizes and its instructions.               *)

Parts(l) == [n \in 1 .. Len(l) |-> EncodeInstruction(l[n])]

LEMMA PartsType ==
  ASSUME NEW l \in Seq(Instruction)
  PROVE  /\ Len(l) \in Nat /\ Parts(l) \in Seq(Seq(Octet)) /\ Len(Parts(l)) = Len(l)
         /\ \A n \in 1 .. Len(l) : /\ l[n] \in Instruction
                                   /\ Parts(l)[n] = EncodeInstruction(l[n])
                                   /\ Len(Parts(l)[n]) \in Nat /\ Len(Parts(l)[n]) >= 1
<1>1. Len(l) \in Nat /\ \A n \in 1 .. Len(l) : l[n] \in Instruction
  OBVIOUS
<1>2. ASSUME NEW i \in Instruction
      PROVE  /\ EncodeInstruction(i) \in Seq(Octet)
             /\ Len(EncodeInstruction(i)) \in Nat /\ Len(EncodeInstruction(i)) >= 1
  <2>1. CASE i \in CopyInstruction
    BY <2>1, CopyBytes
  <2>2. CASE i \in InsertInstruction
    BY <2>2, InsertBytes
  <2>3. QED
    BY <2>1, <2>2 DEF Instruction
<1> DEFINE Q == Seq(Octet)
<1>3. \A n \in 1 .. Len(l) : EncodeInstruction(l[n]) \in Q
  BY <1>1, <1>2
<1> HIDE DEF Q
<1>4. Parts(l) \in Seq(Q) /\ Len(Parts(l)) = Len(l)
      /\ \A n \in 1 .. Len(l) : Parts(l)[n] = EncodeInstruction(l[n])
  BY <1>1, <1>3 DEF Parts
<1>5. QED
  BY <1>1, <1>2, <1>4 DEF Q

LEMMA ProgramType ==
  ASSUME NEW g \in Program
  PROVE  /\ g.base \in 0 .. Pow2[Width] - 1 /\ g.result \in 0 .. Pow2[Width] - 1
         /\ g.instructions \in Seq(Instruction)
<1> DEFINE Q == Seq(Instruction)
           R == 0 .. Pow2[Width] - 1
<1>1. g \in [base : R, result : R, instructions : Q]
  BY ProgramAssumption
<1> HIDE DEF Q, R
<1>2. g.base \in R /\ g.result \in R /\ g.instructions \in Q
  BY <1>1
<1>3. QED
  BY <1>2 DEF Q, R

(* Where the instructions begin, and each of them. *)
SizesEnd(g) == NeededGroups(g.base) + NeededGroups(g.result)
Offset(g)   == CHOOSE off : LaidOut(Parts(g.instructions), off)
Start(g, k) == SizesEnd(g) + Offset(g)[k]

(* Instruction k + 1 of the program g is written at its place. *)
InstructionAt(g, k) ==
  LET s == EncodeInstruction(g.instructions[k + 1]) IN
  /\ g.instructions[k + 1] \in Instruction
  /\ Start(g, k + 1) = Start(g, k) + Len(s) /\ Len(s) \in Nat /\ Len(s) >= 1
  /\ Start(g, k + 1) <= Len(input)
  /\ \A m \in 1 .. Len(s) : input[Start(g, k) + m] = s[m]

LEMMA Encoded ==
  ASSUME NEW g \in Program, input = Encode(g)
  PROVE  /\ input \in Seq(Octet)
         /\ NeededGroups(g.base) \in Nat /\ NeededGroups(g.result) \in Nat
         /\ NumberAt(0, g.base) /\ NumberAt(NeededGroups(g.base), g.result)
         /\ Len(g.instructions) \in Nat
         /\ \A k \in 0 .. Len(g.instructions) : Start(g, k) \in Nat
         /\ Start(g, 0) = SizesEnd(g) /\ Start(g, Len(g.instructions)) = Len(input)
         /\ \A k \in 0 .. Len(g.instructions) - 1 : InstructionAt(g, k)
<1> DEFINE b == EncodeVarInt(g.base)
           r == EncodeVarInt(g.result)
           l == g.instructions
           i == EncodeInstructions(l)
           B == NeededGroups(g.base)
           R == NeededGroups(g.result)
           N == Len(l)
<1>1. /\ g.base \in 0 .. Pow2[Width] - 1 /\ g.result \in 0 .. Pow2[Width] - 1
      /\ l \in Seq(Instruction)
  BY ProgramType
<1>2. /\ B \in Nat /\ R \in Nat /\ b \in Seq(Octet) /\ Len(b) = B
      /\ r \in Seq(Octet) /\ Len(r) = R
  BY <1>1, NeededGroupsSuffice, NumberBytes
<1>3. /\ N \in Nat /\ Parts(l) \in Seq(Seq(Octet)) /\ Len(Parts(l)) = N
      /\ \A n \in 1 .. N : /\ l[n] \in Instruction /\ Parts(l)[n] = EncodeInstruction(l[n])
                           /\ Len(Parts(l)[n]) \in Nat /\ Len(Parts(l)[n]) >= 1
  BY <1>1, PartsType
<1>4. i = FlattenSeq(Parts(l))
  BY DEF EncodeInstructions, Parts
<1>5. i \in Seq(Octet) /\ Len(i) \in Nat
  <2>1. i \in Seq(Octet)
    BY <1>3, <1>4, FlattenType
  <2>2. QED
    BY <2>1
<1> DEFINE off == Offset(g)
<1>6. LaidOut(Parts(l), off)
  <2>1. \E o : LaidOut(Parts(l), o)
    BY <1>3, Layout
  <2>2. QED
    BY <2>1 DEF Offset
<1>7. /\ off \in [0 .. N -> Nat] /\ off[0] = 0 /\ off[N] = Len(i)
      /\ \A k \in 0 .. N - 1 : off[k + 1] = off[k] + Len(Parts(l)[k + 1]) /\ off[k + 1] <= off[N]
      /\ \A k \in 0 .. N - 1 : \A m \in 1 .. Len(Parts(l)[k + 1]) :
           i[off[k] + m] = Parts(l)[k + 1][m]
  BY <1>3, <1>4, <1>6 DEF LaidOut
<1>8. Encode(g) = (b \o r) \o i
  BY DEF Encode
<1>9. /\ SizesEnd(g) = B + R
      /\ \A k : Start(g, k) = (B + R) + off[k]
  BY DEF SizesEnd, Start
<1>d. \A n : Parts(l)[n] = Parts(g.instructions)[n] /\ l[n] = g.instructions[n]
  OBVIOUS
<1> HIDE DEF b, r, i, l, B, R, N, off
<1> DEFINE h == b \o r
<1>10. /\ h \in Seq(Octet) /\ Len(h) = B + R
       /\ \A m \in 1 .. B : h[m] = b[m]
       /\ \A m \in 1 .. R : h[B + m] = r[m]
  BY <1>2, Joined
<1> HIDE DEF h
<1>11. /\ input \in Seq(Octet) /\ Len(input) = (B + R) + Len(i)
       /\ \A m \in 1 .. B + R : input[m] = h[m]
       /\ \A m \in 1 .. Len(i) : input[(B + R) + m] = i[m]
  <2>1. /\ h \o i \in Seq(Octet) /\ Len(h \o i) = Len(h) + Len(i)
        /\ \A m \in 1 .. Len(h) : (h \o i)[m] = h[m]
        /\ \A m \in 1 .. Len(i) : (h \o i)[Len(h) + m] = i[m]
    BY <1>5, <1>10, Joined
  <2>2. input = h \o i
    BY <1>8 DEF h
  <2>3. QED
    BY <1>10, <2>1, <2>2
<1>12. NumberAt(0, g.base)
  <2>1. B <= Len(input) /\ \A j \in 1 .. B : 0 + j = j /\ j \in 1 .. B + R
    BY <1>2, <1>5, <1>11
  <2>2. \A j \in 1 .. B : input[0 + j] = b[j]
    BY <1>10, <1>11, <2>1
  <2>3. 0 + B <= Len(input)
    BY <1>2, <2>1
  <2>4. QED
    BY <2>2, <2>3 DEF NumberAt, B, b
<1>13. NumberAt(B, g.result)
  <2>1. B + R <= Len(input) /\ \A j \in 1 .. R : B + j \in 1 .. B + R
    BY <1>2, <1>5, <1>11
  <2>2. \A j \in 1 .. R : input[B + j] = r[j]
    BY <1>10, <1>11, <2>1
  <2>3. QED
    BY <2>1, <2>2 DEF NumberAt, R, r
<1>14. \A k \in 0 .. N : off[k] \in Nat /\ Start(g, k) \in Nat
  BY <1>2, <1>7, <1>9
<1>15. Start(g, 0) = B + R /\ Start(g, N) = Len(input)
  <2>1. Start(g, 0) = (B + R) + off[0] /\ Start(g, N) = (B + R) + off[N]
    BY <1>9
  <2>2. off[0] = 0 /\ off[N] = Len(i)
    BY <1>7
  <2>3. QED
    BY <1>2, <1>5, <1>11, <2>1, <2>2
<1>16. ASSUME NEW k \in 0 .. N - 1 PROVE InstructionAt(g, k)
  <2> DEFINE s == EncodeInstruction(l[k + 1])
  <2>1. k + 1 \in 1 .. N /\ k \in 0 .. N /\ k + 1 \in 0 .. N /\ N \in 0 .. N
    BY <1>3
  <2>2. l[k + 1] \in Instruction /\ Parts(l)[k + 1] = s /\ Len(s) \in Nat /\ Len(s) >= 1
    BY <1>3, <2>1
  <2> HIDE DEF s
  <2>3. /\ off[k + 1] = off[k] + Len(s) /\ off[k + 1] <= off[N]
        /\ \A m \in 1 .. Len(s) : i[off[k] + m] = s[m]
    BY <1>7, <2>2
  <2>4. /\ off[k] \in Nat /\ off[k + 1] \in Nat /\ off[N] = Len(i)
    BY <1>7, <1>14, <2>1
  <2>5. /\ Start(g, k) = (B + R) + off[k] /\ Start(g, k + 1) = (B + R) + off[k + 1]
    BY <1>9
  <2> DEFINE c == B + R
             d == off[k]
             e == Len(s)
             z == Len(i)
  <2>a. c \in Nat /\ d \in Nat /\ e \in Nat /\ z \in Nat
    BY <1>2, <1>5, <2>2, <2>4
  <2>b. /\ off[k + 1] = d + e /\ d + e <= z /\ Len(input) = c + z
        /\ Start(g, k) = c + d /\ Start(g, k + 1) = c + (d + e)
    BY <1>11, <2>3, <2>4, <2>5, Zenon
  <2> HIDE DEF c, d, e, z
  <2>6. Start(g, k + 1) = Start(g, k) + e /\ Start(g, k + 1) <= Len(input)
    BY <2>a, <2>b
  <2>7. ASSUME NEW m \in 1 .. Len(s) PROVE input[Start(g, k) + m] = s[m]
    <3>1. m \in 1 .. e
      BY DEF e
    <3>2. d + m \in 1 .. z /\ Start(g, k) + m = c + (d + m)
      BY <2>a, <2>b, <3>1
    <3>3. input[c + (d + m)] = i[d + m]
      BY <1>11, <3>2 DEF c, z
    <3>4. i[d + m] = s[m]
      BY <2>3 DEF d
    <3>5. QED
      BY <3>2, <3>3, <3>4
  <2>8. QED
    BY <2>2, <2>6, <2>7 DEF InstructionAt, s, l, e
<1>17. QED
  BY <1>2, <1>3, <1>9, <1>11, <1>12, <1>13, <1>14, <1>15, <1>16 DEF B, R, N, l

-----------------------------------------------------------------------------
(* What a program makes: the sizes of its instructions, added up.          *)

SumsUp(l, f) ==
  /\ f \in [Nat -> Nat] /\ f[0] = 0
  /\ \A k \in 0 .. Len(l) - 1 : f[k + 1] = f[k] + Size(l[k + 1])
  /\ Total(l) = f[Len(l)]

LEMMA SizeType == \A i \in Instruction : Size(i) \in Nat
<1> TAKE i \in Instruction
<1>1. CASE i \in CopyInstruction
  BY <1>1, CopyInstructionType DEF Size
<1>2. CASE i \in InsertInstruction
  BY <1>2, InsertBytes DEF Size
<1>3. QED
  BY <1>1, <1>2 DEF Instruction

LEMMA TotalSumsUp ==
  ASSUME NEW l \in Seq(Instruction)
  PROVE  \E f : SumsUp(l, f)
<1> DEFINE F == [x \in Nat \X Nat |->
                   IF x[1] + 1 \in 1 .. Len(l) THEN x[2] + Size(l[x[1] + 1]) ELSE x[2]]
<1>0. Len(l) \in Nat /\ \A i \in 1 .. Len(l) : Size(l[i]) \in Nat
  BY SizeType
<1>1. F \in [Nat \X Nat -> Nat]
  <2>1. \A x \in Nat \X Nat : x[1] \in Nat /\ x[2] \in Nat
    OBVIOUS
  <2>2. \A x \in Nat \X Nat :
          (IF x[1] + 1 \in 1 .. Len(l) THEN x[2] + Size(l[x[1] + 1]) ELSE x[2]) \in Nat
    <3> TAKE x \in Nat \X Nat
    <3>1. CASE x[1] + 1 \in 1 .. Len(l)
      BY <1>0, <2>1, <3>1
    <3>2. QED
      BY <2>1, <3>1
  <2>3. QED
    BY <2>2, Zenon
<1> HIDE DEF F
<1>2. PICK f : Iterates(Nat, 0, F, f)
  BY <1>1, Recursion
<1>3. f \in [Nat -> Nat] /\ f[0] = 0
  BY <1>2 DEF Iterates
<1>4. \A k \in 0 .. Len(l) - 1 : f[k + 1] = f[k] + Size(l[k + 1])
  <2> TAKE k \in 0 .. Len(l) - 1
  <2>0. k \in Nat /\ k + 1 \in 1 .. Len(l)
    BY <1>0
  <2>1. f[k] \in Nat
    BY <1>3, <2>0
  <2>2. f[k + 1] = F[<<k, f[k]>>]
    BY <1>2, <2>0 DEF Iterates
  <2>3. QED
    BY <2>0, <2>1, <2>2 DEF F
<1> DEFINE N == Len(l)
           Sums(g) == g = [n \in 0 .. N |-> IF n = 0 THEN 0 ELSE g[n - 1] + Size(l[n])]
<1>5. Total(l) = (CHOOSE g : Sums(g))[N]
  BY DEF Total
<1>6. \E g : Sums(g)
  <2> DEFINE h == [n \in 0 .. N |-> f[n]]
  <2>1. \A n \in 0 .. N : h[n] = IF n = 0 THEN 0 ELSE h[n - 1] + Size(l[n])
    <3> TAKE n \in 0 .. N
    <3>1. CASE n = 0
      BY <1>3, <3>1
    <3>2. CASE n # 0
      <4>1. n - 1 \in 0 .. N - 1 /\ n - 1 \in 0 .. N /\ (n - 1) + 1 = n
        BY <1>0, <3>2
      <4>2. f[(n - 1) + 1] = f[n - 1] + Size(l[(n - 1) + 1])
        BY <1>4, <4>1
      <4>3. QED
        BY <3>2, <4>1, <4>2
    <3>3. QED
      BY <3>1, <3>2
  <2>2. Sums(h)
    <3> HIDE DEF h
    <3>1. h = [n \in 0 .. N |-> h[n]]
      BY DEF h
    <3>2. QED
      BY <2>1, <3>1
  <2>3. QED
    BY <2>2
<1> DEFINE g == CHOOSE g : Sums(g)
<1>7. Sums(g)
  BY <1>6
<1>8. g[0] = 0 /\ \A n \in 1 .. N : g[n] = g[n - 1] + Size(l[n])
  <2> SUFFICES ASSUME NEW h, Sums(h)
               PROVE  h[0] = 0 /\ \A n \in 1 .. N : h[n] = h[n - 1] + Size(l[n])
    BY <1>7
  <2>1. h = [n \in 0 .. N |-> IF n = 0 THEN 0 ELSE h[n - 1] + Size(l[n])]
    OBVIOUS
  <2>2. \A n \in 0 .. N : h[n] = IF n = 0 THEN 0 ELSE h[n - 1] + Size(l[n])
    BY <2>1
  <2>3. 0 \in 0 .. N /\ \A n \in 1 .. N : n \in 0 .. N /\ n # 0
    BY <1>0
  <2>4. QED
    BY <2>2, <2>3
<1> HIDE DEF g, Sums
<1> DEFINE T == {n \in Nat : n <= N => g[n] = f[n]}
<1>9. 0 \in T
  BY <1>3, <1>8
<1>10. ASSUME NEW n \in Nat, n \in T PROVE n + 1 \in T
  <2>1. SUFFICES ASSUME n + 1 <= N PROVE g[n + 1] = f[n + 1]
    OBVIOUS
  <2>2. n \in 0 .. Len(l) - 1 /\ n + 1 \in 1 .. N /\ (n + 1) - 1 = n /\ g[n] = f[n]
    BY <1>0, <1>10, <2>1
  <2>3. QED
    BY <1>4, <1>8, <2>2
<1> HIDE DEF T
<1>11. N \in T
  BY <1>0, <1>9, <1>10, Induct
<1>12. g[N] = f[N]
  BY <1>0, <1>11 DEF T
<1>13. SumsUp(l, f)
  BY <1>3, <1>4, <1>5, <1>12 DEF SumsUp, g
<1>14. QED
  BY <1>13
-----------------------------------------------------------------------------
(* The inductive invariant. *)
PiecesInv ==
  /\ input \in Seq(Octet)
  /\ position \in Nat /\ base_size \in Nat /\ length \in Nat
  /\ pieces \in Seq(Piece)
  /\ phase = "instructions" => declared.base = base_size
  /\ PiecesAreSound

LEMMA PiecesInit == Init => PiecesInv
<1> SUFFICES ASSUME Init PROVE PiecesInv
  OBVIOUS
<1>1. 0 .. 2 * Pow2[Group] - 1 = Octet
  BY DeltaConstants
<1>2. input \in Seq(Octet)
  <2>1. CASE input \in Input
    BY <1>1, <2>1, VarIntAssumption
  <2>2. CASE program \in Program /\ input = Encode(program)
    BY <2>2, Encoded
  <2>3. QED
    BY <2>1, <2>2 DEF Init
<1>3. pieces \in Seq(Piece) /\ 1 .. Len(pieces) = {}
  <2>1. pieces = << >>
    BY DEF Init
  <2>2. QED
    BY <2>1
<1>4. PiecesAreSound
  <2>1. phase # "done"
    BY DEF Init
  <2>2. QED
    BY <1>3, <2>1 DEF PiecesAreSound, Inserted
<1>5. QED
  <2>1. position = 0 /\ base_size \in Nat /\ length = 0 /\ phase = "base"
    BY DeltaAssumption DEF Init, VarIntStart
  <2>2. QED
    BY <1>2, <1>3, <1>4, <2>1 DEF PiecesInv

(* Where nothing is appended, what was appended stays sound. *)
LEMMA NothingAdded ==
  ASSUME PiecesInv, position' \in Nat, position <= position',
         UNCHANGED <<input, base_size, pieces, length>>,
         phase' = "instructions" => declared'.base = base_size,
         status' = "ok" /\ phase' = "done" =>
           length = declared'.result /\ declared'.base = base_size
  PROVE  PiecesInv'
<1>1. \A n \in 1 .. Len(pieces) :
        pieces[n].offset \in Nat /\ pieces[n].size \in Nat
  <2>1. \A n \in 1 .. Len(pieces) : pieces[n] \in Piece
    BY DEF PiecesInv
  <2>2. QED
    BY <2>1 DEF Piece
<1>2. PiecesAreSound'
  BY <1>1 DEF PiecesInv, PiecesAreSound, Inserted
<1>3. QED
  BY <1>2 DEF PiecesInv

(* A sound piece is appended. *)
LEMMA PieceAdded ==
  ASSUME PiecesInv, NEW x \in Piece, Add(x), position' \in Nat, position <= position',
         phase = "instructions",
         UNCHANGED <<input, base_size, declared>>,
         x.from = "base" => x.offset + x.size <= base_size,
         x.from = "delta" => position < x.offset /\ x.offset + x.size <= position'
  PROVE  PiecesInv'
<1> DEFINE N == Len(pieces)
<1>1. /\ N \in Nat /\ pieces' = Append(pieces, x) /\ pieces' \in Seq(Piece)
      /\ Len(pieces') = N + 1
      /\ \A n \in 1 .. N : pieces'[n] = pieces[n] /\ pieces[n] \in Piece
      /\ pieces'[N + 1] = x
  BY DEF PiecesInv, Add
<1>2. \A n \in 1 .. N : pieces[n].offset \in Nat /\ pieces[n].size \in Nat
                        /\ pieces[n].from \in {"base", "delta"}
  BY <1>1 DEF Piece
<1>3. x.offset \in Nat /\ x.size \in Nat /\ x.from \in {"base", "delta"}
  BY DEF Piece
<1>4. \A n \in 1 .. N + 1 :
        pieces'[n].offset + pieces'[n].size
          <= IF pieces'[n].from = "base" THEN base_size' ELSE position'
  <2> TAKE n \in 1 .. N + 1
  <2>1. CASE n \in 1 .. N
    BY <1>1, <1>2, <2>1 DEF PiecesInv, PiecesAreSound
  <2>2. CASE n = N + 1
    BY <1>1, <1>3, <2>2
  <2>3. QED
    BY <1>1, <2>1, <2>2
<1>5. ASSUME NEW m \in Inserted', NEW n \in Inserted', m < n
      PROVE  pieces'[m].offset + pieces'[m].size < pieces'[n].offset
  <2>1. /\ m \in 1 .. N + 1 /\ n \in 1 .. N + 1 /\ m \in 1 .. N
        /\ pieces'[m].from = "delta" /\ pieces'[n].from = "delta"
    BY <1>1, <1>5 DEF Inserted
  <2>2. m \in Inserted
    BY <1>1, <2>1 DEF Inserted
  <2>3. CASE n \in 1 .. N
    <3>1. n \in Inserted
      BY <1>1, <2>1, <2>3 DEF Inserted
    <3>2. QED
      BY <1>1, <1>5, <2>1, <2>2, <2>3, <3>1 DEF PiecesInv, PiecesAreSound
  <2>4. CASE n = N + 1
    <3>1. pieces[m].offset + pieces[m].size <= position
      BY <1>1, <2>1 DEF PiecesInv, PiecesAreSound
    <3>2. position < x.offset
      BY <1>1, <2>1, <2>4
    <3>3. QED
      BY <1>1, <1>2, <1>3, <2>1, <2>4, <3>1, <3>2 DEF PiecesInv
  <2>5. QED
    BY <1>1, <2>1, <2>3, <2>4
<1>6. PiecesAreSound'
  BY <1>1, <1>4, <1>5 DEF PiecesAreSound, Add
<1>7. length' \in Nat /\ phase' = phase /\ declared' = declared
  BY <1>3 DEF Add, PiecesInv
<1>8. QED
  BY <1>1, <1>6, <1>7 DEF PiecesInv

-----------------------------------------------------------------------------
LEMMA PiecesStep == PiecesInv /\ [Next]_vars => PiecesInv'
<1> SUFFICES ASSUME PiecesInv, [Next]_vars PROVE PiecesInv'
  OBVIOUS
<1>1. /\ position \in Nat /\ Len(input) \in Nat
  BY DEF PiecesInv
<1>2. CASE SizeRead
  <2>1. /\ position' \in Nat /\ position <= position'
        /\ UNCHANGED <<input, base_size, pieces, length, phase, declared>>
        /\ phase' # "instructions" /\ phase' # "done"
    <3>1. /\ UNCHANGED <<base_size, pieces, length, phase, declared>>
          /\ phase \in {"base", "result"}
      BY <1>2 DEF SizeRead, result
    <3>2. UNCHANGED input /\ position' \in {position, position + 1}
      BY <1>2 DEF SizeRead, VarIntNext, VarIntEnds, VarIntMore, VarIntLast
    <3>3. QED
      BY <1>1, <3>1, <3>2
  <2>2. QED
    BY <2>1, NothingAdded
<1>3. CASE NextSize
  <2>1. phase' = "result" /\ UNCHANGED <<input, position, base_size, pieces, length>>
    BY <1>3 DEF NextSize
  <2>2. position' \in Nat /\ position <= position'
    BY <1>1, <2>1
  <2>3. QED
    BY <2>1, <2>2, NothingAdded
<1>4. CASE SizesRead
  <2>1. declared' = [declared EXCEPT !.result = value]
    BY <1>4 DEF SizesRead
  <2>2. declared'.base = declared.base
    BY <2>1
  <2>3. UNCHANGED <<input, position, base_size, pieces, length>>
    BY <1>4 DEF SizesRead
  <2>4. /\ phase' = "instructions" => declared.base = base_size
        /\ status' # "ok"
    BY <1>4 DEF SizesRead, Refuse
  <2>5. position' \in Nat /\ position <= position'
    BY <1>1, <2>3
  <2>6. QED
    BY <2>2, <2>3, <2>4, <2>5, NothingAdded
<1>5. CASE CopyPiece
  <2> DEFINE next == position + 1 + Cardinality(Present(Byte))
  <2>1. next \in Nat /\ position <= next
    BY <1>1, PresentFinite
  <2>2. CASE Stop
    BY <1>1, <1>5, <2>1, <2>2, NothingAdded DEF CopyPiece, Stop, Refuse
  <2>3. CASE ~Stop
    <3>1. /\ next <= Len(input) /\ position' = next /\ CopyFits
          /\ Add(Copy(CopyOffset, CopySize)) /\ phase = "instructions"
          /\ UNCHANGED <<input, base_size, declared>>
      BY <1>5, <2>3 DEF CopyPiece, AtInstruction
    <3>2. CopyOffset \in Nat /\ CopySize \in Nat
      BY <1>1, <3>1, CopyType DEF PiecesInv
    <3>3. Copy(CopyOffset, CopySize) \in Piece
      BY <3>2 DEF Copy, Piece
    <3>4. CopyOffset + CopySize <= base_size
      BY <3>1 DEF CopyFits
    <3>5. QED
      BY <2>1, <3>1, <3>3, <3>4, PieceAdded DEF Copy
  <2>4. QED
    BY <2>2, <2>3
<1>6. CASE InsertPiece
  <2>1. CASE Stop
    BY <1>1, <1>6, <2>1, NothingAdded DEF InsertPiece, Stop, Refuse, AtInstruction
  <2>2. CASE ~Stop
    <3>1. /\ position' = position + 1 + Byte /\ Add(Insert(position + 1, Byte))
          /\ phase = "instructions" /\ Byte \in 1 .. 127
          /\ UNCHANGED <<input, base_size, declared>>
      BY <1>6, <2>2 DEF InsertPiece, AtInstruction
    <3>2. Insert(position + 1, Byte) \in Piece
      BY <1>1, <3>1 DEF Insert, Piece
    <3>3. /\ position' \in Nat /\ position <= position'
          /\ position < position + 1 /\ position + 1 + Byte <= position'
      BY <1>1, <3>1
    <3>4. /\ Insert(position + 1, Byte).from = "delta"
          /\ Insert(position + 1, Byte).offset = position + 1
          /\ Insert(position + 1, Byte).size = Byte
      BY DEF Insert
    <3>5. QED
      BY <3>1, <3>2, <3>3, <3>4, PieceAdded
  <2>3. QED
    BY <2>1, <2>2
<1>7. CASE InvalidOpcode
  BY <1>1, <1>7, NothingAdded DEF InvalidOpcode, Stop, Refuse
<1>8. CASE DeltaEnds
  BY <1>1, <1>8, NothingAdded DEF DeltaEnds, PiecesInv
<1>9. CASE UNCHANGED vars
  <2>1. UNCHANGED <<input, position, status, phase, base_size, declared, pieces, length>>
    BY <1>9 DEF vars, varIntVars, result
  <2>2. QED
    BY <2>1 DEF PiecesInv, PiecesAreSound, Inserted
<1>10. QED
  BY <1>2, <1>3, <1>4, <1>5, <1>6, <1>7, <1>8, <1>9 DEF Next

(* Whatever the bytes of a delta are, its pieces are those of base and delta. *)
THEOREM DeltaPiecesAreSound == Spec => []PiecesAreSound
<1>1. PiecesInv => PiecesAreSound
  BY DEF PiecesInv
<1>2. QED
  BY <1>1, PiecesInit, PiecesStep, PTL DEF Spec

-----------------------------------------------------------------------------
(* The types, which need that what was collected stays below the next group. *)

TypeInv ==
  /\ PiecesInv
  /\ TypeOK
  /\ phase \in {"base", "result"} /\ status = "reading" =>
       shift <= Width - 1 /\ value < Pow2[shift]

(* One more group is collected: it is below the width, and below the next. *)
LEMMA CollectedType ==
  ASSUME NEW p \in Nat, NEW v \in Nat, NEW s \in Nat,
         p < Pow2[Group], s <= Width - 1, v < Pow2[s]
  PROVE  LET c == v + ((p * Pow2[s]) % Pow2[Width]) IN
         /\ c \in 0 .. Pow2[Width] - 1
         /\ s + Group <= Width - 1 => c < Pow2[s + Group]
<1> DEFINE c == v + ((p * Pow2[s]) % Pow2[Width])
<1>1. s <= Width /\ Width \in Nat /\ Group \in Nat /\ Width - s \in Nat
  BY DeltaConstants
<1>2. (p * Pow2[s]) % Pow2[Width] = (p % Pow2[Width - s]) * Pow2[s]
  BY <1>1, ShiftedOut
<1>3. p % Pow2[Width - s] \in Nat /\ p % Pow2[Width - s] < Pow2[Width - s]
  BY <1>1, Pow2Type, DivMod
<1>4. c \in Nat /\ c < Pow2[Width]
  BY <1>1, <1>2, <1>3, GroupsDoNotOverlap
<1>5. ASSUME s + Group <= Width - 1 PROVE c < Pow2[s + Group]
  <2>1. Width - s >= Group
    BY <1>1, <1>5
  <2>2. Pow2[Group] <= Pow2[Width - s] /\ Pow2[Group] \in Nat /\ Pow2[Width - s] \in Nat
    BY <1>1, <2>1, Pow2Monotone, Pow2Type
  <2>3. p < Pow2[Width - s] /\ Pow2[Width - s] \in Nat \ {0}
    BY <2>2
  <2>4. p % Pow2[Width - s] = p
    BY <2>3, ModSmall
  <2>5. c = v + p * Pow2[s]
    BY <1>2, <2>4
  <2>6. (s + Group) - s = Group /\ s <= s + Group /\ s + Group \in Nat
    BY <1>1
  <2>7. v + p * Pow2[s] < Pow2[s + Group]
    BY <2>6, GroupsDoNotOverlap
  <2>8. QED
    BY <2>5, <2>7
<1>6. Pow2[Width] \in Nat
  BY <1>1, Pow2Type
<1> HIDE DEF c
<1>7. c \in 0 .. Pow2[Width] - 1
  BY <1>4, <1>6
<1>8. QED
  BY <1>5, <1>7 DEF c

(* The reader of a number keeps the types. *)
LEMMA SizeReadType == TypeInv /\ SizeRead => TypeInv'
<1> SUFFICES ASSUME TypeInv, SizeRead PROVE TypeInv'
  OBVIOUS
<1>1. PiecesInv'
  BY PiecesStep DEF TypeInv, Next
<1>2. /\ input \in Seq(Octet) /\ Len(input) \in Nat /\ position \in 0 .. Len(input)
      /\ value \in 0 .. Pow2[Width] - 1 /\ shift \in 0 .. Width - 1 + Group
      /\ phase \in {"base", "result"} /\ status = "reading" /\ VarIntNext
      /\ UNCHANGED <<phase, base_size, declared, pieces, length>>
      /\ shift <= Width - 1 /\ value < Pow2[shift]
  BY DEF TypeInv, TypeOK, PiecesInv, SizeRead, result
<1>3. Group = 7 /\ Width \in Nat /\ Pow2[Group] = 128 /\ Pow2[Width] \in Nat
      /\ shift \in Nat /\ value \in Nat
  BY <1>2, DeltaConstants, Pow2Type
<1>4. /\ input' = input /\ position' \in 0 .. Len(input)
      /\ value' \in 0 .. Pow2[Width] - 1 /\ shift' \in 0 .. Width - 1 + Group
      /\ status' \in {"reading", "ok", "pack_delta_invalid"}
      /\ status' = "reading" => shift' <= Width - 1 /\ value' < Pow2[shift']
  <2>1. CASE VarIntEnds
    <3>1. input' = input /\ position' = position /\ value' = value /\ shift' = shift
          /\ status' = "pack_delta_invalid"
      BY <2>1 DEF VarIntEnds
    <3>2. QED
      BY <1>2, <3>1
  <2> DEFINE p == Payload(Byte)
  <2>2. ASSUME position < Len(input)
        PROVE  /\ Collected \in 0 .. Pow2[Width] - 1
               /\ shift + Group <= Width - 1 => Collected < Pow2[shift + Group]
               /\ position + 1 \in 0 .. Len(input)
    <3>1. position + 1 \in 1 .. Len(input)
      BY <1>2, <2>2
    <3>2. Byte \in Octet
      BY <1>2, <3>1 DEF Byte
    <3>3. p \in Nat /\ p < Pow2[Group]
      BY <1>3, <3>2, DivMod DEF Payload, Octet
    <3> HIDE DEF p
    <3>4. LET c == value + ((p * Pow2[shift]) % Pow2[Width]) IN
          /\ c \in 0 .. Pow2[Width] - 1
          /\ shift + Group <= Width - 1 => c < Pow2[shift + Group]
      BY <1>2, <1>3, <3>3, CollectedType
    <3>5. QED
      BY <3>1, <3>4 DEF Collected, p
  <2>3. CASE VarIntMore
    <3>1. /\ input' = input /\ position < Len(input) /\ position' = position + 1
          /\ value' = Collected /\ shift' = shift + Group
          /\ status' = IF shift' > Width - 1 THEN "pack_delta_invalid" ELSE status
      BY <2>3 DEF VarIntMore
    <3>2. shift' \in 0 .. Width - 1 + Group
      BY <1>2, <1>3, <3>1
    <3>3. status' \in {"reading", "pack_delta_invalid"}
          /\ (status' = "reading" => ~(shift' > Width - 1))
      BY <1>2, <3>1
    <3>4. status' = "reading" => shift' <= Width - 1
      BY <1>3, <3>2, <3>3
    <3>5. QED
      BY <2>2, <3>1, <3>2, <3>3, <3>4
  <2>4. CASE VarIntLast
    <3>1. /\ input' = input /\ position < Len(input) /\ position' = position + 1
          /\ value' = Collected /\ shift' = shift /\ status' = "ok"
      BY <2>4 DEF VarIntLast
    <3>2. QED
      BY <1>2, <2>2, <3>1
  <2>5. QED
    BY <1>2, <2>1, <2>3, <2>4 DEF VarIntNext
<1>5. TypeOK'
  <2>1. /\ phase' \in Phase /\ base_size' \in BaseSize /\ pieces' \in Seq(Piece) /\ length' \in Nat
        /\ declared' \in [base : 0 .. Pow2[Width] - 1, result : 0 .. Pow2[Width] - 1]
    BY <1>2 DEF TypeInv, TypeOK
  <2>2. input' \in Seq(0 .. 255)
    BY <1>2, <1>4 DEF Octet
  <2>3. QED
    BY <1>4, <2>1, <2>2 DEF TypeOK
<1>6. QED
  BY <1>1, <1>4, <1>5 DEF TypeInv

LEMMA TypeInit == Init => TypeInv
<1> SUFFICES ASSUME Init PROVE TypeInv
  OBVIOUS
<1>1. PiecesInv
  BY PiecesInit
<1>2. /\ Pow2[Width] \in Nat /\ Pow2[Width] > 0 /\ Width \in Nat /\ Width > 0
      /\ Group = 7 /\ Pow2[0] = 1
  BY DeltaConstants, Pow2Type, PowersUpToEight
<1>3. /\ position = 0 /\ value = 0 /\ shift = 0 /\ status = "reading" /\ phase = "base"
      /\ base_size \in BaseSize /\ declared = [base |-> 0, result |-> 0]
      /\ pieces = << >> /\ length = 0
  BY DEF Init, VarIntStart
<1>4. input \in Seq(0 .. 255) /\ Len(input) \in Nat
  BY <1>1 DEF PiecesInv, Octet
<1>5. 0 \in 0 .. Pow2[Width] - 1 /\ 0 \in 0 .. Width - 1 + Group /\ 0 \in 0 .. Len(input)
      /\ 0 <= Width - 1 /\ 0 < Pow2[0]
  BY <1>2, <1>4
<1> DEFINE R == 0 .. Pow2[Width] - 1
<1>6. 0 \in R
  BY <1>5
<1> HIDE DEF R
<1>7. [base |-> 0, result |-> 0] \in [base : R, result : R]
  BY <1>6
<1>8. declared \in [base : 0 .. Pow2[Width] - 1, result : 0 .. Pow2[Width] - 1]
  BY <1>3, <1>7 DEF R
<1>9. pieces \in Seq(Piece)
  BY <1>1 DEF PiecesInv
<1>10. TypeOK
  BY <1>3, <1>4, <1>5, <1>8, <1>9 DEF TypeOK, Phase
<1>11. QED
  BY <1>1, <1>3, <1>5, <1>10 DEF TypeInv

LEMMA TypeStep == TypeInv /\ [Next]_vars => TypeInv'
<1> SUFFICES ASSUME TypeInv, [Next]_vars PROVE TypeInv'
  OBVIOUS
<1> DEFINE R == 0 .. Pow2[Width] - 1
<1>1. PiecesInv /\ PiecesInv'
  BY PiecesStep DEF TypeInv
<1>2. /\ input \in Seq(0 .. 255) /\ Len(input) \in Nat /\ position \in 0 .. Len(input)
      /\ value \in R /\ shift \in 0 .. Width - 1 + Group
      /\ status \in {"reading", "ok", "pack_delta_invalid", "terminated"}
      /\ phase \in Phase /\ base_size \in BaseSize
      /\ declared \in [base : R, result : R]
  BY DEF TypeInv, TypeOK
<1>3. pieces' \in Seq(Piece) /\ length' \in Nat /\ position' \in Nat
  BY <1>1 DEF PiecesInv
<1> HIDE DEF R
<1>4. CASE SizeRead
  BY <1>4, SizeReadType
<1>5. CASE NextSize
  <2>1. /\ declared' = [declared EXCEPT !.base = value] /\ phase' = "result"
        /\ value' = 0 /\ shift' = 0 /\ status' = "reading"
        /\ input' = input /\ position' = position /\ base_size' = base_size
    BY <1>5 DEF NextSize
  <2>2. declared' \in [base : R, result : R]
    BY <1>2, <2>1
  <2>3. Pow2[Width] \in Nat /\ Pow2[Width] > 0 /\ Width \in Nat /\ Width > 0
        /\ Group = 7 /\ Pow2[0] = 1
    BY DeltaConstants, Pow2Type, PowersUpToEight
  <2>4. 0 \in 0 .. Pow2[Width] - 1 /\ 0 \in 0 .. Width - 1 + Group /\ 0 <= Width - 1 /\ 0 < Pow2[0]
    BY <2>3
  <2>5. TypeOK'
    BY <1>2, <1>3, <2>1, <2>2, <2>4 DEF TypeOK, Phase, R
  <2>6. QED
    BY <1>1, <2>1, <2>4, <2>5 DEF TypeInv
<1>6. CASE SizesRead
  <2>1. /\ declared' = [declared EXCEPT !.result = value]
        /\ phase' \in {"done", "instructions"}
        /\ status' \in {"reading", "pack_delta_invalid", "terminated"}
        /\ input' = input /\ position' = position /\ base_size' = base_size
        /\ value' = value /\ shift' = shift
    BY <1>6 DEF SizesRead, Refuse
  <2>2. declared' \in [base : R, result : R]
    BY <1>2, <2>1
  <2>3. TypeOK'
    BY <1>2, <1>3, <2>1, <2>2 DEF TypeOK, Phase, R
  <2>4. QED
    BY <1>1, <2>1, <2>3 DEF TypeInv
<1>7. CASE CopyPiece \/ InsertPiece \/ InvalidOpcode
  <2>1. /\ UNCHANGED <<input, value, shift, base_size, declared>>
        /\ phase = "instructions" /\ phase' \in {"done", "instructions"}
        /\ status' \in {status, "pack_delta_invalid"}
    BY <1>7 DEF CopyPiece, InsertPiece, InvalidOpcode, Stop, Refuse, Add, AtInstruction
  <2>2. position' \in 0 .. Len(input)
    <3>1. \/ position' = position \/ position' <= Len(input)
      <4>1. CASE CopyPiece
        BY <4>1 DEF CopyPiece
      <4>2. CASE InsertPiece
        BY <4>2 DEF InsertPiece
      <4>3. CASE InvalidOpcode
        BY <4>3 DEF InvalidOpcode
      <4>4. QED
        BY <1>7, <4>1, <4>2, <4>3
    <3>2. QED
      BY <1>2, <1>3, <3>1
  <2>3. TypeOK'
    BY <1>2, <1>3, <2>1, <2>2 DEF TypeOK, Phase, R
  <2>4. QED
    BY <1>1, <2>1, <2>3 DEF TypeInv
<1>8. CASE DeltaEnds
  <2>1. /\ UNCHANGED <<input, position, value, shift, base_size, declared>>
        /\ phase' = "done" /\ status' \in {"ok", "pack_delta_invalid"}
    BY <1>8 DEF DeltaEnds
  <2>2. TypeOK'
    BY <1>2, <1>3, <2>1 DEF TypeOK, Phase, R
  <2>3. QED
    BY <1>1, <2>1, <2>2 DEF TypeInv
<1>9. CASE UNCHANGED vars
  <2>1. UNCHANGED <<input, position, value, shift, status>>
        /\ UNCHANGED <<phase, base_size, declared, pieces, length>>
    BY <1>9 DEF vars, varIntVars, result
  <2>2. TypeOK'
    BY <1>2, <1>3, <2>1 DEF TypeOK, R
  <2>3. QED
    BY <1>1, <2>1, <2>2 DEF TypeInv
<1>10. QED
  BY <1>4, <1>5, <1>6, <1>7, <1>8, <1>9 DEF Next

(* Every variable keeps its type, whatever the bytes of the delta are. *)
THEOREM DeltaTypesHold == Spec => []TypeOK
<1>1. TypeInv => TypeOK
  BY DEF TypeInv
<1>2. QED
  BY <1>1, TypeInit, TypeStep, PTL DEF Spec

-----------------------------------------------------------------------------
(* A delta does what its writer meant: the inductive invariant. *)

Made(g) == CHOOSE f : SumsUp(g.instructions, f)

Obeyed(n, i) == Does(pieces[n], i) /\ (i.copy => i.offset + i.size <= base_size)

(* The first instructions of g were followed, as many as there are pieces. *)
Followed(g) ==
  /\ status = "reading"
  /\ declared.base = g.base /\ declared.result = g.result /\ base_size = g.base
  /\ Len(pieces) <= Len(g.instructions)
  /\ position = Start(g, Len(pieces))
  /\ length = Made(g)[Len(pieces)]
  /\ \A n \in 1 .. Len(pieces) : Obeyed(n, g.instructions[n])

Meant(g) ==
  IF Fits(g)
  THEN /\ status = "ok" /\ position = Len(input)
       /\ Len(pieces) = Len(g.instructions)
       /\ \A n \in 1 .. Len(pieces) : Does(pieces[n], g.instructions[n])
  ELSE status = "pack_delta_invalid"

CarriedOut(g) ==
  /\ input = Encode(g)
  /\ phase = "base" => Reads(0, g.base)
  /\ phase = "result" => Reads(NeededGroups(g.base), g.result) /\ declared.base = g.base
  /\ phase \in {"base", "result"} => pieces = << >> /\ length = 0
  /\ phase = "instructions" => Followed(g)
  /\ phase = "done" /\ g.result <= MaxSize => Meant(g)

ProgramInv == program # Unknown => \E g \in Program : program = g /\ CarriedOut(g)

LEMMA MadeSumsUp == \A g \in Program : SumsUp(g.instructions, Made(g))
<1> TAKE g \in Program
<1>1. \E f : SumsUp(g.instructions, f)
  BY ProgramType, TotalSumsUp
<1>2. QED
  BY <1>1 DEF Made

(* Where the delta goes on, the next instruction is written. *)
LEMMA NextInstruction ==
  ASSUME NEW g \in Program, input = Encode(g), TypeInv, Followed(g), position < Len(input)
  PROVE  LET k == Len(pieces)
             i == g.instructions[k + 1]
             s == EncodeInstruction(i) IN
         /\ k \in Nat /\ k + 1 \in 1 .. Len(g.instructions) /\ i \in Instruction
         /\ Len(s) \in Nat /\ Len(s) >= 1 /\ position \in Nat
         /\ \A m \in 1 .. Len(s) : input[position + m] = s[m]
         /\ position + Len(s) = Start(g, k + 1) /\ position + Len(s) <= Len(input)
<1> DEFINE k == Len(pieces)
           N == Len(g.instructions)
<1>1. k \in Nat /\ position \in Nat /\ Len(input) \in Nat
  BY DEF TypeInv, PiecesInv
<1>2. /\ N \in Nat /\ k <= N /\ position = Start(g, k) /\ Start(g, N) = Len(input)
      /\ \A n \in 0 .. N - 1 : InstructionAt(g, n)
  BY Encoded DEF Followed
<1>3. k # N
  BY <1>1, <1>2
<1>4. k \in 0 .. N - 1 /\ k + 1 \in 1 .. N
  BY <1>1, <1>2, <1>3
<1>5. InstructionAt(g, k)
  BY <1>2, <1>4
<1>6. QED
  BY <1>1, <1>2, <1>4, <1>5 DEF InstructionAt

(* Where it does not, every instruction was followed. *)
LEMMA NoMoreInstructions ==
  ASSUME NEW g \in Program, input = Encode(g), TypeInv, Followed(g), position >= Len(input)
  PROVE  Len(pieces) = Len(g.instructions) /\ position = Len(input)
<1> DEFINE k == Len(pieces)
           N == Len(g.instructions)
<1>1. k \in Nat /\ position \in Nat /\ Len(input) \in Nat
  BY DEF TypeInv, PiecesInv
<1>2. /\ N \in Nat /\ k <= N /\ position = Start(g, k) /\ Start(g, N) = Len(input)
      /\ \A n \in 0 .. N - 1 : InstructionAt(g, n)
  BY Encoded DEF Followed
<1>3. ASSUME k \in 0 .. N - 1 PROVE FALSE
  <2>1. InstructionAt(g, k)
    BY <1>2, <1>3
  <2> DEFINE s == EncodeInstruction(g.instructions[k + 1])
  <2>2. /\ Start(g, k + 1) = Start(g, k) + Len(s) /\ Len(s) \in Nat /\ Len(s) >= 1
        /\ Start(g, k + 1) <= Len(input)
    BY <2>1 DEF InstructionAt
  <2> HIDE DEF s
  <2>3. QED
    BY <1>1, <1>2, <2>2
<1>4. k = N
  BY <1>1, <1>2, <1>3
<1>5. QED
  BY <1>2, <1>4

(* One more is followed. *)
LEMMA InstructionFollowed ==
  ASSUME NEW g \in Program, TypeInv, Followed(g), NEW x, Add(x),
         UNCHANGED <<input, declared, base_size>>,
         Len(pieces) + 1 \in 1 .. Len(g.instructions),
         position' = Start(g, Len(pieces) + 1),
         NEW i, i = g.instructions[Len(pieces) + 1],
         Does(x, i), x.size = Size(i), i.copy => i.offset + i.size <= base_size
  PROVE  Followed(g)'
<1> DEFINE k == Len(pieces)
           l == g.instructions
<1>1. /\ k \in Nat /\ pieces' = Append(pieces, x) /\ Len(pieces') = k + 1
      /\ \A n \in 1 .. k : pieces'[n] = pieces[n]
      /\ pieces'[k + 1] = x
  BY DEF Add, TypeInv, PiecesInv
<1>2. /\ status' = status /\ length' = length + x.size
      /\ input' = input /\ declared' = declared /\ base_size' = base_size
  BY DEF Add
<1>3. length' = Made(g)[k + 1]
  <2>1. SumsUp(l, Made(g))
    BY MadeSumsUp
  <2>2. Len(l) \in Nat
    BY ProgramType
  <2>3. k \in 0 .. Len(l) - 1
    BY <1>1, <2>2
  <2>4. Made(g)[k + 1] = Made(g)[k] + Size(l[k + 1])
    BY <2>1, <2>3 DEF SumsUp
  <2>5. QED
    BY <1>2, <2>4 DEF Followed
<1>4. ASSUME NEW n \in 1 .. k + 1 PROVE Obeyed(n, l[n])'
  <2>1. CASE n \in 1 .. k
    <3>1. Obeyed(n, l[n])
      BY <2>1 DEF Followed
    <3>2. QED
      BY <1>1, <1>2, <2>1, <3>1 DEF Obeyed, Does, Bytes
  <2>2. CASE n = k + 1
    <3>1. pieces'[n] = x /\ l[n] = i
      BY <1>1, <2>2
    <3>2. QED
      BY <1>2, <3>1 DEF Obeyed, Does, Bytes
  <2>3. QED
    BY <1>1, <2>1, <2>2
<1>5. /\ status' = "reading" /\ declared'.base = g.base /\ declared'.result = g.result
      /\ base_size' = g.base
  BY <1>2 DEF Followed
<1>6. Len(pieces') <= Len(l) /\ position' = Start(g, Len(pieces'))
  <2>1. Len(l) \in Nat
    BY ProgramType
  <2>2. QED
    BY <1>1, <2>1
<1>7. \A n \in 1 .. Len(pieces') : Obeyed(n, l[n])'
  BY <1>1, <1>4
<1>8. length' = Made(g)[Len(pieces')]
  BY <1>1, <1>3
<1>9. QED
  BY <1>5, <1>6, <1>7, <1>8 DEF Followed

(* The steps at an instruction. *)
LEMMA CopyCarriedOut ==
  ASSUME NEW g \in Program, TypeInv, CarriedOut(g), CopyPiece
  PROVE  CarriedOut(g)'
<1> DEFINE k == Len(pieces)
           i == g.instructions[k + 1]
           s == EncodeInstruction(i)
<1>1. /\ input = Encode(g) /\ Followed(g) /\ position < Len(input) /\ Byte >= 128
      /\ phase = "instructions" /\ UNCHANGED <<input, base_size, declared>>
  BY DEF CarriedOut, CopyPiece, AtInstruction
<1>2. /\ k \in Nat /\ k + 1 \in 1 .. Len(g.instructions) /\ i \in Instruction
      /\ Len(s) \in Nat /\ Len(s) >= 1 /\ position \in Nat
      /\ \A m \in 1 .. Len(s) : input[position + m] = s[m]
      /\ position + Len(s) = Start(g, k + 1) /\ position + Len(s) <= Len(input)
  BY <1>1, NextInstruction
<1> HIDE DEF i, s
<1>3. i \in CopyInstruction
  <2>1. CASE i \in InsertInstruction
    <3>1. s[1] \in 1 .. 127
      BY <2>1, InsertBytes DEF s
    <3>2. Byte = s[1]
      BY <1>2 DEF Byte
    <3>3. Byte \in 1 .. 127
      BY <3>1, <3>2
    <3>4. QED
      BY <1>1, <3>3
  <2>2. QED
    BY <1>2, <2>1 DEF Instruction
<1>4. Len(s) = Len(i.written) + 1 /\ Len(i.written) \in Nat
      /\ i.offset \in Nat /\ i.size \in Nat
  BY <1>3, CopyBytes, CopyInstructionType DEF s
<1>a. i.copy
  BY <1>3, CopyInstructionType
<1>5. \A m \in 1 .. Len(i.written) + 1 : input[position + m] = EncodeInstruction(i)[m]
  BY <1>2, <1>4 DEF s
<1>6. /\ Cardinality(Present(Byte)) = Len(i.written)
      /\ CopyOffset = i.offset /\ CopySize = i.size
  BY <1>2, <1>3, <1>5, CopyIsRead
<1> DEFINE c == Cardinality(Present(Byte))
<1> HIDE DEF c
<1>7. position + 1 + c = position + Len(s)
  <2>1. c = Len(i.written)
    BY <1>6 DEF c
  <2>2. c \in Nat /\ Len(s) = c + 1
    BY <1>4, <2>1, Zenon
  <2>3. QED
    BY <1>2, <2>2
<1>8. /\ position' = position + Len(s)
      /\ IF CopyFits THEN Add(Copy(CopyOffset, CopySize)) ELSE Stop
  <2>1. ~(position + Len(s) > Len(input))
    <3>1. Len(input) \in Nat
      BY DEF TypeInv, PiecesInv
    <3>2. QED
      BY <1>2, <3>1
  <2>2. QED
    BY <1>7, <2>1 DEF CopyPiece, c
<1>9. CASE CopyFits
  <2> DEFINE x == Copy(i.offset, i.size)
  <2>1. Add(x) /\ phase' = "instructions"
    BY <1>1, <1>6, <1>8, <1>9 DEF Add
  <2>2. Does(x, i) /\ x.size = Size(i)
    BY <1>a DEF Does, Size, Copy
  <2>3. i.copy => i.offset + i.size <= base_size
    BY <1>6, <1>9 DEF CopyFits
  <2>4. position' = Start(g, k + 1)
    BY <1>2, <1>8
  <2> HIDE DEF x
  <2>5. Followed(g)'
    BY <1>1, <1>2, <2>1, <2>2, <2>3, <2>4, InstructionFollowed DEF i
  <2>6. QED
    BY <1>1, <2>1, <2>5 DEF CarriedOut
<1>10. CASE ~CopyFits
  <2>1. status' = "pack_delta_invalid" /\ phase' = "done"
    BY <1>8, <1>10 DEF Stop, Refuse
  <2>2. ~(i.offset + i.size <= base_size')
    BY <1>1, <1>6, <1>10 DEF CopyFits
  <2>3. ~Fits(g)'
    BY <1>2, <1>a, <2>2 DEF Fits, i
  <2>4. QED
    BY <1>1, <2>1, <2>3 DEF CarriedOut, Meant
<1>11. QED
  BY <1>9, <1>10

LEMMA InsertCarriedOut ==
  ASSUME NEW g \in Program, TypeInv, CarriedOut(g), InsertPiece
  PROVE  CarriedOut(g)'
<1> DEFINE k == Len(pieces)
           i == g.instructions[k + 1]
           s == EncodeInstruction(i)
           b == i.bytes
<1>1. /\ input = Encode(g) /\ Followed(g) /\ position < Len(input) /\ Byte \in 1 .. 127
      /\ phase = "instructions" /\ UNCHANGED <<input, base_size, declared>>
  BY DEF CarriedOut, InsertPiece, AtInstruction
<1>2. /\ k \in Nat /\ k + 1 \in 1 .. Len(g.instructions) /\ i \in Instruction
      /\ Len(s) \in Nat /\ Len(s) >= 1 /\ position \in Nat
      /\ \A m \in 1 .. Len(s) : input[position + m] = s[m]
      /\ position + Len(s) = Start(g, k + 1) /\ position + Len(s) <= Len(input)
  BY <1>1, NextInstruction
<1>3. input \in Seq(Octet) /\ Len(input) \in Nat
  BY DEF TypeInv, PiecesInv
<1> HIDE DEF i, s
<1>4. i \in InsertInstruction
  <2>1. CASE i \in CopyInstruction
    <3>1. Len(s) = Len(i.written) + 1
      BY <2>1, CopyBytes DEF s
    <3>2. \A m \in 1 .. Len(i.written) + 1 : input[position + m] = EncodeInstruction(i)[m]
      BY <1>2, <3>1 DEF s
    <3>3. Byte \in 128 .. 255
      BY <1>2, <2>1, <3>2, CopyIsRead
    <3>4. QED
      BY <1>1, <3>3
  <2>2. QED
    BY <1>2, <2>1 DEF Instruction
<1>a. ~i.copy
  BY <1>4, InsertBytes
<1>5. /\ b \in Seq(Octet) /\ Len(b) \in 1 .. 127
      /\ Len(s) = Len(b) + 1 /\ s[1] = Len(b)
      /\ \A n \in 1 .. Len(b) : s[n + 1] = b[n]
  BY <1>4, InsertBytes DEF s
<1> HIDE DEF b
<1>6. Byte = Len(b)
  BY <1>2, <1>5 DEF Byte
<1>7. position + 1 + Byte = position + Len(s) /\ ~(position + 1 + Byte > Len(input))
  BY <1>2, <1>3, <1>5, <1>6
<1> DEFINE x == Insert(position + 1, Byte)
<1>8. position' = position + Len(s) /\ Add(x)
  BY <1>7 DEF InsertPiece
<1>9. Bytes(x) = b
  <2>1. Bytes(x) = SubSeq(input, (position + 1) + 1, (position + 1) + Len(b))
    BY <1>6 DEF Insert, Bytes
  <2>2. ASSUME NEW p \in Nat, p + Len(b) <= Len(input),
               \A n \in 1 .. Len(b) : input[p + n] = b[n]
        PROVE  SubSeq(input, p + 1, p + Len(b)) = b
    <3> DEFINE t == SubSeq(input, p + 1, p + Len(b))
    <3>1. t \in Seq(Octet) /\ Len(t) = Len(b)
      BY <1>3, <1>5, <2>2
    <3>2. ASSUME NEW n \in 1 .. Len(b) PROVE t[n] = b[n]
      <4>1. t[n] = input[p + n]
        BY <1>3, <1>5, <2>2
      <4>2. QED
        BY <2>2, <4>1
    <3> HIDE DEF t
    <3>3. t = b
      BY <1>5, <3>1, <3>2
    <3>4. QED
      BY <3>3 DEF t
  <2>3. position + 1 \in Nat /\ (position + 1) + Len(b) <= Len(input)
    BY <1>2, <1>5
  <2>4. \A n \in 1 .. Len(b) : input[(position + 1) + n] = b[n]
    <3> TAKE n \in 1 .. Len(b)
    <3>1. n + 1 \in 1 .. Len(s) /\ (position + 1) + n = position + (n + 1)
      BY <1>2, <1>5
    <3>2. QED
      BY <1>2, <1>5, <3>1
  <2>5. QED
    BY <2>1, <2>2, <2>3, <2>4
<1>10. Does(x, i) /\ x.size = Size(i)
  BY <1>a, <1>6, <1>9 DEF Does, Size, Insert, b
<1>11. phase' = "instructions" /\ position' = Start(g, k + 1)
  BY <1>1, <1>2, <1>8 DEF Add
<1> HIDE DEF x
<1>12. Followed(g)'
  BY <1>1, <1>2, <1>a, <1>8, <1>10, <1>11, InstructionFollowed DEF i
<1>13. QED
  BY <1>1, <1>11, <1>12 DEF CarriedOut

LEMMA OpcodeIsValid ==
  ASSUME NEW g \in Program, TypeInv, CarriedOut(g), InvalidOpcode
  PROVE  FALSE
<1> DEFINE i == g.instructions[Len(pieces) + 1]
           s == EncodeInstruction(i)
<1>1. input = Encode(g) /\ Followed(g) /\ position < Len(input) /\ Byte = 0
  BY DEF CarriedOut, InvalidOpcode, AtInstruction
<1>2. /\ i \in Instruction /\ Len(s) \in Nat /\ Len(s) >= 1 /\ position \in Nat
      /\ \A m \in 1 .. Len(s) : input[position + m] = s[m]
  BY <1>1, NextInstruction
<1> HIDE DEF i, s
<1>3. Byte = s[1]
  BY <1>2 DEF Byte
<1>4. CASE i \in CopyInstruction
  <2>1. Len(s) = Len(i.written) + 1
    BY <1>4, CopyBytes DEF s
  <2>2. \A m \in 1 .. Len(i.written) + 1 : input[position + m] = EncodeInstruction(i)[m]
    BY <1>2, <2>1 DEF s
  <2>3. Byte \in 128 .. 255
    BY <1>2, <1>4, <2>2, CopyIsRead
  <2>4. QED
    BY <1>1, <2>3
<1>5. CASE i \in InsertInstruction
  <2>1. s[1] = Len(i.bytes) /\ Len(i.bytes) \in 1 .. 127
    BY <1>5, InsertBytes DEF s
  <2>2. Byte \in 1 .. 127
    BY <1>3, <2>1, Zenon
  <2>3. QED
    BY <1>1, <2>2
<1>6. QED
  BY <1>2, <1>4, <1>5 DEF Instruction

LEMMA EndCarriedOut ==
  ASSUME NEW g \in Program, TypeInv, CarriedOut(g), DeltaEnds
  PROVE  CarriedOut(g)'
<1> DEFINE l == g.instructions
<1>1. /\ input = Encode(g) /\ Followed(g) /\ position >= Len(input)
      /\ phase' = "done"
      /\ status' = IF length # declared.result THEN "pack_delta_invalid" ELSE "ok"
      /\ UNCHANGED <<input, position, base_size, declared, pieces, length>>
  BY DEF CarriedOut, DeltaEnds
<1>a. UNCHANGED <<input, base_size, pieces>>
  BY <1>1
<1>2. Len(pieces) = Len(l) /\ position = Len(input)
  BY <1>1, NoMoreInstructions
<1>3. length = Total(l)
  <2>1. SumsUp(l, Made(g))
    BY MadeSumsUp
  <2>2. QED
    BY <1>1, <1>2, <2>1 DEF Followed, SumsUp
<1>4. declared.result = g.result /\ base_size = g.base
      /\ \A n \in 1 .. Len(pieces) : Obeyed(n, l[n])
  BY <1>1 DEF Followed
<1>5. Fits(g)' <=> length = declared.result
  BY <1>1, <1>2, <1>3, <1>4 DEF Fits, Obeyed
<1>6. (\A n \in 1 .. Len(pieces) : Does(pieces[n], l[n]))'
  <2> SUFFICES ASSUME NEW n \in 1 .. Len(pieces') PROVE Does(pieces[n], l[n])'
    OBVIOUS
  <2>1. Does(pieces[n], l[n])
    BY <1>a, <1>4 DEF Obeyed
  <2>2. QED
    BY <1>a, <2>1 DEF Does, Bytes
<1>7. Meant(g)'
  <2>1. CASE length = declared.result
    <3>1. status' = "ok" /\ Fits(g)'
      BY <1>1, <1>5, <2>1
    <3>2. position' = Len(input') /\ Len(pieces') = Len(l)
      BY <1>1, <1>2
    <3>3. QED
      BY <1>6, <3>1, <3>2 DEF Meant
  <2>2. CASE length # declared.result
    <3>1. status' = "pack_delta_invalid" /\ ~Fits(g)'
      BY <1>1, <1>5, <2>2
    <3>2. QED
      BY <3>1 DEF Meant
  <2>3. QED
    BY <2>1, <2>2
<1>8. QED
  BY <1>1, <1>7 DEF CarriedOut

(* The steps at the two sizes. *)
LEMMA SizeCarriedOut ==
  ASSUME NEW g \in Program, TypeInv, CarriedOut(g), SizeRead
  PROVE  CarriedOut(g)'
<1>1. /\ input = Encode(g) /\ phase \in {"base", "result"} /\ status = "reading" /\ VarIntNext
      /\ UNCHANGED <<phase, declared, pieces, length>>
      /\ pieces = << >> /\ length = 0
  BY DEF CarriedOut, SizeRead, result
<1>2. input \in Seq(Octet) /\ position \in Nat
  BY DEF TypeInv, PiecesInv
<1>3. /\ g.base \in 0 .. Pow2[Width] - 1 /\ g.result \in 0 .. Pow2[Width] - 1
      /\ NeededGroups(g.base) \in Nat
      /\ NumberAt(0, g.base) /\ NumberAt(NeededGroups(g.base), g.result)
  BY <1>1, ProgramType, Encoded
<1>4. CASE phase = "base"
  <2>1. Reads(0, g.base)' /\ input' = input
    BY <1>1, <1>2, <1>3, <1>4, NumberGoesOn DEF CarriedOut
  <2>2. QED
    BY <1>1, <1>4, <2>1 DEF CarriedOut
<1>5. CASE phase = "result"
  <2>1. Reads(NeededGroups(g.base), g.result)' /\ input' = input
    BY <1>1, <1>2, <1>3, <1>5, NumberGoesOn DEF CarriedOut
  <2>2. declared' = declared /\ declared.base = g.base
    BY <1>1, <1>5 DEF CarriedOut
  <2>3. QED
    BY <1>1, <1>5, <2>1, <2>2 DEF CarriedOut
<1>6. QED
  BY <1>1, <1>4, <1>5

LEMMA NextSizeCarriedOut ==
  ASSUME NEW g \in Program, TypeInv, CarriedOut(g), NextSize
  PROVE  CarriedOut(g)'
<1>1. /\ input = Encode(g) /\ phase = "base" /\ status = "ok" /\ Reads(0, g.base)
      /\ declared' = [declared EXCEPT !.base = value] /\ phase' = "result"
      /\ value' = 0 /\ shift' = 0 /\ status' = "reading"
      /\ UNCHANGED <<input, position, pieces, length>>
      /\ pieces = << >> /\ length = 0
  BY DEF CarriedOut, NextSize
<1>2. g.result \in 0 .. Pow2[Width] - 1 /\ NeededGroups(g.base) \in Nat
  BY <1>1, ProgramType, Encoded
<1>3. position = NeededGroups(g.base) /\ value = g.base
  <2>1. position = 0 + NeededGroups(g.base) /\ value = g.base
    BY <1>1 DEF Reads
  <2>2. QED
    BY <1>2, <2>1
<1>4. declared'.base = g.base
  <2>1. declared \in [base : 0 .. Pow2[Width] - 1, result : 0 .. Pow2[Width] - 1]
    BY DEF TypeInv, TypeOK
  <2>2. QED
    BY <1>1, <1>3, <2>1
<1>5. Reads(NeededGroups(g.base), g.result)'
  <2>1. position' = NeededGroups(g.base)
    BY <1>1, <1>3
  <2>2. NeededGroups(g.result) \in Nat /\ NeededGroups(g.result) >= 1 /\ g.result \in Nat
    BY <1>2, NeededGroupsSuffice
  <2>3. g.result % Pow2[0] = 0
    BY <2>2, PowersUpToEight
  <2>4. position' - NeededGroups(g.base) = 0
    BY <1>2, <2>1
  <2>5. 0 \in 0 .. NeededGroups(g.result) - 1 /\ Group * 0 = 0
    BY <2>2, DeltaConstants
  <2>6. QED
    BY <1>1, <2>3, <2>4, <2>5 DEF Reads
<1>6. QED
  BY <1>1, <1>4, <1>5 DEF CarriedOut

LEMMA SizesCarriedOut ==
  ASSUME NEW g \in Program, TypeInv, CarriedOut(g), SizesRead
  PROVE  CarriedOut(g)'
<1>1. /\ input = Encode(g) /\ phase = "result" /\ status = "ok"
      /\ Reads(NeededGroups(g.base), g.result) /\ declared.base = g.base
      /\ declared' = [declared EXCEPT !.result = value]
      /\ UNCHANGED <<input, position, base_size, pieces, length>>
      /\ pieces = << >> /\ length = 0
  BY DEF CarriedOut, SizesRead
<1>2. position = SizesEnd(g) /\ value = g.result
  BY <1>1 DEF Reads, SizesEnd
<1>3. declared'.base = g.base /\ declared'.result = g.result
  <2>1. declared \in [base : 0 .. Pow2[Width] - 1, result : 0 .. Pow2[Width] - 1]
    BY DEF TypeInv, TypeOK
  <2>2. QED
    BY <1>1, <1>2, <2>1
<1>4. CASE declared.base # base_size /\ Refuse
  <2>1. status' = "pack_delta_invalid" /\ phase' = "done"
    BY <1>4 DEF Refuse
  <2>2. ~Fits(g)'
    BY <1>1, <1>4 DEF Fits
  <2>3. QED
    BY <1>1, <2>1, <2>2 DEF CarriedOut, Meant
<1>5. CASE /\ declared.base = base_size /\ value > MaxSize
           /\ status' = "terminated" /\ phase' = "done"
  <2>1. ~(g.result <= MaxSize)
    <3>1. g.result \in 0 .. Pow2[Width] - 1 /\ MaxSize \in Nat
      BY ProgramType, DeltaConstants
    <3>2. QED
      BY <1>2, <1>5, <3>1
  <2>2. QED
    BY <1>1, <1>5, <2>1 DEF CarriedOut
<1>6. CASE /\ declared.base = base_size /\ value <= MaxSize
           /\ phase' = "instructions" /\ status' = "reading"
  <2>1. Len(pieces) = 0 /\ 1 .. 0 = {}
    BY <1>1
  <2>2. Len(g.instructions) \in Nat /\ Start(g, 0) = SizesEnd(g)
    BY <1>1, Encoded
  <2>3. Made(g)[0] = 0
    BY MadeSumsUp DEF SumsUp
  <2>4. 0 <= Len(g.instructions)
    BY <2>2
  <2>5. pieces' = pieces /\ position' = Start(g, 0) /\ length' = Made(g)[0]
    BY <1>1, <1>2, <2>2, <2>3
  <2>6. base_size' = g.base
    BY <1>1, <1>6
  <2>7. Followed(g)'
    BY <1>3, <1>6, <2>1, <2>4, <2>5, <2>6 DEF Followed
  <2>8. QED
    BY <1>1, <1>6, <2>7 DEF CarriedOut
<1>7. QED
  BY <1>4, <1>5, <1>6 DEF SizesRead

LEMMA ProgramInit == Init => ProgramInv
<1> SUFFICES ASSUME Init, program # Unknown PROVE ProgramInv
  BY DEF ProgramInv
<1>1. PICK g \in Program : program = g
  BY DEF Init
<1>2. /\ input = Encode(g) /\ phase = "base" /\ pieces = << >> /\ length = 0
      /\ position = 0 /\ value = 0 /\ shift = 0 /\ status = "reading"
  BY <1>1 DEF Init, VarIntStart
<1>3. g.base \in 0 .. Pow2[Width] - 1
  BY ProgramType
<1>4. Reads(0, g.base)
  BY <1>2, <1>3, NumberStarts
<1>5. CarriedOut(g)
  BY <1>2, <1>4 DEF CarriedOut
<1>6. QED
  BY <1>1, <1>5 DEF ProgramInv

LEMMA ProgramStep == TypeInv /\ ProgramInv /\ [Next]_vars => ProgramInv'
<1> SUFFICES ASSUME TypeInv, ProgramInv, [Next]_vars, program' # Unknown PROVE ProgramInv'
  BY DEF ProgramInv
<1>1. program' = program
  BY DEF Next, SizeRead, NextSize, SizesRead, CopyPiece, InsertPiece, InvalidOpcode, DeltaEnds,
         vars, result
<1>2. PICK g \in Program : program = g /\ CarriedOut(g)
  BY <1>1 DEF ProgramInv
<1>3. CASE UNCHANGED vars
  <2>1. /\ UNCHANGED <<input, position, value, shift, status>>
        /\ UNCHANGED <<phase, base_size, declared, pieces, length>>
    BY <1>3 DEF vars, varIntVars, result
  <2>2. Reads(0, g.base)' <=> Reads(0, g.base)
    BY <2>1 DEF Reads
  <2>3. Reads(NeededGroups(g.base), g.result)' <=> Reads(NeededGroups(g.base), g.result)
    BY <2>1 DEF Reads
  <2>4. Followed(g)' <=> Followed(g)
    BY <2>1 DEF Followed, Obeyed, Does, Bytes
  <2>5. Meant(g)' <=> Meant(g)
    BY <2>1 DEF Meant, Fits, Does, Bytes
  <2>6. CarriedOut(g)'
    BY <1>2, <2>1, <2>2, <2>3, <2>4, <2>5 DEF CarriedOut
  <2>7. QED
    BY <1>1, <1>2, <2>6 DEF ProgramInv
<1>4. CASE Next
  <2>1. CarriedOut(g)'
    BY <1>2, <1>4, SizeCarriedOut, NextSizeCarriedOut, SizesCarriedOut, CopyCarriedOut,
       InsertCarriedOut, OpcodeIsValid, EndCarriedOut DEF Next
  <2>2. QED
    BY <1>1, <1>2, <2>1 DEF ProgramInv
<1>5. QED
  BY <1>3, <1>4

(* What the writer of a delta meant is what is put together. *)
THEOREM DeltaIsWhatWasMeant == Spec => []DeltaMeansItsProgram
<1>1. TypeInv /\ ProgramInv => DeltaMeansItsProgram
  <2> SUFFICES ASSUME TypeInv, ProgramInv, Ended, program # Unknown, program.result <= MaxSize
               PROVE  Meant(program)
    BY DEF DeltaMeansItsProgram, Meant
  <2>1. PICK g \in Program : program = g /\ CarriedOut(g)
    BY DEF ProgramInv
  <2>2. phase \in {"base", "result", "instructions", "done"}
    BY DEF TypeInv, TypeOK, Phase
  <2>3. phase # "done" => status # "pack_delta_invalid"
    BY <2>1, <2>2 DEF CarriedOut, Followed, Reads
  <2>4. phase = "done"
    BY <2>3 DEF Ended
  <2>5. QED
    BY <2>1, <2>4 DEF CarriedOut
<1>2. Init => TypeInv /\ ProgramInv
  BY TypeInit, ProgramInit
<1>3. TypeInv /\ ProgramInv /\ [Next]_vars => (TypeInv /\ ProgramInv)'
  BY TypeStep, ProgramStep
<1>4. QED
  BY <1>1, <1>2, <1>3, PTL DEF Spec
====
