----------------------------- MODULE BytesProofs ------------------------------
(***************************************************************************)
(* Proofs about VarInt and TreeFormat: for every width, every string of    *)
(* bytes and every list of entries, numbers and trees are read as they     *)
(* were written.                                                           *)
(***************************************************************************)
EXTENDS VarInt, TreeFormat, Induction

-----------------------------------------------------------------------------
(* What the bytes of a number say.                                         *)

ByteRange == 0 .. 2 * Pow2[Group] - 1

LEMMA GroupType == Group \in Nat /\ Group > 0 /\ Width \in Nat /\ Width > 0
BY VarIntAssumption

LEMMA BytesAreNumbers == ByteRange \subseteq Nat
BY GroupType, Pow2Type DEF ByteRange

LEMMA PayloadType ==
  \A b \in Nat : Payload(b) \in Nat /\ Payload(b) < Pow2[Group]
BY GroupType, Pow2Type, DivMod DEF Payload

LEMMA SaidIterates ==
  ASSUME NEW s \in Seq(Nat)
  PROVE  \E f : /\ f \in [Nat -> Nat] /\ f[0] = 0
                /\ \A i \in 0 .. Len(s) - 1 :
                     f[i + 1] = f[i] + Payload(s[i + 1]) * Pow2[Group * i]
                /\ \A n \in 0 .. Len(s) : Said(s, n) = f[n]
<1> DEFINE F == [x \in Nat \X Nat |->
                   IF x[1] + 1 \in 1 .. Len(s)
                   THEN x[2] + Payload(s[x[1] + 1]) * Pow2[Group * x[1]] ELSE x[2]]
<1>0. Len(s) \in Nat /\ \A i \in 1 .. Len(s) : s[i] \in Nat
  OBVIOUS
<1>a. \A i \in Nat : Group * i \in Nat /\ Pow2[Group * i] \in Nat
  BY GroupType, Products, Pow2Type
<1>b. \A i \in 1 .. Len(s), j \in Nat : Payload(s[i]) * Pow2[Group * j] \in Nat
  BY <1>0, <1>a, PayloadType, Products
<1>1. F \in [Nat \X Nat -> Nat]
  <2>1. \A x \in Nat \X Nat : x[1] \in Nat /\ x[2] \in Nat
    OBVIOUS
  <2>2. \A x \in Nat \X Nat :
          (IF x[1] + 1 \in 1 .. Len(s)
           THEN x[2] + Payload(s[x[1] + 1]) * Pow2[Group * x[1]] ELSE x[2]) \in Nat
    <3> TAKE x \in Nat \X Nat
    <3>1. CASE x[1] + 1 \in 1 .. Len(s)
      <4>1. Payload(s[x[1] + 1]) * Pow2[Group * x[1]] \in Nat
        BY <1>b, <2>1, <3>1
      <4>2. QED
        BY <2>1, <3>1, <4>1
    <3>2. QED
      BY <2>1, <3>1
  <2>3. QED
    BY <2>2, Zenon
<1> HIDE DEF F
<1>2. PICK f : Iterates(Nat, 0, F, f)
  BY <1>1, Recursion
<1>3. f \in [Nat -> Nat] /\ f[0] = 0
  BY <1>2 DEF Iterates
<1>4. \A i \in 0 .. Len(s) - 1 :
        f[i + 1] = f[i] + Payload(s[i + 1]) * Pow2[Group * i]
  <2> TAKE i \in 0 .. Len(s) - 1
  <2>0. i \in Nat /\ i + 1 \in 1 .. Len(s)
    BY <1>0
  <2>1. i \in Nat /\ i + 1 \in 1 .. Len(s) /\ f[i] \in Nat
    BY <1>3, <2>0
  <2>2. f[i + 1] = F[<<i, f[i]>>]
    BY <1>2, <2>1 DEF Iterates
  <2>3. QED
    BY <2>1, <2>2 DEF F
<1>5. ASSUME NEW n \in 0 .. Len(s) PROVE Said(s, n) = f[n]
  <2> DEFINE Sums(g) ==
        g = [i \in 0 .. n |->
               IF i = 0 THEN 0 ELSE g[i - 1] + Payload(s[i]) * Pow2[Group * (i - 1)]]
  <2>1. Said(s, n) = (CHOOSE g : Sums(g))[n]
    BY DEF Said
  <2>2. \E g : Sums(g)
    <3> DEFINE h == [i \in 0 .. n |-> f[i]]
    <3>1. \A i \in 0 .. n :
            h[i] = IF i = 0 THEN 0 ELSE h[i - 1] + Payload(s[i]) * Pow2[Group * (i - 1)]
      <4> TAKE i \in 0 .. n
      <4>1. CASE i = 0
        BY <1>3, <4>1
      <4>2. CASE i # 0
        <5>1. i - 1 \in 0 .. Len(s) - 1 /\ i - 1 \in 0 .. n /\ (i - 1) + 1 = i
          BY <1>0, <4>2
        <5>2. f[(i - 1) + 1] = f[i - 1] + Payload(s[(i - 1) + 1]) * Pow2[Group * (i - 1)]
          BY <1>4, <5>1
        <5>3. QED
          BY <4>2, <5>1, <5>2
      <4>3. QED
        BY <4>1, <4>2
    <3>2. Sums(h)
      <4> HIDE DEF h
      <4>1. h = [i \in 0 .. n |-> h[i]]
        BY DEF h
      <4>2. QED
        BY <3>1, <4>1
    <3>3. QED
      BY <3>2
  <2> DEFINE g == CHOOSE g : Sums(g)
  <2>3. Sums(g)
    BY <2>2
  <2>4. /\ g[0] = 0
        /\ \A i \in 1 .. n : g[i] = g[i - 1] + Payload(s[i]) * Pow2[Group * (i - 1)]
    <3> SUFFICES ASSUME NEW h, Sums(h)
                 PROVE  /\ h[0] = 0
                        /\ \A i \in 1 .. n :
                             h[i] = h[i - 1] + Payload(s[i]) * Pow2[Group * (i - 1)]
      BY <2>3
    <3>1. n \in Nat
      BY <1>0
    <3>2. h = [i \in 0 .. n |->
                IF i = 0 THEN 0 ELSE h[i - 1] + Payload(s[i]) * Pow2[Group * (i - 1)]]
      OBVIOUS
    <3>3. \A i \in 0 .. n :
             h[i] = IF i = 0 THEN 0 ELSE h[i - 1] + Payload(s[i]) * Pow2[Group * (i - 1)]
      BY <3>2
    <3>4. 0 \in 0 .. n /\ \A i \in 1 .. n : i \in 0 .. n /\ i # 0
      BY <3>1
    <3>5. QED
      BY <3>3, <3>4
  <2> HIDE DEF g, Sums
  <2> DEFINE T == {i \in Nat : i <= n => g[i] = f[i]}
  <2>5. 0 \in T
    BY <1>3, <2>4
  <2>6. ASSUME NEW i \in Nat, i \in T PROVE i + 1 \in T
    <3>1. SUFFICES ASSUME i + 1 <= n PROVE g[i + 1] = f[i + 1]
      OBVIOUS
    <3>2. i \in 0 .. Len(s) - 1 /\ i + 1 \in 1 .. n /\ (i + 1) - 1 = i /\ g[i] = f[i]
      BY <1>0, <2>6, <3>1
    <3>3. QED
      BY <1>4, <2>4, <3>2
  <2> HIDE DEF T
  <2>7. n \in T
    <3>1. n \in Nat
      BY <1>0
    <3>2. QED
      BY <2>5, <2>6, <3>1, Induct
  <2>8. g[n] = f[n]
    BY <2>7 DEF T
  <2>9. QED
    BY <2>1, <2>8 DEF g
<1>6. QED
  BY <1>3, <1>4, <1>5

LEMMA SaidStep ==
  ASSUME NEW s \in Seq(Nat)
  PROVE  /\ Said(s, 0) = 0
         /\ \A n \in 0 .. Len(s) - 1 :
              Said(s, n + 1) = Said(s, n) + Payload(s[n + 1]) * Pow2[Group * n]
         /\ \A n \in 0 .. Len(s) : Said(s, n) \in Nat
<1>1. PICK f : /\ f \in [Nat -> Nat] /\ f[0] = 0
               /\ \A i \in 0 .. Len(s) - 1 :
                    f[i + 1] = f[i] + Payload(s[i + 1]) * Pow2[Group * i]
               /\ \A n \in 0 .. Len(s) : Said(s, n) = f[n]
  BY SaidIterates
<1>2. Len(s) \in Nat
  OBVIOUS
<1>3. 0 \in 0 .. Len(s) /\ \A n \in 0 .. Len(s) - 1 : n \in 0 .. Len(s) /\ n + 1 \in 0 .. Len(s)
  BY <1>2
<1>4. QED
  BY <1>1, <1>3

-----------------------------------------------------------------------------
(* The inductive invariant of the reader of a number.                      *)

VarIntInv ==
  /\ VarIntTypeOK
  /\ \A i \in 1 .. position - 1 : Continues(input[i])
  /\ status \in {"reading", "pack_delta_invalid"} =>
       \A i \in 1 .. position : Continues(input[i])
  /\ status = "reading" =>
       /\ shift = Group * position /\ shift <= Width - 1
       /\ value = Said(input, position) /\ value < Pow2[shift]
  /\ status = "ok" =>
       /\ position > 0 /\ ~Continues(input[position])
       /\ Group * (position - 1) <= Width - 1
       /\ value = Said(input, position) % Pow2[Width]
  /\ status = "pack_delta_invalid" =>
       position = Len(input) \/ Group * position > Width - 1

LEMMA InputType == \A s \in Input : s \in Seq(ByteRange) /\ s \in Seq(Nat)
<1>1. \A s \in Input : s \in Seq(ByteRange)
  BY VarIntAssumption DEF ByteRange
<1>2. Seq(ByteRange) \subseteq Seq(Nat)
  BY BytesAreNumbers, SeqMonotonic
<1>3. QED
  BY <1>1, <1>2

LEMMA VarIntInitInv == VarIntInit => VarIntInv
<1> SUFFICES ASSUME VarIntInit PROVE VarIntInv
  OBVIOUS
<1>1. /\ input \in Seq(Nat) /\ input \in Input
      /\ position = 0 /\ value = 0 /\ shift = 0 /\ status = "reading"
  BY InputType DEF VarIntInit, VarIntStart
<1>2. Len(input) \in Nat /\ Said(input, 0) = 0
  BY <1>1, SaidStep
<1>3. Pow2[0] = 1 /\ Pow2[Width] \in Nat /\ Pow2[Width] > 0 /\ Group * 0 = 0
  BY Pow2Recursion, Pow2Type, GroupType
<1>4. VarIntTypeOK
  BY <1>1, <1>2, <1>3, GroupType DEF VarIntTypeOK
<1>5. QED
  BY <1>1, <1>2, <1>3, <1>4, GroupType DEF VarIntInv

(* One more group is collected: exactly while it is below the width. *)
LEMMA GroupCollected ==
  ASSUME VarIntInv, status = "reading", position < Len(input)
  PROVE  /\ position + 1 \in 1 .. Len(input) /\ input \in Seq(Nat)
         /\ Said(input, position + 1) \in Nat
         /\ Collected \in 0 .. Pow2[Width] - 1
         /\ Collected = Said(input, position + 1) % Pow2[Width]
         /\ Group * (position + 1) = shift + Group
         /\ shift + Group <= Width =>
              Collected = Said(input, position + 1) /\ Collected < Pow2[shift + Group]
<1> DEFINE p == Payload(Byte)
           W == Pow2[Width]
           sum == Said(input, position + 1)
<1>1. /\ input \in Seq(Nat) /\ Len(input) \in Nat /\ position \in Nat
      /\ shift \in Nat /\ shift <= Width - 1 /\ value \in Nat
      /\ shift = Group * position /\ value = Said(input, position) /\ value < Pow2[shift]
  BY InputType DEF VarIntInv, VarIntTypeOK
<1>2. position + 1 \in 1 .. Len(input) /\ position \in 0 .. Len(input) - 1 /\ Byte \in Nat
  BY <1>1 DEF Byte
<1>3. p \in Nat /\ p < Pow2[Group]
  BY <1>2, PayloadType
<1>4. W \in Nat \ {0} /\ Pow2[shift] \in Nat /\ p * Pow2[shift] \in Nat
  BY <1>1, <1>3, GroupType, Pow2Type, Products
<1>5. sum = value + p * Pow2[shift] /\ sum \in Nat
  <2>1. Said(input, position + 1)
          = Said(input, position) + Payload(input[position + 1]) * Pow2[Group * position]
    BY <1>1, <1>2, SaidStep
  <2>2. sum = value + p * Pow2[shift]
    BY <1>1, <2>1 DEF Byte
  <2>3. QED
    BY <1>1, <1>4, <2>2
<1> HIDE DEF sum
<1>6. Collected = value + ((p * Pow2[shift]) % W)
  BY DEF Collected
<1>7. Group * (position + 1) = shift + Group
  BY <1>1, GroupType
<1>8. (p * Pow2[shift]) % W = (p % Pow2[Width - shift]) * Pow2[shift]
  <2>1. shift <= Width /\ Width \in Nat
    BY <1>1, GroupType
  <2> HIDE DEF p
  <2>2. QED
    BY <1>1, <1>3, <2>1, ShiftedOut
<1>9. p % Pow2[Width - shift] \in Nat /\ p % Pow2[Width - shift] < Pow2[Width - shift]
  BY <1>1, <1>3, GroupType, Pow2Type, DivMod
<1>10. Collected \in Nat /\ Collected < W
  BY <1>1, <1>6, <1>8, <1>9, GroupType, GroupsDoNotOverlap
<1>11. Collected = sum % W
  <2> DEFINE k == (p * Pow2[shift]) \div W
             m == (p * Pow2[shift]) % W
  <2>1. k \in Nat /\ m \in Nat /\ p * Pow2[shift] = W * k + m
    BY <1>4, DivMod
  <2>2. Collected = value + m
    BY <1>6
  <2> HIDE DEF p, W, k, m
  <2>3. sum = W * k + Collected
    BY <1>1, <1>4, <1>5, <2>1, <2>2, Products
  <2>4. QED
    BY <1>4, <1>10, <2>1, <2>3, ModUnique
<1>12. ASSUME shift + Group <= Width
       PROVE  Collected = sum /\ Collected < Pow2[shift + Group]
  <2>1. sum < Pow2[shift + Group]
    <3>1. (shift + Group) - shift = Group
      BY <1>1, GroupType
    <3>2. value + p * Pow2[shift] < Pow2[shift + Group]
      BY <1>1, <1>3, <3>1, GroupType, GroupsDoNotOverlap
    <3>3. QED
      BY <1>5, <3>2
  <2>2. Pow2[shift + Group] <= W
    BY <1>1, <1>12, GroupType, Pow2Monotone
  <2>3. sum % W = sum
    <3>1. Pow2[shift + Group] \in Nat
      BY <1>1, GroupType, Pow2Type
    <3>2. sum < W
      BY <1>4, <1>5, <2>1, <2>2, <3>1
    <3>3. QED
      BY <1>4, <1>5, <3>2, ModSmall
  <2>4. QED
    BY <1>11, <2>1, <2>3
<1>13. QED
  BY <1>1, <1>2, <1>4, <1>5, <1>7, <1>10, <1>11, <1>12 DEF sum

LEMMA VarIntStepInv == VarIntInv /\ [VarIntNext]_varIntVars => VarIntInv'
<1> SUFFICES ASSUME VarIntInv, [VarIntNext]_varIntVars PROVE VarIntInv'
  OBVIOUS
<1>1. /\ input \in Seq(Nat) /\ Len(input) \in Nat /\ position \in Nat /\ shift \in Nat
      /\ position <= Len(input)
  BY InputType DEF VarIntInv, VarIntTypeOK
<1>2. CASE status = "reading" /\ VarIntEnds
  <2>1. position = Len(input) /\ status' = "pack_delta_invalid"
        /\ UNCHANGED <<input, position, value, shift>>
    BY <1>1, <1>2 DEF VarIntEnds
  <2>2. VarIntTypeOK'
    BY <2>1 DEF VarIntInv, VarIntTypeOK
  <2>3. QED
    BY <1>2, <2>1, <2>2 DEF VarIntInv
<1>3. CASE status = "reading" /\ VarIntMore
  <2>1. /\ position < Len(input) /\ position' = position + 1 /\ value' = Collected
        /\ shift' = shift + Group /\ input' = input /\ Continues(input[position + 1])
        /\ status' = IF shift + Group > Width - 1 THEN "pack_delta_invalid" ELSE status
    BY <1>3 DEF VarIntMore, Byte
  <2>2. /\ Group * position' = shift' /\ value' \in 0 .. Pow2[Width] - 1
        /\ shift' <= Width => value' = Said(input, position') /\ value' < Pow2[shift']
    BY <1>3, <2>1, GroupCollected
  <2>3. shift <= Width - 1 /\ shift' \in 0 .. Width - 1 + Group
    BY <1>1, <1>3, <2>1, GroupType DEF VarIntInv
  <2>4. \A i \in 1 .. position' : Continues(input[i])
    BY <1>1, <1>3, <2>1 DEF VarIntInv
  <2>5. VarIntTypeOK'
    BY <1>1, <1>3, <2>1, <2>2, <2>3 DEF VarIntInv, VarIntTypeOK
  <2>6. status' \in {"reading", "pack_delta_invalid"}
        /\ (status' = "reading" => shift' <= Width - 1)
        /\ (status' = "pack_delta_invalid" => shift' > Width - 1)
    <3>1. shift' <= Width - 1 \/ shift' > Width - 1
      BY <2>3, GroupType
    <3>2. QED
      BY <1>3, <2>1, <3>1
  <2>7. \A i \in 1 .. position' - 1 : Continues(input[i])
    BY <1>1, <2>1, <2>4
  <2>8. status' = "reading" => shift' <= Width
    BY <2>3, <2>6, GroupType
  <2>9. QED
    BY <2>1, <2>2, <2>4, <2>5, <2>6, <2>7, <2>8 DEF VarIntInv
<1>4. CASE status = "reading" /\ VarIntLast
  <2>1. /\ position < Len(input) /\ position' = position + 1 /\ value' = Collected
        /\ status' = "ok" /\ input' = input /\ shift' = shift
        /\ ~Continues(input[position + 1])
    BY <1>4 DEF VarIntLast, Byte
  <2>2. value' \in 0 .. Pow2[Width] - 1 /\ value' = Said(input, position') % Pow2[Width]
    BY <1>4, <2>1, GroupCollected
  <2>3. VarIntTypeOK'
    BY <1>1, <1>4, <2>1, <2>2 DEF VarIntInv, VarIntTypeOK
  <2>4. position' - 1 = position /\ position' > 0
    BY <1>1, <2>1
  <2>5. \A i \in 1 .. position' - 1 : Continues(input[i])
    BY <1>4, <2>1, <2>4 DEF VarIntInv
  <2>6. Group * (position' - 1) <= Width - 1
    BY <1>4, <2>4 DEF VarIntInv
  <2>7. QED
    BY <2>1, <2>2, <2>3, <2>4, <2>5, <2>6 DEF VarIntInv
<1>5. CASE UNCHANGED varIntVars
  BY <1>5 DEF varIntVars, VarIntInv, VarIntTypeOK
<1>6. QED
  BY <1>2, <1>3, <1>4, <1>5 DEF VarIntNext

(* The reader keeps its types: no group it takes in exceeds the integer.   *)
THEOREM VarIntTypesHold == VarIntSpec => []VarIntTypeOK
<1>1. VarIntInv => VarIntTypeOK
  BY DEF VarIntInv
<1>2. QED
  BY <1>1, VarIntInitInv, VarIntStepInv, PTL DEF VarIntSpec

(* A number that ends within the groups of the width ends before the reader gives up. *)
LEMMA GroupsFit ==
  ASSUME NEW n \in 1 .. Groups
  PROVE  n \in Nat /\ n > 0 /\ Group * (n - 1) <= Width - 1
<1> DEFINE A == Width + Group - 1
<1>1. Group \in Nat \ {0} /\ A \in Nat
  BY GroupType
<1>2. Groups = A \div Group
  BY DEF Groups
<1> HIDE DEF A
<1>3. Groups \in Nat /\ A = Group * Groups + (A % Group) /\ A % Group \in Nat
  BY <1>1, <1>2, DivMod
<1>4. n \in Nat /\ n > 0 /\ n <= Groups
  BY <1>3
<1>5. \A x, y, g \in Nat : x <= y => g * x <= g * y
  <2> TAKE x, y, g \in Nat
  <2> HAVE x <= y
  <2>1. g * (y - x) \in Nat /\ g * (y - x) = g * y - g * x
    BY Products
  <2>2. QED
    BY <2>1, Products
<1>6. Group * n <= Group * Groups /\ Group * n \in Nat /\ Group * Groups \in Nat
  BY <1>1, <1>3, <1>4, <1>5, Products
<1>7. Group * (n - 1) = Group * n - Group
  BY <1>1, <1>4
<1>8. QED
  BY <1>1, <1>3, <1>4, <1>6, <1>7, GroupType DEF A

(* A reader that gave up had read every byte, or more groups than any number has. *)
LEMMA RefusedNumbersEnd ==
  ASSUME VarIntInv, status = "pack_delta_invalid", NEW n \in 1 .. Groups
  PROVE  ~EndsAt(input, n)
<1> SUFFICES ASSUME EndsAt(input, n) PROVE FALSE
  OBVIOUS
<1>1. /\ Len(input) \in Nat /\ position \in Nat
      /\ \A i \in 1 .. position : Continues(input[i])
      /\ position = Len(input) \/ Group * position > Width - 1
  BY InputType DEF VarIntInv, VarIntTypeOK
<1>2. n \in 1 .. Len(input) /\ ~Continues(input[n])
  BY DEF EndsAt
<1>3. n > position
  BY <1>1, <1>2
<1>4. Group * position > Width - 1 /\ position <= n - 1 /\ n - 1 \in Nat
  BY <1>1, <1>2, <1>3
<1>5. Group * position <= Group * (n - 1)
  <2>1. \A x, y, g \in Nat : x <= y => g * x <= g * y
    <3> TAKE x, y, g \in Nat
    <3> HAVE x <= y
    <3>1. g * (y - x) \in Nat /\ g * (y - x) = g * y - g * x
      BY Products
    <3>2. QED
      BY <3>1, Products
  <2>2. QED
    BY <1>1, <1>4, <2>1, GroupType
<1>6. QED
  BY <1>1, <1>4, <1>5, GroupsFit, GroupType, Products

(* Every number of the width is read exactly, and nothing else is refused. *)
LEMMA NumbersFollow == VarIntInv => NumbersAreRead
<1> SUFFICES ASSUME VarIntInv, status # "reading" PROVE NumbersAreRead
  BY DEF NumbersAreRead
<1>1. /\ input \in Seq(Nat) /\ Len(input) \in Nat /\ position \in Nat
      /\ position <= Len(input)
      /\ status \in {"ok", "pack_delta_invalid"}
  BY InputType DEF VarIntInv, VarIntTypeOK
<1>2. status # "ok" => \A n \in 1 .. Groups : ~EndsAt(input, n)
  BY <1>1, RefusedNumbersEnd
<1>3. ASSUME NEW n \in 1 .. Groups, EndsAt(input, n), Said(input, n) < Pow2[Width]
      PROVE  status = "ok" /\ value = Said(input, n) /\ position = n
  <2>1. status = "ok"
    BY <1>2, <1>3
  <2>2. /\ n \in 1 .. Len(input) /\ ~Continues(input[n])
        /\ \A i \in 1 .. n - 1 : Continues(input[i])
    BY <1>3 DEF EndsAt
  <2>3. /\ position > 0 /\ ~Continues(input[position])
        /\ \A i \in 1 .. position - 1 : Continues(input[i])
    BY <2>1 DEF VarIntInv
  <2>4. position = n
    <3>1. ~(position < n)
      BY <1>1, <2>2, <2>3
    <3>2. ~(n < position)
      BY <1>1, <2>2, <2>3
    <3>3. QED
      BY <1>1, <2>2, <3>1, <3>2
  <2>5. Said(input, n) % Pow2[Width] = Said(input, n)
    <3>1. Said(input, n) \in Nat /\ Pow2[Width] \in Nat \ {0}
      BY <1>1, <2>2, SaidStep, GroupType, Pow2Type
    <3>2. QED
      BY <1>3, <3>1, ModSmall
  <2>6. value = Said(input, position) % Pow2[Width]
    BY <2>1 DEF VarIntInv
  <2>7. QED
    BY <2>1, <2>4, <2>5, <2>6
<1>4. status = "ok" => value = Said(input, position) % Pow2[Width]
  BY DEF VarIntInv
<1>5. QED
  BY <1>2, <1>3, <1>4 DEF NumbersAreRead

THEOREM NumbersAreReadHolds == VarIntSpec => []NumbersAreRead
BY NumbersFollow, VarIntInitInv, VarIntStepInv, PTL DEF VarIntSpec

-----------------------------------------------------------------------------
(* Hashes and the entries they are part of.                                *)

LEMMA OctetsAreNumbers == Octet \subseteq Nat /\ Octet \subseteq Int
BY DEF Octet

LEMMA TreeConstants ==
  /\ Space \in Octet /\ Nul \in Octet /\ Space # Nul /\ HashLength \in Nat
  /\ Space \in Int /\ Nul \in Int
BY TreeFormatAssumption, OctetsAreNumbers

LEMMA HexDigitValue ==
  \A n \in 0 .. 15 : HexDigit(n) \in Octet /\ HexValue(HexDigit(n)) = n
BY DEF HexDigit, HexValue, Octet

LEMMA HexValueType == \A ch \in Int : HexValue(ch) \in Int /\ HexValue(ch) <= 15
BY DEF HexValue

LEMMA HexToBytesType ==
  ASSUME NEW hex \in Seq(Octet)
  PROVE  /\ HexToBytes(hex) \in Seq(Int)
         /\ Len(HexToBytes(hex)) = Len(hex) \div 2
<1>1. Len(hex) \in Nat /\ \A k \in 1 .. Len(hex) : hex[k] \in Int
  <2>1. Len(hex) \in Nat /\ \A k \in 1 .. Len(hex) : hex[k] \in Octet
    OBVIOUS
  <2>2. QED
    BY <2>1, OctetsAreNumbers
<1> DEFINE n == Len(hex) \div 2
<1>2. n \in Nat /\ \A i \in 1 .. n : 2 * i - 1 \in 1 .. Len(hex) /\ 2 * i \in 1 .. Len(hex)
  BY <1>1
<1> HIDE DEF n
<1>3. \A i \in 1 .. n : 16 * HexValue(hex[2 * i - 1]) + HexValue(hex[2 * i]) \in Int
  <2> TAKE i \in 1 .. n
  <2>1. HexValue(hex[2 * i - 1]) \in Int /\ HexValue(hex[2 * i]) \in Int
    BY <1>1, <1>2, HexValueType
  <2>2. QED
    BY <2>1
<1>4. HexToBytes(hex) = [i \in 1 .. n |-> 16 * HexValue(hex[2 * i - 1]) + HexValue(hex[2 * i])]
  BY DEF HexToBytes, n
<1>5. HexToBytes(hex) \in [1 .. n -> Int]
  BY <1>3, <1>4
<1>6. HexToBytes(hex) \in Seq(Int) /\ Len(HexToBytes(hex)) = n
  BY <1>2, <1>5
<1>7. QED
  BY <1>6 DEF n

(* A well-formed hash stands for bytes. *)
LEMMA WellFormedBytes ==
  ASSUME NEW hex \in Seq(Octet), IsHex(hex)
  PROVE  HexToBytes(hex) \in Seq(Octet)
<1>1. /\ Len(hex) \in Nat
      /\ \A k \in 1 .. Len(hex) : HexValue(hex[k]) \in Int /\ HexValue(hex[k]) >= 0
                                  /\ HexValue(hex[k]) <= 15
  <2>1. Len(hex) \in Nat /\ \A k \in 1 .. Len(hex) : hex[k] \in Octet
    OBVIOUS
  <2>2. \A k \in 1 .. Len(hex) : hex[k] \in Int /\ HexValue(hex[k]) >= 0
    BY <2>1, OctetsAreNumbers DEF IsHex
  <2>3. QED
    BY <2>1, <2>2, HexValueType
<1> DEFINE n == Len(hex) \div 2
<1>2. n \in Nat /\ \A i \in 1 .. n : 2 * i - 1 \in 1 .. Len(hex) /\ 2 * i \in 1 .. Len(hex)
  BY <1>1
<1>3. \A i \in 1 .. n : 16 * HexValue(hex[2 * i - 1]) + HexValue(hex[2 * i]) \in Octet
  <2> TAKE i \in 1 .. n
  <2>1. \A x, y \in Int : x >= 0 /\ x <= 15 /\ y >= 0 /\ y <= 15 => 16 * x + y \in Octet
    BY DEF Octet
  <2>2. QED
    BY <1>1, <1>2, <2>1
<1> HIDE DEF n
<1>4. HexToBytes(hex) = [i \in 1 .. n |-> 16 * HexValue(hex[2 * i - 1]) + HexValue(hex[2 * i])]
  BY DEF HexToBytes, n
<1>5. HexToBytes(hex) \in [1 .. n -> Octet]
  BY <1>3, <1>4
<1>6. QED
  BY <1>2, <1>5

(* Bytes that are written out as characters are read back. *)
LEMMA HashRoundTrip ==
  ASSUME NEW b \in Seq(Octet)
  PROVE  /\ HashToHex(b) \in Seq(Octet) /\ Len(HashToHex(b)) = 2 * Len(b)
         /\ HexToBytes(HashToHex(b)) = b
<1> DEFINE L == Len(b)
           hex == HashToHex(b)
           D(k) == IF k % 2 = 1 THEN b[(k + 1) \div 2] \div 16 ELSE b[k \div 2] % 16
<1>1. L \in Nat /\ b \in [1 .. L -> Octet] /\ \A i \in 1 .. L : b[i] \in Octet
  OBVIOUS
<1>a. \A x \in Octet : /\ x \div 16 \in 0 .. 15 /\ x % 16 \in 0 .. 15
                       /\ 16 * (x \div 16) + (x % 16) = x
  BY DEF Octet
<1> HIDE DEF L
<1>2. \A k \in 1 .. 2 * L : D(k) \in 0 .. 15
  <2> TAKE k \in 1 .. 2 * L
  <2>1. CASE k % 2 = 1
    <3>1. (k + 1) \div 2 \in 1 .. L
      BY <1>1, <2>1
    <3>2. QED
      BY <1>1, <1>a, <2>1, <3>1
  <2>2. CASE k % 2 # 1
    <3>1. k \div 2 \in 1 .. L
      BY <1>1, <2>2
    <3>2. QED
      BY <1>1, <1>a, <2>2, <3>1
  <2>3. QED
    BY <2>1, <2>2
<1>3. hex = [k \in 1 .. 2 * L |-> HexDigit(D(k))]
  BY DEF HashToHex, L
<1>4. \A k \in 1 .. 2 * L : HexDigit(D(k)) \in Octet /\ HexValue(HexDigit(D(k))) = D(k)
  BY <1>2, HexDigitValue
<1>5. \A i \in 1 .. L : /\ 2 * i - 1 \in 1 .. 2 * L /\ 2 * i \in 1 .. 2 * L
                        /\ D(2 * i - 1) = b[i] \div 16 /\ D(2 * i) = b[i] % 16
  <2> TAKE i \in 1 .. L
  <2>1. i \in Nat /\ 2 * i - 1 \in 1 .. 2 * L /\ 2 * i \in 1 .. 2 * L
    BY <1>1
  <2>2. (2 * i - 1) % 2 = 1 /\ ((2 * i - 1) + 1) \div 2 = i
    BY <2>1
  <2>3. (2 * i) % 2 = 0 /\ (2 * i) \div 2 = i
    BY <2>1
  <2>4. QED
    BY <2>1, <2>2, <2>3
<1> HIDE DEF D
<1>6. hex \in [1 .. 2 * L -> Octet] /\ \A k \in 1 .. 2 * L : HexValue(hex[k]) = D(k)
  <2> HIDE DEF hex
  <2>1. QED
    BY <1>3, <1>4
<1> HIDE DEF hex
<1>7. hex \in Seq(Octet) /\ Len(hex) = 2 * L /\ Len(hex) \div 2 = L
  BY <1>1, <1>6
<1>8. HexToBytes(hex) = [i \in 1 .. L |-> 16 * HexValue(hex[2 * i - 1]) + HexValue(hex[2 * i])]
  BY <1>7 DEF HexToBytes
<1>9. \A i \in 1 .. L : 16 * HexValue(hex[2 * i - 1]) + HexValue(hex[2 * i]) = b[i]
  BY <1>1, <1>a, <1>5, <1>6
<1>10. HexToBytes(hex) = b
  <2>1. b = [i \in 1 .. L |-> b[i]]
    BY <1>1
  <2>2. QED
    BY <1>8, <1>9, <2>1
<1>11. QED
  BY <1>7, <1>10 DEF hex, L

-----------------------------------------------------------------------------
(* What an entry is written as, byte by byte.                              *)

HashEntry == {e \in Entry : Len(e.hash_hex) = 2 * HashLength}

LEMMA ConcatParts ==
  ASSUME NEW s \in Seq(Int), NEW t \in Seq(Int)
  PROVE  /\ s \o t \in Seq(Int) /\ Len(s \o t) = Len(s) + Len(t)
         /\ \A k \in 1 .. Len(s) : (s \o t)[k] = s[k]
         /\ \A k \in 1 .. Len(t) : (s \o t)[Len(s) + k] = t[k]
OBVIOUS

(* Where the separators of an entry are, and how long it is. *)
SpaceAt(e) == Len(e.mode) + 1
NulAt(e)   == Len(e.mode) + Len(e.name) + 2
Long(e)    == Len(e.mode) + Len(e.name) + 2 + HashLength

LEMMA EntryType ==
  ASSUME NEW e \in HashEntry
  PROVE  /\ e.mode \in Seq(Int) /\ e.name \in Seq(Int) /\ e.hash_hex \in Seq(Octet)
         /\ Len(e.mode) \in Nat /\ Len(e.name) \in Nat
         /\ HexToBytes(e.hash_hex) \in Seq(Int)
         /\ Len(HexToBytes(e.hash_hex)) = HashLength
<1>1. e.mode \in Seq(Octet) /\ e.name \in Seq(Octet) /\ e.hash_hex \in Seq(Octet)
      /\ Len(e.hash_hex) = 2 * HashLength
  BY DEF HashEntry, Entry
<1>2. e.mode \in Seq(Int) /\ e.name \in Seq(Int)
  BY <1>1, OctetsAreNumbers, SeqMonotonic
<1>3. (2 * HashLength) \div 2 = HashLength
  BY TreeConstants
<1>4. HexToBytes(e.hash_hex) \in Seq(Int) /\ Len(HexToBytes(e.hash_hex)) = HashLength
  BY <1>1, <1>3, HexToBytesType
<1>5. QED
  BY <1>1, <1>2, <1>4

LEMMA EntryLayout ==
  ASSUME NEW e \in HashEntry
  PROVE  /\ WriteEntry(e) \in Seq(Int) /\ Len(WriteEntry(e)) = Long(e)
         /\ \A k \in 1 .. Len(e.mode) : WriteEntry(e)[k] = e.mode[k]
         /\ WriteEntry(e)[SpaceAt(e)] = Space
         /\ \A k \in 1 .. Len(e.name) : WriteEntry(e)[SpaceAt(e) + k] = e.name[k]
         /\ WriteEntry(e)[NulAt(e)] = Nul
         /\ \A k \in 1 .. HashLength :
              WriteEntry(e)[NulAt(e) + k] = HexToBytes(e.hash_hex)[k]
<1> DEFINE m == e.mode
           n == e.name
           h == HexToBytes(e.hash_hex)
           M == Len(m)
           N == Len(n)
<1>1. /\ m \in Seq(Int) /\ n \in Seq(Int) /\ h \in Seq(Int)
      /\ M \in Nat /\ N \in Nat /\ Len(h) = HashLength /\ HashLength \in Nat
      /\ <<Space>> \in Seq(Int) /\ <<Nul>> \in Seq(Int)
  BY EntryType, TreeConstants
<1>2. WriteEntry(e) = (((m \o <<Space>>) \o n) \o <<Nul>>) \o h
  BY DEF WriteEntry
<1> HIDE DEF m, n, h, M, N
<1>b. Len(m) = M /\ Len(n) = N
  BY DEF M, N
<1> DEFINE a == m \o <<Space>>
<1>3. /\ a \in Seq(Int) /\ Len(a) = M + 1 /\ a[M + 1] = Space
      /\ \A k \in 1 .. M : a[k] = m[k]
  BY <1>1, <1>b
<1> HIDE DEF a
<1> DEFINE c == a \o n
<1>4. /\ c \in Seq(Int) /\ Len(c) = M + N + 1
      /\ \A k \in 1 .. M + 1 : c[k] = a[k]
      /\ \A k \in 1 .. N : c[(M + 1) + k] = n[k]
  <2>1. /\ c \in Seq(Int) /\ Len(c) = Len(a) + Len(n)
        /\ \A k \in 1 .. Len(a) : c[k] = a[k]
        /\ \A k \in 1 .. Len(n) : c[Len(a) + k] = n[k]
    BY <1>1, <1>3, ConcatParts
  <2> HIDE DEF c
  <2>2. QED
    BY <1>1, <1>b, <1>3, <2>1
<1> HIDE DEF c
<1> DEFINE d == c \o <<Nul>>
<1>5. /\ d \in Seq(Int) /\ Len(d) = M + N + 2 /\ d[M + N + 2] = Nul
      /\ \A k \in 1 .. M + N + 1 : d[k] = c[k]
  <2>1. Len(<<Nul>>) = 1 /\ (<<Nul>>)[1] = Nul /\ (M + N + 1) + 1 = M + N + 2
    BY <1>1
  <2>2. /\ d \in Seq(Int) /\ Len(d) = Len(c) + Len(<<Nul>>)
        /\ \A k \in 1 .. Len(c) : d[k] = c[k]
        /\ \A k \in 1 .. Len(<<Nul>>) : d[Len(c) + k] = (<<Nul>>)[k]
    BY <1>1, <1>4, ConcatParts
  <2> HIDE DEF d
  <2>3. 1 \in 1 .. Len(<<Nul>>) /\ d[Len(c) + 1] = Nul
    BY <2>1, <2>2
  <2> HIDE DEF d
  <2>4. QED
    BY <1>1, <1>4, <2>1, <2>2, <2>3
<1> HIDE DEF d
<1> DEFINE w == d \o h
<1>6. /\ w \in Seq(Int) /\ Len(w) = M + N + 2 + HashLength
      /\ \A k \in 1 .. M + N + 2 : w[k] = d[k]
      /\ \A k \in 1 .. HashLength : w[(M + N + 2) + k] = h[k]
  <2>1. /\ w \in Seq(Int) /\ Len(w) = Len(d) + Len(h)
        /\ \A k \in 1 .. Len(d) : w[k] = d[k]
        /\ \A k \in 1 .. Len(h) : w[Len(d) + k] = h[k]
    BY <1>1, <1>5, ConcatParts
  <2> HIDE DEF w
  <2>2. QED
    BY <1>1, <1>5, <2>1
<1>7. WriteEntry(e) = w
  BY <1>2 DEF a, c, d
<1> HIDE DEF w
<1>8. \A k \in 1 .. M : w[k] = m[k]
  BY <1>1, <1>3, <1>4, <1>5, <1>6
<1>9. w[M + 1] = Space
  BY <1>1, <1>3, <1>4, <1>5, <1>6
<1>10. \A k \in 1 .. N : w[(M + 1) + k] = n[k]
  <2> TAKE k \in 1 .. N
  <2>1. (M + 1) + k \in 1 .. M + N + 1 /\ (M + 1) + k \in 1 .. M + N + 2
    BY <1>1
  <2>2. QED
    BY <1>4, <1>5, <1>6, <2>1
<1>11. w[M + N + 2] = Nul
  BY <1>1, <1>5, <1>6
<1>12. QED
  BY <1>6, <1>7, <1>8, <1>9, <1>10, <1>11 DEF SpaceAt, NulAt, Long, M, N, m, n, h

-----------------------------------------------------------------------------
(* What entries are written as.                                            *)

LEMMA WriteEntriesType ==
  ASSUME NEW l \in Seq(HashEntry)
  PROVE  WriteEntries(l) \in Seq(Int) /\ Len(WriteEntries(l)) \in Nat
<1> DEFINE ss == [i \in 1 .. Len(l) |-> WriteEntry(l[i])]
<1>1. Len(l) \in Nat /\ \A i \in 1 .. Len(l) : l[i] \in HashEntry
  OBVIOUS
<1>2. \A i \in 1 .. Len(l) : WriteEntry(l[i]) \in Seq(Int)
  BY <1>1, EntryLayout
<1>3. ss \in Seq(Seq(Int))
  <2> DEFINE Q == Seq(Int)
  <2> HIDE DEF Q
  <2>1. \A i \in 1 .. Len(l) : WriteEntry(l[i]) \in Q
    BY <1>2 DEF Q
  <2>2. ss \in [1 .. Len(l) -> Q]
    BY <2>1
  <2>3. ss \in Seq(Q)
    BY <1>1, <2>2
  <2>4. QED
    BY <2>3 DEF Q
<1> HIDE DEF ss
<1>4. FlattenSeq(ss) \in Seq(Int)
  BY <1>3, FlattenType
<1>5. QED
  BY <1>4 DEF WriteEntries, ss

LEMMA WriteNoEntries == WriteEntries(<< >>) = << >>
<1>1. Len(<< >>) = 0 /\ 1 .. 0 = {}
  OBVIOUS
<1>2. [i \in 1 .. Len(<< >>) |-> WriteEntry((<< >>)[i])] = << >>
  BY <1>1
<1>3. QED
  BY <1>1, <1>2 DEF WriteEntries, FlattenSeq

LEMMA WriteOneMore ==
  ASSUME NEW l \in Seq(HashEntry), NEW e \in HashEntry
  PROVE  WriteEntries(Append(l, e)) = WriteEntries(l) \o WriteEntry(e)
<1> DEFINE Q == Seq(Int)
           ss == [i \in 1 .. Len(l) |-> WriteEntry(l[i])]
           t == Append(l, e)
           tt == [i \in 1 .. Len(t) |-> WriteEntry(t[i])]
<1>1. /\ Len(l) \in Nat /\ \A i \in 1 .. Len(l) : l[i] \in HashEntry
      /\ Len(t) = Len(l) + 1 /\ t[Len(l) + 1] = e
      /\ \A i \in 1 .. Len(l) : t[i] = l[i]
  OBVIOUS
<1>2. WriteEntry(e) \in Q /\ \A i \in 1 .. Len(l) : WriteEntry(l[i]) \in Q
  BY <1>1, EntryLayout
<1> HIDE DEF Q, t
<1>3. ss \in Seq(Q)
  BY <1>1, <1>2
<1>4. tt = Append(ss, WriteEntry(e))
  <2>1. \A i \in 1 .. Len(t) : WriteEntry(t[i]) \in Q
    BY <1>1, <1>2
  <2>2. tt \in Seq(Q) /\ Len(tt) = Len(l) + 1
    BY <1>1, <2>1
  <2>3. /\ Append(ss, WriteEntry(e)) \in Seq(Q)
        /\ Len(Append(ss, WriteEntry(e))) = Len(l) + 1
    BY <1>1, <1>2, <1>3
  <2>4. \A i \in 1 .. Len(l) + 1 : tt[i] = Append(ss, WriteEntry(e))[i]
    BY <1>1, <1>2, <1>3
  <2> HIDE DEF tt, ss
  <2>5. QED
    BY <2>2, <2>3, <2>4, SeqEqual
<1> HIDE DEF ss, tt
<1>5. FlattenSeq(Append(ss, WriteEntry(e))) = FlattenSeq(ss) \o WriteEntry(e)
  BY <1>2, <1>3, FlattenAppend DEF Q
<1>6. QED
  BY <1>4, <1>5 DEF WriteEntries, ss, tt, t

(* The first j of a list of entries, and what they are written as. *)
First(l, j) == SubSeq(l, 1, j)

LEMMA FirstType ==
  ASSUME NEW l \in Seq(HashEntry), NEW j \in 0 .. Len(l)
  PROVE  /\ First(l, j) \in Seq(HashEntry) /\ Len(First(l, j)) = j
         /\ \A i \in 1 .. j : First(l, j)[i] = l[i]
         /\ j < Len(l) => First(l, j + 1) = Append(First(l, j), l[j + 1])
<1>1. Len(l) \in Nat /\ j \in Nat /\ j <= Len(l) /\ \A i \in 1 .. Len(l) : l[i] \in HashEntry
  OBVIOUS
<1>2. /\ First(l, j) \in Seq(HashEntry) /\ Len(First(l, j)) = j
      /\ \A i \in 1 .. j : First(l, j)[i] = l[i]
  BY <1>1 DEF First
<1>3. ASSUME j < Len(l) PROVE First(l, j + 1) = Append(First(l, j), l[j + 1])
  <2>1. j + 1 \in 1 .. Len(l) /\ l[j + 1] \in HashEntry
    BY <1>1, <1>3
  <2>2. /\ First(l, j + 1) \in Seq(HashEntry) /\ Len(First(l, j + 1)) = j + 1
        /\ \A i \in 1 .. j + 1 : First(l, j + 1)[i] = l[i]
    BY <1>1, <2>1 DEF First
  <2> DEFINE a == Append(First(l, j), l[j + 1])
  <2>3. /\ a \in Seq(HashEntry) /\ Len(a) = j + 1
        /\ \A i \in 1 .. j : a[i] = First(l, j)[i]
        /\ a[j + 1] = l[j + 1]
    BY <1>2, <2>1, AppendProperties
  <2> HIDE DEF a
  <2>4. \A i \in 1 .. j + 1 : a[i] = l[i]
    BY <1>1, <1>2, <2>3
  <2>5. a = First(l, j + 1)
    BY <2>2, <2>3, <2>4, SeqEqual
  <2>6. QED
    BY <2>5 DEF a
<1>4. QED
  BY <1>2, <1>3

LEMMA WriteFirst ==
  ASSUME NEW l \in Seq(HashEntry), NEW j \in 0 .. Len(l) - 1
  PROVE  WriteEntries(First(l, j + 1)) = WriteEntries(First(l, j)) \o WriteEntry(l[j + 1])
<1>1. j \in 0 .. Len(l) /\ j < Len(l) /\ j + 1 \in 1 .. Len(l) /\ Len(l) \in Nat
  OBVIOUS
<1>2. l[j + 1] \in HashEntry
  BY <1>1
<1>3. First(l, j) \in Seq(HashEntry) /\ First(l, j + 1) = Append(First(l, j), l[j + 1])
  BY <1>1, FirstType
<1>4. QED
  BY <1>2, <1>3, WriteOneMore

(* What comes first in a list is written first. *)
Starts(s, t) == Len(s) <= Len(t) /\ \A m \in 1 .. Len(s) : t[m] = s[m]

LEMMA WriteStarts ==
  ASSUME NEW l \in Seq(HashEntry), NEW k \in 0 .. Len(l)
  PROVE  Starts(WriteEntries(First(l, k)), WriteEntries(l))
<1> DEFINE w(j) == WriteEntries(First(l, j))
           T == {j \in Nat : k <= j /\ j <= Len(l) => Starts(w(k), w(j))}
<1>0. Len(l) \in Nat /\ k \in Nat
  OBVIOUS
<1>1. \A j \in 0 .. Len(l) : w(j) \in Seq(Int) /\ Len(w(j)) \in Nat
  BY FirstType, WriteEntriesType
<1>2. \A j \in 0 .. Len(l) : Starts(w(j), w(j))
  BY <1>1 DEF Starts
<1>3. 0 \in T
  BY <1>0, <1>2
<1>4. ASSUME NEW j \in Nat, j \in T PROVE j + 1 \in T
  <2>1. SUFFICES ASSUME k <= j + 1, j + 1 <= Len(l) PROVE Starts(w(k), w(j + 1))
    OBVIOUS
  <2>2. CASE k = j + 1
    BY <1>0, <1>2, <2>2
  <2>3. CASE k # j + 1
    <3>1. k <= j /\ j <= Len(l) /\ j \in 0 .. Len(l) - 1 /\ j \in 0 .. Len(l)
      BY <1>0, <2>1, <2>3
    <3>2. Starts(w(k), w(j))
      BY <1>4, <3>1
    <3>3. w(j + 1) = w(j) \o WriteEntry(l[j + 1])
      BY <3>1, WriteFirst
    <3>4. l[j + 1] \in HashEntry
      BY <1>0, <3>1
    <3>5. WriteEntry(l[j + 1]) \in Seq(Int) /\ Len(WriteEntry(l[j + 1])) \in Nat
      BY <3>4, EntryLayout
    <3>6. w(j) \in Seq(Int) /\ w(k) \in Seq(Int) /\ Len(w(j)) \in Nat /\ Len(w(k)) \in Nat
      BY <1>1, <3>1
    <3> HIDE DEF w
    <3>7. /\ Len(w(j + 1)) = Len(w(j)) + Len(WriteEntry(l[j + 1]))
          /\ \A m \in 1 .. Len(w(j)) : w(j + 1)[m] = w(j)[m]
      BY <3>3, <3>5, <3>6, ConcatParts
    <3>8. QED
      BY <3>2, <3>5, <3>6, <3>7 DEF Starts
  <2>4. QED
    BY <2>2, <2>3
<1> HIDE DEF T
<1>5. Len(l) \in T
  BY <1>0, <1>3, <1>4, Induct
<1>6. First(l, Len(l)) = l
  BY SubSeqFull DEF First
<1>7. QED
  BY <1>0, <1>5, <1>6 DEF T

-----------------------------------------------------------------------------
(* The lists that are written.                                             *)

LEMMA ListType ==
  ASSUME NEW l \in List
  PROVE  /\ l \in Seq(HashEntry) /\ Len(l) \in Nat
         /\ \A i \in 1 .. Len(l) :
              /\ l[i] \in HashEntry /\ WellFormed(l[i].hash_hex)
              /\ \A k \in 1 .. Len(l[i].mode) : l[i].mode[k] # Space
              /\ \A k \in 1 .. Len(l[i].name) : l[i].name[k] # Nul
<1> DEFINE R == [mode : Seq(Octet \ {Space}), name : Seq(Octet \ {Nul}), hash_hex : Seq(Octet)]
<1>1. l \in Seq(R) /\ \A i \in 1 .. Len(l) : WellFormed(l[i].hash_hex)
  BY TreeFormatAssumption
<1>2. Octet \ {Space} \subseteq Octet /\ Octet \ {Nul} \subseteq Octet
  OBVIOUS
<1> HIDE DEF R
<1>3. Len(l) \in Nat /\ l \in [1 .. Len(l) -> R] /\ \A i \in 1 .. Len(l) : l[i] \in R
  BY <1>1
<1>4. ASSUME NEW r \in R
      PROVE  /\ r \in Entry
             /\ \A k \in 1 .. Len(r.mode) : r.mode[k] # Space
             /\ \A k \in 1 .. Len(r.name) : r.name[k] # Nul
  <2>1. /\ r = [mode |-> r.mode, name |-> r.name, hash_hex |-> r.hash_hex]
        /\ r.mode \in Seq(Octet \ {Space}) /\ r.name \in Seq(Octet \ {Nul})
        /\ r.hash_hex \in Seq(Octet)
    BY DEF R
  <2>2. r.mode \in Seq(Octet) /\ r.name \in Seq(Octet)
    BY <1>2, <2>1, SeqMonotonic
  <2>3. \A k \in 1 .. Len(r.mode) : r.mode[k] \in Octet \ {Space}
    BY <2>1, ElementOfSeq
  <2>4. \A k \in 1 .. Len(r.name) : r.name[k] \in Octet \ {Nul}
    BY <2>1, ElementOfSeq
  <2>5. QED
    BY <2>1, <2>2, <2>3, <2>4 DEF Entry
<1>5. \A i \in 1 .. Len(l) : l[i] \in HashEntry
  BY <1>1, <1>3, <1>4 DEF WellFormed, HashEntry
<1>6. l \in Seq(HashEntry)
  BY <1>3, <1>5
<1>7. QED
  BY <1>1, <1>3, <1>4, <1>5, <1>6

LEMMA ListBody ==
  ASSUME NEW l \in List
  PROVE  WriteEntries(l) \in Seq(Octet)
<1> DEFINE Q == Seq(Octet)
           ss == [i \in 1 .. Len(l) |-> WriteEntry(l[i])]
<1>1. ASSUME NEW i \in 1 .. Len(l) PROVE WriteEntry(l[i]) \in Q
  <2> DEFINE e == l[i]
  <2>1. /\ e \in HashEntry /\ IsHex(e.hash_hex)
    BY ListType DEF WellFormed
  <2> HIDE DEF e
  <2>2. e.mode \in Q /\ e.name \in Q /\ e.hash_hex \in Q
    BY <2>1 DEF HashEntry, Entry
  <2>3. HexToBytes(e.hash_hex) \in Q
    BY <2>1, <2>2, WellFormedBytes
  <2>4. <<Space>> \in Q /\ <<Nul>> \in Q
    BY TreeConstants
  <2>5. \A s, t \in Q : s \o t \in Q
    BY ConcatProperties
  <2> HIDE DEF Q
  <2>6. WriteEntry(e) \in Q
    BY <2>2, <2>3, <2>4, <2>5, Zenon DEF WriteEntry
  <2>7. QED
    BY <2>6 DEF e
<1>2. Len(l) \in Nat
  BY ListType
<1>3. ss \in Seq(Q)
  <2> HIDE DEF Q
  <2>1. ss \in [1 .. Len(l) -> Q]
    BY <1>1
  <2>2. QED
    BY <1>2, <2>1
<1> HIDE DEF ss
<1>4. FlattenSeq(ss) \in Q
  BY <1>3, FlattenType
<1>5. QED
  BY <1>4 DEF WriteEntries, ss

-----------------------------------------------------------------------------
(* The inductive invariant of the reader of a tree.                        *)

TreeInv ==
  /\ TreeTypeOK
  /\ WriteEntries(entries) = SubSeq(body, 1, cursor)
  /\ meant # Unwritten =>
       /\ body = WriteEntries(meant)
       /\ Len(entries) <= Len(meant) /\ entries = First(meant, Len(entries))
       /\ outcome # "tree_format_invalid"
       /\ outcome = "ok" => entries = meant

LEMMA TreeTypes ==
  ASSUME TreeTypeOK
  PROVE  /\ body \in Seq(Octet) /\ body \in Seq(Int) /\ Len(body) \in Nat
         /\ \A k \in 1 .. Len(body) : body[k] \in Octet
         /\ cursor \in Nat /\ cursor <= Len(body)
         /\ entries \in Seq(HashEntry) /\ Len(entries) \in Nat
         /\ meant # Unwritten => meant \in List
<1>1. body \in Seq(Octet) /\ Len(body) \in Nat /\ cursor \in Nat /\ cursor <= Len(body)
      /\ entries \in Seq(Entry) /\ (meant # Unwritten => meant \in List)
      /\ \A i \in 1 .. Len(entries) : Len(entries[i].hash_hex) = 2 * HashLength
  BY DEF TreeTypeOK
<1>2. body \in Seq(Int)
  BY <1>1, OctetsAreNumbers, SeqMonotonic
<1>3. \A k \in 1 .. Len(body) : body[k] \in Octet
  BY <1>1, ElementOfSeq
<1>4. Len(entries) \in Nat /\ entries \in [1 .. Len(entries) -> Entry]
      /\ \A i \in 1 .. Len(entries) : entries[i] \in Entry
  BY <1>1
<1>5. \A i \in 1 .. Len(entries) : entries[i] \in HashEntry
  BY <1>1, <1>4 DEF HashEntry
<1>6. entries \in Seq(HashEntry)
  BY <1>4, <1>5
<1>7. QED
  BY <1>1, <1>2, <1>3, <1>4, <1>6

LEMMA TreeInitInv == TreeInit => TreeInv
<1> SUFFICES ASSUME TreeInit PROVE TreeInv
  OBVIOUS
<1>1. cursor = 0 /\ entries = << >> /\ outcome = "reading"
  BY DEF TreeInit
<1>2. /\ body \in Seq(Octet) /\ meant \in List \cup {Unwritten}
      /\ meant # Unwritten => body = WriteEntries(meant)
  BY ListBody, TreeFormatAssumption DEF TreeInit
<1>3. Len(body) \in Nat /\ 1 .. Len(entries) = {} /\ entries \in Seq(Entry)
      /\ Len(entries) = 0
  BY <1>1, <1>2, EmptySeq
<1>4. TreeTypeOK
  BY <1>1, <1>2, <1>3 DEF TreeTypeOK
<1>5. WriteEntries(entries) = SubSeq(body, 1, cursor)
  <2>1. SubSeq(body, 1, 0) = << >>
    BY SubSeqEmpty
  <2>2. QED
    BY <1>1, <2>1, WriteNoEntries
<1>6. ASSUME meant # Unwritten
      PROVE  Len(entries) <= Len(meant) /\ entries = First(meant, Len(entries))
  <2>1. Len(meant) \in Nat
    BY <1>2, <1>6, ListType
  <2>2. SubSeq(meant, 1, 0) = << >>
    BY SubSeqEmpty
  <2>3. QED
    BY <1>1, <1>3, <2>1, <2>2 DEF First
<1>7. QED
  BY <1>1, <1>2, <1>4, <1>5, <1>6 DEF TreeInv

-----------------------------------------------------------------------------
(* find() stops at one place. *)
LEMMA FindsOne ==
  ASSUME NEW byte, NEW i \in Nat, NEW j \in Nat, NEW k \in Nat, Finds(byte, i, k)
  PROVE  /\ Finds(byte, i, j) => j = k
         /\ ~Lacks(byte, i)
<1>1. /\ k \in i .. Len(body) /\ body[k] = byte
      /\ \A m \in i .. k - 1 : body[m] # byte
  BY DEF Finds
<1>2. ASSUME Finds(byte, i, j) PROVE j = k
  <2>1. /\ j \in i .. Len(body) /\ body[j] = byte
        /\ \A m \in i .. j - 1 : body[m] # byte
    BY <1>2 DEF Finds
  <2>2. ~(j < k) /\ ~(k < j)
    BY <1>1, <2>1
  <2>3. QED
    BY <2>2
<1>3. QED
  BY <1>1, <1>2 DEF Lacks

(* The entry that is next in a string that was written. *)
Coming == meant[Len(entries) + 1]

LEMMA NextEntry ==
  ASSUME TreeInv, meant # Unwritten, cursor < Len(body)
  PROVE  /\ Len(entries) < Len(meant)
         /\ Coming \in HashEntry /\ WellFormed(Coming.hash_hex)
         /\ \A k \in 1 .. Len(Coming.mode) : Coming.mode[k] # Space
         /\ \A k \in 1 .. Len(Coming.name) : Coming.name[k] # Nul
         /\ Append(entries, Coming) = First(meant, Len(entries) + 1)
         /\ Long(Coming) \in Nat /\ cursor + Long(Coming) <= Len(body)
         /\ \A m \in 1 .. Long(Coming) : body[cursor + m] = WriteEntry(Coming)[m]
<1> DEFINE n == Len(entries)
<1>1. /\ meant \in List /\ Len(meant) \in Nat /\ n \in Nat /\ n <= Len(meant)
      /\ body \in Seq(Int) /\ Len(body) \in Nat /\ cursor \in Nat
      /\ entries = First(meant, n) /\ body = WriteEntries(meant)
      /\ WriteEntries(entries) = SubSeq(body, 1, cursor)
  BY TreeTypes, ListType DEF TreeInv
<1>2. meant \in Seq(HashEntry)
  BY <1>1, ListType
<1>3. n # Len(meant)
  <2>1. SUFFICES ASSUME n = Len(meant) PROVE FALSE
    OBVIOUS
  <2>2. entries = meant
    BY <1>1, <1>2, <2>1, SubSeqFull DEF First
  <2>3. Len(SubSeq(body, 1, cursor)) = cursor
    BY <1>1
  <2>4. QED
    BY <1>1, <2>2, <2>3
<1>4. n < Len(meant) /\ n + 1 \in 1 .. Len(meant) /\ n \in 0 .. Len(meant) - 1
      /\ n \in 0 .. Len(meant) /\ n + 1 \in 0 .. Len(meant)
  BY <1>1, <1>3
<1>5. /\ Coming \in HashEntry /\ WellFormed(Coming.hash_hex)
      /\ \A k \in 1 .. Len(Coming.mode) : Coming.mode[k] # Space
      /\ \A k \in 1 .. Len(Coming.name) : Coming.name[k] # Nul
  BY <1>1, <1>4, ListType DEF Coming
<1>6. Append(entries, Coming) = First(meant, n + 1)
  BY <1>1, <1>2, <1>4, FirstType DEF Coming
<1>7. WriteEntries(First(meant, n + 1)) = WriteEntries(entries) \o WriteEntry(Coming)
  BY <1>1, <1>2, <1>4, WriteFirst DEF Coming
<1>8. Starts(WriteEntries(entries) \o WriteEntry(Coming), body)
  BY <1>1, <1>2, <1>4, <1>7, WriteStarts
<1>9. /\ WriteEntry(Coming) \in Seq(Int) /\ Len(WriteEntry(Coming)) = Long(Coming)
      /\ Long(Coming) \in Nat
  <2>1. WriteEntry(Coming) \in Seq(Int) /\ Len(WriteEntry(Coming)) = Long(Coming)
    BY <1>5, EntryLayout
  <2>2. QED
    BY <2>1
<1> DEFINE w == WriteEntries(entries)
           e == WriteEntry(Coming)
<1>10. w \in Seq(Int) /\ Len(w) = cursor
  BY <1>1
<1> HIDE DEF w, e
<1>11. /\ Len(w \o e) = cursor + Long(Coming)
       /\ \A m \in 1 .. Long(Coming) : (w \o e)[cursor + m] = e[m]
  BY <1>9, <1>10, ConcatParts DEF e
<1>12. \A m \in 1 .. Long(Coming) : cursor + m \in 1 .. cursor + Long(Coming)
  BY <1>1, <1>9
<1>13. /\ cursor + Long(Coming) <= Len(body)
       /\ \A m \in 1 .. cursor + Long(Coming) : body[m] = (w \o e)[m]
  BY <1>8, <1>11 DEF Starts, w, e
<1>14. \A m \in 1 .. Long(Coming) : body[cursor + m] = e[m]
  BY <1>11, <1>12, <1>13
<1>15. QED
  BY <1>4, <1>5, <1>6, <1>9, <1>13, <1>14 DEF e

(* Its separators are where they were written. *)
LEMMA NextSeparators ==
  ASSUME TreeInv, meant # Unwritten, cursor < Len(body)
  PROVE  /\ cursor + SpaceAt(Coming) \in 1 .. Len(body)
         /\ Finds(Space, cursor + 1, cursor + SpaceAt(Coming))
         /\ cursor + NulAt(Coming) \in 1 .. Len(body)
         /\ Finds(Nul, cursor + SpaceAt(Coming) + 1, cursor + NulAt(Coming))
         /\ cursor + NulAt(Coming) + HashLength <= Len(body)
<1> DEFINE M == Len(Coming.mode)
           N == Len(Coming.name)
           w == WriteEntry(Coming)
<1>1. /\ M \in Nat /\ N \in Nat /\ HashLength \in Nat /\ cursor \in Nat /\ Len(body) \in Nat
      /\ SpaceAt(Coming) = M + 1 /\ NulAt(Coming) = M + N + 2
      /\ Long(Coming) = M + N + 2 + HashLength
  BY NextEntry, EntryType, TreeTypes, TreeConstants DEF SpaceAt, NulAt, Long, TreeInv
<1>2. /\ \A k \in 1 .. M : w[k] = Coming.mode[k] /\ Coming.mode[k] # Space
      /\ w[M + 1] = Space
      /\ \A k \in 1 .. N : w[(M + 1) + k] = Coming.name[k] /\ Coming.name[k] # Nul
      /\ w[M + N + 2] = Nul
  <2>1. /\ Coming \in HashEntry
        /\ \A k \in 1 .. Len(Coming.mode) : Coming.mode[k] # Space
        /\ \A k \in 1 .. Len(Coming.name) : Coming.name[k] # Nul
    BY NextEntry
  <2>2. /\ \A k \in 1 .. Len(Coming.mode) : WriteEntry(Coming)[k] = Coming.mode[k]
        /\ WriteEntry(Coming)[SpaceAt(Coming)] = Space
        /\ \A k \in 1 .. Len(Coming.name) :
             WriteEntry(Coming)[SpaceAt(Coming) + k] = Coming.name[k]
        /\ WriteEntry(Coming)[NulAt(Coming)] = Nul
    BY <2>1, EntryLayout
  <2>3. QED
    BY <1>1, <2>1, <2>2
<1>3. /\ cursor + (M + N + 2 + HashLength) <= Len(body)
      /\ \A m \in 1 .. M + N + 2 + HashLength : body[cursor + m] = w[m]
  BY <1>1, NextEntry
<1> HIDE DEF M, N, w
<1> DEFINE s == cursor + (M + 1)
           n == cursor + (M + N + 2)
<1>a. s = cursor + (M + 1) /\ n = cursor + (M + N + 2) /\ s \in Nat /\ n \in Nat
  BY <1>1
<1> HIDE DEF s, n
<1>4. Finds(Space, cursor + 1, s)
  <2>1. s \in cursor + 1 .. Len(body)
    BY <1>1, <1>3, <1>a
  <2>2. body[s] = Space
    <3>1. M + 1 \in 1 .. M + N + 2 + HashLength
      BY <1>1
    <3>2. QED
      BY <1>2, <1>3, <1>a, <3>1
  <2>3. ASSUME NEW j \in cursor + 1 .. s - 1 PROVE body[j] # Space
    <3>1. j - cursor \in 1 .. M /\ j - cursor \in 1 .. M + N + 2 + HashLength
          /\ cursor + (j - cursor) = j
      BY <1>1, <1>a
    <3>2. body[cursor + (j - cursor)] = w[j - cursor]
      BY <1>3, <3>1
    <3>3. QED
      BY <1>2, <3>1, <3>2
  <2>4. QED
    BY <2>1, <2>2, <2>3 DEF Finds
<1>5. Finds(Nul, s + 1, n)
  <2>1. n \in s + 1 .. Len(body)
    BY <1>1, <1>3, <1>a
  <2>2. body[n] = Nul
    <3>1. M + N + 2 \in 1 .. M + N + 2 + HashLength
      BY <1>1
    <3>2. QED
      BY <1>2, <1>3, <1>a, <3>1
  <2>3. ASSUME NEW j \in s + 1 .. n - 1 PROVE body[j] # Nul
    <3>1. j - s \in 1 .. N /\ j - cursor \in 1 .. M + N + 2 + HashLength
          /\ cursor + (j - cursor) = j /\ (M + 1) + (j - s) = j - cursor
      BY <1>1, <1>a
    <3>2. body[cursor + (j - cursor)] = w[j - cursor]
      BY <1>3, <3>1
    <3>3. w[(M + 1) + (j - s)] # Nul
      BY <1>2, <3>1
    <3>4. QED
      BY <3>1, <3>2, <3>3
  <2>4. QED
    BY <2>1, <2>2, <2>3 DEF Finds
<1>6. /\ s \in 1 .. Len(body) /\ n \in 1 .. Len(body) /\ n + HashLength <= Len(body)
  BY <1>1, <1>3, <1>a
<1>7. QED
  BY <1>1, <1>4, <1>5, <1>6, <1>a

(* The entry cut out of a string at s and n is written as it was. *)
Cut(s, n) ==
  [mode |-> SubSeq(body, cursor + 1, s - 1), name |-> SubSeq(body, s + 1, n - 1),
   hash_hex |-> HashToHex(SubSeq(body, n + 1, n + HashLength))]

LEMMA CutType ==
  ASSUME TreeTypeOK, NEW s \in 1 .. Len(body), NEW n \in 1 .. Len(body),
         cursor < s, s < n, n + HashLength <= Len(body)
  PROVE  /\ Cut(s, n) \in HashEntry /\ Cut(s, n) \in Entry
         /\ HexToBytes(Cut(s, n).hash_hex) = SubSeq(body, n + 1, n + HashLength)
         /\ Len(Cut(s, n).mode) = s - 1 - cursor /\ Len(Cut(s, n).name) = n - 1 - s
         /\ Len(Cut(s, n).hash_hex) = 2 * HashLength
<1>1. /\ body \in Seq(Octet) /\ Len(body) \in Nat /\ cursor \in Nat /\ HashLength \in Nat
      /\ s \in Nat /\ n \in Nat /\ \A k \in 1 .. Len(body) : body[k] \in Octet
  BY TreeTypes, TreeConstants
<1> DEFINE m == SubSeq(body, cursor + 1, s - 1)
           a == SubSeq(body, s + 1, n - 1)
           h == SubSeq(body, n + 1, n + HashLength)
<1>2. m \in Seq(Octet) /\ Len(m) = s - 1 - cursor
  <2>1. \A i \in cursor + 1 .. s - 1 : body[i] \in Octet
    BY <1>1
  <2>2. m \in Seq(Octet) /\ Len(m) = IF cursor + 1 <= s - 1 THEN (s - 1) - (cursor + 1) + 1 ELSE 0
    BY <1>1, <2>1, SubSeqProperties
  <2> HIDE DEF m
  <2>3. QED
    BY <1>1, <2>2
<1>3. a \in Seq(Octet) /\ Len(a) = n - 1 - s
  <2>1. \A i \in s + 1 .. n - 1 : body[i] \in Octet
    BY <1>1
  <2>2. a \in Seq(Octet) /\ Len(a) = IF s + 1 <= n - 1 THEN (n - 1) - (s + 1) + 1 ELSE 0
    BY <1>1, <2>1, SubSeqProperties
  <2> HIDE DEF a
  <2>3. QED
    BY <1>1, <2>2
<1>4. h \in Seq(Octet) /\ Len(h) = HashLength
  <2>1. \A i \in n + 1 .. n + HashLength : body[i] \in Octet
    BY <1>1
  <2>2. /\ h \in Seq(Octet)
        /\ Len(h) = IF n + 1 <= n + HashLength THEN (n + HashLength) - (n + 1) + 1 ELSE 0
    BY <1>1, <2>1, SubSeqProperties
  <2> HIDE DEF h
  <2>3. QED
    BY <1>1, <2>2
<1>5. HashToHex(h) \in Seq(Octet) /\ Len(HashToHex(h)) = 2 * HashLength
      /\ HexToBytes(HashToHex(h)) = h
  BY <1>4, HashRoundTrip
<1>6. Cut(s, n) = [mode |-> m, name |-> a, hash_hex |-> HashToHex(h)]
  BY DEF Cut
<1> HIDE DEF m, a, h
<1>7. Cut(s, n).mode = m /\ Cut(s, n).name = a /\ Cut(s, n).hash_hex = HashToHex(h)
  BY <1>6
<1>8. Cut(s, n) \in Entry
  BY <1>2, <1>3, <1>5, <1>6 DEF Entry
<1>9. QED
  BY <1>2, <1>3, <1>5, <1>7, <1>8 DEF HashEntry, m, a, h

LEMMA CutWritten ==
  ASSUME TreeTypeOK, NEW s \in 1 .. Len(body), NEW n \in 1 .. Len(body),
         Finds(Space, cursor + 1, s), Finds(Nul, s + 1, n), n + HashLength <= Len(body)
  PROVE  /\ cursor < s /\ s < n
         /\ WriteEntry(Cut(s, n)) = SubSeq(body, cursor + 1, n + HashLength)
<1> DEFINE e == Cut(s, n)
           w == WriteEntry(e)
           z == n + HashLength
           b == SubSeq(body, cursor + 1, z)
<1>1. /\ body \in Seq(Int) /\ Len(body) \in Nat /\ cursor \in Nat /\ HashLength \in Nat
      /\ s \in Nat /\ n \in Nat /\ \A k \in 1 .. Len(body) : body[k] \in Int
  <2>1. body \in Seq(Int) /\ Len(body) \in Nat /\ cursor \in Nat /\ HashLength \in Nat
    BY TreeTypes, TreeConstants
  <2>2. s \in Nat /\ n \in Nat
    BY <2>1
  <2>3. QED
    BY <2>1, <2>2, ElementOfSeq
<1>2. cursor < s /\ s < n /\ body[s] = Space /\ body[n] = Nul
  BY <1>1 DEF Finds
<1>3. /\ e \in HashEntry
      /\ HexToBytes(e.hash_hex) = SubSeq(body, n + 1, z)
      /\ Len(e.mode) = s - 1 - cursor /\ Len(e.name) = n - 1 - s
  BY <1>2, CutType
<1>4. e.mode = SubSeq(body, cursor + 1, s - 1) /\ e.name = SubSeq(body, s + 1, n - 1)
  BY DEF Cut
<1> HIDE DEF e
<1>5. SpaceAt(e) = s - cursor /\ NulAt(e) = n - cursor /\ Long(e) = z - cursor
  BY <1>1, <1>2, <1>3 DEF SpaceAt, NulAt, Long
<1>6. /\ w \in Seq(Int) /\ Len(w) = z - cursor
      /\ \A k \in 1 .. s - 1 - cursor : w[k] = e.mode[k]
      /\ w[s - cursor] = Space
      /\ \A k \in 1 .. n - 1 - s : w[(s - cursor) + k] = e.name[k]
      /\ w[n - cursor] = Nul
      /\ \A k \in 1 .. HashLength : w[(n - cursor) + k] = HexToBytes(e.hash_hex)[k]
  BY <1>3, <1>5, EntryLayout
<1> HIDE DEF w
<1>7. z \in Nat /\ z <= Len(body) /\ n <= z /\ z = n + HashLength
  BY <1>1
<1> HIDE DEF z
<1>8. b \in Seq(Int) /\ Len(b) = z - cursor
      /\ \A k \in 1 .. z - cursor : b[k] = body[cursor + k]
  <2>1. \A i \in cursor + 1 .. z : body[i] \in Int
    BY <1>1, <1>7
  <2>2. /\ b \in Seq(Int)
        /\ Len(b) = IF cursor + 1 <= z THEN z - (cursor + 1) + 1 ELSE 0
        /\ \A i \in 1 .. z - (cursor + 1) + 1 : b[i] = body[(cursor + 1) + i - 1]
    BY <1>1, <1>7, <2>1, SubSeqProperties
  <2> HIDE DEF b
  <2>3. \A k \in 1 .. z - cursor : (cursor + 1) + k - 1 = cursor + k
                                   /\ k \in 1 .. z - (cursor + 1) + 1
    BY <1>1, <1>7
  <2>4. QED
    BY <1>1, <1>2, <1>7, <2>2, <2>3
<1> HIDE DEF b
<1>9. \A k \in 1 .. z - cursor : w[k] = b[k]
  <2> TAKE k \in 1 .. z - cursor
  <2>0. k \in Nat /\ b[k] = body[cursor + k]
    BY <1>8
  <2>1. CASE k < s - cursor
    <3>1. k \in 1 .. s - 1 - cursor
      BY <1>1, <2>0, <2>1
    <3>2. \A i \in cursor + 1 .. s - 1 : body[i] \in Int
      BY <1>1
    <3>3. \A i \in 1 .. (s - 1) - (cursor + 1) + 1 : e.mode[i] = body[(cursor + 1) + i - 1]
      <4>1. cursor + 1 \in Int /\ s - 1 \in Int
        BY <1>1
      <4>2. \A i \in 1 .. (s - 1) - (cursor + 1) + 1 :
              SubSeq(body, cursor + 1, s - 1)[i] = body[(cursor + 1) + i - 1]
        BY <3>2, <4>1, SubSeqProperties
      <4>3. QED
        BY <1>4, <4>2
    <3>4. k \in 1 .. (s - 1) - (cursor + 1) + 1 /\ (cursor + 1) + k - 1 = cursor + k
      BY <1>1, <3>1
    <3>5. QED
      BY <1>6, <2>0, <3>1, <3>3, <3>4
  <2>2. CASE k = s - cursor
    <3>1. cursor + k = s
      BY <1>1, <2>2
    <3>2. QED
      BY <1>2, <1>6, <2>0, <2>2, <3>1
  <2>3. CASE s - cursor < k /\ k < n - cursor
    <3> DEFINE i == k - (s - cursor)
    <3>1. i \in 1 .. n - 1 - s /\ (s - cursor) + i = k /\ (s + 1) + i - 1 = cursor + k
          /\ i \in 1 .. (n - 1) - (s + 1) + 1
      BY <1>1, <2>0, <2>3
    <3> HIDE DEF i
    <3>2. \A j \in s + 1 .. n - 1 : body[j] \in Int
      BY <1>1
    <3>3. \A j \in 1 .. (n - 1) - (s + 1) + 1 : e.name[j] = body[(s + 1) + j - 1]
      BY <1>1, <1>4, <3>2, SubSeqProperties
    <3>4. e.name[i] = body[cursor + k]
      BY <3>1, <3>3
    <3>5. w[(s - cursor) + i] = e.name[i]
      BY <1>6, <3>1
    <3>6. QED
      BY <2>0, <3>1, <3>4, <3>5
  <2>4. CASE k = n - cursor
    <3>1. cursor + k = n
      BY <1>1, <2>4
    <3>2. QED
      BY <1>2, <1>6, <2>0, <2>4, <3>1
  <2>5. CASE n - cursor < k
    <3> DEFINE i == k - (n - cursor)
    <3>1. i \in 1 .. HashLength /\ (n - cursor) + i = k /\ (n + 1) + i - 1 = cursor + k
          /\ i \in 1 .. z - (n + 1) + 1
      BY <1>1, <1>7, <2>0, <2>5
    <3> HIDE DEF i
    <3>2. \A j \in n + 1 .. z : body[j] \in Int
      BY <1>1, <1>7
    <3>3. \A j \in 1 .. z - (n + 1) + 1 : HexToBytes(e.hash_hex)[j] = body[(n + 1) + j - 1]
      BY <1>1, <1>3, <1>7, <3>2, SubSeqProperties
    <3>4. HexToBytes(e.hash_hex)[i] = body[cursor + k]
      BY <3>1, <3>3
    <3>5. w[(n - cursor) + i] = HexToBytes(e.hash_hex)[i]
      BY <1>6, <3>1
    <3>6. QED
      BY <2>0, <3>1, <3>4, <3>5
  <2>6. QED
    BY <1>1, <2>0, <2>1, <2>2, <2>3, <2>4, <2>5
<1>10. w = b
  BY <1>6, <1>8, <1>9, SeqEqual
<1>11. QED
  BY <1>2, <1>10 DEF w, b, e, z

(* Of a string that was written, it is the entry that comes next. *)
LEMMA CutIsComing ==
  ASSUME TreeInv, meant # Unwritten, cursor < Len(body),
         NEW s \in 1 .. Len(body), NEW n \in 1 .. Len(body),
         Finds(Space, cursor + 1, s), Finds(Nul, s + 1, n), n + HashLength <= Len(body)
  PROVE  Cut(s, n) = Coming
<1> DEFINE e == Coming
           c == Cut(s, n)
           z == n + HashLength
<1>1. /\ TreeTypeOK /\ body \in Seq(Int) /\ Len(body) \in Nat /\ cursor \in Nat
      /\ HashLength \in Nat /\ s \in Nat /\ n \in Nat
      /\ \A k \in 1 .. Len(body) : body[k] \in Int
  <2>1. body \in Seq(Int) /\ Len(body) \in Nat /\ cursor \in Nat /\ HashLength \in Nat
        /\ TreeTypeOK
    BY TreeTypes, TreeConstants DEF TreeInv
  <2>2. s \in Nat /\ n \in Nat
    BY <2>1
  <2>3. QED
    BY <2>1, <2>2, ElementOfSeq
<1>2. /\ e \in HashEntry /\ WellFormed(e.hash_hex)
      /\ Long(e) \in Nat /\ cursor + Long(e) <= Len(body)
      /\ \A m \in 1 .. Long(e) : body[cursor + m] = WriteEntry(e)[m]
  BY NextEntry
<1>3. s = cursor + SpaceAt(e) /\ n = cursor + NulAt(e)
  <2>1. cursor + SpaceAt(e) \in 1 .. Len(body) /\ cursor + NulAt(e) \in 1 .. Len(body)
        /\ Finds(Space, cursor + 1, cursor + SpaceAt(e))
        /\ Finds(Nul, cursor + SpaceAt(e) + 1, cursor + NulAt(e))
    BY NextSeparators
  <2>2. cursor + SpaceAt(e) \in Nat /\ cursor + NulAt(e) \in Nat /\ cursor + 1 \in Nat
    BY <1>1, <2>1
  <2>3. s = cursor + SpaceAt(e)
    BY <1>1, <2>1, <2>2, FindsOne
  <2>4. s + 1 \in Nat /\ Finds(Nul, s + 1, cursor + NulAt(e))
    BY <1>1, <2>1, <2>3
  <2>5. n = cursor + NulAt(e)
    BY <1>1, <2>2, <2>4, FindsOne
  <2>6. QED
    BY <2>3, <2>5
<1>4. /\ cursor < s /\ s < n
      /\ WriteEntry(c) = SubSeq(body, cursor + 1, z)
  BY <1>1, CutWritten
<1>5. /\ c \in HashEntry /\ HexToBytes(c.hash_hex) = SubSeq(body, n + 1, z)
      /\ c.hash_hex = HashToHex(SubSeq(body, n + 1, z))
      /\ Len(c.mode) = s - 1 - cursor /\ Len(c.name) = n - 1 - s
  BY <1>1, <1>4, CutType DEF Cut
<1> HIDE DEF e, c
<1>6. /\ e.mode \in Seq(Int) /\ e.name \in Seq(Int) /\ HexToBytes(e.hash_hex) \in Seq(Int)
      /\ Len(HexToBytes(e.hash_hex)) = HashLength
      /\ c.mode \in Seq(Int) /\ c.name \in Seq(Int) /\ HexToBytes(c.hash_hex) \in Seq(Int)
      /\ Len(HexToBytes(c.hash_hex)) = HashLength
      /\ Len(e.mode) \in Nat /\ Len(e.name) \in Nat
  BY <1>2, <1>5, EntryType
<1>7. Len(e.mode) = s - 1 - cursor /\ Len(e.name) = n - 1 - s
      /\ SpaceAt(e) = s - cursor /\ NulAt(e) = n - cursor /\ Long(e) = z - cursor
  <2>1. SpaceAt(e) = Len(e.mode) + 1 /\ NulAt(e) = Len(e.mode) + Len(e.name) + 2
        /\ Long(e) = Len(e.mode) + Len(e.name) + 2 + HashLength
    BY DEF SpaceAt, NulAt, Long
  <2>2. s = cursor + (Len(e.mode) + 1) /\ n = cursor + (Len(e.mode) + Len(e.name) + 2)
    BY <1>3, <2>1
  <2>3. Len(e.mode) = s - 1 - cursor
    BY <1>1, <1>6, <2>2
  <2>4. Len(e.name) = n - 1 - s
    <3> DEFINE M == Len(e.mode)
               N == Len(e.name)
    <3>1. M \in Nat /\ N \in Nat /\ s = cursor + (M + 1) /\ n = cursor + (M + N + 2)
      BY <1>6, <2>2
    <3> HIDE DEF M, N
    <3>2. N = n - 1 - s
      BY <1>1, <3>1
    <3>3. QED
      BY <3>2 DEF N
  <2>5. QED
    BY <1>1, <2>1, <2>3, <2>4
<1>8. SpaceAt(c) = s - cursor /\ NulAt(c) = n - cursor /\ Long(c) = z - cursor
  BY <1>1, <1>5 DEF SpaceAt, NulAt, Long
<1>9. \A k \in 1 .. z - cursor : WriteEntry(c)[k] = WriteEntry(e)[k]
  <2>1. \A i \in cursor + 1 .. z : body[i] \in Int
    BY <1>1
  <2>2. \A i \in 1 .. z - (cursor + 1) + 1 : WriteEntry(c)[i] = body[(cursor + 1) + i - 1]
    BY <1>1, <1>4, <2>1, SubSeqProperties
  <2>3. \A k \in 1 .. z - cursor : (cursor + 1) + k - 1 = cursor + k
                                   /\ k \in 1 .. z - (cursor + 1) + 1
    BY <1>1
  <2>4. QED
    BY <1>2, <1>7, <2>2, <2>3
<1>10. /\ \A k \in 1 .. s - 1 - cursor :
            WriteEntry(c)[k] = c.mode[k] /\ WriteEntry(e)[k] = e.mode[k]
       /\ \A k \in 1 .. n - 1 - s : /\ WriteEntry(c)[(s - cursor) + k] = c.name[k]
                                    /\ WriteEntry(e)[(s - cursor) + k] = e.name[k]
       /\ \A k \in 1 .. HashLength :
            /\ WriteEntry(c)[(n - cursor) + k] = HexToBytes(c.hash_hex)[k]
            /\ WriteEntry(e)[(n - cursor) + k] = HexToBytes(e.hash_hex)[k]
  <2>1. /\ \A k \in 1 .. s - 1 - cursor : WriteEntry(c)[k] = c.mode[k]
        /\ \A k \in 1 .. n - 1 - s : WriteEntry(c)[(s - cursor) + k] = c.name[k]
        /\ \A k \in 1 .. HashLength :
             WriteEntry(c)[(n - cursor) + k] = HexToBytes(c.hash_hex)[k]
    BY <1>5, <1>8, EntryLayout
  <2>2. /\ \A k \in 1 .. s - 1 - cursor : WriteEntry(e)[k] = e.mode[k]
        /\ \A k \in 1 .. n - 1 - s : WriteEntry(e)[(s - cursor) + k] = e.name[k]
        /\ \A k \in 1 .. HashLength :
             WriteEntry(e)[(n - cursor) + k] = HexToBytes(e.hash_hex)[k]
    BY <1>2, <1>7, EntryLayout
  <2>3. QED
    BY <2>1, <2>2
<1>11. c.mode = e.mode
  <2>1. \A k \in 1 .. s - 1 - cursor : k \in 1 .. z - cursor
    BY <1>1, <1>4
  <2>2. \A k \in 1 .. Len(c.mode) : c.mode[k] = e.mode[k]
    BY <1>5, <1>9, <1>10, <2>1
  <2>3. QED
    BY <1>5, <1>6, <1>7, <2>2, SeqEqual
<1>12. c.name = e.name
  <2>1. \A k \in 1 .. n - 1 - s : (s - cursor) + k \in 1 .. z - cursor
    BY <1>1, <1>4
  <2>2. \A k \in 1 .. Len(c.name) : c.name[k] = e.name[k]
    BY <1>5, <1>9, <1>10, <2>1
  <2>3. QED
    BY <1>5, <1>6, <1>7, <2>2, SeqEqual
<1>13. c.hash_hex = e.hash_hex
  <2>1. \A k \in 1 .. HashLength : (n - cursor) + k \in 1 .. z - cursor
    BY <1>1, <1>4
  <2>2. \A k \in 1 .. HashLength : HexToBytes(c.hash_hex)[k] = HexToBytes(e.hash_hex)[k]
    BY <1>9, <1>10, <2>1
  <2>3. HexToBytes(c.hash_hex) = HexToBytes(e.hash_hex)
    BY <1>6, <2>2, SeqEqual
  <2>4. e.hash_hex = HashToHex(HexToBytes(e.hash_hex))
    BY <1>2 DEF WellFormed
  <2>5. QED
    BY <1>5, <2>3, <2>4
<1>14. c \in Entry /\ e \in Entry
  BY <1>2, <1>5 DEF HashEntry
<1>15. c = e
  BY <1>11, <1>12, <1>13, <1>14 DEF Entry
<1>16. QED
  BY <1>15 DEF c, e

LEMMA TreeStepInv == TreeInv /\ [TreeNext]_treeVars => TreeInv'
<1> SUFFICES ASSUME TreeInv, [TreeNext]_treeVars PROVE TreeInv'
  OBVIOUS
<1>1. /\ TreeTypeOK /\ Len(body) \in Nat /\ cursor \in Nat /\ cursor <= Len(body)
      /\ entries \in Seq(HashEntry) /\ Len(entries) \in Nat /\ HashLength \in Nat
      /\ meant # Unwritten => meant \in List
  BY TreeTypes, TreeConstants DEF TreeInv
<1>2. CASE MissingModeSeparator
  <2>1. /\ outcome' = "tree_format_invalid" /\ UNCHANGED <<body, cursor, entries, meant>>
        /\ cursor < Len(body) /\ Lacks(Space, cursor + 1)
    BY <1>2 DEF MissingModeSeparator, AtEntry
  <2>2. meant = Unwritten
    <3>1. SUFFICES ASSUME meant # Unwritten PROVE FALSE
      OBVIOUS
    <3>2. cursor + SpaceAt(Coming) \in Nat /\ cursor + 1 \in Nat
          /\ Finds(Space, cursor + 1, cursor + SpaceAt(Coming))
      BY <1>1, <2>1, <3>1, NextSeparators
    <3>3. QED
      BY <2>1, <3>2, FindsOne
  <2>3. QED
    BY <2>1, <2>2 DEF TreeInv, TreeTypeOK
<1>3. CASE MissingNameTerminator
  <2>1. /\ outcome' = "tree_format_invalid" /\ UNCHANGED <<body, cursor, entries, meant>>
        /\ cursor < Len(body)
    BY <1>3 DEF MissingNameTerminator, AtEntry
  <2>2. PICK s \in 1 .. Len(body) : Finds(Space, cursor + 1, s) /\ Lacks(Nul, s + 1)
    BY <1>3 DEF MissingNameTerminator
  <2>3. meant = Unwritten
    <3>1. SUFFICES ASSUME meant # Unwritten PROVE FALSE
      OBVIOUS
    <3>2. /\ cursor + SpaceAt(Coming) \in Nat /\ cursor + 1 \in Nat /\ s \in Nat /\ s + 1 \in Nat
          /\ cursor + NulAt(Coming) \in Nat
          /\ Finds(Space, cursor + 1, cursor + SpaceAt(Coming))
          /\ Finds(Nul, cursor + SpaceAt(Coming) + 1, cursor + NulAt(Coming))
      <4>1. /\ cursor + SpaceAt(Coming) \in 1 .. Len(body)
            /\ cursor + NulAt(Coming) \in 1 .. Len(body)
            /\ Finds(Space, cursor + 1, cursor + SpaceAt(Coming))
            /\ Finds(Nul, cursor + SpaceAt(Coming) + 1, cursor + NulAt(Coming))
        BY <2>1, <3>1, NextSeparators
      <4>2. cursor + 1 \in Nat /\ s \in Nat /\ s + 1 \in Nat
        BY <1>1
      <4>3. QED
        BY <1>1, <4>1, <4>2
    <3>3. s = cursor + SpaceAt(Coming)
      BY <2>2, <3>2, FindsOne
    <3>4. Finds(Nul, s + 1, cursor + NulAt(Coming))
      BY <3>2, <3>3
    <3>5. QED
      BY <2>2, <3>2, <3>4, FindsOne
  <2>4. QED
    BY <2>1, <2>3 DEF TreeInv, TreeTypeOK
<1>4. CASE TruncatedHash
  <2>1. /\ outcome' = "tree_format_invalid" /\ UNCHANGED <<body, cursor, entries, meant>>
        /\ cursor < Len(body)
    BY <1>4 DEF TruncatedHash, AtEntry
  <2>2. PICK s \in 1 .. Len(body), n \in 1 .. Len(body) :
               /\ Finds(Space, cursor + 1, s) /\ Finds(Nul, s + 1, n)
               /\ n + HashLength > Len(body)
    BY <1>4 DEF TruncatedHash
  <2>3. meant = Unwritten
    <3>1. SUFFICES ASSUME meant # Unwritten PROVE FALSE
      OBVIOUS
    <3>2. /\ cursor + SpaceAt(Coming) \in Nat /\ cursor + 1 \in Nat /\ s \in Nat /\ s + 1 \in Nat
          /\ cursor + NulAt(Coming) \in Nat /\ n \in Nat
          /\ Finds(Space, cursor + 1, cursor + SpaceAt(Coming))
          /\ Finds(Nul, cursor + SpaceAt(Coming) + 1, cursor + NulAt(Coming))
          /\ cursor + NulAt(Coming) + HashLength <= Len(body)
      <4>1. /\ cursor + SpaceAt(Coming) \in 1 .. Len(body)
            /\ cursor + NulAt(Coming) \in 1 .. Len(body)
            /\ Finds(Space, cursor + 1, cursor + SpaceAt(Coming))
            /\ Finds(Nul, cursor + SpaceAt(Coming) + 1, cursor + NulAt(Coming))
            /\ cursor + NulAt(Coming) + HashLength <= Len(body)
        BY <2>1, <3>1, NextSeparators
      <4>2. cursor + 1 \in Nat /\ s \in Nat /\ s + 1 \in Nat /\ n \in Nat
        BY <1>1
      <4>3. QED
        BY <1>1, <4>1, <4>2
    <3>3. s = cursor + SpaceAt(Coming)
      BY <2>2, <3>2, FindsOne
    <3>4. Finds(Nul, s + 1, cursor + NulAt(Coming))
      BY <3>2, <3>3
    <3>5. n = cursor + NulAt(Coming)
      BY <2>2, <3>2, <3>4, FindsOne
    <3>6. QED
      BY <1>1, <2>2, <3>2, <3>5
  <2>4. QED
    BY <2>1, <2>3 DEF TreeInv, TreeTypeOK
<1>5. CASE EntryRead
  <2>1. cursor < Len(body) /\ outcome = "reading" /\ UNCHANGED <<body, outcome, meant>>
    BY <1>5 DEF EntryRead, AtEntry
  <2>2. PICK s \in 1 .. Len(body), n \in 1 .. Len(body) :
               /\ Finds(Space, cursor + 1, s) /\ Finds(Nul, s + 1, n)
               /\ n + HashLength <= Len(body)
               /\ entries' = Append(entries, Cut(s, n))
               /\ cursor' = n + HashLength
    BY <1>5 DEF EntryRead, Cut
  <2> DEFINE e == Cut(s, n)
             z == n + HashLength
  <2>3. /\ cursor < s /\ s < n /\ WriteEntry(e) = SubSeq(body, cursor + 1, z)
    BY <1>1, <2>2, CutWritten
  <2>4. e \in HashEntry /\ e \in Entry /\ Len(e.hash_hex) = 2 * HashLength
    BY <1>1, <2>2, <2>3, CutType
  <2>5. s \in Nat /\ n \in Nat /\ z \in Nat /\ z <= Len(body) /\ cursor <= z /\ cursor' = z
    BY <1>1, <2>2, <2>3
  <2> HIDE DEF e, z
  <2>6. TreeTypeOK'
    <3>1. entries \in Seq(Entry) /\ \A i \in 1 .. Len(entries) :
                                      Len(entries[i].hash_hex) = 2 * HashLength
      BY <1>1 DEF TreeTypeOK
    <3>2. entries' = Append(entries, e)
      BY <2>2 DEF e
    <3>3. /\ entries' \in Seq(Entry) /\ Len(entries') = Len(entries) + 1
          /\ \A i \in 1 .. Len(entries) : entries'[i] = entries[i]
          /\ entries'[Len(entries) + 1] = e
      BY <2>4, <3>1, <3>2, AppendProperties
    <3>4. \A i \in 1 .. Len(entries') : Len(entries'[i].hash_hex) = 2 * HashLength
      <4> TAKE i \in 1 .. Len(entries')
      <4>1. i \in 1 .. Len(entries) \/ i = Len(entries) + 1
        BY <1>1, <3>3
      <4>2. QED
        BY <2>4, <3>1, <3>3, <4>1
    <3>5. cursor' \in 0 .. Len(body')
      BY <1>1, <2>1, <2>5
    <3>6. QED
      BY <1>1, <2>1, <3>3, <3>4, <3>5 DEF TreeTypeOK
  <2>7. WriteEntries(entries') = SubSeq(body', 1, cursor')
    <3>1. WriteEntries(entries') = WriteEntries(entries) \o WriteEntry(e)
      BY <1>1, <2>2, <2>4, WriteOneMore DEF e
    <3>2. WriteEntries(entries) = SubSeq(body, 1, cursor)
      BY DEF TreeInv
    <3>3. body \in Seq(Octet) /\ 1 \in 1 .. Len(body) + 1 /\ cursor \in 0 .. Len(body)
          /\ z \in cursor .. Len(body) /\ 1 - 1 = 0
      BY <1>1, <2>5, TreeTypes
    <3>4. SubSeq(body, 1, cursor) \o SubSeq(body, cursor + 1, z) = SubSeq(body, 1, z)
      BY <3>3, ConcatAdjacentSubSeq
    <3>5. QED
      BY <2>1, <2>3, <2>5, <3>1, <3>2, <3>4
  <2>8. ASSUME meant # Unwritten
        PROVE  Len(entries') <= Len(meant) /\ entries' = First(meant, Len(entries'))
    <3>1. e = Coming
      BY <2>1, <2>2, <2>8, CutIsComing DEF e
    <3>2. /\ Len(entries) < Len(meant)
          /\ Append(entries, Coming) = First(meant, Len(entries) + 1)
      BY <2>1, <2>8, NextEntry
    <3>3. entries' = Append(entries, Coming) /\ Len(entries') = Len(entries) + 1
      BY <1>1, <2>2, <3>1 DEF e
    <3>4. Len(meant) \in Nat
      BY <1>1, <2>8, ListType
    <3>5. QED
      BY <1>1, <3>2, <3>3, <3>4
  <2>9. meant # Unwritten => body = WriteEntries(meant)
    BY DEF TreeInv
  <2>10. QED
    BY <2>1, <2>6, <2>7, <2>8, <2>9 DEF TreeInv
<1>6. CASE TreeRead
  <2>1. outcome' = "ok" /\ cursor >= Len(body) /\ UNCHANGED <<body, cursor, entries, meant>>
    BY <1>6 DEF TreeRead
  <2>2. cursor = Len(body)
    BY <1>1, <2>1
  <2>3. meant # Unwritten => entries = meant
    <3>1. SUFFICES ASSUME meant # Unwritten, entries # meant PROVE FALSE
      OBVIOUS
    <3>2. meant \in Seq(HashEntry) /\ Len(meant) \in Nat /\ Len(entries) <= Len(meant)
          /\ entries = First(meant, Len(entries)) /\ body = WriteEntries(meant)
          /\ WriteEntries(entries) = SubSeq(body, 1, cursor)
      BY <1>1, <3>1, ListType DEF TreeInv
    <3>3. Len(entries) # Len(meant)
      BY <3>1, <3>2, SubSeqFull DEF First
    <3>4. Len(entries) \in 0 .. Len(meant) - 1 /\ Len(entries) + 1 \in 0 .. Len(meant)
          /\ Len(entries) + 1 \in 1 .. Len(meant) /\ Len(entries) \in 0 .. Len(meant)
      BY <1>1, <3>2, <3>3
    <3>5. meant[Len(entries) + 1] \in HashEntry
      BY <3>2, <3>4
    <3> DEFINE w == WriteEntries(entries)
               e == WriteEntry(meant[Len(entries) + 1])
    <3>6. Starts(w \o e, body)
      BY <3>2, <3>4, WriteFirst, WriteStarts
    <3>7. e \in Seq(Int) /\ Len(e) >= 2 /\ Len(e) \in Nat
      <4>1. /\ e \in Seq(Int) /\ Len(e) = Long(meant[Len(entries) + 1])
            /\ Len(meant[Len(entries) + 1].mode) \in Nat
            /\ Len(meant[Len(entries) + 1].name) \in Nat
        BY <3>5, EntryLayout, EntryType
      <4>2. \A x : Long(x) = Len(x.mode) + Len(x.name) + 2 + HashLength
        BY DEF Long
      <4>3. \A i, j \in Nat : i + j + 2 + HashLength \in Nat /\ i + j + 2 + HashLength >= 2
        BY <1>1
      <4> HIDE DEF e
      <4>4. Len(e) \in Nat /\ Len(e) >= 2
        BY <4>1, <4>2, <4>3
      <4>5. QED
        BY <4>1, <4>4
    <3>8. w \in Seq(Int)
      BY <1>1, WriteEntriesType
    <3>9. Len(w) = Len(body)
      <4>1. body \in Seq(Int)
        BY <1>1, TreeTypes
      <4>2. w = body
        BY <2>2, <3>2, <4>1, SubSeqFull
      <4>3. QED
        BY <4>2
    <3> HIDE DEF w, e
    <3>10. Len(w \o e) = Len(w) + Len(e)
      BY <3>7, <3>8, ConcatParts
    <3>11. QED
      BY <1>1, <3>6, <3>7, <3>9, <3>10 DEF Starts
  <2>4. TreeTypeOK'
    BY <1>1, <2>1, <2>2 DEF TreeTypeOK
  <2>5. QED
    BY <2>1, <2>3, <2>4 DEF TreeInv
<1>7. CASE UNCHANGED treeVars
  BY <1>7 DEF treeVars, TreeInv, TreeTypeOK
<1>8. QED
  BY <1>2, <1>3, <1>4, <1>5, <1>6, <1>7 DEF TreeNext

(* The reader of a tree keeps its types. *)
THEOREM TreeTypesHold == TreeSpec => []TreeTypeOK
<1>1. TreeInv => TreeTypeOK
  BY DEF TreeInv
<1>2. QED
  BY <1>1, TreeInitInv, TreeStepInv, PTL DEF TreeSpec

(* A tree is read back as it was written, and no string otherwise. *)
THEOREM TreesAreReadHolds == TreeSpec => []TreesAreRead
<1>1. TreeInv => TreesAreRead
  BY DEF TreeInv, TreesAreRead, TreeTypeOK
<1>2. QED
  BY <1>1, TreeInitInv, TreeStepInv, PTL DEF TreeSpec
===============================================================================
