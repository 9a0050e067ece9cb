-------------------------------- MODULE VarInt --------------------------------
(***************************************************************************)
(* ReadDeltaVarInt (git_pack.cpp): the sizes at the head of a delta are    *)
(* numbers cut into groups of bits, the lowest first, one group in a byte  *)
(* whose highest bit says whether another follows.  The loop collects them *)
(* in an unsigned integer of a fixed width.                                *)
(***************************************************************************)
EXTENDS Powers, Sequences

CONSTANTS
  Group,  \* how many bits of the number a byte holds: 7
  Width,  \* the width of the integer: 64
  Input   \* the byte strings that may be read

ASSUME VarIntAssumption ==
  /\ Group \in Nat \ {0} /\ Width \in Nat \ {0}
  /\ \A s \in Input : s \in Seq(0 .. 2 * Pow2[Group] - 1)

VARIABLES
  input,     \* the string read
  position,  \* how many of its bytes were read
  value,     \* the bits collected
  shift,     \* where the next group goes
  status     \* "reading", "ok" or the error

varIntVars == <<input, position, value, shift, status>>

Byte == input[position + 1]

Payload(b)   == b % Pow2[Group]
Continues(b) == (b \div Pow2[Group]) % 2 = 1

(* Mutated form of Collected: a group lands one bit too high, whatever the width. *)
CollectedHigh == value + Payload(Byte) * Pow2[shift + 1]

(* value |= payload << shift: the bits above the width are lost. *)
Collected == value + ((Payload(Byte) * Pow2[shift]) % Pow2[Width])

VarIntTypeOK ==
  /\ input \in Input
  /\ position \in 0 .. Len(input)
  /\ value \in 0 .. Pow2[Width] - 1
  /\ shift \in 0 .. Width - 1 + Group
  /\ status \in {"reading", "ok", "pack_delta_invalid"}

VarIntStart == position = 0 /\ value = 0 /\ shift = 0 /\ status = "reading"
VarIntInit  == input \in Input /\ VarIntStart

-----------------------------------------------------------------------------
(* Mutated form of VarIntMore: the group of the highest bit is refused. *)
VarIntMoreStrict ==
  /\ position < Len(input) /\ Continues(Byte)
  /\ position' = position + 1
  /\ value' = Collected
  /\ shift' = shift + Group
  /\ status' = IF shift' >= Width - 1 THEN "pack_delta_invalid" ELSE status
  /\ UNCHANGED input

(* "Unexpected end of delta stream" *)
VarIntEnds ==
  /\ position >= Len(input)
  /\ status' = "pack_delta_invalid"
  /\ UNCHANGED <<input, position, value, shift>>

VarIntMore ==
  /\ position < Len(input) /\ Continues(Byte)
  /\ position' = position + 1
  /\ value' = Collected
  /\ shift' = shift + Group
  /\ status' = IF shift' > Width - 1 THEN "pack_delta_invalid" ELSE status
  /\ UNCHANGED input

VarIntLast ==
  /\ position < Len(input) /\ ~Continues(Byte)
  /\ position' = position + 1
  /\ value' = Collected
  /\ status' = "ok"
  /\ UNCHANGED <<input, shift>>

VarIntNext ==
  /\ status = "reading"
  /\ VarIntEnds \/ VarIntMore \/ VarIntLast

VarIntSpec == VarIntInit /\ [][VarIntNext]_varIntVars

-----------------------------------------------------------------------------
(* What the first n bytes of s say, of whatever size. *)
Said(s, n) ==
  LET sum[i \in 0 .. n] ==
        IF i = 0 THEN 0 ELSE sum[i - 1] + Payload(s[i]) * Pow2[Group * (i - 1)]
  IN sum[n]

(* The number at the head of s is complete after n bytes. *)
EndsAt(s, n) ==
  /\ n \in 1 .. Len(s)
  /\ ~Continues(s[n])
  /\ \A i \in 1 .. n - 1 : Continues(s[i])

(***************************************************************************)
(* Every number of the width is read, exactly and to its last byte, when   *)
(* it is written in no more groups than the width takes; a string is       *)
(* refused only when it ends early or goes on for longer than that; and a  *)
(* number too large for the width that is let through all the same has     *)
(* lost the bits above the width and none of the others: "Delta varint is  *)
(* too large" (git_pack.cpp) is said of too many groups, not of the value. *)
(***************************************************************************)
Groups == (Width + Group - 1) \div Group

NumbersAreRead ==
  status # "reading" =>
    /\ \A n \in 1 .. Groups :
         EndsAt(input, n) /\ Said(input, n) < Pow2[Width]
           => status = "ok" /\ value = Said(input, n) /\ position = n
    /\ status # "ok" => \A n \in 1 .. Groups : ~EndsAt(input, n)
    /\ status = "ok" => value = Said(input, position) % Pow2[Width]
=============================================================================
