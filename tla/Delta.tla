-------------------------------- MODULE Delta ---------------------------------
(***************************************************************************)
(* ApplyDelta (git_pack.cpp): a delta is two sizes and a list of           *)
(* instructions, each of which appends to the result a piece of the base   *)
(* or bytes that the delta brings along.                                   *)
(*                                                                         *)
(* What the bytes of base and delta are does not matter to which of them   *)
(* go where: of the base there is its size, and of the result the list of  *)
(* the pieces it was put together from.                                    *)
(***************************************************************************)
EXTENDS VarInt, FiniteSets, SequencesExt

CONSTANTS
  BaseSize,  \* the sizes a base may have
  MaxSize,   \* the greatest size of a string
  Program,   \* what the writer of a delta may have meant: see Encode below
  Unknown    \* the meaning of a string that no writer wrote

ASSUME DeltaAssumption ==
  /\ Group = 7   \* the opcodes are bytes of eight bits
  /\ BaseSize \subseteq Nat /\ MaxSize \in Nat
  /\ Unknown \notin Program

VARIABLES
  phase,      \* "base", "result", "instructions" or "done"
  base_size,  \* the size of the base
  declared,   \* the sizes read: those of the base and of the result
  pieces,     \* what was appended
  length,     \* how many bytes that is
  program     \* what the delta means (history variable)

result == <<phase, base_size, declared, pieces, length, program>>
vars   == <<varIntVars, result>>

Phase == {"base", "result", "instructions", "done"}

Copy(offset, size) == [from |-> "base", offset |-> offset, size |-> size]
Insert(offset, size) == [from |-> "delta", offset |-> offset, size |-> size]

Piece == [from : {"base", "delta"}, offset : Nat, size : Nat]

TypeOK ==
  /\ input \in Seq(0 .. 255) /\ position \in 0 .. Len(input)
  /\ value \in 0 .. Pow2[Width] - 1 /\ shift \in 0 .. Width - 1 + Group
  /\ status \in {"reading", "ok", "pack_delta_invalid", "terminated"}
  /\ phase \in Phase
  /\ base_size \in BaseSize
  /\ declared \in [base : 0 .. Pow2[Width] - 1, result : 0 .. Pow2[Width] - 1]
  /\ pieces \in Seq(Piece)
  /\ length \in Nat

(***************************************************************************)
(* The writer's side.  A program has the two sizes and its instructions:   *)
(* bytes to insert, or a copy with the argument bytes it writes out, in    *)
(* order; those it leaves out are zero, or its size is 65536 and has none. *)
(***************************************************************************)
NeededGroups(n) ==
  CHOOSE k \in 1 .. Groups : n < Pow2[Group * k] /\ (k > 1 => n >= Pow2[Group * (k - 1)])

EncodeVarInt(n) ==
  [j \in 1 .. NeededGroups(n) |->
     ((n \div Pow2[Group * (j - 1)]) % Pow2[Group])
       + IF j < NeededGroups(n) THEN Pow2[Group] ELSE 0]

ArgumentOf(i, k) == IF k < 4 THEN (i.offset \div Pow2[8 * k]) % 256
                    ELSE (i.size \div Pow2[8 * (k - 4)]) % 256

Written(i) == {i.written[n] : n \in 1 .. Len(i.written)}
LeftOut(i) == (0 .. 6) \ Written(i)

Writable(i) ==
  /\ \A m, n \in 1 .. Len(i.written) : m < n => i.written[m] < i.written[n]
  /\ i.offset \div Pow2[24] < 256 /\ i.size > 0 /\ i.size \div Pow2[16] < 256
  /\ \A k \in LeftOut(i) \cap 0 .. 3 : ArgumentOf(i, k) = 0
  /\ \/ \A k \in LeftOut(i) \cap 4 .. 6 : ArgumentOf(i, k) = 0
     \/ i.size = 65536 /\ 4 .. 6 \subseteq LeftOut(i)

Flag(i, k) == IF k \in Written(i) THEN Pow2[k] ELSE 0

EncodeCopy(i) ==
  <<128 + Flag(i, 0) + Flag(i, 1) + Flag(i, 2) + Flag(i, 3)
        + Flag(i, 4) + Flag(i, 5) + Flag(i, 6)>>
    \o [n \in 1 .. Len(i.written) |-> ArgumentOf(i, i.written[n])]

EncodeInstruction(i) ==
  IF i.copy THEN EncodeCopy(i) ELSE <<Len(i.bytes)>> \o i.bytes

EncodeInstructions(l) == FlattenSeq([n \in 1 .. Len(l) |-> EncodeInstruction(l[n])])

Encode(g) ==
  EncodeVarInt(g.base) \o EncodeVarInt(g.result) \o EncodeInstructions(g.instructions)

CopyInstruction ==
  {i \in [copy : {TRUE}, offset : Nat, size : Nat, written : Seq(0 .. 6)] : Writable(i)}
InsertInstruction ==
  {i \in [copy : {FALSE}, bytes : Seq(0 .. 255)] : Len(i.bytes) \in 1 .. 127}
Instruction == CopyInstruction \cup InsertInstruction

ASSUME ProgramAssumption ==
  Program \subseteq [base : 0 .. Pow2[Width] - 1, result : 0 .. Pow2[Width] - 1,
                     instructions : Seq(Instruction)]

Init ==
  /\ \/ program = Unknown /\ input \in Input
     \/ program \in Program /\ input = Encode(program)
  /\ VarIntStart
  /\ phase = "base"
  /\ base_size \in BaseSize
  /\ declared = [base |-> 0, result |-> 0]
  /\ pieces = <<>> /\ length = 0

Refuse == status' = "pack_delta_invalid" /\ phase' = "done"

-----------------------------------------------------------------------------
(* The two sizes.                                                          *)

SizeRead ==
  /\ phase \in {"base", "result"} /\ status = "reading"
  /\ VarIntNext
  /\ UNCHANGED result

NextSize ==
  /\ phase = "base" /\ status = "ok"
  /\ declared' = [declared EXCEPT !.base = value]
  /\ phase' = "result"
  /\ value' = 0 /\ shift' = 0 /\ status' = "reading"
  /\ UNCHANGED <<input, position, base_size, pieces, length, program>>

(* A size that no string can have ends the program: reserve() throws. *)
SizesRead ==
  /\ phase = "result" /\ status = "ok"
  /\ declared' = [declared EXCEPT !.result = value]
  /\ \/ declared.base # base_size /\ Refuse
     \/ /\ declared.base = base_size /\ value > MaxSize
        /\ status' = "terminated" /\ phase' = "done"
     \/ /\ declared.base = base_size /\ value <= MaxSize
        /\ phase' = "instructions" /\ status' = "reading"
  /\ UNCHANGED <<input, position, value, shift, base_size, pieces, length, program>>

-----------------------------------------------------------------------------
(* The instructions.                                                       *)

AtInstruction == phase = "instructions" /\ position < Len(input)

Add(piece) ==
  /\ pieces' = Append(pieces, piece)
  /\ length' = length + piece.size
  /\ UNCHANGED <<phase, status>>

Stop == Refuse /\ UNCHANGED <<pieces, length, program>>

(***************************************************************************)
(* A copy names which of its seven argument bytes follow, the others are   *)
(* zero: four of the offset, then three of the size.                       *)
(***************************************************************************)
Present(op) == {k \in 0 .. 6 : (op \div Pow2[k]) % 2 = 1}

Argument(k) ==
  IF k \in Present(Byte)
  THEN input[position + 2 + Cardinality({j \in Present(Byte) : j < k})] ELSE 0

CopyOffset ==
  Argument(0) + Pow2[8] * Argument(1) + Pow2[16] * Argument(2) + Pow2[24] * Argument(3)
SizeField == Argument(4) + Pow2[8] * Argument(5) + Pow2[16] * Argument(6)

(* Mutated forms: a size of zero stays zero; the bound is one too high. *)
CopySizeVerbatim == SizeField

CopySize == IF SizeField = 0 THEN 65536 ELSE SizeField

CopyFitsLoosely  == CopyOffset + CopySize <= base_size + 1

CopyFits == CopyOffset + CopySize <= base_size

CopyPiece ==
  /\ AtInstruction /\ Byte >= 128
  /\ LET next == position + 1 + Cardinality(Present(Byte)) IN
     \/ /\ next > Len(input)
        /\ Stop
        /\ UNCHANGED position
     \/ /\ next <= Len(input)
        /\ position' = next
        /\ IF CopyFits THEN Add(Copy(CopyOffset, CopySize)) ELSE Stop
  /\ UNCHANGED <<input, value, shift, base_size, declared, program>>

(* Mutated form: an insertion may reach past the end of the delta. *)
InsertPieceUnchecked ==
  /\ AtInstruction /\ Byte \in 1 .. 127
  /\ Add(Insert(position + 1, Byte))
  /\ position' = position + 1 + Byte
  /\ UNCHANGED <<input, value, shift, base_size, declared, program>>

InsertPiece ==
  /\ AtInstruction /\ Byte \in 1 .. 127
  /\ \/ /\ position + 1 + Byte > Len(input)
        /\ Stop
        /\ UNCHANGED position
     \/ /\ position + 1 + Byte <= Len(input)
        /\ Add(Insert(position + 1, Byte))
        /\ position' = position + 1 + Byte
  /\ UNCHANGED <<input, value, shift, base_size, declared, program>>

InvalidOpcode ==
  /\ AtInstruction /\ Byte = 0
  /\ Stop
  /\ UNCHANGED <<input, position, value, shift, base_size, declared, program>>

DeltaEnds ==
  /\ phase = "instructions" /\ position >= Len(input)
  /\ phase' = "done"
  /\ status' = IF length # declared.result THEN "pack_delta_invalid" ELSE "ok"
  /\ UNCHANGED <<input, position, value, shift, base_size, declared, pieces, length, program>>

Next ==
  \/ SizeRead \/ NextSize \/ SizesRead
  \/ CopyPiece \/ InsertPiece \/ InvalidOpcode \/ DeltaEnds

Spec == Init /\ [][Next]_vars

-----------------------------------------------------------------------------
Ended == phase = "done" \/ status = "pack_delta_invalid"

Bytes(piece) == SubSeq(input, piece.offset + 1, piece.offset + piece.size)

(* The piece an instruction asks for. *)
Does(piece, i) ==
  IF i.copy THEN piece = Copy(i.offset, i.size)
  ELSE piece.from = "delta" /\ Bytes(piece) = i.bytes

Size(i) == IF i.copy THEN i.size ELSE Len(i.bytes)

Total(l) ==
  LET sum[n \in 0 .. Len(l)] == IF n = 0 THEN 0 ELSE sum[n - 1] + Size(l[n])
  IN sum[Len(l)]

(* What makes a program one for the base at hand. *)
Fits(g) ==
  /\ g.base = base_size
  /\ g.result = Total(g.instructions)
  /\ \A n \in 1 .. Len(g.instructions) :
       LET i == g.instructions[n] IN i.copy => i.offset + i.size <= base_size

(***************************************************************************)
(* A delta does what its writer meant: however the writer chose to spell   *)
(* out its copies, the pieces put together are, in order, those its        *)
(* instructions ask for, with every argument at its place, all of the      *)
(* delta is used, and it is refused only if it is not one for the base.    *)
(***************************************************************************)
DeltaMeansItsProgram ==
  Ended /\ program # Unknown /\ program.result <= MaxSize =>
    IF Fits(program)
    THEN /\ status = "ok" /\ position = Len(input)
         /\ Len(pieces) = Len(program.instructions)
         /\ \A n \in 1 .. Len(pieces) : Does(pieces[n], program.instructions[n])
    ELSE status = "pack_delta_invalid"

(***************************************************************************)
(* Whatever the bytes of the delta are, nothing but bytes of the base and  *)
(* of the delta that were already passed gets into the result, no byte of  *)
(* the delta gets there twice, and the length is kept in step.             *)
(***************************************************************************)
Inserted == {n \in 1 .. Len(pieces) : pieces[n].from = "delta"}

PiecesAreSound ==
  /\ \A n \in 1 .. Len(pieces) :
       pieces[n].offset + pieces[n].size
         <= IF pieces[n].from = "base" THEN base_size ELSE position
  /\ \A m, n \in Inserted : m < n => pieces[m].offset + pieces[m].size < pieces[n].offset
  /\ status = "ok" /\ phase = "done" => length = declared.result /\ declared.base = base_size
=============================================================================
