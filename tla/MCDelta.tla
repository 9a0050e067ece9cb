-------------------------------- MODULE MCDelta -------------------------------
(* Small instances of Delta: programs of at most two instructions, and all *)
(* strings of some bytes after a fitting pair of sizes.                    *)
EXTENDS Delta

CONSTANT MaxLen  \* bound: the longest string no writer wrote

InsertBytes(bs) == [copy |-> FALSE, bytes |-> bs]
CopyAs(o, n, w) == [copy |-> TRUE, offset |-> o, size |-> n, written |-> w]

MCWritten == {<<>>, <<0, 1, 4, 5>>, <<3, 4>>, <<3>>, <<6>>, <<3, 6>>, <<0, 1, 2, 3, 4, 5, 6>>}

MCCopies ==
  {i \in {CopyAs(o, n, w) : o \in {0, 258, 2^24}, n \in {1, 513, 65536},
                            w \in MCWritten} :
     Writable(i)}

MCInstructions == MCCopies \cup {InsertBytes(<<0>>), InsertBytes(<<129, 1>>)}
MCLists == BoundedSeq(MCInstructions, 2)

MCBaseSize == {3, 70000, 2^24 + 65536}
MCProgram ==
  {[base |-> b, result |-> Total(l) + x, instructions |-> l] :
     b \in MCBaseSize, x \in {0, 1}, l \in MCLists}

(* Sizes that are cut short, too long, or no string can have; opcodes. *)
MCRaw == {<<>>, <<3>>, <<3, 131>>, <<128, 128, 128, 128, 128, 0>>, <<3, 255, 255, 127>>}
         \cup {<<3, 2>> \o s : s \in BoundedSeq({0, 1, 2, 128, 129, 144, 145}, MaxLen)}
=============================================================================
