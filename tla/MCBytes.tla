------------------------------- MODULE MCBytes --------------------------------
(* Small instances of VarInt and TreeFormat: in each behaviour one of them *)
(* reads a string, the other has read one of its own.                      *)
EXTENDS VarInt, TreeFormat

CONSTANT MaxLen, MaxTree  \* bounds: the longest strings

MCInput == BoundedSeq(0 .. 2 * Pow2[Group] - 1, MaxLen)

MCBytes == {Nul, Space, 175}
MCHashes == {HashToHex(b) : b \in [1 .. HashLength -> MCBytes]}
MCEntries == [mode : {<<49>>, <<49, 52>>}, name : {<<Space>>, <<175, 97>>}, hash_hex : MCHashes]
MCLists == BoundedSeq(MCEntries, 2)
MCRaw   == BoundedSeq(MCBytes, MaxTree)

NoNumber == input = <<0>> /\ position = 1 /\ value = 0 /\ shift = 0 /\ status = "ok"
NoTree   == /\ body = << >> /\ cursor = 0 /\ entries = << >>
            /\ outcome = "ok" /\ meant = << >>

MCInit ==
  \/ VarIntInit /\ NoTree
  \/ TreeInit /\ NoNumber
MCNext ==
  \/ VarIntNext /\ UNCHANGED treeVars
  \/ TreeNext /\ UNCHANGED varIntVars
MCSpec == MCInit /\ [][MCNext]_<<varIntVars, treeVars>>
=============================================================================
