---------------------------- MODULE MCObjectStore ----------------------------
(* Small instances of ObjectStore. *)
EXTENDS ObjectStore, TLC

CONSTANTS p1, p2, p3, big, small

MCProc2 == {p1, p2}
MCProc3 == {p1, p2, p3}
MCSymmetry2 == Permutations(MCProc2)
MCSymmetry3 == Permutations(MCProc3)
=============================================================================
