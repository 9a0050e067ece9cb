-------------------------------- MODULE MCInit ---------------------------------
(* Small instances of InitRepository: a directory, one in it and one in that. *)
EXTENDS InitRepository, TLC

CONSTANTS p1, p2, top, mid, low

MCDir   == {top, mid, low}
MCAbove == (low :> mid) @@ (mid :> top) @@ (top :> None)
=============================================================================
