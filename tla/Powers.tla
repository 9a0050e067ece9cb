-------------------------------- MODULE Powers --------------------------------
(* Powers of two, unfolded step by step. *)
EXTENDS Naturals

Pow2[n \in Nat] == IF n = 0 THEN 1 ELSE 2 * Pow2[n - 1]
===============================================================================
