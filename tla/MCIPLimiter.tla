----------------------------- MODULE MCIPLimiter ----------------------------
(* IPLimiter for TLC: goroutines are interchangeable.                       *)
EXTENDS IPLimiter, TLC

Symmetry == Permutations(Requests)
=============================================================================
