----------------------------- MODULE MCMetering -----------------------------
(* Metering for TLC: requests are interchangeable.                          *)
EXTENDS Metering, TLC

Symmetry == Permutations(Requests)
=============================================================================
