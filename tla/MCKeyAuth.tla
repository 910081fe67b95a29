------------------------------ MODULE MCKeyAuth -----------------------------
(* KeyAuth for TLC: all keys collide in their last four characters, which   *)
(* makes them interchangeable.                                              *)
EXTENDS KeyAuth, TLC

MCSlot == [k \in Keys |-> CHOOSE s \in Slots : TRUE]

Symmetry == Permutations(Requests) \cup Permutations(Keys)
=============================================================================
