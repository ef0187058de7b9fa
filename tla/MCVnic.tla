------------------------------- MODULE MCVnic -------------------------------
(* Model checking VnicModules with TLC. *)
EXTENDS VnicModules, TLC

\* Skbs are interchangeable.
VnicSymmetry == Permutations(Skb)
=============================================================================
