------------------------------- MODULE MCPnd --------------------------------
(* Definitions for model checking PndProps with TLC. *)
EXTENDS PndProps, TLC

\* Skbs are interchangeable.  Used for safety and refinement only.
SkbSymmetry == Permutations(Skb)
=============================================================================
