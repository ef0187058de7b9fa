----------------------------- MODULE MCLoopback -----------------------------
(* Definitions for model checking Loopback with TLC. *)
EXTENDS Loopback, TLC

\* Skbs are interchangeable.  Used for safety only.
SkbSymmetry == Permutations(Skb)
=============================================================================
