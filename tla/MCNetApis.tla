----------------------------- MODULE MCNetApis ------------------------------
(* Definitions for model checking NetApis with TLC. *)
EXTENDS NetApis, FiniteSets, TLC

\* Addresses, names, interfaces and processes are interchangeable.
Symmetric ==
  Permutations(Cfg) \cup Permutations(Name) \cup Permutations(If)
    \cup Permutations(Proc)

\* Bound: at most two processes are in the middle of a call at once, the
\* others at their menu.
TwoAtOnce == Cardinality({ p \in Proc : pc[p] # "menu" }) <= 2
=============================================================================
