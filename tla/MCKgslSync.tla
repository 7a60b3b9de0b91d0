----------------------------- MODULE MCKgslSync -----------------------------
(* Instances of KgslSync for TLC. *)
EXTENDS KgslSync, TLC

Symmetry == Permutations(Threads) \cup Permutations(Fences)
=============================================================================
