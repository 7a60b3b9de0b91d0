---------------------------- MODULE MCKgslEvents ----------------------------
(* Instances of KgslEvents for TLC. *)
EXTENDS KgslEvents, TLC

Symmetry == Permutations(Threads) \cup Permutations(Events)
=============================================================================
