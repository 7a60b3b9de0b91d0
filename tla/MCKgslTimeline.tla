--------------------------- MODULE MCKgslTimeline ---------------------------
(* Instances of KgslTimeline for TLC. *)
EXTENDS KgslTimeline, TLC

CONSTANTS d1, d2, p1

\* All threads use one open device instance.
OneDevice == [p \in Threads |-> d1]

\* Thread p1 uses a device instance of its own.
TwoDevices == [p \in Threads |-> IF p = p1 THEN d1 ELSE d2]

\* With one device instance the threads are alike too.
Symmetry == Permutations(Threads) \cup Permutations(Fences)

MemorySymmetry == Permutations(Timelines) \cup Permutations(Fences)
=============================================================================
