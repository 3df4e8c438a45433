------------------------------ MODULE GcHeapMC ------------------------------
(* Instances of GcHeap for TLC. *)
EXTENDS GcHeap, TLC

CONSTANTS o1, o2, o3, r1, r2

ThreeIds == {o1, o2, o3}
TwoRoots == {r1, r2}
OnePinned == {o1}
None == {}
UpToTwo == {1, 2}
Units == {1}

RenamingUnpinned == Permutations({o2, o3}) \cup Permutations(TwoRoots)
Renaming == Permutations(ThreeIds) \cup Permutations(TwoRoots)
=============================================================================
