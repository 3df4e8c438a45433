----------------------------- MODULE WeakListMC -----------------------------
(* Instances of WeakList for TLC. *)
EXTENDS WeakList, TLC

CONSTANTS o1, o2, o3, r1, r2, r3

ThreeIds == {o1, o2, o3}
ThreeRoots == {r1, r2, r3}
Renaming == Permutations(ThreeIds) \cup Permutations(ThreeRoots)
=============================================================================
