----------------------------- MODULE GcPinnedMC -----------------------------
(* An instance of GcHeap with two objects that may be pinned and two that may not. *)
EXTENDS GcHeapMC

CONSTANTS o4, r3

FourIds == {o1, o2, o3, o4}
ThreeRoots == {r1, r2, r3}
TwoPinned == {o1, o2}

RenamingTwo ==
    Permutations(TwoPinned) \cup Permutations({o3, o4}) \cup Permutations(ThreeRoots)

\* Objects that refer to nothing are enough to lay out blocks.
NoReferences == \A a \in Objects(heap) : heap.mem[a].ref = NULL
=============================================================================
