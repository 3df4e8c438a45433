--------------------------- MODULE NativeMemoryMC ---------------------------
(* Instances of NativeMemory for TLC. *)
EXTENDS NativeMemory

TwoToFour == 2 .. 4
=============================================================================
