----------------------------- MODULE CallStackMC -----------------------------
(* Instances of CallStack for TLC: two modules, of two functions and one. *)
EXTENDS CallStack

TwoModules == {"main", "lib"}
ThreeFunctions == {"start", "helper", "lib_start"}
ModuleOfFunction(f) == IF f = "lib_start" THEN "lib" ELSE "main"
ZeroToTwo == 0 .. 2
=============================================================================
