------------------------------ MODULE ObjectsMC ------------------------------
(* Instances of Objects for TLC. *)
EXTENDS Objects, TLC

CONSTANTS n1, n2, n3, v, t1, t2, t3, o1, o2

ThreeTables == {t1, t2, t3}
TwoObjects == {o1, o2}
Renaming == Permutations(ThreeTables) \cup Permutations(TwoObjects)

\* n2 and n3 collide in every table, and beyond its end where it has four slots.
Hashes == n1 :> 0 @@ n2 :> 3 @@ n3 :> 3

\* A read-only value, and what is both value and accessor; a getter without setter.
Defining ==
    n1 :> {[configurable |-> FALSE, writeable |-> FALSE, value |-> NULL, get |-> FALSE, set |-> FALSE],
           [configurable |-> TRUE, writeable |-> TRUE, value |-> v, get |-> FALSE, set |-> TRUE]}
 @@ n2 :> {[configurable |-> TRUE, writeable |-> FALSE, value |-> NULL, get |-> TRUE, set |-> FALSE]}
 @@ n3 :> {}

\* Explores up to three properties, not counting copies under way.
FewProperties == Cardinality({<<o, i>> \in Obj \X (0 .. MaxCapacity - 1) :
                                  body[o] # NULL /\ i \in Used(tables[body[o]])}) <= 3
=============================================================================
