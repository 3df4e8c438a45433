----------------------------- MODULE ObjectGraph -----------------------------
(***************************************************************************)
(* What the memory manager promises the virtual machine: a graph of        *)
(* objects held by roots.  The program allocates, reads and writes         *)
(* references; an object it can no longer reach is gone.  Collection,      *)
(* compaction and the failure of an allocation do not change the graph.    *)
(***************************************************************************)
EXTENDS Integers, FiniteSets

CONSTANTS Roots, Ids, Lengths, NoId

VARIABLES root,   \* [Roots -> object held or NoId]
          graph   \* the reachable objects: [their ids -> [len, ref]]

vars == <<root, graph>>

\* The objects of g reachable when the roots are r.
Reachable(r, g) ==
    LET reach[n \in Nat] ==
          IF n = 0 THEN {r[x] : x \in Roots} \ {NoId}
          ELSE UNION {{o, g[o].ref} \ {NoId} : o \in reach[n - 1]}
    IN  reach[Cardinality(DOMAIN g)]

Init == root = [r \in Roots |-> NoId] /\ graph = << >>

\* One step of the program, from the roots R and the objects G to R2 and G2, where
\* what is out of reach is forgotten.
Step(R, G, R2, G2) ==
    LET Become(r, g) == R2 = r /\ G2 = [o \in Reachable(r, g) |-> g[o]] IN
    \E r \in Roots :
      \/ \* a new object, held by r
         \E o \in Ids \ DOMAIN G, len \in Lengths :
            Become([R EXCEPT ![r] = o],
                   [x \in DOMAIN G \cup {o} |->
                       IF x = o THEN [len |-> len, ref |-> NoId] ELSE G[x]])
      \/ \* r forgets what it held
         Become([R EXCEPT ![r] = NoId], G)
      \/ \E q \in Roots :
            \/ \* r holds what q holds
               Become([R EXCEPT ![r] = R[q]], G)
            \/ \* r reads the reference of the object q holds
               R[q] # NoId /\ Become([R EXCEPT ![r] = G[R[q]].ref], G)
            \/ \* the object q holds refers to the one r holds
               R[q] # NoId /\ Become(R, [G EXCEPT ![R[q]].ref = R[r]])

Next == LET R == root
            G == graph
        IN  \E R2 \in {root'}, G2 \in {graph'} : Step(R, G, R2, G2)

Spec == Init /\ [][Next]_vars
=============================================================================
