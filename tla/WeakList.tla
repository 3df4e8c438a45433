------------------------------- MODULE WeakList -------------------------------
(***************************************************************************)
(* Weak references (weak.c): objects that name a target without keeping it *)
(* alive.  They are linked in a list from core->weak, which the collector  *)
(* walks after the mark phase (pinta_gc_clear_weak, gc.c) to clear the     *)
(* targets about to be swept.                                              *)
(*                                                                         *)
(* Every object is one cell here: GcHeap models lengths and free lists.    *)
(* The assertions of the code are properties: the release build has none.  *)
(***************************************************************************)
(* A definition named Mutant... is a plausible bug in the one it is named after.  *)
EXTENDS Integers, FiniteSets

CONSTANTS Size,    \* cells of the heap
          Roots,   \* reference slots of the program
          Ids      \* identities of objects: ghosts, absent from the C

VARIABLES cell,   \* the heap
          root,   \* [Roots -> Ref]
          weak    \* core->weak.reference, the head of the list

vars == <<cell, root, weak>>

NULL == 0
Cells == 1 .. Size
Ref == Cells \cup {NULL}
NoId == "none"

ASSUME WeakListAssumption == Size \in Nat /\ Size > 0 /\ NoId \notin Ids

Free == [kind |-> "free", id |-> NoId, target |-> NULL, next |-> NULL]

Init == /\ cell = [a \in Cells |-> Free]
        /\ root = [r \in Roots |-> NULL]
        /\ weak = NULL

IsWeak(a) == a \in Cells /\ cell[a].kind = "weak"
Allocated == {a \in Cells : cell[a].kind # "free"}

\* The k-th reference of the list, counted from 0.
Listed(k) == LET next == [a \in Ref |-> IF a = NULL THEN NULL ELSE cell[a].next]
                 at[n \in Nat] == IF n = 0 THEN weak ELSE next[at[n - 1]]
             IN  at[k]
List == {Listed(k) : k \in 0 .. Size} \ {NULL}

-----------------------------------------------------------------------------
(* The program *)

New(r, id, block, head) ==
    \E a \in Cells \ Allocated :
        /\ \A b \in Allocated : cell[b].id # id
        /\ cell' = [cell EXCEPT ![a] = [block EXCEPT !.id = id]]
        /\ root' = [root EXCEPT ![r] = a]
        /\ weak' = IF head THEN a ELSE weak

AllocObject(r, id) == New(r, id, [Free EXCEPT !.kind = "object"], FALSE)

MutantAllocWeak(r, id, target) ==   \* linked to nothing
    New(r, id, [Free EXCEPT !.kind = "weak", !.target = target], TRUE)
\* pinta_weak_alloc_object_value: the new reference heads the list.
AllocWeak(r, id, target) ==
    New(r, id, [Free EXCEPT !.kind = "weak", !.target = target, !.next = weak], TRUE)

Drop(r) == root[r] # NULL /\ root' = [root EXCEPT ![r] = NULL] /\ UNCHANGED <<cell, weak>>

\* pinta_lib_weak_set_target, pinta_lib_weak_get_target
SetTarget(r, target) ==
    /\ IsWeak(root[r])
    /\ cell' = [cell EXCEPT ![root[r]].target = target]
    /\ UNCHANGED <<root, weak>>
GetTarget(r, q) ==
    /\ IsWeak(root[r])
    /\ root' = [root EXCEPT ![q] = cell[root[r]].target]
    /\ UNCHANGED <<cell, weak>>

-----------------------------------------------------------------------------
(* The collector: mark, clear the weak references, sweep, and perhaps compact *)

Marked == {root[r] : r \in Roots} \ {NULL}
MarkedAt(k) == Listed(k) \in Marked
MarkedList == {k \in 0 .. Size : MarkedAt(k)}

MutantCleared(b) == b
\* The target of a marked reference, unless it is about to be swept.
Cleared(b) == IF b \in Marked THEN b ELSE NULL

\* The first marked reference of the list after the k-th.
NextMarked(k) ==
    LET after == {j \in MarkedList : j > k}
    IN  IF after = {} THEN NULL ELSE Listed(CHOOSE j \in after : \A i \in after : j <= i)

\* pinta_gc_clear_weak: what it makes of the cell of a marked reference of the list, and
\* where it leaves the head: at the last marked one.
ClearWeak(a) ==
    IF ~\E k \in MarkedList : Listed(k) = a THEN cell[a]
    ELSE LET k == CHOOSE k \in MarkedList : Listed(k) = a
         IN  [cell[a] EXCEPT !.target = Cleared(@), !.next = NextMarked(k)]

Head == IF MarkedList = {} THEN weak
        ELSE Listed(CHOOSE k \in MarkedList : \A j \in MarkedList : j <= k)

\* Where what is at a ends up: compaction closes up the marked cells.
Place(a, compact) ==
    IF compact /\ a \in Marked THEN Cardinality({b \in Marked : b <= a}) ELSE a

\* pinta_weak_relocate
Relocated(c, compact) ==
    [c EXCEPT !.target = Place(@, compact), !.next = Place(@, compact)]

\* pinta_core_gc
Collect(compact) ==
    LET from(b) == {a \in Marked : Place(a, compact) = b}
        swept(b) == IF from(b) = {} THEN Free
                    ELSE Relocated(ClearWeak(CHOOSE a \in from(b) : TRUE), compact)
    IN  /\ cell' = [b \in Cells |-> swept(b)]
        /\ root' = [r \in Roots |-> Place(root[r], compact)]
        /\ weak' = Place(Head, compact)

Program ==
    \E r \in Roots :
      \/ Drop(r)
      \/ \E id \in Ids : AllocObject(r, id) \/ \E t \in Marked \cup {NULL} : AllocWeak(r, id, t)
      \/ \E q \in Roots : SetTarget(r, root[q]) \/ GetTarget(r, q)

Next == Program \/ \E compact \in BOOLEAN : Collect(compact)

Spec == Init /\ [][Next]_vars

-----------------------------------------------------------------------------
(* Properties *)

\* Type invariant.
TypeOK ==
    /\ cell \in [Cells -> [kind : {"free", "object", "weak"}, id : Ids \cup {NoId},
                           target : Ref, next : Ref]]
    /\ root \in [Roots -> Ref]
    /\ weak \in Ref

\* "Weak reference collected" (weak_tests.c): a weak reference the program holds has a
\* target that is still there, or none.
TargetsLive == \A r \in Roots : IsWeak(root[r]) => cell[root[r]].target \in Allocated \cup {NULL}

\* "current->block_kind == PINTA_KIND_WEAK" (the assertion of pinta_gc_clear_weak): the
\* list from core->weak is one of weak references.
ListIsWeak == \A a \in List : IsWeak(a)

\* A collection leaves no weak reference of the list the address of what it swept, and
\* leaves it the target it names, wherever either of them moves, if something else holds
\* that target (clear, sweep and relocate together).  One that fell off the list has
\* neither promise.
ListedAreServed ==
    [][\A compact \in BOOLEAN : Collect(compact) =>
         \A a \in List \cap Marked :
            LET b == CHOOSE b \in Cells : cell'[b].id = cell[a].id
            IN  /\ cell'[b].target \in Allocated' \cup {NULL}
                /\ cell[a].target \in Marked =>
                     cell'[cell'[b].target].id = cell[cell[a].target].id]_vars

\* A weak reference the program holds stays on the list through whatever it does; those a
\* collection meets before the last that survives fall off, every one, since core->weak is
\* left at that last one (gc.c:303).
OthersFallOff ==
    [][\A a \in List \cap Marked, b \in Cells :
         cell'[b].id = cell[a].id =>
           (b \notin List' <=> a # Head /\ \E compact \in BOOLEAN : Collect(compact))]_vars

\* The list has an end, so that the loop of pinta_gc_clear_weak does too.
ListEnds == Listed(Size) = NULL

\* The states before the list first breaks, or a target outlives its object: the list is
\* left to start at a swept reference when none of it survives (gc.c:300), and what is moved
\* or allocated there may not be weak, or may lead back to itself.
NotYetBroken == ListIsWeak /\ ListEnds /\ TargetsLive
=============================================================================
