------------------------------- MODULE GcHeap -------------------------------
(***************************************************************************)
(* The memory manager of the virtual machine: pinta_core_alloc and         *)
(* pinta_core_gc (core.c) over one heap, the mark phase, the sweep, and    *)
(* the compactor of gc.c with its relocation table.                        *)
(*                                                                         *)
(* The virtual machine (the mutator) holds objects through Roots: slots of *)
(* the thread stacks, native frames and heap handles.  An object carries   *)
(* one reference.  Every mutator action runs with the collector idle; the  *)
(* compactor's loop is broken into its iterations, because the references  *)
(* to what it moved stay stale until the relocation table is applied.      *)
(***************************************************************************)
(* A definition named Mutant... is a plausible bug in the one it is named after: the     *)
(* properties that must notice it are checked against it.                          *)
EXTENDS Heap

CONSTANTS Roots,        \* the reference slots pinta_gc_mark starts from
          Lengths,      \* block lengths the program asks for
          PinIds,       \* identities pinta_core_pin is called for
          RelocMax      \* entries that fit in the free part of a thread stack

Lost == "lost"          \* what a reference shows that leads to no block in use

ASSUME GcHeapAssumption ==
    /\ {NoId, Lost} \cap Ids = {}
    /\ Lengths \subseteq 1 .. HeapSize
    /\ PinIds \subseteq Ids
    /\ RelocMax \in Nat \ {0}

VARIABLES heap,     \* the PintaHeap
          root,     \* [Roots -> Ref]
          pc,       \* "run", or where the collector is: "compact", "finish", "retry"
          request,  \* the allocation pinta_core_alloc is in the middle of
          comp,     \* locals of pinta_gc_compact_worker
          reloc     \* the relocation table: [start, end, offset], filled upwards

vars == <<heap, root, pc, request, comp, reloc>>

NoRequest == [len |-> 0]
Idle == [current |-> 0, alive_last |-> NULL, free_last |-> NULL]

Init ==
    /\ heap = EmptyHeap
    /\ root = [r \in Roots |-> NULL]
    /\ pc = "run"
    /\ request = NoRequest
    /\ comp = Idle
    /\ reloc = << >>

-----------------------------------------------------------------------------
(* Mark and relocate *)

InUse(h, a) == a < h.top /\ IsObject(h, a)
Objects(h) == {a \in Addr : InUse(h, a)}

\* pinta_gc_mark: the objects reachable from the roots.  (The KEEP_ALIVE objects are
\* those of the cache, which lies outside every heap and refers to nothing in one.)
Marked(h) ==
    LET reach[n \in Nat] ==
          IF n = 0 THEN {root[r] : r \in Roots} \ {NULL}
          ELSE UNION {{a, h.mem[a].ref} \ {NULL} : a \in reach[n - 1]}
    IN  reach[Cardinality(Objects(h))]

\* pinta_gc_relocate_single: where the object that was at a is now.
Relocated(a) ==
    LET hit == {i \in DOMAIN reloc : reloc[i].start <= a /\ a < reloc[i].end}
    IN  IF hit = {} THEN a ELSE a - reloc[CHOOSE i \in hit : TRUE].offset

MutantRelocatedRoots == root
RelocatedRoots == [r \in Roots |-> Relocated(root[r])]

MutantRelocatedHeap(h) == h
\* pinta_gc_relocate_heap: every reference of every object below top.
RelocatedHeap(h) ==
    [h EXCEPT !.mem = [a \in Addr |-> IF a \in Objects(h)
                                      THEN [h.mem[a] EXCEPT !.ref = Relocated(@)]
                                      ELSE h.mem[a]]]

-----------------------------------------------------------------------------
(* The mutator *)

Held(r) == root[r] # NULL
At(r) == heap.mem[root[r]]

Running == pc = "run" /\ UNCHANGED <<pc, request, comp, reloc>>

Clear(r)   == Running /\ root' = [root EXCEPT ![r] = NULL] /\ UNCHANGED heap
Copy(r, q) == Running /\ root' = [root EXCEPT ![r] = root[q]] /\ UNCHANGED heap
Load(r, q) == Running /\ Held(q) /\ root' = [root EXCEPT ![r] = At(q).ref] /\ UNCHANGED heap
Store(q, r) ==
    /\ Running /\ Held(q)
    /\ heap' = [heap EXCEPT !.mem[root[q]].ref = root[r]]
    /\ UNCHANGED root

\* pinta_core_pin and pinta_core_unpin
SetPinned(r, pinned) ==
    /\ Running /\ Held(r) /\ At(r).id \in PinIds
    /\ heap' = [heap EXCEPT !.mem[root[r]].pinned = pinned]
    /\ UNCHANGED root

-----------------------------------------------------------------------------
(* pinta_core_alloc: try the heap; collect and try again; compact and try again *)

Unused(id) == \A a \in Objects(heap) : heap.mem[a].id # id

\* The caller receives the block in r.
Deliver(h, r, len, id) ==
    /\ heap' = HeapAlloc(h, len, id)
    /\ root' = [root EXCEPT ![r] = Place(h, len)]

Swept(h) == Sweep(h, Marked(h))

AllocAtOnce(r, len, id) ==
    /\ Running /\ Unused(id)
    /\ Place(heap, len) # NULL
    /\ Deliver(heap, r, len, id)

AllocAfterSweep(r, len, id) ==
    LET swept == Swept(HeapAlloc(heap, len, id)) IN
    /\ Running /\ Unused(id)
    /\ Place(heap, len) = NULL
    /\ Place(swept, len) # NULL
    /\ Deliver(swept, r, len, id)

StartCompaction(h) ==
    /\ heap' = h
    /\ pc' = "compact"
    /\ comp' = Idle
    /\ reloc' = << >>

AllocNeedsCompaction(r, len, id) ==
    LET swept == Swept(HeapAlloc(heap, len, id)) IN
    /\ pc = "run" /\ Unused(id)
    /\ Place(heap, len) = NULL
    /\ Place(swept, len) = NULL
    /\ request' = [root |-> r, len |-> len, id |-> id]
    /\ StartCompaction(HeapAlloc(swept, len, id))
    /\ UNCHANGED root

\* After the compaction: the last attempt.
AllocAfterCompaction ==
    /\ pc = "retry"
    /\ Place(heap, request.len) # NULL
    /\ Deliver(heap, request.root, request.len, request.id)
    /\ pc' = "run" /\ request' = NoRequest
    /\ UNCHANGED <<comp, reloc>>

\* pinta_core_alloc gives up and returns NULL; the roots are as before.
AllocFails ==
    /\ pc = "retry"
    /\ Place(heap, request.len) = NULL
    /\ heap' = HeapAlloc(heap, request.len, request.id)
    /\ pc' = "run" /\ request' = NoRequest
    /\ UNCHANGED <<root, comp, reloc>>

\* pinta_core_gc called for itself, with or without compaction.
Collect == Running /\ heap' = Swept(heap) /\ UNCHANGED root
CollectAndCompact ==
    /\ pc = "run"
    /\ StartCompaction(Swept(heap))
    /\ UNCHANGED <<root, request>>

-----------------------------------------------------------------------------
(* pinta_gc_compact_worker: one action per branch of the loop *)

current == comp.current
Size(a) == heap.mem[a].len
next == current + Size(current)
MutantTableFull == Len(reloc) > RelocMax
TableFull == Len(reloc) >= RelocMax

\* An iteration begins only with room in the table.
Looping == pc = "compact" /\ current < heap.top /\ ~TableFull /\ UNCHANGED <<pc, request, root>>

MutantApplyRelocations == root' = RelocatedRoots /\ UNCHANGED reloc
\* The table is full: apply it and start it anew.
ApplyRelocations == root' = RelocatedRoots /\ reloc' = << >>

FlushRelocations ==
    /\ pc = "compact" /\ current < heap.top /\ TableFull
    /\ ApplyRelocations
    /\ heap' = RelocatedHeap(heap)
    /\ UNCHANGED <<pc, request, comp>>

MutantFreeObject == FirstFree(heap, {a \in Addr : a >= current \/ Size(a) < Size(current)})
\* pinta_gc_find_free_object: the first free block below current that is no
\* longer than it, or touches it.
FreeObject ==
    FirstFree(heap, {a \in Addr : a >= current \/ Size(a) <= Size(current) \/ After(heap, a) = current})

MutantMovable == IsObject(heap, current)
Movable == IsObject(heap, current) /\ ~heap.mem[current].pinned

MutantKeepInPlace ==
    /\ Looping
    /\ \/ IsObject(heap, current) /\ ~Movable
       \/ Movable /\ comp.free_last = NULL
       \/ Movable /\ comp.free_last # NULL /\ (FreeObject = NULL \/ FreeObject > current)
    /\ comp' = [comp EXCEPT !.current = next, !.alive_last = IF Movable THEN current ELSE @]
    /\ UNCHANGED <<heap, reloc>>

\* The iterations that leave a live block where it is and count it as the last.
KeepInPlace ==
    /\ Looping
    /\ \/ IsObject(heap, current) /\ ~Movable
       \/ Movable /\ comp.free_last = NULL
       \/ Movable /\ comp.free_last # NULL /\ (FreeObject = NULL \/ FreeObject > current)
    /\ comp' = [comp EXCEPT !.current = next, !.alive_last = current]
    /\ UNCHANGED <<heap, reloc>>

\* A free block: merged into the free block it touches, or skipped.
PassFree ==
    /\ Looping /\ IsFree(heap, current)
    /\ IF comp.free_last # NULL /\ After(heap, comp.free_last) = current
       THEN /\ heap' = FreeMerge(heap, comp.free_last)
            /\ comp' = [comp EXCEPT !.current = next]
       ELSE /\ comp' = [comp EXCEPT !.current = next, !.free_last = current]
            /\ UNCHANGED heap
    /\ UNCHANGED reloc

Target == IF comp.free_last # NULL THEN FreeObject ELSE NULL
MoveFound == Movable /\ Target # NULL /\ Target < current

\* The memmove and its entry of the table.
Moved(h, to) == [h EXCEPT !.mem = WriteBlock(@, to, heap.mem[current])]
LogMove(to) == reloc' = Append(reloc, [start |-> current, end |-> next, offset |-> current - to])

Larger(a, b) == IF a < b THEN b ELSE a

\* The free block touches current: the two change places.
Slide ==
    LET to == Target
        hole == to + Size(current)
        before == heap.mem[to].prev
    IN  /\ Looping /\ MoveFound /\ After(heap, to) = current
        /\ heap' = FreeInsertAfter(Moved(FreeRemove(heap, to), to), before, hole, Size(to))
        /\ LogMove(to)
        /\ comp' = [current |-> hole, alive_last |-> Larger(comp.alive_last, to),
                    free_last |-> Larger(comp.free_last, hole)]

\* The free block lies further down and fits: current moves into it and leaves a
\* free block behind, linked after the last free block.
Jump ==
    LET to == Target
        len == Size(current)
        rest == Size(to) - len
        before == heap.mem[to].prev
        taken == Moved(FreeRemove(heap, to), to)
        h1 == IF rest # 0 THEN FreeInsertAfter(taken, before, to + len, rest) ELSE taken
        last == CASE rest # 0 -> Larger(comp.free_last, to + len)
                  [] rest = 0 /\ comp.free_last = to -> heap.mem[comp.free_last].prev
                  [] rest = 0 /\ comp.free_last # to -> comp.free_last
        h2 == FreeInsertAfter(h1, last, current, len)
        touches == last # NULL /\ After(h1, last) = current
    IN  /\ Looping /\ MoveFound /\ After(heap, to) # current /\ Size(to) >= len
        /\ heap' = h2
        /\ LogMove(to)
        /\ comp' = [current |-> IF touches THEN current ELSE next,
                    alive_last |-> Larger(comp.alive_last, to),
                    free_last |-> IF last # NULL /\ ~touches THEN current ELSE last]

\* The free block found is too short and does not touch current: no branch of the
\* code is taken, and alive_last stays where it was.
LeaveBehind ==
    /\ Looping /\ MoveFound
    /\ After(heap, Target) # current /\ Size(Target) < Size(current)
    /\ comp' = [comp EXCEPT !.current = next]
    /\ UNCHANGED <<heap, reloc>>

MutantFixupFreeList(h) == h
\* pinta_gc_fixup_free_list: cuts the free list at the new top.
FixupFreeList(h) ==
    LET h1 == IF h.free >= h.top THEN [h EXCEPT !.free = NULL] ELSE h
        last == FirstFree(h1, {a \in Addr : h1.mem[a].next >= h1.top})
    IN  IF h.free = NULL \/ last = NULL THEN h1 ELSE SetNext(h1, last, NULL)

\* The loop is over: lower top, cut the free list, apply what is left of the table.
FinishCompaction ==
    LET top == IF comp.alive_last = NULL THEN 0 ELSE After(heap, comp.alive_last)
        h1 == FixupFreeList([heap EXCEPT !.top = top])
    IN  /\ pc = "compact" /\ current >= heap.top
        /\ heap' = IF reloc # << >> THEN RelocatedHeap(h1) ELSE h1
        /\ ApplyRelocations
        /\ pc' = IF request = NoRequest THEN "run" ELSE "retry"
        /\ comp' = Idle
        /\ UNCHANGED request

-----------------------------------------------------------------------------
Mutator ==
    \E r \in Roots :
      \/ Clear(r)
      \/ \E q \in Roots : Copy(r, q) \/ Load(r, q) \/ Store(q, r)
      \/ \E pinned \in BOOLEAN : SetPinned(r, pinned)
      \/ \E len \in Lengths, id \in Ids :
            AllocAtOnce(r, len, id) \/ AllocAfterSweep(r, len, id) \/ AllocNeedsCompaction(r, len, id)

Collector ==
    \/ FlushRelocations \/ KeepInPlace \/ PassFree \/ Slide \/ Jump \/ LeaveBehind
    \/ FinishCompaction \/ AllocAfterCompaction \/ AllocFails

Next == Mutator \/ Collect \/ CollectAndCompact \/ Collector

\* Collection is a plain loop inside the call that started it: once begun it runs on.
Spec == Init /\ [][Next]_vars /\ WF_vars(Collector)

-----------------------------------------------------------------------------
(* The object graph the mutator sees, for the refinement of ObjectGraph.  A        *)
(* reference is read through the pending entries of the table, so that the moves   *)
(* of a compaction in progress are invisible.                                      *)

IdAt(a) ==
    LET b == Relocated(a) IN
    IF a = NULL THEN NoId ELSE IF InUse(heap, b) THEN heap.mem[b].id ELSE Lost

ReachableBlocks ==
    LET inUse(A) == {a \in A : InUse(heap, a)}
        reach[n \in Nat] ==
          IF n = 0 THEN inUse({Relocated(root[r]) : r \in Roots})
          ELSE UNION {inUse({a, Relocated(heap.mem[a].ref)}) : a \in reach[n - 1]}
    IN  reach[Cardinality(Objects(heap))]

BlockOf(o) == heap.mem[CHOOSE a \in Objects(heap) : heap.mem[a].id = o]

Graph == INSTANCE ObjectGraph
           WITH root  <- [r \in Roots |-> IdAt(root[r])],
                graph <- [o \in {heap.mem[a].id : a \in ReachableBlocks} |->
                             [len |-> BlockOf(o).len, ref |-> IdAt(BlockOf(o).ref)]]

-----------------------------------------------------------------------------
(* Properties *)

\* Type invariant of the memory manager's state.
TypeOK ==
    /\ heap.mem \in [Addr -> Block]
    /\ heap.top \in 0 .. HeapSize
    /\ heap.free \in Ref
    /\ heap.largest \in 0 .. HeapSize
    /\ root \in [Roots -> Ref]
    /\ pc \in {"run", "compact", "retry"}
    /\ (request = NoRequest) \/ (request.root \in Roots /\ request.len \in Lengths)
    /\ Len(reloc) <= RelocMax
    /\ comp.current \in 0 .. HeapSize

\* Allocation, sweeping and compaction keep every object the program can reach, with
\* its identity, its length and its reference: the program cannot tell that they ran
\* (gc.c: mark, sweep, compact and relocate together).
ProgramSeesOneGraph == Graph!Spec

\* What pinta_debug_validate_heap (gc.c) asserts, whenever no sweep or compaction is
\* at work: the free list is the free blocks in address order, linked both ways, no
\* two of them adjacent, and top ends the last live block.
HeapValidWhenIdle == pc # "compact" => ValidHeap(heap)

\* Also in the middle of a compaction, at every iteration where the table may be
\* applied, the heap can be walked from start to top and its free blocks are those
\* of the list ("at this point the heap is in valid state", gc.c).
HeapWalkableAlways ==
    /\ Tiled(heap)
    /\ FreeListOrdered(heap)
    /\ FreeSet(heap) = {a \in Blocks(heap) : IsFree(heap, a)}

\* largest_free_block_length is never below the length of a block of the free list:
\* pinta_heap_alloc returns without a look at the list when the hint is too small.
HintBoundsFreeBlocks ==
    pc # "compact" => \A a \in FreeSet(heap) : Size(a) <= heap.largest

LiveSlots ==
    LET sum[n \in 0 .. HeapSize] ==
          IF n = 0 THEN 0
          ELSE sum[n - 1] + IF n - 1 \in Objects(heap) THEN Size(n - 1) ELSE 0
    IN  sum[HeapSize]

\* pinta_core_alloc gives up only when the live blocks and the new one together fill
\* the heap: fragmentation alone never makes an allocation fail.
FailsOnlyWhenFull == [][AllocFails => LiveSlots + request.len >= HeapSize]_vars

\* A pinned object the program still holds is where it was: the native code that
\* pinned it keeps a raw pointer into it.
PinnedStays ==
    [][\A a \in ReachableBlocks : heap.mem[a].pinned =>
          \A b \in ReachableBlocks' : heap'.mem[b].id = heap.mem[a].id => b = a]_vars

\* Whatever the program can reach is a block below top: no object is left where the
\* next allocation overwrites it.
NothingLost ==
    LET lost(a) == IdAt(a) = Lost
    IN  /\ \A r \in Roots : ~lost(root[r])
        /\ \A a \in ReachableBlocks : ~lost(heap.mem[a].ref)

\* "we either found a block big enough to contain current or we reached a free block
\* that is just lower the current" (gc.c:598, of pinta_gc_find_free_object).
FitsOrTouches ==
    pc = "compact" /\ current < heap.top /\ MoveFound =>
        After(heap, Target) = current \/ Size(Target) >= Size(current)

\* So it is, unless a pinned object lies below the current one.  Then the block found may
\* be neither, and current is left where it is and not counted as the last live one.
LeftOnlyAbovePinned == (\E a \in Objects(heap) : a < current /\ heap.mem[a].pinned) \/ FitsOrTouches

\* The objects above the last one the compactor counted that may be moved, with a pinned
\* object somewhere below.
LeftBehind ==
    {a \in Objects(heap) : /\ a > comp.alive_last /\ ~heap.mem[a].pinned
                          /\ \E p \in Objects(heap) : p < a /\ heap.mem[p].pinned}

\* The end of a compaction that left a movable object behind, above a pinned one, and did not
\* count it (gc.c:592-601 takes neither branch), so that the new top is below it.
Cuts == FinishCompaction /\ LeftBehind # {}

\* The program loses objects by that step only, and by every such step: the sweep left only
\* what the program can reach.
LosesByCutting == [][NothingLost => (~NothingLost' <=> Cuts)]_vars

\* And no other step of the memory manager, around pinned objects too, changes what the
\* program sees.
SeesGraphUnlessCut == Graph!Init /\ [][Cuts \/ Graph!Next]_(Graph!vars)

\* The states before a compaction first cuts off an object that it left behind.
AllCounted == pc = "compact" /\ current >= heap.top => \A a \in Objects(heap) : a <= comp.alive_last

\* A collection that started ends: the loop of the compactor, which revisits the free
\* block a slide or a jump leaves, cannot go round for ever.
CollectionEnds == (pc # "run") ~> (pc = "run")
=============================================================================
