-------------------------------- MODULE Heap --------------------------------
(***************************************************************************)
(* The managed heap of Marius.Pinta/src/heap.c: a region of HeapSize       *)
(* slots, filled by sliding heap->top, with a doubly linked list of the    *)
(* free blocks the last sweep left below top.                              *)
(*                                                                         *)
(* A heap is a record [mem, top, free, largest], the fields of PintaHeap.  *)
(* mem[a] is the block header at slot a, or Data where slot a lies inside  *)
(* a block or holds nothing.  Addresses are slot indices; NULL compares    *)
(* below every address, as the null pointer does in the C comparisons.     *)
(* The operators return the heap after the C function of the same name.    *)
(***************************************************************************)
EXTENDS Integers, Sequences, FiniteSetsExt

CONSTANTS HeapSize,     \* slots between heap->start and heap->end
          Ids           \* identities of objects: ghosts, absent from the C

ASSUME HeapSizeAssumption == HeapSize \in Nat /\ HeapSize >= 3

NULL == -1
Addr == 0 .. HeapSize - 1
Ref  == Addr \cup {NULL}

\* A block header; Data stands at every slot where no block begins.  The fields one
\* kind of block does not have keep the values they have in Data.
NoId == "none"
Block == [kind : {"data", "free", "object"}, len : 1 .. HeapSize,
          next : Ref, prev : Ref,                              \* of a free block
          id : Ids \cup {NoId}, ref : Ref, pinned : BOOLEAN]   \* of an object
Data == [kind |-> "data", len |-> 1, next |-> NULL, prev |-> NULL,
         id |-> NoId, ref |-> NULL, pinned |-> FALSE]
FreeBlock(len, next, prev) ==
    [Data EXCEPT !.kind = "free", !.len = len, !.next = next, !.prev = prev]
Object(id, len) == [Data EXCEPT !.kind = "object", !.len = len, !.id = id]

IsFree(h, a)   == a \in Addr /\ h.mem[a].kind = "free"
IsObject(h, a) == a \in Addr /\ h.mem[a].kind = "object"

\* The slot after the block at a.
After(h, a) == a + h.mem[a].len

\* The blocks below top.  They are what the walk from start to top, block by block,
\* meets as long as the heap is Tiled.
Blocks(h) == {a \in Addr : a < h.top /\ h.mem[a] # Data}

Tiled(h) ==
    /\ h.top > 0 => 0 \in Blocks(h)
    /\ \A a \in Blocks(h) : After(h, a) = h.top \/ After(h, a) \in Blocks(h)
    /\ \A a, b \in Blocks(h) : a < b => After(h, a) <= b

EmptyHeap == [mem |-> [a \in Addr |-> Data], top |-> 0, free |-> NULL, largest |-> 0]

-----------------------------------------------------------------------------
(* Writing blocks and list links *)

\* A block written at a: its header, and the slots it covers become its data.
WriteBlock(mem, a, block) ==
    [x \in Addr |-> IF x = a THEN block
                    ELSE IF a < x /\ x < a + block.len THEN Data ELSE mem[x]]

SetNext(h, a, next) ==
    IF IsFree(h, a) THEN [h EXCEPT !.mem[a].next = next] ELSE h
SetPrev(h, a, prev) ==
    IF IsFree(h, a) THEN [h EXCEPT !.mem[a].prev = prev] ELSE h

MutantFreeRemove(h, item) ==
    LET prev == h.mem[item].prev
        next == h.mem[item].next
    IN  IF prev # NULL THEN SetNext(h, prev, next) ELSE [h EXCEPT !.free = next]
\* pinta_free_remove: unlinks item; the caller reads item's prev first.
FreeRemove(h, item) ==
    LET prev == h.mem[item].prev
        next == h.mem[item].next
        h1   == IF prev # NULL THEN SetNext(h, prev, next) ELSE [h EXCEPT !.free = next]
    IN  SetPrev(h1, next, prev)

\* pinta_free_insert_after: a new free block of len slots linked after location,
\* or at the head of the list.
FreeInsertAfter(h, location, item, len) ==
    LET next == IF location = NULL THEN h.free ELSE h.mem[location].next
        h1   == SetPrev(h, next, item)
        h2   == IF location = NULL THEN [h1 EXCEPT !.free = item] ELSE SetNext(h1, location, item)
    IN  [h2 EXCEPT !.mem = WriteBlock(@, item, FreeBlock(len, next, location))]

\* pinta_free_merge: absorbs the block after a when that block is free.
FreeMerge(h, a) ==
    LET next == After(h, a) IN
    IF next >= h.top \/ ~IsFree(h, next) THEN h
    ELSE LET len == h.mem[a].len + h.mem[next].len
             h1  == [FreeRemove(h, next) EXCEPT !.mem[a].len = len, !.mem[next] = Data]
         IN  [h1 EXCEPT !.largest = IF len > @ THEN len ELSE @]

\* The k-th block of the free list, counted from 0.
FreeAt(h, k) ==
    LET after == [a \in Ref |-> IF IsFree(h, a) THEN h.mem[a].next ELSE NULL]
        at[n \in Nat] == IF n = 0 THEN h.free ELSE after[at[n - 1]]
    IN  at[k]

FreeSet(h) == {FreeAt(h, k) : k \in 0 .. HeapSize} \ {NULL}

\* The first block of the free list that is one of fits, NULL if none is.
FirstFree(h, fits) ==
    LET list == [k \in 0 .. HeapSize |-> FreeAt(h, k)]
        hits == {k \in 0 .. HeapSize : list[k] \in fits}
    IN  IF hits = {} THEN NULL ELSE list[Min(hits)]

-----------------------------------------------------------------------------
(* pinta_heap_alloc *)

MutantCanSlide(h, len) == h.top + len < HeapSize - 1
\* The fast path: slide top, if the block ends strictly before heap->end.
CanSlide(h, len) == h.top + len < HeapSize

\* The free block the slow path takes: the first that is long enough, tried only
\* when the hint says that one may exist.
FitFor(h, len) ==
    IF h.free = NULL \/ h.largest < len THEN NULL
    ELSE FirstFree(h, {a \in Addr : h.mem[a].len >= len})

\* Where the block goes, NULL when the heap has no room for it.
Place(h, len) == IF CanSlide(h, len) THEN h.top ELSE FitFor(h, len)

MaxLen(h) ==
    LET lens == {0} \cup {h.mem[a].len : a \in FreeSet(h)}
    IN  CHOOSE m \in lens : \A n \in lens : n <= m

\* The heap after the call, found room or not: a fruitless walk of the free list
\* corrects the hint, a block longer than asked for is split.
HeapAlloc(h, len, id) ==
    LET at == Place(h, len)
        rest == h.mem[at].len - len
        before == h.mem[at].prev
        cut == IF rest # 0 THEN FreeInsertAfter(FreeRemove(h, at), before, at + len, rest)
                           ELSE FreeRemove(h, at)
    IN  CASE CanSlide(h, len) ->
               [h EXCEPT !.mem = WriteBlock(@, h.top, Object(id, len)), !.top = @ + len]
          [] ~CanSlide(h, len) /\ at # NULL ->
               [cut EXCEPT !.mem = WriteBlock(@, at, Object(id, len))]
          [] at = NULL ->
               IF h.free = NULL \/ h.largest < len THEN h ELSE [h EXCEPT !.largest = MaxLen(h)]

-----------------------------------------------------------------------------
(* pinta_gc_sweep *)

\* The state of the loop: the heap, the slot reached, the last free and the last live
\* block met, and the free block last met before that live one.
SweepStart(h) ==
    [heap |-> [h EXCEPT !.largest = 0], current |-> 0,
     last_free |-> NULL, before_free |-> NULL, alive_last |-> NULL]

SweepKeep(s) == [s EXCEPT !.alive_last = s.current, !.before_free = s.last_free]

\* The first free block of the heap heads the new list.
SweepHead(s, len) ==
    LET h == [s.heap EXCEPT !.mem[s.current] = FreeBlock(len, NULL, NULL),
                            !.free = s.current, !.largest = len]
    IN  [s EXCEPT !.heap = h, !.last_free = s.current]

MutantSweepMerge(s, len) ==
    [s EXCEPT !.heap.mem[s.last_free].len = @ + len, !.heap.mem[s.current] = Data]
\* A free block that touches the last one extends it.
SweepMerge(s, len) ==
    LET merged == s.heap.mem[s.last_free].len + len
        h == [s.heap EXCEPT !.mem[s.last_free].len = merged, !.mem[s.current] = Data,
                            !.largest = IF merged > @ THEN merged ELSE @]
    IN  [s EXCEPT !.heap = h]

\* Any other free block is linked after the last one.
SweepLink(s, len) ==
    LET h == [s.heap EXCEPT !.mem[s.current] = FreeBlock(len, NULL, s.last_free),
                            !.mem[s.last_free].next = s.current,
                            !.largest = IF len > @ THEN len ELSE @]
    IN  [s EXCEPT !.heap = h, !.last_free = s.current]

SweepBlock(s, live) ==
    LET len == s.heap.mem[s.current].len
        touches == s.last_free # NULL /\ After(s.heap, s.last_free) = s.current
        done == CASE s.current \in live -> SweepKeep(s)
                  [] s.current \notin live /\ s.last_free = NULL -> SweepHead(s, len)
                  [] s.current \notin live /\ touches -> SweepMerge(s, len)
                  [] s.current \notin live /\ s.last_free # NULL /\ ~touches -> SweepLink(s, len)
    IN  [done EXCEPT !.current = @ + len]

\* The whole sweep: rebuilds the free list, then drops the free tail above the last
\* live block by lowering top.  live holds the blocks flagged ALIVE.
Sweep(h, live) ==
    LET at[n \in Nat] == IF n = 0 THEN SweepStart(h)
                         ELSE LET p == at[n - 1] IN
                              IF p.current < h.top THEN SweepBlock(p, live) ELSE p
        s == at[HeapSize]
        top == IF s.alive_last = NULL THEN 0 ELSE After(s.heap, s.alive_last)
        h1 == [s.heap EXCEPT !.top = top, !.free = IF @ >= top THEN NULL ELSE @]
    IN  IF h1.free # NULL /\ s.before_free # NULL THEN SetNext(h1, s.before_free, NULL) ELSE h1

-----------------------------------------------------------------------------
(* What pinta_debug_validate_heap asserts of a heap no operation is working on *)

FreeListOrdered(h) ==
    \A a \in Blocks(h) : IsFree(h, a) =>
        LET below == {x \in Blocks(h) : x < a /\ IsFree(h, x)}
        IN  /\ h.mem[a].prev = IF below = {} THEN NULL
                               ELSE CHOOSE x \in below : \A y \in below : y <= x
            /\ h.mem[a].next \in {x \in Addr : x > a /\ x < h.top} \cup {NULL}
            /\ h.mem[a].next # NULL => IsFree(h, h.mem[a].next) /\ h.mem[h.mem[a].next].prev = a
            /\ h.mem[a].prev # NULL => h.mem[h.mem[a].prev].next = a

NoAdjacentFree(h) ==
    \A a \in Blocks(h) : IsFree(h, a) => ~(After(h, a) < h.top /\ IsFree(h, After(h, a)))

TopEndsLastObject(h) ==
    LET objects == {a \in Blocks(h) : IsObject(h, a)}
    IN  objects # {} => \E a \in objects : After(h, a) = h.top

ValidHeap(h) ==
    /\ FreeListOrdered(h)
    /\ NoAdjacentFree(h)
    /\ TopEndsLastObject(h)
    /\ FreeSet(h) = {a \in Blocks(h) : IsFree(h, a)}
=============================================================================
